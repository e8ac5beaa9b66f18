-------------------------- MODULE StorageDataProofs --------------------------
(* What the stores of a storage account promise their clients: leases, etags *)
(* and everything confirmed, for any number of clients, queues and tables.    *)
EXTENDS StorageData, BucketsProofs

\* The messages of a queue that may be absent.
Box(q) == IF Open(q) THEN queues[q] ELSE <<>>

\* Every UUID in use was drawn.
Drawn ==
  /\ confirmed \subseteq 1..stamp
  /\ \A v \in versions : v.etag <= stamp
IdsDrawn ==
  /\ \A q \in Queues : \A i \in DOMAIN Box(q) :
       Box(q)[i].id \in 1..stamp /\ Box(q)[i].pop_receipt <= stamp
  /\ \A g \in granted : g.id \in 1..stamp /\ g.receipt \in 1..stamp

\* No two messages have one id, and no two leases one receipt.
IdsUnique ==
  \A p, q \in Queues : \A i \in DOMAIN Box(p), j \in DOMAIN Box(q) :
    Box(p)[i].id = Box(q)[j].id => p = q /\ i = j
ReceiptsUnique ==
  /\ IsFiniteSet(granted)
  /\ \A g, h \in granted : g.receipt = h.receipt => g = h

\* What the leases G and the restore after UUID b say of message m: it counts those
\* it was got under, its receipt is the newest and not older than the restore, and it
\* is hidden for as long as its newest lease lasts.
GotOf(G, m) == {g \in {h \in G : h.id = m.id} : g.got}
Newest(G, g) == \A h \in G : h.id = g.id => h.receipt <= g.receipt
AgreedOn(G, b, m) ==
  /\ m.dequeue_count = Cardinality(GotOf(G, m))
  /\ m.pop_receipt # None =>
       /\ m.pop_receipt > b
       /\ \E g \in G : g.id = m.id /\ g.receipt = m.pop_receipt
       /\ \A g \in G : g.id = m.id => g.receipt <= m.pop_receipt
  /\ \A g \in G : g.id = m.id /\ Newest(G, g) => g.until = m.hidden
Agreed == \A q \in Queues : \A i \in DOMAIN Box(q) : AgreedOn(granted, birth, Box(q)[i])

\* Nobody counts on a message whose time to live is over.
ExpiredGone ==
  \A q \in Queues : \A i \in DOMAIN Box(q) :
    Box(q)[i].expires = 0 => Box(q)[i].id \notin confirmed

\* A conditional delete that has compared finds the version it names or a later one.
Compared ==
  \A c \in Clients : request[c].op = "delete_entity" =>
    LET r == request[c]
    IN /\ r.since <= stamp
       /\ At(r.table, r.key) => \/ tables[r.table][r.key].etag = r.if_match
                                \/ tables[r.table][r.key].etag > r.since

\* A table cannot go while an operation on its entities is under way.
GuardsHold ==
  \A c \in Clients : request[c].op \in EntityOps => Has(request[c].table)

\* What is stored where the creation r is about to insert came after it had looked.
Creations == {"create_queue", "create_table", "insert_entity", "create_container"}
Stands(r, x) ==
  \/ r.op = "create_queue" /\ x \in Ids(r.name)
  \/ r.op = "create_table" /\ x \in Etags(r.table)
  \/ r.op = "insert_entity" /\ x \in EtagAt(r.table, r.key)
  \/ r.op = "create_container" /\ x \in BlobEtags(r.name)
Unseen ==
  \A c \in Clients : request[c].op \in Creations =>
    /\ request[c].since <= stamp
    /\ \A x : Stands(request[c], x) => x > request[c].since

\* Nothing is added to a store but with the next UUID, and a creation begins where there
\* is nothing.
QueueArrivals == \A q \in Queues : \A x \in Ids(q)' : x \in Ids(q) \/ x = stamp + 1
TableArrivals ==
  \A t \in Tables, k \in Keys : \A x \in EtagAt(t, k)' : x \in EtagAt(t, k) \/ x = stamp + 1
BlobArrivals ==
  \A n \in Containers : \A x \in BlobEtags(n)' : x \in BlobEtags(n) \/ x = stamp + 1
NewLooks ==
  \A c \in Clients :
    \/ request'[c] = request[c]
    \/ request'[c].op \notin Creations
    \/ request'[c].since = stamp /\ \A x : ~Stands(request'[c], x)

\* Whatever clients were told of is still where it was, or is stored by this step.
QueueKeeps ==
  /\ \A x \in confirmed' : x \in confirmed \/ \E q \in Queues : x \in Ids(q)'
  /\ \A q \in Queues : \A x \in Ids(q) \cap confirmed' : \E p \in Queues : x \in Ids(p)'

TableKeeps ==
  /\ \A x \in confirmed' : x \in confirmed \/ \E t \in Tables : x \in Etags(t)'
  /\ \A t \in Tables : \A x \in Etags(t) \cap confirmed' : \E u \in Tables : x \in Etags(u)'
BlobKeeps ==
  /\ \A x \in confirmed' : x \in confirmed \/ \E n \in Containers : x \in BlobEtags(n)'
  /\ \A n \in Containers : \A x \in BlobEtags(n) \cap confirmed' :
       \E o \in Containers : x \in BlobEtags(o)'

\* What LeaseHonoured says of one step.
Honoured ==
  \A g \in granted' : g.got /\ g.receipt > stamp =>
    \A last \in granted :
      /\ last.id = g.id
      /\ \A o \in granted : o.id = g.id => o.receipt <= last.receipt
      => last.until = 0

QueueInv == IdsDrawn /\ IdsUnique /\ ReceiptsUnique /\ Agreed

\* The inductive invariant.
Inv ==
  /\ TypeOK /\ Drawn /\ QueueInv
  /\ EtagNamesContent /\ Compared /\ GuardsHold /\ ExpiredGone /\ Unseen /\ AcceptedKept

-----------------------------------------------------------------------------
\* A message that keeps its count, its time hidden and its receipt, or loses it.
LEMMA AgreedSame ==
  ASSUME NEW G, NEW b, NEW d, NEW m, NEW n, AgreedOn(G, b, m),
         n.id = m.id, n.dequeue_count = m.dequeue_count, n.hidden = m.hidden,
         n.pop_receipt = None \/ (n.pop_receipt = m.pop_receipt /\ d = b)
  PROVE  AgreedOn(G, d, n)
  BY DEF AgreedOn, GotOf

\* A message nobody was given a lease of.
LEMMA AgreedFresh ==
  ASSUME NEW G, NEW b, NEW m, m.dequeue_count = 0, m.pop_receipt = None,
         \A g \in G : g.id # m.id
  PROVE  AgreedOn(G, b, m)
  <1>1. GotOf(G, m) = {}
    BY DEF GotOf
  <1> QED BY <1>1, FS_EmptySet DEF AgreedOn

\* Leases of other messages.
LEMMA AgreedOthers ==
  ASSUME NEW G, NEW b, NEW m, NEW N, AgreedOn(G, b, m), \A g \in N : g.id # m.id
  PROVE  AgreedOn(G \cup N, b, m)
  <1>1. GotOf(G \cup N, m) = GotOf(G, m)
    BY DEF GotOf
  <1>2. \A g \in G \cup N : g.id = m.id => g \in G
    OBVIOUS
  <1>3. \A g \in G : g.id = m.id /\ Newest(G \cup N, g) => Newest(G, g)
    BY DEF Newest
  <1> QED BY <1>1, <1>2, <1>3 DEF AgreedOn

\* One new lease l, the newest, of the message m that becomes n.
LEMMA AgreedLeased ==
  ASSUME NEW G \in SUBSET Lease, IsFiniteSet(G), NEW b \in Nat,
         NEW m \in Message, NEW n \in Message, NEW l \in Lease,
         NEW N \in SUBSET Lease, l \in N, \A g \in N : g.id = m.id => g = l,
         AgreedOn(G, b, m), n.id = m.id, l.id = m.id,
         l.receipt = n.pop_receipt, l.until = n.hidden, n.pop_receipt > b,
         \A g \in G : g.receipt < l.receipt,
         n.dequeue_count = m.dequeue_count + IF l.got THEN 1 ELSE 0
  PROVE  AgreedOn(G \cup N, b, n)
  <1>1. l \notin G
    BY DEF Lease
  <1>2. IsFiniteSet(GotOf(G, m))
    <2>1. GotOf(G, m) \in SUBSET G
      BY DEF GotOf
    <2> QED BY <2>1, FS_Subset
  <1>3. n.dequeue_count = Cardinality(GotOf(G \cup N, n))
    <2>1. CASE l.got
      <3>1. GotOf(G \cup N, n) = GotOf(G, m) \cup {l}
        BY <2>1 DEF GotOf
      <3>2. Cardinality(GotOf(G, m) \cup {l}) = Cardinality(GotOf(G, m)) + 1
        BY <1>1, <1>2, FS_AddElement DEF GotOf
      <3> QED BY <2>1, <3>1, <3>2 DEF AgreedOn
    <2>2. CASE ~l.got
      <3>1. GotOf(G \cup N, n) = GotOf(G, m)
        BY <2>2 DEF GotOf
      <3>2. n.dequeue_count = m.dequeue_count
        BY <2>2 DEF Message
      <3> QED BY <3>1, <3>2 DEF AgreedOn
    <2> QED BY <2>1, <2>2
  <1>4. \A g \in G \cup N : g.id = n.id => g.receipt <= n.pop_receipt
    BY DEF Lease
  <1>5. \A g \in G \cup N : g.id = n.id /\ Newest(G \cup N, g) => g = l
    BY DEF Lease, Newest
  <1> QED BY <1>3, <1>4, <1>5 DEF AgreedOn

\* The time left of a lease when the clock has advanced.
Later(g) == [g EXCEPT !.until = Sooner(@)]

\* The clock advances for leases and messages alike.
LEMMA AgreedElapsed ==
  ASSUME NEW G \in SUBSET Lease, IsFiniteSet(G), NEW b, NEW m \in Message, NEW n,
         \A g, h \in G : g.receipt = h.receipt => g = h,
         AgreedOn(G, b, m), n.id = m.id, n.dequeue_count = m.dequeue_count,
         n.pop_receipt = m.pop_receipt, n.hidden = Sooner(m.hidden)
  PROVE  AgreedOn({Later(g) : g \in G}, b, n)
  <1> DEFINE H == {Later(g) : g \in G}
             f == [g \in GotOf(G, m) |-> Later(g)]
  <1>1. \A g \in G : /\ Later(g).id = g.id /\ Later(g).receipt = g.receipt
                     /\ Later(g).got = g.got /\ Later(g).until = Sooner(g.until)
    BY DEF Later, Lease
  <1>2. IsFiniteSet(GotOf(G, m))
    <2>1. GotOf(G, m) \in SUBSET G
      BY DEF GotOf
    <2> QED BY <2>1, FS_Subset
  <1>3. f \in Bijection(GotOf(G, m), GotOf(H, n))
    <2>1. \A g \in GotOf(G, m) : f[g] \in GotOf(H, n)
      BY <1>1 DEF GotOf
    <2>2. \A g, h \in GotOf(G, m) : f[g] = f[h] => g = h
      BY <1>1 DEF GotOf
    <2>3. \A l \in GotOf(H, n) : \E g \in GotOf(G, m) : f[g] = l
      BY <1>1 DEF GotOf
    <2> QED BY <2>1, <2>2, <2>3 DEF Bijection, Injection, Surjection, IsInjective
  <1>4. Cardinality(GotOf(H, n)) = Cardinality(GotOf(G, m))
    <2>1. ExistsBijection(GotOf(G, m), GotOf(H, n))
      BY <1>3 DEF ExistsBijection
    <2> QED BY <1>2, <2>1, FS_Bijection
  <1>5. \A g \in G : Newest(H, Later(g)) => Newest(G, g)
    <2> SUFFICES ASSUME NEW g \in G, Newest(H, Later(g)), NEW h \in G, h.id = g.id
                 PROVE  h.receipt <= g.receipt
      BY DEF Newest
    <2>1. Later(h) \in H /\ Later(h).id = Later(g).id
      BY <1>1
    <2> QED BY <1>1, <2>1 DEF Newest
  <1>6. n.pop_receipt # None =>
       /\ n.pop_receipt > b
       /\ \E g \in H : g.id = n.id /\ g.receipt = n.pop_receipt
       /\ \A g \in H : g.id = n.id => g.receipt <= n.pop_receipt
    BY <1>1 DEF AgreedOn
  <1>7. \A g \in H : g.id = n.id /\ Newest(H, g) => g.until = n.hidden
    BY <1>1, <1>5 DEF AgreedOn
  <1> QED BY <1>4, <1>6, <1>7 DEF AgreedOn

-----------------------------------------------------------------------------
\* What the messages of a queue are.
LEMMA BoxType ==
  ASSUME TypeOK, NEW q \in Queues
  PROVE  /\ Box(q) \in Seq(Message) /\ Len(Box(q)) \in Nat
         /\ DOMAIN Box(q) = 1..Len(Box(q))
         /\ \A i \in DOMAIN Box(q) : Box(q)[i] \in Message
         /\ Open(q) => queues[q] = Box(q)
         /\ ~Open(q) => queues[q] = Absent
  <1>1. Box(q) \in Seq(Message)
    BY DEF TypeOK, QueueTypeOK, Box, Open
  <1>2. Open(q) => queues[q] = Box(q)
    BY DEF Box
  <1>3. ~Open(q) => queues[q] = Absent
    BY DEF Open
  <1> QED BY <1>1, <1>2, <1>3

\* A step that gives queue q the messages s.
LEMMA BoxSet ==
  ASSUME TypeOK, NEW q \in Queues, NEW s \in Seq(Message),
         queues' = [queues EXCEPT ![q] = s]
  PROVE  /\ queues' \in [Queues -> Seq(Message) \cup {Absent}]
         /\ Box(q)' = s
         /\ \A p \in Queues \ {q} : Box(p)' = Box(p)
  <1>1. queues \in [Queues -> Seq(Message) \cup {Absent}]
    BY DEF TypeOK, QueueTypeOK
  <1>2. s # Absent
    BY QueueAssumption
  <1> QED BY <1>1, <1>2 DEF Box, Open

\* A step that deletes queue q.
LEMMA BoxGone ==
  ASSUME TypeOK, NEW q \in Queues, queues' = [queues EXCEPT ![q] = Absent]
  PROVE  /\ queues' \in [Queues -> Seq(Message) \cup {Absent}]
         /\ Box(q)' = <<>>
         /\ \A p \in Queues \ {q} : Box(p)' = Box(p)
  BY DEF TypeOK, QueueTypeOK, Box, Open

\* The ids of the messages of a queue.
LEMMA BoxIds ==
  ASSUME NEW q \in Queues
  PROVE  Ids(q) = {Box(q)[i].id : i \in DOMAIN Box(q)}
  BY DEF Ids, Box

\* A queue whose messages keep their ids.
LEMMA IdsKept ==
  ASSUME NEW q \in Queues, DOMAIN Box(q)' = DOMAIN Box(q),
         \A i \in DOMAIN Box(q) : Box(q)'[i].id = Box(q)[i].id
  PROVE  Ids(q)' = Ids(q)
  <1>1. Ids(q) = {Box(q)[i].id : i \in DOMAIN Box(q)}
    BY BoxIds
  <1>2. Ids(q)' = {Box(q)'[i].id : i \in DOMAIN Box(q)'}
    BY DEF Ids, Box
  <1>3. Ids(q)' \subseteq Ids(q)
    BY <1>1, <1>2
  <1>4. Ids(q) \subseteq Ids(q)'
    BY <1>1, <1>2
  <1> QED BY <1>3, <1>4

\* Ids stay unique where every message has one of its own that it comes from.
LEMMA UniqueFrom ==
  ASSUME IdsUnique, NEW src,
         \A q \in Queues : \A i \in DOMAIN Box(q)' :
           src[q][i] \in DOMAIN Box(q) /\ Box(q)'[i].id = Box(q)[src[q][i]].id,
         \A q \in Queues : \A i, j \in DOMAIN Box(q)' : src[q][i] = src[q][j] => i = j
  PROVE  IdsUnique'
  <1> SUFFICES ASSUME NEW p \in Queues, NEW q \in Queues,
                      NEW i \in DOMAIN Box(p)', NEW j \in DOMAIN Box(q)',
                      Box(p)'[i].id = Box(q)'[j].id
               PROVE  p = q /\ i = j
    BY DEF IdsUnique
  <1>1. p = q /\ src[p][i] = src[q][j]
    BY DEF IdsUnique
  <1> QED BY <1>1

\* No queue changes, and UUIDs may be drawn.
LEMMA QueueStill ==
  ASSUME TypeOK, QueueInv, UNCHANGED queueVars, stamp' \in Nat, stamp <= stamp'
  PROVE  QueueInv'
  <1>0. \A q \in Queues : Box(q)' = Box(q)
    BY DEF queueVars, Box, Open
  <1>1. stamp \in Nat /\ granted \subseteq Lease
        /\ \A q \in Queues : \A i \in DOMAIN Box(q) : Box(q)[i] \in Message
    BY BoxType, StorageAssumption DEF TypeOK, QueueTypeOK
  <1>2. IdsDrawn'
    BY <1>0, <1>1 DEF QueueInv, IdsDrawn, queueVars, Message, Lease
  <1>3. IdsUnique' /\ ReceiptsUnique' /\ Agreed'
    BY <1>0 DEF QueueInv, IdsUnique, ReceiptsUnique, Agreed, queueVars
  <1> QED BY <1>2, <1>3 DEF QueueInv

\* Queue q has no messages any more.
LEMMA QueueEmptied ==
  ASSUME TypeOK, QueueInv, UNCHANGED <<stamp, granted, birth>>, NEW q \in Queues,
         Box(q)' = <<>>, \A p \in Queues \ {q} : Box(p)' = Box(p)
  PROVE  QueueInv'
  <1>1. IdsDrawn'
    BY DEF QueueInv, IdsDrawn
  <1>2. IdsUnique'
    BY DEF QueueInv, IdsUnique
  <1>3. ReceiptsUnique'
    BY DEF QueueInv, ReceiptsUnique
  <1>4. Agreed'
    BY DEF QueueInv, Agreed
  <1> QED BY <1>1, <1>2, <1>3, <1>4 DEF QueueInv

\* The store is read back.
LEMMA QueueRestored ==
  ASSUME TypeOK, QueueInv, QueueRestore, UNCHANGED stamp
  PROVE  /\ QueueTypeOK' /\ QueueInv'
         /\ \A q \in Queues :
              /\ DOMAIN Box(q)' = DOMAIN Box(q)
              /\ \A i \in DOMAIN Box(q) : /\ Box(q)'[i].id = Box(q)[i].id
                                          /\ Box(q)'[i].expires = Box(q)[i].expires
  <1> DEFINE cleared(m) == [m EXCEPT !.pop_receipt = None]
             new(q) == [i \in DOMAIN Box(q) |-> Restored(Dumped(Box(q)[i]))]
  <1>1. ASSUME NEW m \in Message
        PROVE  /\ Restored(Dumped(m)) = cleared(m) /\ cleared(m) \in Message
               /\ cleared(m).id = m.id /\ cleared(m).pop_receipt = 0
               /\ cleared(m).expires = m.expires /\ cleared(m).hidden = m.hidden
               /\ cleared(m).dequeue_count = m.dequeue_count
    BY DEF Restored, Dumped, Message, None
  <1> HIDE DEF cleared
  <1>2. ASSUME NEW q \in Queues PROVE new(q) \in Seq(Message) /\ DOMAIN new(q) = DOMAIN Box(q)
    BY <1>1, BoxType
  <1>3. queues' = [q \in Queues |-> IF Open(q) THEN new(q) ELSE Absent]
    <2>1. \A q \in Queues : Open(q) => queues[q] = Box(q)
      BY BoxType
    <2> QED BY <2>1 DEF QueueRestore
  <1> HIDE DEF new
  <1>4. queues' \in [Queues -> Seq(Message) \cup {Absent}]
    BY <1>2, <1>3
  <1>5. ASSUME NEW q \in Queues PROVE Box(q)' = new(q)
    <2>1. CASE Open(q)
      <3>1. queues'[q] = new(q) /\ new(q) # Absent
        BY <1>2, <1>3, <2>1, QueueAssumption
      <3> QED BY <3>1 DEF Box, Open
    <2>2. CASE ~Open(q)
      <3>1. queues'[q] = Absent /\ Box(q) = <<>>
        BY <1>3, <2>2 DEF Box
      <3> QED BY <3>1 DEF Box, Open, new
    <2> QED BY <2>1, <2>2
  <1>6. ASSUME NEW q \in Queues
        PROVE  /\ DOMAIN Box(q)' = DOMAIN Box(q)
               /\ \A i \in DOMAIN Box(q) :
                    /\ Box(q)'[i] = cleared(Box(q)[i])
                    /\ Box(q)[i] \in Message /\ Box(q)'[i] \in Message
    <2>1. \A i \in DOMAIN Box(q) : Box(q)[i] \in Message
      BY BoxType
    <2> QED BY <1>1, <1>2, <1>5, <2>1 DEF new
  <1>7. QueueTypeOK'
    BY <1>4, StorageAssumption DEF TypeOK, QueueTypeOK, QueueRestore
  <1>8. stamp \in Nat /\ granted \subseteq Lease
    BY StorageAssumption DEF TypeOK, QueueTypeOK
  <1>14. \A q \in Queues : \A i \in DOMAIN Box(q) :
           Box(q)'[i].id = Box(q)[i].id /\ Box(q)'[i].pop_receipt = 0
    BY <1>1, <1>6
  <1>9. IdsDrawn'
    BY <1>6, <1>8, <1>14 DEF QueueInv, IdsDrawn, QueueRestore
  <1>10. IdsUnique'
    BY <1>6, <1>14 DEF QueueInv, IdsUnique
  <1>11. ReceiptsUnique'
    BY DEF QueueInv, ReceiptsUnique, QueueRestore
  <1>12. Agreed'
    <2> SUFFICES ASSUME NEW q \in Queues, NEW i \in DOMAIN Box(q)'
                 PROVE  AgreedOn(granted', birth', Box(q)'[i])
      BY DEF Agreed
    <2>1. i \in DOMAIN Box(q) /\ AgreedOn(granted, birth, Box(q)[i]) /\ Box(q)[i] \in Message
      BY <1>6 DEF QueueInv, Agreed
    <2>2. AgreedOn(granted, birth', cleared(Box(q)[i]))
      BY <1>1, <2>1, AgreedSame DEF None
    <2> QED BY <1>6, <2>1, <2>2 DEF QueueRestore
  <1>13. \A q \in Queues : \A i \in DOMAIN Box(q) :
           Box(q)'[i].id = Box(q)[i].id /\ Box(q)'[i].expires = Box(q)[i].expires
    BY <1>1, <1>6
  <1> QED BY <1>6, <1>7, <1>9, <1>10, <1>11, <1>12, <1>13 DEF QueueInv

\* The clock advances.
LEMMA QueueElapsed ==
  ASSUME TypeOK, QueueInv, Elapse
  PROVE  /\ QueueTypeOK' /\ QueueInv'
         /\ \A q \in Queues :
              /\ DOMAIN Box(q)' = DOMAIN Box(q)
              /\ \A i \in DOMAIN Box(q) :
                   /\ Box(q)'[i].id = Box(q)[i].id
                   /\ Box(q)'[i].expires = Sooner(Box(q)[i].expires)
  <1> DEFINE newer(m) == [m EXCEPT !.expires = Sooner(@), !.hidden = Sooner(@)]
             new(q) == [i \in DOMAIN Box(q) |-> newer(Box(q)[i])]
  <1>1. ASSUME NEW m \in Message
        PROVE  /\ newer(m) \in Message /\ newer(m).id = m.id
               /\ newer(m).expires = Sooner(m.expires)
               /\ newer(m).hidden = Sooner(m.hidden)
               /\ newer(m).dequeue_count = m.dequeue_count
               /\ newer(m).pop_receipt = m.pop_receipt
    <2>1. Sooner(m.expires) \in Timer
      BY DEF Message, Sooner, Timer, Forever
    <2>2. Sooner(m.hidden) \in Nat
      BY DEF Message, Sooner
    <2> QED BY <2>1, <2>2 DEF Message
  <1> HIDE DEF newer
  <1>2. ASSUME NEW q \in Queues
        PROVE  new(q) \in Seq(Message) /\ DOMAIN new(q) = DOMAIN Box(q)
    BY <1>1, BoxType
  <1>3. queues' = [q \in Queues |-> IF Open(q) THEN new(q) ELSE Absent]
    <2>1. \A q \in Queues : Open(q) => queues[q] = Box(q)
      BY BoxType
    <2> QED BY <2>1 DEF Elapse, newer
  <1> HIDE DEF new
  <1>4. queues' \in [Queues -> Seq(Message) \cup {Absent}]
    BY <1>2, <1>3
  <1>5. ASSUME NEW q \in Queues PROVE Box(q)' = new(q)
    <2>1. CASE Open(q)
      <3>1. queues'[q] = new(q) /\ new(q) # Absent
        BY <1>2, <1>3, <2>1, QueueAssumption
      <3> QED BY <3>1 DEF Box, Open
    <2>2. CASE ~Open(q)
      <3>1. queues'[q] = Absent /\ Box(q) = <<>>
        BY <1>3, <2>2 DEF Box
      <3> QED BY <3>1 DEF Box, Open, new
    <2> QED BY <2>1, <2>2
  <1>6. ASSUME NEW q \in Queues
        PROVE  /\ DOMAIN Box(q)' = DOMAIN Box(q)
               /\ \A i \in DOMAIN Box(q) :
                    /\ Box(q)'[i] = newer(Box(q)[i])
                    /\ Box(q)[i] \in Message /\ Box(q)'[i] \in Message
    <2>1. \A i \in DOMAIN Box(q) : Box(q)[i] \in Message
      BY BoxType
    <2> QED BY <1>1, <1>2, <1>5, <2>1 DEF new
  <1>7. granted' = {Later(g) : g \in granted} /\ stamp' = stamp /\ birth' = birth
    BY DEF Elapse, Later
  <1>8. \A g \in granted : /\ g \in Lease /\ Later(g) \in Lease
                           /\ Later(g).id = g.id /\ Later(g).receipt = g.receipt
    BY DEF TypeOK, QueueTypeOK, Later, Lease, Sooner
  <1>9. QueueTypeOK'
    BY <1>4, <1>7, <1>8 DEF TypeOK, QueueTypeOK
  <1>10. IdsDrawn'
    BY <1>1, <1>6, <1>7, <1>8 DEF QueueInv, IdsDrawn
  <1>11. IdsUnique'
    BY <1>1, <1>6 DEF QueueInv, IdsUnique
  <1>12. ReceiptsUnique'
    <2>1. IsFiniteSet(granted')
      <3> DEFINE f == [g \in granted |-> Later(g)]
      <3>1. f \in Surjection(granted, granted')
        BY <1>7 DEF Surjection
      <3> QED BY <3>1, FS_Surjection DEF QueueInv, ReceiptsUnique
    <2>2. \A g, h \in granted' : g.receipt = h.receipt => g = h
      BY <1>7, <1>8 DEF QueueInv, ReceiptsUnique
    <2> QED BY <2>1, <2>2 DEF ReceiptsUnique
  <1>13. Agreed'
    <2> SUFFICES ASSUME NEW q \in Queues, NEW i \in DOMAIN Box(q)'
                 PROVE  AgreedOn(granted', birth', Box(q)'[i])
      BY DEF Agreed
    <2>1. i \in DOMAIN Box(q) /\ AgreedOn(granted, birth, Box(q)[i]) /\ Box(q)[i] \in Message
      BY <1>6 DEF QueueInv, Agreed
    <2>2. /\ granted \in SUBSET Lease /\ IsFiniteSet(granted)
          /\ \A g, h \in granted : g.receipt = h.receipt => g = h
      BY <1>8 DEF QueueInv, ReceiptsUnique
    <2>3. AgreedOn({Later(g) : g \in granted}, birth, newer(Box(q)[i]))
      BY <1>1, <2>1, <2>2, AgreedElapsed
    <2> QED BY <1>6, <1>7, <2>1, <2>3
  <1>14. \A q \in Queues : \A i \in DOMAIN Box(q) :
           /\ Box(q)'[i].id = Box(q)[i].id
           /\ Box(q)'[i].expires = Sooner(Box(q)[i].expires)
    BY <1>1, <1>6
  <1> QED BY <1>6, <1>9, <1>10, <1>11, <1>12, <1>13, <1>14 DEF QueueInv

\* A message is put.
LEMMA QueuePosted ==
  ASSUME TypeOK, QueueInv, NEW q \in Queues, NEW vt \in Timeouts, NEW ttl \in TTLs,
         MessagesPost(q, vt, ttl)
  PROVE  /\ QueueTypeOK' /\ QueueInv'
         /\ Box(q)' = Append(Box(q), NewMessage(vt, ttl))
         /\ \A p \in Queues \ {q} : Box(p)' = Box(p)
         /\ NewMessage(vt, ttl) \in Message
  <1> DEFINE m == NewMessage(vt, ttl)
  <1>1. stamp \in Nat /\ stamp' = stamp + 1 /\ stamp' <= MaxStamp
    BY StorageAssumption DEF TypeOK, MessagesPost, Draw
  <1>2. /\ m \in Message /\ m.id = stamp + 1 /\ m.pop_receipt = None
        /\ m.dequeue_count = 0
    BY <1>1, QueueAssumption DEF NewMessage, Message, Timer, Forever, Clamp, None
  <1> HIDE DEF m
  <1>3. Box(q) \in Seq(Message) /\ queues' = [queues EXCEPT ![q] = Append(Box(q), m)]
    BY BoxType DEF MessagesPost, m
  <1>4. Append(Box(q), m) \in Seq(Message)
    BY <1>2, <1>3
  <1>5. /\ queues' \in [Queues -> Seq(Message) \cup {Absent}]
        /\ Box(q)' = Append(Box(q), m)
        /\ \A p \in Queues \ {q} : Box(p)' = Box(p)
    BY <1>3, <1>4, BoxSet
  <1>6. ASSUME NEW p \in Queues, NEW i \in DOMAIN Box(p)'
        PROVE  \/ p = q /\ i = Len(Box(q)) + 1 /\ Box(p)'[i] = m
               \/ i \in DOMAIN Box(p) /\ Box(p)'[i] = Box(p)[i]
    BY <1>2, <1>3, <1>5
  <1>7. QueueTypeOK'
    BY <1>1, <1>5 DEF TypeOK, QueueTypeOK, MessagesPost
  <1>8. granted' = granted /\ birth' = birth /\ granted \subseteq Lease
        /\ \A p \in Queues : \A i \in DOMAIN Box(p) : Box(p)[i] \in Message
    BY BoxType DEF MessagesPost, TypeOK, QueueTypeOK
  <1>9. IdsDrawn'
    <2>1. \A p \in Queues : \A i \in DOMAIN Box(p)' :
            Box(p)'[i].id \in 1..stamp' /\ Box(p)'[i].pop_receipt <= stamp'
      BY <1>1, <1>2, <1>6, <1>8 DEF QueueInv, IdsDrawn, Message, None
    <2>2. \A g \in granted' : g.id \in 1..stamp' /\ g.receipt \in 1..stamp'
      BY <1>1, <1>8 DEF QueueInv, IdsDrawn
    <2> QED BY <2>1, <2>2 DEF IdsDrawn
  <1>10. IdsUnique'
    <2>1. \A p \in Queues : \A i \in DOMAIN Box(p) : Box(p)[i].id # m.id
      BY <1>1, <1>2 DEF QueueInv, IdsDrawn
    <2> SUFFICES ASSUME NEW p \in Queues, NEW r \in Queues,
                        NEW i \in DOMAIN Box(p)', NEW j \in DOMAIN Box(r)',
                        Box(p)'[i].id = Box(r)'[j].id
                 PROVE  p = r /\ i = j
      BY DEF IdsUnique
    <2>2. \/ p = q /\ i = Len(Box(q)) + 1 /\ Box(p)'[i] = m
          \/ i \in DOMAIN Box(p) /\ Box(p)'[i] = Box(p)[i]
      BY <1>6
    <2>3. \/ r = q /\ j = Len(Box(q)) + 1 /\ Box(r)'[j] = m
          \/ j \in DOMAIN Box(r) /\ Box(r)'[j] = Box(r)[j]
      BY <1>6
    <2> QED BY <2>1, <2>2, <2>3 DEF QueueInv, IdsUnique
  <1>11. ReceiptsUnique'
    BY <1>8 DEF QueueInv, ReceiptsUnique
  <1>12. Agreed'
    <2>1. AgreedOn(granted, birth, m)
      <3>1. \A g \in granted : g.id # m.id
        BY <1>1, <1>2 DEF QueueInv, IdsDrawn
      <3> QED BY <1>2, <3>1, AgreedFresh
    <2> QED BY <1>6, <1>8, <2>1 DEF QueueInv, Agreed
  <1> QED BY <1>2, <1>5, <1>7, <1>9, <1>10, <1>11, <1>12 DEF QueueInv, m

\* What RemoveAt leaves.
LEMMA RemovedPlaces ==
  ASSUME NEW T, NEW s \in Seq(T), NEW k \in DOMAIN s
  PROVE  /\ RemoveAt(s, k) \in Seq(T)
         /\ DOMAIN RemoveAt(s, k) = 1..(Len(s) - 1)
         /\ \A i \in 1..(Len(s) - 1) :
              RemoveAt(s, k)[i] = s[IF i < k THEN i ELSE i + 1]
  <1> DEFINE p == SubSeq(s, 1, k - 1)
             r == SubSeq(s, k + 1, Len(s))
  <1>1. Len(s) \in Nat /\ DOMAIN s = 1..Len(s) /\ k \in 1..Len(s)
    OBVIOUS
  <1>2. p \in Seq(T) /\ Len(p) = k - 1 /\ \A i \in 1..(k - 1) : p[i] = s[i]
    BY <1>1
  <1>3. /\ r \in Seq(T) /\ Len(r) = Len(s) - k
        /\ \A i \in 1..(Len(s) - k) : r[i] = s[k + i]
    BY <1>1
  <1> HIDE DEF p, r
  <1>7. /\ p \o r \in Seq(T) /\ DOMAIN (p \o r) = 1..(Len(p) + Len(r))
        /\ \A i \in 1..Len(p) : (p \o r)[i] = p[i]
        /\ \A i \in 1..Len(r) : (p \o r)[Len(p) + i] = r[i]
    <2>1. p \in Seq(T) /\ r \in Seq(T)
      BY <1>2, <1>3
    <2> QED BY <2>1
  <1> DEFINE c == p \o r
  <1> HIDE DEF c
  <1>8. /\ c \in Seq(T) /\ DOMAIN c = 1..(Len(s) - 1)
        /\ \A i \in 1..(k - 1) : c[i] = p[i]
        /\ \A i \in 1..(Len(s) - k) : c[(k - 1) + i] = r[i]
    <2>1. Len(p) = k - 1 /\ Len(r) = Len(s) - k /\ (k - 1) + (Len(s) - k) = Len(s) - 1
      BY <1>1, <1>2, <1>3
    <2> QED BY <1>7, <2>1 DEF c
  <1>5. ASSUME NEW i \in 1..(Len(s) - 1) PROVE c[i] = s[IF i < k THEN i ELSE i + 1]
    <2>1. CASE i < k
      <3>1. i \in 1..(k - 1)
        BY <1>1, <2>1
      <3> QED BY <1>2, <1>8, <2>1, <3>1
    <2>2. CASE ~(i < k)
      <3> DEFINE j == i - (k - 1)
      <3>1. j \in 1..(Len(s) - k) /\ k + j = i + 1 /\ (k - 1) + j = i
        BY <1>1, <2>2
      <3> HIDE DEF j
      <3>2. c[i] = r[j] /\ r[j] = s[i + 1]
        BY <1>3, <1>8, <3>1
      <3> QED BY <2>2, <3>2
    <2> QED BY <2>1, <2>2
  <1>6. RemoveAt(s, k) = p \o r
    BY DEF RemoveAt, p, r
  <1> QED BY <1>5, <1>6, <1>8 DEF c

\* A message is deleted.
LEMMA QueueDeleted ==
  ASSUME TypeOK, QueueInv, NEW q \in Queues, NEW lease \in granted,
         MessageDelete(q, lease)
  PROVE  /\ QueueTypeOK' /\ QueueInv'
         /\ \A p \in Queues \ {q} : Box(p)' = Box(p)
         /\ \A i \in DOMAIN Box(q) :
              Box(q)[i].id # lease.id => \E j \in DOMAIN Box(q)' : Box(q)'[j] = Box(q)[i]
         /\ \A i \in DOMAIN Box(q)' : \E j \in DOMAIN Box(q) : Box(q)'[i] = Box(q)[j]
  <1>1. /\ Box(q) \in Seq(Message) /\ queues[q] = Box(q) /\ Len(Box(q)) \in Nat
        /\ DOMAIN Box(q) = 1..Len(Box(q))
    BY BoxType DEF MessageDelete
  <1>2. PICK k \in DOMAIN Box(q) :
               /\ Box(q)[k].id = lease.id
               /\ queues' = [queues EXCEPT ![q] = RemoveAt(Box(q), k)]
    BY <1>1 DEF MessageDelete, Matching, TypeOK, QueueTypeOK
  <1> DEFINE t == RemoveAt(Box(q), k)
             old(i) == IF i < k THEN i ELSE i + 1
             src == [p \in Queues |-> [i \in DOMAIN Box(p)' |-> IF p = q THEN old(i) ELSE i]]
  <1>3. /\ t \in Seq(Message) /\ DOMAIN t = 1..(Len(Box(q)) - 1)
        /\ \A i \in DOMAIN t : t[i] = Box(q)[old(i)] /\ old(i) \in DOMAIN Box(q)
    <2>1. /\ t \in Seq(Message) /\ DOMAIN t = 1..(Len(Box(q)) - 1)
          /\ \A i \in 1..(Len(Box(q)) - 1) : t[i] = Box(q)[old(i)]
      BY <1>1, <1>2, RemovedPlaces
    <2>2. \A i \in 1..(Len(Box(q)) - 1) : old(i) \in DOMAIN Box(q)
      BY <1>1, <1>2
    <2> QED BY <2>1, <2>2
  <1> HIDE DEF t
  <1>4. /\ queues' \in [Queues -> Seq(Message) \cup {Absent}]
        /\ Box(q)' = t
        /\ \A p \in Queues \ {q} : Box(p)' = Box(p)
    BY <1>2, <1>3, BoxSet DEF t
  <1>5. granted' = granted /\ birth' = birth /\ stamp' = stamp
    BY DEF MessageDelete
  <1>6. QueueTypeOK'
    BY <1>4, <1>5 DEF TypeOK, QueueTypeOK
  <1>7. ASSUME NEW p \in Queues, NEW i \in DOMAIN Box(p)'
        PROVE  src[p][i] \in DOMAIN Box(p) /\ Box(p)'[i] = Box(p)[src[p][i]]
    BY <1>3, <1>4
  <1>8. \A p \in Queues : \A i, j \in DOMAIN Box(p)' : src[p][i] = src[p][j] => i = j
    <2> SUFFICES ASSUME NEW p \in Queues, NEW i \in DOMAIN Box(p)', NEW j \in DOMAIN Box(p)',
                        src[p][i] = src[p][j]
                 PROVE  i = j
      OBVIOUS
    <2>1. CASE p = q
      BY <1>1, <1>2, <1>3, <1>4, <2>1
    <2>2. CASE p # q
      BY <2>2
    <2> QED BY <2>1, <2>2
  <1> HIDE DEF src
  <1>9. IdsUnique'
    BY <1>7, <1>8, UniqueFrom DEF QueueInv
  <1>10. IdsDrawn' /\ ReceiptsUnique' /\ Agreed'
    BY <1>5, <1>7 DEF QueueInv, IdsDrawn, ReceiptsUnique, Agreed
  <1>11. ASSUME NEW i \in DOMAIN Box(q), Box(q)[i].id # lease.id
         PROVE  \E j \in DOMAIN Box(q)' : Box(q)'[j] = Box(q)[i]
    <2>1. CASE i < k
      <3>1. i \in DOMAIN t /\ old(i) = i
        BY <1>1, <1>2, <1>3, <2>1
      <3> QED BY <1>3, <1>4, <3>1
    <2>2. CASE i > k
      <3>1. i - 1 \in DOMAIN t /\ old(i - 1) = i
        BY <1>1, <1>2, <1>3, <2>2
      <3> QED BY <1>3, <1>4, <3>1
    <2> QED BY <1>1, <1>2, <1>11, <2>1, <2>2
  <1> QED BY <1>4, <1>6, <1>7, <1>9, <1>10, <1>11 DEF QueueInv

\* A message is updated: one new lease, that nobody got the message under.
LEMMA QueueUpdated ==
  ASSUME TypeOK, QueueInv, NEW q \in Queues, NEW lease \in granted, NEW vt \in Timeouts,
         MessageUpdate(q, lease, vt)
  PROVE  /\ QueueTypeOK' /\ QueueInv'
         /\ \A p \in Queues :
              /\ DOMAIN Box(p)' = DOMAIN Box(p)
              /\ \A i \in DOMAIN Box(p) : /\ Box(p)'[i].id = Box(p)[i].id
                                          /\ Box(p)'[i].expires = Box(p)[i].expires
         /\ \A g \in granted' : g.got => g \in granted
  <1>1. /\ Box(q) \in Seq(Message) /\ queues[q] = Box(q) /\ Len(Box(q)) \in Nat
        /\ DOMAIN Box(q) = 1..Len(Box(q))
    BY BoxType DEF MessageUpdate
  <1>2. PICK k \in DOMAIN Box(q) :
               /\ Box(q)[k].id = lease.id
               /\ queues' = [queues EXCEPT ![q][k] = Renewed(Box(q)[k], vt)]
               /\ granted' = granted \cup New(<<Renewed(Box(q)[k], vt)>>, FALSE)
    BY <1>1 DEF MessageUpdate, Matching
  <1> DEFINE old == Box(q)[k]
             m == Renewed(old, vt)
             l == [id |-> m.id, receipt |-> m.pop_receipt, until |-> m.hidden, got |-> FALSE]
             t == [Box(q) EXCEPT ![k] = m]
  <1>3. stamp \in Nat /\ stamp' = stamp + 1 /\ stamp' <= MaxStamp /\ birth' = birth
        /\ birth \in 0..stamp
    BY StorageAssumption DEF TypeOK, QueueTypeOK, MessageUpdate, Draw
  <1>4. /\ old \in Message /\ m \in Message /\ m.id = old.id /\ m.pop_receipt = stamp + 1
        /\ m.dequeue_count = old.dequeue_count /\ m.expires = old.expires
    <2>1. old \in Message /\ Clamp(vt) \in Nat /\ stamp + 1 \in Nat
      BY <1>1, <1>3, QueueAssumption DEF Clamp
    <2> QED BY <2>1 DEF Renewed, Message
  <1> HIDE DEF m, old
  <1>5. /\ l \in Lease /\ l.id = m.id /\ l.receipt = m.pop_receipt
        /\ l.until = m.hidden /\ l.got = FALSE
    BY <1>4 DEF Lease, Message
  <1>6. New(<<m>>, FALSE) = {l}
    <2>1. stamp + 1 > stamp
      BY <1>3
    <2>2. {j \in DOMAIN <<m>> : <<m>>[j].pop_receipt > stamp} = {1} /\ <<m>>[1] = m
      BY <1>4, <2>1
    <2> QED BY <2>2 DEF New
  <1> HIDE DEF l
  <1>7. /\ t \in Seq(Message) /\ DOMAIN t = DOMAIN Box(q) /\ t[k] = m
        /\ \A i \in DOMAIN Box(q) : i # k => t[i] = Box(q)[i]
    BY <1>1, <1>2, <1>4, SlotUpdate
  <1>8. queues' = [queues EXCEPT ![q] = t]
    BY <1>1, <1>2 DEF m, old
  <1> HIDE DEF t
  <1>9. /\ queues' \in [Queues -> Seq(Message) \cup {Absent}]
        /\ Box(q)' = t
        /\ \A p \in Queues \ {q} : Box(p)' = Box(p)
    BY <1>7, <1>8, BoxSet
  <1>10. granted' = granted \cup {l} /\ granted \subseteq Lease
    BY <1>2, <1>6 DEF TypeOK, QueueTypeOK, m, old
  <1>11. QueueTypeOK'
    BY <1>3, <1>5, <1>9, <1>10 DEF TypeOK, QueueTypeOK
  <1>12. ASSUME NEW p \in Queues
         PROVE  /\ DOMAIN Box(p)' = DOMAIN Box(p)
                /\ \A i \in DOMAIN Box(p) :
                     /\ Box(p)[i] \in Message
                     /\ \/ p = q /\ i = k /\ Box(p)[i] = old /\ Box(p)'[i] = m
                        \/ ~(p = q /\ i = k) /\ Box(p)'[i] = Box(p)[i]
    BY <1>7, <1>9, BoxType DEF old
  <1>13. \A p \in Queues : \A i \in DOMAIN Box(p) :
           Box(p)'[i].id = Box(p)[i].id /\ Box(p)'[i].expires = Box(p)[i].expires
    BY <1>4, <1>12
  <1>14. \A g \in granted : /\ g \in Lease /\ g.receipt <= stamp /\ g.id \in 1..stamp
                            /\ g.receipt \in 1..stamp
    BY <1>3, <1>10 DEF QueueInv, IdsDrawn
  <1>15. old.id \in 1..stamp
    BY <1>12, <1>2 DEF QueueInv, IdsDrawn, old
  <1>16. IdsDrawn'
    <2>1. \A p \in Queues : \A i \in DOMAIN Box(p)' :
            Box(p)'[i].id \in 1..stamp' /\ Box(p)'[i].pop_receipt <= stamp'
      BY <1>3, <1>4, <1>12, <1>13, <1>15 DEF QueueInv, IdsDrawn, Message
    <2>2. \A g \in granted' : g.id \in 1..stamp' /\ g.receipt \in 1..stamp'
      BY <1>3, <1>4, <1>5, <1>10, <1>14, <1>15
    <2> QED BY <2>1, <2>2 DEF IdsDrawn
  <1>17. IdsUnique'
    BY <1>12, <1>13 DEF QueueInv, IdsUnique
  <1>18. ReceiptsUnique'
    <2>1. IsFiniteSet(granted')
      BY <1>10, FS_AddElement DEF QueueInv, ReceiptsUnique
    <2>2. \A g \in granted : g.receipt # l.receipt
      BY <1>3, <1>4, <1>5, <1>14
    <2> QED BY <1>10, <2>1, <2>2 DEF QueueInv, ReceiptsUnique
  <1>19. Agreed'
    <2> SUFFICES ASSUME NEW p \in Queues, NEW i \in DOMAIN Box(p)'
                 PROVE  AgreedOn(granted \cup {l}, birth, Box(p)'[i])
      BY <1>3, <1>10 DEF Agreed
    <2>1. i \in DOMAIN Box(p) /\ AgreedOn(granted, birth, Box(p)[i]) /\ Box(p)[i] \in Message
      BY <1>12 DEF QueueInv, Agreed
    <2>2. CASE p = q /\ i = k
      <3>1. Box(p)[i] = old /\ Box(p)'[i] = m
        BY <1>12, <2>1, <2>2
      <3>2. IsFiniteSet(granted) /\ granted \in SUBSET Lease /\ {l} \in SUBSET Lease
        BY <1>5, <1>10 DEF QueueInv, ReceiptsUnique
      <3>3. birth \in Nat /\ m.pop_receipt > birth
            /\ \A g \in granted : g.receipt < l.receipt
        BY <1>3, <1>4, <1>5, <1>14
      <3>4. m.dequeue_count = old.dequeue_count + IF l.got THEN 1 ELSE 0
        BY <1>4, <1>5 DEF Message
      <3>5. AgreedOn(granted \cup {l}, birth, m)
        BY <1>4, <1>5, <2>1, <3>1, <3>2, <3>3, <3>4, AgreedLeased
      <3> QED BY <3>1, <3>5
    <2>3. CASE ~(p = q /\ i = k)
      <3>1. Box(p)'[i] = Box(p)[i] /\ Box(p)[i].id # l.id
        BY <1>2, <1>4, <1>5, <1>12, <2>1, <2>3 DEF QueueInv, IdsUnique, old
      <3>2. AgreedOn(granted \cup {l}, birth, Box(p)[i])
        BY <2>1, <3>1, AgreedOthers
      <3> QED BY <3>1, <3>2
    <2> QED BY <2>2, <2>3
  <1> QED BY <1>5, <1>10, <1>11, <1>12, <1>13, <1>16, <1>17, <1>18, <1>19 DEF QueueInv

\* The visible messages a get hands out: numbered 1, 2, ... without a gap.
LEMMA VisiblePlaces ==
  ASSUME NEW s \in Seq(Message), NEW n \in Nat
  PROVE  LET P == Places(s, Showing)
             V == Visible(s, n)
         IN /\ IsFiniteSet(V) /\ Cardinality(V) \in Nat /\ V \subseteq DOMAIN s
            /\ \A i \in V : s[i].hidden = 0 /\ Rank(P, i) \in 1..Cardinality(V)
            /\ \A i, j \in V : Rank(P, i) = Rank(P, j) => i = j
  <1> DEFINE P == Places(s, Showing)
             V == Visible(s, n)
             Below(i) == {j \in P : j <= i}
  <1>1. Len(s) \in Nat /\ DOMAIN s = 1..Len(s) /\ P \in SUBSET (1..Len(s))
    BY DEF Places
  <1>2. /\ IsFiniteSet(P)
        /\ \A i \in P : Rank(P, i) \in 1..Cardinality(P)
        /\ \A i, j \in P : i < j => Rank(P, i) < Rank(P, j)
        /\ Cardinality(P) \in Nat
    BY <1>1, RankType
  <1>3. V \subseteq P /\ \A i \in P : i \in V <=> Rank(P, i) <= n
    BY DEF Visible
  <1>4. IsFiniteSet(V) /\ Cardinality(V) \in Nat
    BY <1>2, <1>3, FS_Subset, FS_CardinalityType
  <1>5. ASSUME NEW i \in V PROVE Rank(P, i) \in 1..Cardinality(V)
    <2>1. ASSUME NEW j \in Below(i) PROVE j \in V
      <3>1. i \in P /\ j \in P /\ i \in Int /\ j \in Int /\ j <= i
        BY <1>1, <1>3
      <3>2. Rank(P, j) <= Rank(P, i) /\ Rank(P, i) <= n
        BY <1>2, <1>3, <3>1
      <3> QED BY <1>2, <1>3, <3>1, <3>2
    <2>2. Cardinality(Below(i)) <= Cardinality(V)
      BY <1>4, <2>1, FS_Subset
    <2> QED BY <1>2, <1>3, <1>4, <2>2 DEF Rank
  <1>6. ASSUME NEW i \in V, NEW j \in V, Rank(P, i) = Rank(P, j) PROVE i = j
    <2>1. i \in P /\ j \in P /\ i \in Int /\ j \in Int /\ Rank(P, i) \in Int
      BY <1>1, <1>2, <1>3
    <2>2. ~(i < j) /\ ~(j < i)
      BY <1>2, <1>6, <2>1
    <2> QED BY <2>1, <2>2
  <1>7. \A i \in P : s[i].hidden = 0 /\ i \in DOMAIN s
    BY DEF Places, Showing
  <1> QED BY <1>3, <1>4, <1>5, <1>6, <1>7

\* What get_messages makes of the messages s: each that stays is the one it was, or is
\* one of the visible ones, under a fresh receipt.
LEMMA LeasedPlaces ==
  ASSUME NEW s \in Seq(Message), NEW n \in Nat, NEW vt \in Int, stamp \in Nat,
         \A i \in DOMAIN s : s[i].pop_receipt <= stamp
  PROVE  LET t == Leased(s, n, vt)
             c == Cardinality(Visible(Unexpired(s), n))
         IN /\ t \in Seq(Message) /\ c \in Nat /\ IsFiniteSet(DOMAIN t)
            /\ \A i \in DOMAIN s : s[i].expires # 0 => \E j \in DOMAIN t : t[j].id = s[i].id
            /\ \E src \in [DOMAIN t -> DOMAIN s] :
                 /\ \A i, j \in DOMAIN t : src[i] = src[j] => i = j
                 /\ \A i \in DOMAIN t :
                      /\ t[i].id = s[src[i]].id /\ t[i].expires = s[src[i]].expires
                      /\ \/ t[i] = s[src[i]]
                         \/ /\ t[i].pop_receipt \in (stamp + 1)..(stamp + c)
                            /\ t[i].dequeue_count = s[src[i]].dequeue_count + 1
                            /\ s[src[i]].hidden = 0
            /\ \A i, j \in DOMAIN t :
                 t[i].pop_receipt > stamp /\ t[i].pop_receipt = t[j].pop_receipt => i = j
  <1> DEFINE kept == Unexpired(s)
             I == Places(s, Live)
             P == Places(kept, Showing)
             V == Visible(kept, n)
             c == Cardinality(V)
             t == Leased(s, n, vt)
             handed(m, r) == [m EXCEPT !.dequeue_count = @ + 1, !.pop_receipt = r,
                                       !.hidden = Clamp(vt)]
             src == [i \in DOMAIN t |-> Nth(I, i)]
  <1>1. /\ kept \in Seq(Message) /\ Len(kept) \in Nat /\ DOMAIN kept = 1..Len(kept)
        /\ I \in SUBSET (1..Len(s)) /\ Len(s) \in Nat /\ DOMAIN s = 1..Len(s)
        /\ \A k \in DOMAIN kept : /\ Nth(I, k) \in I /\ Rank(I, Nth(I, k)) = k
                                  /\ kept[k] = s[Nth(I, k)]
        /\ \A i \in I : Rank(I, i) \in DOMAIN kept /\ kept[Rank(I, i)] = s[i]
    BY KeepPlaces DEF Unexpired
  <1> HIDE DEF I, kept
  <1>2. /\ c \in Nat /\ V \subseteq DOMAIN kept
        /\ \A i \in V : kept[i].hidden = 0 /\ Rank(P, i) \in 1..c
        /\ \A i, j \in V : Rank(P, i) = Rank(P, j) => i = j
    BY <1>1, VisiblePlaces
  <1>3. \A i \in DOMAIN kept : kept[i] \in Message /\ kept[i].pop_receipt <= stamp
    <2>1. \A i \in DOMAIN kept : Nth(I, i) \in DOMAIN s /\ kept[i] = s[Nth(I, i)]
      BY <1>1
    <2> QED BY <1>1, <2>1
  <1>4. ASSUME NEW m \in Message, NEW r \in Nat
        PROVE  /\ handed(m, r) \in Message /\ handed(m, r).id = m.id
               /\ handed(m, r).expires = m.expires /\ handed(m, r).pop_receipt = r
               /\ handed(m, r).dequeue_count = m.dequeue_count + 1
    <2>1. Clamp(vt) \in Nat
      BY DEF Clamp
    <2>2. m.dequeue_count + 1 \in Nat
      BY DEF Message
    <2>3. handed(m, r) \in Message
      BY <2>1, <2>2 DEF Message
    <2>4. /\ handed(m, r).id = m.id /\ handed(m, r).expires = m.expires
          /\ handed(m, r).pop_receipt = r
          /\ handed(m, r).dequeue_count = m.dequeue_count + 1
      BY DEF Message
    <2> QED BY <2>3, <2>4
  <1>5. t = [i \in DOMAIN kept |->
               IF i \in V THEN handed(kept[i], stamp + Rank(P, i)) ELSE kept[i]]
    BY DEF Leased, kept
  <1> HIDE DEF t, c, V, P, handed
  <1>6. /\ DOMAIN t = DOMAIN kept
        /\ \A i \in V : /\ t[i] = handed(kept[i], stamp + Rank(P, i)) /\ t[i] \in Message
                        /\ t[i].id = kept[i].id /\ t[i].expires = kept[i].expires
                        /\ t[i].pop_receipt = stamp + Rank(P, i)
                        /\ t[i].dequeue_count = kept[i].dequeue_count + 1
        /\ \A i \in DOMAIN kept \ V : t[i] = kept[i]
    <2>1. \A i \in V : stamp + Rank(P, i) \in Nat
      BY <1>2
    <2> QED BY <1>2, <1>3, <1>4, <1>5, <2>1
  <1>7. t \in Seq(Message) /\ IsFiniteSet(DOMAIN t)
    <2>1. t \in [1..Len(kept) -> Message]
      BY <1>1, <1>3, <1>5, <1>6
    <2>2. IsFiniteSet(1..Len(kept))
      BY <1>1, FS_Interval
    <2> QED BY <1>1, <2>1, <2>2
  <1>8. ASSUME NEW i \in DOMAIN s, s[i].expires # 0
        PROVE  \E j \in DOMAIN t : t[j].id = s[i].id
    <2>1. i \in I
      BY <1>8 DEF I, Places, Live
    <2> QED BY <1>1, <1>6, <2>1
  <1>9. src \in [DOMAIN t -> DOMAIN s] /\ \A i, j \in DOMAIN t : src[i] = src[j] => i = j
    BY <1>1, <1>6
  <1>10. ASSUME NEW i \in DOMAIN t
         PROVE  /\ t[i].id = s[src[i]].id /\ t[i].expires = s[src[i]].expires
                /\ \/ t[i] = s[src[i]]
                   \/ /\ t[i].pop_receipt \in (stamp + 1)..(stamp + c)
                      /\ t[i].dequeue_count = s[src[i]].dequeue_count + 1
                      /\ s[src[i]].hidden = 0
    <2>1. kept[i] = s[src[i]]
      BY <1>1, <1>6
    <2>2. CASE i \in V
      <3>1. stamp + Rank(P, i) \in (stamp + 1)..(stamp + c)
        BY <1>2, <2>2
      <3> QED BY <1>2, <1>6, <2>1, <2>2, <3>1
    <2>3. CASE i \notin V
      BY <1>6, <2>1, <2>3
    <2> QED BY <2>2, <2>3
  <1>11. ASSUME NEW i \in DOMAIN t, NEW j \in DOMAIN t,
                t[i].pop_receipt > stamp, t[i].pop_receipt = t[j].pop_receipt
         PROVE  i = j
    <2>1. i \in V /\ j \in V
      BY <1>3, <1>6, <1>11 DEF Message
    <2>2. Rank(P, i) = Rank(P, j)
      BY <1>2, <1>6, <1>11, <2>1
    <2> QED BY <1>2, <2>1, <2>2
  <1> HIDE DEF src
  <1> QED BY <1>2, <1>7, <1>8, <1>9, <1>10, <1>11 DEF t, c, V, kept

\* Messages are handed out: each under one new lease.
LEMMA QueueGot ==
  ASSUME TypeOK, QueueInv, NEW q \in Queues, NEW n \in Counts, NEW vt \in Timeouts,
         MessagesGet(q, n, vt)
  PROVE  /\ QueueTypeOK' /\ QueueInv'
         /\ \A p \in Queues \ {q} : Box(p)' = Box(p)
         /\ \A i \in DOMAIN Box(q) :
              Box(q)[i].expires # 0 => \E j \in DOMAIN Box(q)' : Box(q)'[j].id = Box(q)[i].id
         /\ \A i \in DOMAIN Box(q)' : \E j \in DOMAIN Box(q) :
              Box(q)'[i].id = Box(q)[j].id /\ Box(q)'[i].expires = Box(q)[j].expires
         /\ \A g \in granted' : g.receipt > stamp =>
              \E j \in DOMAIN Box(q) : Box(q)[j].id = g.id /\ Box(q)[j].hidden = 0
  <1> DEFINE s == Box(q)
             t == Leased(s, n, vt)
             c == Cardinality(Visible(Unexpired(s), n))
             fresh == {k \in DOMAIN t : t[k].pop_receipt > stamp}
             lease(i) == [id |-> t[i].id, receipt |-> t[i].pop_receipt,
                          until |-> t[i].hidden, got |-> TRUE]
             N == {lease(i) : i \in fresh}
  <1>1. /\ s \in Seq(Message) /\ queues[q] = s
        /\ \A i \in DOMAIN s : s[i] \in Message
    BY BoxType DEF MessagesGet
  <1>2. n \in Nat /\ vt \in Int /\ stamp \in Nat /\ birth \in 0..stamp
    BY QueueAssumption, StorageAssumption DEF TypeOK, QueueTypeOK
  <1>3. /\ queues' = [queues EXCEPT ![q] = t] /\ stamp' = stamp + c /\ stamp' <= MaxStamp
        /\ granted' = granted \cup N /\ birth' = birth
    BY <1>1 DEF MessagesGet, Draw, New
  <1>4. \A i \in DOMAIN s : s[i].pop_receipt <= stamp /\ s[i].id \in 1..stamp
    BY DEF QueueInv, IdsDrawn
  <1> HIDE DEF s
  <1>5. /\ t \in Seq(Message) /\ c \in Nat /\ IsFiniteSet(DOMAIN t)
        /\ \A i \in DOMAIN s : s[i].expires # 0 => \E j \in DOMAIN t : t[j].id = s[i].id
        /\ \A i, j \in DOMAIN t :
             t[i].pop_receipt > stamp /\ t[i].pop_receipt = t[j].pop_receipt => i = j
    <2>1. s \in Seq(Message) /\ \A i \in DOMAIN s : s[i].pop_receipt <= stamp
      BY <1>1, <1>4
    <2> HIDE DEF t, c
    <2> QED BY <1>2, <2>1, LeasedPlaces DEF t, c
  <1>6. PICK src \in [DOMAIN t -> DOMAIN s] :
               /\ \A i, j \in DOMAIN t : src[i] = src[j] => i = j
               /\ \A i \in DOMAIN t :
                    /\ t[i].id = s[src[i]].id /\ t[i].expires = s[src[i]].expires
                    /\ \/ t[i] = s[src[i]]
                       \/ /\ t[i].pop_receipt \in (stamp + 1)..(stamp + c)
                          /\ t[i].dequeue_count = s[src[i]].dequeue_count + 1
                          /\ s[src[i]].hidden = 0
    BY <1>1, <1>2, <1>4, LeasedPlaces
  <1> HIDE DEF t, c
  <1>7. /\ queues' \in [Queues -> Seq(Message) \cup {Absent}]
        /\ Box(q)' = t
        /\ \A p \in Queues \ {q} : Box(p)' = Box(p)
    BY <1>3, <1>5, BoxSet
  <1>8. \A i \in DOMAIN t : t[i] \in Message /\ src[i] \in DOMAIN s
    BY <1>5, <1>6
  <1>9. ASSUME NEW i \in DOMAIN t
        PROVE  /\ lease(i) \in Lease /\ lease(i).id = t[i].id
               /\ lease(i).receipt = t[i].pop_receipt
               /\ lease(i).until = t[i].hidden /\ lease(i).got = TRUE
    BY <1>8 DEF Lease, Message
  <1> HIDE DEF lease
  <1>10. ASSUME NEW i \in fresh
         PROVE  /\ i \in DOMAIN t /\ t[i].pop_receipt \in (stamp + 1)..(stamp + c)
                /\ t[i].dequeue_count = s[src[i]].dequeue_count + 1
                /\ s[src[i]].hidden = 0
    <2>1. s[src[i]].pop_receipt <= stamp /\ t[i].pop_receipt > stamp
          /\ s[src[i]].pop_receipt \in Nat
      BY <1>1, <1>4, <1>8 DEF Message
    <2>2. t[i] # s[src[i]]
      BY <1>2, <2>1
    <2> QED BY <1>6, <2>2
  <1>11. ASSUME NEW i \in DOMAIN t, i \notin fresh PROVE t[i] = s[src[i]]
    <2>1. ~(t[i].pop_receipt > stamp)
      BY <1>11
    <2> QED BY <1>2, <1>6, <2>1
  <1>12. N \in SUBSET Lease /\ granted \in SUBSET Lease
    BY <1>9 DEF TypeOK, QueueTypeOK
  <1>13. QueueTypeOK'
    <2>1. birth' \in 0..stamp'
      BY <1>2, <1>3, <1>5
    <2> QED BY <1>3, <1>7, <1>12, <2>1 DEF QueueTypeOK
  <1>14. \A g \in granted : g.id \in 1..stamp /\ g.receipt \in 1..stamp
    BY DEF QueueInv, IdsDrawn
  <1>15. \A g \in N : /\ g.id \in 1..stamp /\ g.receipt \in (stamp + 1)..(stamp + c)
                      /\ \E j \in DOMAIN s : s[j].id = g.id /\ s[j].hidden = 0
    <2> SUFFICES ASSUME NEW i \in fresh
                 PROVE  /\ lease(i).id \in 1..stamp
                        /\ lease(i).receipt \in (stamp + 1)..(stamp + c)
                        /\ \E j \in DOMAIN s : s[j].id = lease(i).id /\ s[j].hidden = 0
      OBVIOUS
    <2>1. lease(i).id = s[src[i]].id /\ src[i] \in DOMAIN s
      BY <1>6, <1>8, <1>9
    <2> QED BY <1>4, <1>9, <1>10, <2>1
  <1>16. IdsDrawn'
    <2>1. \A i \in DOMAIN t : t[i].id \in 1..stamp' /\ t[i].pop_receipt <= stamp'
      <3> SUFFICES ASSUME NEW i \in DOMAIN t
                   PROVE  t[i].id \in 1..stamp' /\ t[i].pop_receipt <= stamp'
        OBVIOUS
      <3>1. t[i].id \in 1..stamp
        BY <1>4, <1>6, <1>8
      <3>2. t[i].pop_receipt <= stamp + c
        <4>1. CASE i \in fresh
          BY <1>2, <1>5, <1>10, <4>1
        <4>2. CASE i \notin fresh
          <5>1. t[i].pop_receipt <= stamp /\ t[i].pop_receipt \in Nat
            BY <1>4, <1>8, <1>11, <4>2 DEF Message
          <5> QED BY <1>2, <1>5, <5>1
        <4> QED BY <4>1, <4>2
      <3> QED BY <1>2, <1>3, <1>5, <3>1, <3>2
    <2>2. \A p \in Queues \ {q} : \A i \in DOMAIN Box(p)' :
            Box(p)'[i].id \in 1..stamp' /\ Box(p)'[i].pop_receipt <= stamp'
      <3> SUFFICES ASSUME NEW p \in Queues \ {q}, NEW i \in DOMAIN Box(p)
                   PROVE  Box(p)[i].id \in 1..stamp' /\ Box(p)[i].pop_receipt <= stamp'
        BY <1>7
      <3>1. Box(p)[i] \in Message
        BY BoxType
      <3>2. Box(p)[i].id \in 1..stamp /\ Box(p)[i].pop_receipt <= stamp
        BY DEF QueueInv, IdsDrawn
      <3> QED BY <1>2, <1>3, <1>5, <3>1, <3>2 DEF Message
    <2>3. \A g \in granted' : g.id \in 1..stamp' /\ g.receipt \in 1..stamp'
      <3>1. \A g \in granted : g.id \in 1..(stamp + c) /\ g.receipt \in 1..(stamp + c)
        BY <1>2, <1>5, <1>14
      <3>2. \A g \in N : g.id \in 1..(stamp + c) /\ g.receipt \in 1..(stamp + c)
        BY <1>2, <1>5, <1>15
      <3> QED BY <1>3, <3>1, <3>2
    <2> QED BY <1>7, <2>1, <2>2, <2>3 DEF IdsDrawn
  <1>17. IdsUnique'
    <2> DEFINE from == [p \in Queues |-> IF p = q THEN src ELSE [i \in DOMAIN Box(p) |-> i]]
    <2>1. \A p \in Queues : \A i \in DOMAIN Box(p)' :
            from[p][i] \in DOMAIN Box(p) /\ Box(p)'[i].id = Box(p)[from[p][i]].id
      BY <1>6, <1>7, <1>8 DEF s
    <2>2. \A p \in Queues : \A i, j \in DOMAIN Box(p)' : from[p][i] = from[p][j] => i = j
      BY <1>6, <1>7
    <2> HIDE DEF from
    <2> QED BY <2>1, <2>2, UniqueFrom DEF QueueInv
  <1>18. ASSUME NEW i \in DOMAIN t, NEW j \in DOMAIN t, t[i].id = t[j].id PROVE i = j
    <2>1. src[i] = src[j]
      BY <1>6, <1>8, <1>18 DEF QueueInv, IdsUnique, s
    <2> QED BY <1>6, <2>1
  <1>19. ReceiptsUnique'
    <2>1. IsFiniteSet(N)
      <3>1. IsFiniteSet(fresh)
        BY <1>5, FS_Subset
      <3> DEFINE f == [i \in fresh |-> lease(i)]
      <3>2. f \in Surjection(fresh, N)
        BY DEF Surjection
      <3> QED BY <3>1, <3>2, FS_Surjection
    <2>2. IsFiniteSet(granted')
      BY <1>3, <2>1, FS_Union DEF QueueInv, ReceiptsUnique
    <2>3. \A g, h \in N : g.receipt = h.receipt => g = h
      <3> SUFFICES ASSUME NEW i \in fresh, NEW j \in fresh,
                          lease(i).receipt = lease(j).receipt
                   PROVE  lease(i) = lease(j)
        OBVIOUS
      <3>1. t[i].pop_receipt = t[j].pop_receipt
        BY <1>9
      <3>2. i = j
        BY <1>5, <3>1
      <3> QED BY <3>2
    <2>4. \A g \in granted, h \in N : g.receipt # h.receipt
      BY <1>2, <1>14, <1>15
    <2> QED BY <1>3, <2>2, <2>3, <2>4 DEF QueueInv, ReceiptsUnique
  <1>20. Agreed'
    <2>1. ASSUME NEW i \in DOMAIN t PROVE AgreedOn(granted \cup N, birth, t[i])
      <3>1. /\ AgreedOn(granted, birth, s[src[i]]) /\ s[src[i]] \in Message
            /\ t[i] \in Message /\ t[i].id = s[src[i]].id
        BY <1>1, <1>6, <1>8 DEF QueueInv, Agreed, s
      <3>2. CASE i \in fresh
        <4>1. lease(i) \in N /\ lease(i) \in Lease
          BY <1>9, <3>2
        <4>2. \A g \in N : g.id = s[src[i]].id => g = lease(i)
          <5> SUFFICES ASSUME NEW j \in fresh, lease(j).id = s[src[i]].id
                       PROVE  lease(j) = lease(i)
            OBVIOUS
          <5>1. t[j].id = t[i].id
            BY <1>9, <3>1
          <5>2. j = i
            BY <1>18, <5>1
          <5> QED BY <5>2
        <4>3. \A g \in granted : g.receipt < lease(i).receipt
          <5>1. lease(i).receipt \in (stamp + 1)..(stamp + c)
            BY <1>9, <1>10, <3>2
          <5> QED BY <1>2, <1>5, <1>14, <5>1
        <4>4. birth \in Nat /\ t[i].pop_receipt > birth
          BY <1>2, <1>10, <3>2
        <4>5. IsFiniteSet(granted)
          BY DEF QueueInv, ReceiptsUnique
        <4>6. t[i].dequeue_count = s[src[i]].dequeue_count + IF lease(i).got THEN 1 ELSE 0
          BY <1>9, <1>10, <3>2
        <4>7. /\ lease(i).id = s[src[i]].id /\ lease(i).receipt = t[i].pop_receipt
              /\ lease(i).until = t[i].hidden
          BY <1>9, <3>1
        <4> HIDE DEF N
        <4> QED BY <1>12, <3>1, <4>1, <4>2, <4>3, <4>4, <4>5, <4>6, <4>7, AgreedLeased
      <3>3. CASE i \notin fresh
        <4>1. \A g \in N : g.id # s[src[i]].id
          <5> SUFFICES ASSUME NEW j \in fresh, lease(j).id = s[src[i]].id PROVE FALSE
            OBVIOUS
          <5>1. t[j].id = t[i].id
            BY <1>9, <3>1
          <5> QED BY <1>18, <3>3, <5>1
        <4> HIDE DEF N
        <4> QED BY <1>11, <3>1, <3>3, <4>1, AgreedOthers
      <3> QED BY <3>2, <3>3
    <2>2. ASSUME NEW p \in Queues \ {q}, NEW i \in DOMAIN Box(p)
          PROVE  AgreedOn(granted \cup N, birth, Box(p)[i])
      <3>1. AgreedOn(granted, birth, Box(p)[i])
        BY DEF QueueInv, Agreed
      <3>2. \A g \in N : g.id # Box(p)[i].id
        BY <1>15 DEF QueueInv, IdsUnique, s
      <3> HIDE DEF N
      <3> QED BY <3>1, <3>2, AgreedOthers
    <2> QED BY <1>3, <1>7, <2>1, <2>2 DEF Agreed
  <1>21. \A g \in granted' : g.receipt > stamp =>
           \E j \in DOMAIN s : s[j].id = g.id /\ s[j].hidden = 0
    BY <1>2, <1>3, <1>14, <1>15
  <1> QED
    BY <1>5, <1>6, <1>7, <1>8, <1>13, <1>16, <1>17, <1>19, <1>20, <1>21 DEF QueueInv, s

-----------------------------------------------------------------------------
\* The numbers and sets of the type invariant.
LEMMA DataType ==
  ASSUME TypeOK
  PROVE  /\ stamp \in Nat /\ stamp <= MaxStamp /\ MaxStamp \in Nat
         /\ birth \in 0..stamp /\ granted \in SUBSET Lease
         /\ \A c \in Clients :
              request[c] \in {Idle} \cup QueueRequest \cup TableRequest \cup BlobRequest
  BY StorageAssumption DEF TypeOK, QueueTypeOK

\* A step that gives no lease honours every one.
LEMMA NoLease ==
  ASSUME TypeOK, QueueInv, \A g \in granted' : g.got => \E h \in granted : h.receipt = g.receipt
  PROVE  Honoured
  <1>1. \A h \in granted : ~(h.receipt > stamp)
    BY DataType DEF QueueInv, IdsDrawn
  <1> QED BY <1>1 DEF Honoured

\* Who a request is about, by its first step.
LEMMA RequestType ==
  ASSUME TypeOK, NEW c \in Clients
  PROVE  /\ request[c].op = "create_queue" => request[c].name \in Queues
         /\ request[c].op = "create_table" => request[c].table \in Tables
         /\ request[c].op \in EntityOps =>
              request[c].table \in Tables /\ request[c].key \in Keys
         /\ request[c].op = "delete_entity" =>
              request[c].if_match \in Stamps /\ request[c].since \in Nat
         /\ request[c].op = "create_container" => request[c].name \in Containers
         /\ request[c].op \in Creations => request[c].since \in Nat
  <1>1. request[c] \in {Idle} \cup QueueRequest \cup TableRequest \cup BlobRequest
    BY DataType
  <1>2. MaxStamp \in Nat
    BY DataType
  <1> QED BY <1>1, <1>2 DEF Idle, QueueRequest, TableRequest, BlobRequest, EntityOps, Creations

\* A creation overtakes all that is stored where it inserts.
LEMMA OvertakesAll ==
  ASSUME Unseen, NEW c \in Clients, NEW S, request[c].op \in Creations,
         \A x \in S : Stands(request[c], x)
  PROVE  Overtaken(c, S) = S
  BY DEF Overtaken, Unseen

\* What creations found stays true.
LEMMA UnseenStep ==
  ASSUME TypeOK, Unseen, stamp <= stamp', stamp' \in Nat,
         request' \in [Clients -> {Idle} \cup QueueRequest \cup TableRequest \cup BlobRequest],
         NewLooks, QueueArrivals, TableArrivals, BlobArrivals
  PROVE  Unseen'
  <1> SUFFICES ASSUME NEW c \in Clients, NEW r, r = request'[c], r.op \in Creations
               PROVE  /\ r.since <= stamp'
                      /\ \A x : Stands(r, x)' => x > r.since
    BY DEF Unseen, Stands
  <1>1. stamp \in Nat /\ MaxStamp \in Nat
    BY DataType
  <1>2. r \in {Idle} \cup QueueRequest \cup TableRequest \cup BlobRequest
    OBVIOUS
  <1>3. /\ r.since \in Nat
        /\ r.op = "create_queue" => r.name \in Queues
        /\ r.op = "create_table" => r.table \in Tables
        /\ r.op = "insert_entity" => r.table \in Tables /\ r.key \in Keys
        /\ r.op = "create_container" => r.name \in Containers
    BY <1>1, <1>2 DEF Idle, QueueRequest, TableRequest, BlobRequest, Creations
  <1>4. r.since <= stamp /\ \A x : Stands(r, x) => x > r.since
    <2>1. CASE r = request[c]
      BY <2>1 DEF Unseen
    <2>2. CASE r # request[c]
      <3>1. r.since = stamp /\ \A x : ~Stands(r, x)
        BY <2>2 DEF NewLooks
      <3> QED BY <1>1, <3>1
    <2> QED BY <2>1, <2>2
  <1>5. \A t \in Tables : \A x \in Etags(t)' : x \in Etags(t) \/ x = stamp + 1
    <2>1. \A t \in Tables : \A x : x \in Etags(t) <=> \E k \in Keys : x \in EtagAt(t, k)
      BY DEF Etags, EtagAt
    <2>2. \A t \in Tables : \A x : x \in Etags(t)' <=> \E k \in Keys : x \in EtagAt(t, k)'
      BY DEF Etags, EtagAt, At, Has
    <2> QED BY <2>1, <2>2 DEF TableArrivals
  <1>6. \A x : Stands(r, x)' => Stands(r, x) \/ x = stamp + 1
    BY <1>3, <1>5 DEF Stands, QueueArrivals, TableArrivals, BlobArrivals
  <1>7. r.since <= stamp' /\ stamp + 1 > r.since
    BY <1>1, <1>3, <1>4
  <1> QED BY <1>4, <1>6, <1>7

\* A step of request c leaves the others as they are.
LEMMA RequestStep ==
  ASSUME TypeOK, NEW c \in Clients,
         NEW r \in {Idle} \cup QueueRequest \cup TableRequest \cup BlobRequest,
         request' = [request EXCEPT ![c] = r]
  PROVE  /\ request' \in [Clients -> {Idle} \cup QueueRequest \cup TableRequest \cup BlobRequest]
         /\ request'[c] = r /\ \A d \in Clients \ {c} : request'[d] = request[d]
  BY DEF TypeOK

\* A queue without messages: whatever it had is not counted on any more.
LEMMA EmptiedKeeps ==
  ASSUME Inv, NEW q \in Queues, Box(q)' = <<>>, \A p \in Queues \ {q} : Box(p)' = Box(p),
         confirmed' = confirmed \ Ids(q), UNCHANGED <<stamp, granted, birth>>
  PROVE  QueueInv' /\ QueueKeeps /\ ExpiredGone' /\ Honoured
  <1>1. QueueInv'
    BY QueueEmptied DEF Inv
  <1>2. \A p \in Queues \ {q} : Ids(p)' = Ids(p)
    BY IdsKept
  <1>3. QueueKeeps
    BY <1>2 DEF QueueKeeps
  <1>4. ExpiredGone'
    BY DEF Inv, ExpiredGone
  <1>5. Honoured
    BY NoLease DEF Inv
  <1> QED BY <1>1, <1>3, <1>4, <1>5

\* Every step of the queue store.
LEMMA QueueStep ==
  ASSUME Inv, QueueNext
  PROVE  /\ QueueTypeOK' /\ QueueInv' /\ QueueKeeps /\ ExpiredGone' /\ Honoured
         /\ request' \in [Clients -> {Idle} \cup QueueRequest \cup TableRequest \cup BlobRequest]
         /\ \A c \in Clients : request'[c] = request[c] \/ request'[c].op \notin EntityOps
         /\ stamp' \in 0..MaxStamp /\ stamp <= stamp' /\ confirmed' \subseteq 1..stamp'
         /\ NewLooks /\ QueueArrivals
  <1> DEFINE Goal ==
         /\ QueueTypeOK' /\ QueueInv' /\ QueueKeeps /\ ExpiredGone' /\ Honoured
         /\ request' \in [Clients -> {Idle} \cup QueueRequest \cup TableRequest \cup BlobRequest]
         /\ \A c \in Clients : request'[c] = request[c] \/ request'[c].op \notin EntityOps
         /\ stamp' \in 0..MaxStamp /\ stamp <= stamp' /\ confirmed' \subseteq 1..stamp'
         /\ NewLooks /\ QueueArrivals
  <1>0. /\ TypeOK /\ QueueInv /\ ExpiredGone /\ confirmed \subseteq 1..stamp
        /\ stamp \in Nat /\ stamp <= MaxStamp /\ MaxStamp \in Nat
        /\ request \in [Clients -> {Idle} \cup QueueRequest \cup TableRequest \cup BlobRequest]
        /\ \A q \in Queues : Ids(q) = {Box(q)[i].id : i \in DOMAIN Box(q)}
        /\ \A q \in Queues : Ids(q)' = {Box(q)'[i].id : i \in DOMAIN Box(q)'}
        /\ \A q \in Queues : Ids(q) \subseteq 1..stamp
        /\ QueueTypeOK
    <2>1. \A q \in Queues : Ids(q) = {Box(q)[i].id : i \in DOMAIN Box(q)}
      BY BoxIds
    <2>2. \A q \in Queues : Ids(q)' = {Box(q)'[i].id : i \in DOMAIN Box(q)'}
      BY DEF Ids, Box
    <2>3. \A q \in Queues : Ids(q) \subseteq 1..stamp
      BY <2>1 DEF Inv, QueueInv, IdsDrawn
    <2> QED BY <2>1, <2>2, <2>3, DataType DEF Inv, Drawn, TypeOK
  <1>a. request \in [Clients -> {Idle} \cup QueueRequest \cup TableRequest \cup BlobRequest]
    BY <1>0
  <1>b. ASSUME stamp' = stamp, confirmed' \subseteq confirmed
        PROVE  stamp' \in 0..MaxStamp /\ stamp <= stamp' /\ confirmed' \subseteq 1..stamp'
    BY <1>0, <1>b
  <1>c. ASSUME request' = request PROVE NewLooks
    BY <1>c DEF NewLooks
  <1>d. ASSUME \A q \in Queues : Ids(q)' \subseteq Ids(q) PROVE QueueArrivals
    BY <1>d DEF QueueArrivals
  <1>e. ASSUME NEW q \in Queues, Box(q)' = <<>>, \A p \in Queues \ {q} : Box(p)' = Box(p)
        PROVE  QueueArrivals
    BY <1>0, <1>d, <1>e
  <1>1. ASSUME NEW c \in Clients, NEW q \in Queues, QueuePut(c, q) PROVE Goal
    <2> DEFINE r == [op |-> "create_queue", name |-> q, since |-> stamp]
    <2>1. r \in QueueRequest /\ request' = [request EXCEPT ![c] = r] /\ request[c] = Idle
      BY <1>0, <1>1 DEF QueuePut, Begin, QueueRequest
    <2>2. /\ request' \in [Clients -> {Idle} \cup QueueRequest \cup TableRequest \cup BlobRequest]
          /\ request'[c] = r /\ \A d \in Clients \ {c} : request'[d] = request[d]
      BY <1>0, <2>1, RequestStep
    <2>3. UNCHANGED <<stamp, confirmed, queues, granted, birth>>
      BY <1>1 DEF QueuePut, queueVars
    <2>4. QueueInv' /\ QueueTypeOK'
      BY <1>0, <2>3, QueueStill DEF queueVars, QueueTypeOK
    <2>5. QueueKeeps /\ ExpiredGone'
      BY <1>0, <2>3 DEF QueueKeeps, ExpiredGone, Box, Open, Ids
    <2>6. Honoured
      BY <1>0, <2>3, NoLease
    <2>7. r.op = "create_queue" /\ r.name = q /\ r.since = stamp
      OBVIOUS
    <2> HIDE DEF r
    <2>8. NewLooks
      <3>1. Ids(q) = {}
        BY <1>1 DEF QueuePut, Ids
      <3>2. \A x : ~Stands(r, x)
        BY <2>7, <3>1 DEF Stands
      <3> QED BY <2>2, <2>7, <3>2 DEF NewLooks
    <2>9. QueueArrivals
      BY <1>d, <2>3 DEF Ids, Open
    <2>10. \A d \in Clients : request'[d] = request[d] \/ request'[d].op \notin EntityOps
      BY <2>2, <2>7 DEF EntityOps
    <2> QED BY <1>b, <2>2, <2>3, <2>4, <2>5, <2>6, <2>8, <2>9, <2>10
  <1>2. ASSUME NEW c \in Clients, QueueInsert(c) PROVE Goal
    <2>0. PICK q \in Queues : q = request[c].name
      BY <1>0, <1>2, RequestType DEF QueueInsert, End
    <2>7. request[c].op = "create_queue" /\ Overtaken(c, Ids(q)) = Ids(q)
      <3>1. request[c].op = "create_queue"
        BY <1>2 DEF QueueInsert, End
      <3>2. \A x \in Ids(q) : Stands(request[c], x)
        BY <2>0, <3>1 DEF Stands
      <3> QED BY <3>1, <3>2, OvertakesAll DEF Inv, Creations
    <2>1. /\ queues' = [queues EXCEPT ![q] = <<>>]
          /\ request' = [request EXCEPT ![c] = Idle] /\ request[c].op = "create_queue"
          /\ confirmed' = confirmed \ Ids(q) /\ UNCHANGED <<stamp, granted, birth>>
      BY <1>2, <2>0, <2>7 DEF QueueInsert, End, Confirm
    <2>2. /\ request' \in [Clients -> {Idle} \cup QueueRequest \cup TableRequest \cup BlobRequest]
          /\ request'[c] = Idle /\ \A d \in Clients \ {c} : request'[d] = request[d]
      BY <1>0, <2>1, RequestStep
    <2>3. <<>> \in Seq(Message)
      OBVIOUS
    <2>4. /\ queues' \in [Queues -> Seq(Message) \cup {Absent}]
          /\ Box(q)' = <<>> /\ \A p \in Queues \ {q} : Box(p)' = Box(p)
      BY <1>0, <2>1, <2>3, BoxSet
    <2>5. QueueInv' /\ QueueKeeps /\ ExpiredGone' /\ Honoured
      BY <2>1, <2>4, EmptiedKeeps
    <2>6. QueueTypeOK'
      BY <1>0, <2>1, <2>4 DEF QueueTypeOK
    <2>8. NewLooks
      BY <2>2 DEF NewLooks, Idle, Creations
    <2>9. QueueArrivals
      BY <1>e, <2>4
    <2>10. \A d \in Clients : request'[d] = request[d] \/ request'[d].op \notin EntityOps
      BY <2>2 DEF Idle, EntityOps
    <2> QED BY <1>b, <2>1, <2>2, <2>5, <2>6, <2>8, <2>9, <2>10
  <1>3. ASSUME NEW q \in Queues, QueueDelete(q) PROVE Goal
    <2>1. /\ queues' = [queues EXCEPT ![q] = Absent] /\ confirmed' = confirmed \ Ids(q)
          /\ UNCHANGED <<request, stamp, granted, birth>>
      BY <1>3 DEF QueueDelete, Confirm
    <2>2. /\ queues' \in [Queues -> Seq(Message) \cup {Absent}]
          /\ Box(q)' = <<>> /\ \A p \in Queues \ {q} : Box(p)' = Box(p)
      BY <1>0, <2>1, BoxGone
    <2>3. QueueInv' /\ QueueKeeps /\ ExpiredGone' /\ Honoured
      BY <2>1, <2>2, EmptiedKeeps
    <2>4. QueueTypeOK'
      BY <1>0, <2>1, <2>2 DEF QueueTypeOK
    <2>5. QueueArrivals
      BY <1>e, <2>2
    <2> QED BY <1>a, <1>b, <1>c, <2>1, <2>3, <2>4, <2>5
  <1>4. ASSUME NEW q \in Queues, MessagesClear(q) PROVE Goal
    <2>1. /\ queues' = [queues EXCEPT ![q] = <<>>] /\ confirmed' = confirmed \ Ids(q)
          /\ UNCHANGED <<request, stamp, granted, birth>> /\ <<>> \in Seq(Message)
      BY <1>4 DEF MessagesClear, Confirm
    <2>2. /\ queues' \in [Queues -> Seq(Message) \cup {Absent}]
          /\ Box(q)' = <<>> /\ \A p \in Queues \ {q} : Box(p)' = Box(p)
      BY <1>0, <2>1, BoxSet
    <2>3. QueueInv' /\ QueueKeeps /\ ExpiredGone' /\ Honoured
      BY <2>1, <2>2, EmptiedKeeps
    <2>4. QueueTypeOK'
      BY <1>0, <2>1, <2>2 DEF QueueTypeOK
    <2>5. QueueArrivals
      BY <1>e, <2>2
    <2> QED BY <1>a, <1>b, <1>c, <2>1, <2>3, <2>4, <2>5
  <1>5. ASSUME NEW q \in Queues, NEW vt \in Timeouts, NEW ttl \in TTLs, MessagesPost(q, vt, ttl)
        PROVE  Goal
    <2> DEFINE m == NewMessage(vt, ttl)
    <2>1. /\ stamp' = stamp + 1 /\ stamp' <= MaxStamp
          /\ confirmed' = confirmed \cup (IF ttl = 0 THEN {} ELSE {stamp + 1})
          /\ UNCHANGED <<request, granted, birth>>
      BY <1>5 DEF MessagesPost, Draw, Confirm
    <2>2. /\ QueueTypeOK' /\ QueueInv' /\ Box(q)' = Append(Box(q), m)
          /\ \A p \in Queues \ {q} : Box(p)' = Box(p)
      BY <1>0, <1>5, QueuePosted
    <2>3. m.id = stamp + 1 /\ m.expires = IF ttl < 0 THEN Forever ELSE ttl
      BY DEF NewMessage
    <2> HIDE DEF m
    <2>4. /\ Box(q) \in Seq(Message) /\ Len(Box(q)) \in Nat
          /\ DOMAIN Box(q) = 1..Len(Box(q)) /\ DOMAIN Box(q)' = 1..(Len(Box(q)) + 1)
          /\ Box(q)'[Len(Box(q)) + 1] = m
          /\ \A i \in 1..Len(Box(q)) : Box(q)'[i] = Box(q)[i]
      BY <1>0, <2>2, BoxType
    <2>5. stamp + 1 \in Ids(q)' /\ \A p \in Queues : Ids(p) \subseteq Ids(p)'
      BY <1>0, <2>2, <2>3, <2>4
    <2>6. QueueKeeps
      BY <2>1, <2>5 DEF QueueKeeps
    <2>7. ExpiredGone'
      <3> SUFFICES ASSUME NEW p \in Queues, NEW i \in DOMAIN Box(p)', Box(p)'[i].expires = 0
                   PROVE  Box(p)'[i].id \notin confirmed'
        BY DEF ExpiredGone
      <3>1. CASE p = q /\ i = Len(Box(q)) + 1
        <4>1. m.expires = 0
          BY <2>4, <3>1
        <4>2. ttl = 0
          BY <2>3, <4>1, QueueAssumption DEF Forever
        <4> QED BY <1>0, <2>1, <2>3, <2>4, <3>1, <4>2
      <3>2. CASE ~(p = q /\ i = Len(Box(q)) + 1)
        <4>1. i \in DOMAIN Box(p) /\ Box(p)'[i] = Box(p)[i]
          BY <2>2, <2>4, <3>2
        <4>2. Box(p)[i].id \in 1..stamp /\ Box(p)[i].id \notin confirmed
          BY <1>0, <4>1 DEF ExpiredGone, QueueInv, IdsDrawn
        <4> QED BY <1>0, <2>1, <4>1, <4>2
      <3> QED BY <3>1, <3>2
    <2>8. Honoured
      BY <1>0, <2>1, NoLease
    <2>9. stamp' \in 0..MaxStamp /\ stamp <= stamp' /\ confirmed' \subseteq 1..stamp'
      <3>1. confirmed' \subseteq confirmed \cup {stamp + 1}
        BY <2>1
      <3>2. 1..stamp \cup {stamp + 1} \subseteq 1..(stamp + 1)
        BY <1>0
      <3>3. stamp' \in 0..MaxStamp /\ stamp <= stamp'
        BY <1>0, <2>1
      <3>4. confirmed \subseteq 1..stamp /\ stamp' = stamp + 1
        BY <1>0, <2>1
      <3> QED BY <3>1, <3>2, <3>3, <3>4
    <2>10. QueueArrivals
      BY <1>0, <2>2, <2>3, <2>4 DEF QueueArrivals
    <2> QED BY <1>a, <1>c, <2>1, <2>2, <2>6, <2>7, <2>8, <2>9, <2>10
  <1>6. ASSUME NEW q \in Queues, NEW n \in Counts, NEW vt \in Timeouts, MessagesGet(q, n, vt)
        PROVE  Goal
    <2>1. UNCHANGED <<request, confirmed, birth>> /\ stamp' <= MaxStamp /\ stamp' \in Nat
          /\ stamp <= stamp'
      <3>1. Unexpired(Box(q)) \in Seq(Message) /\ n \in Nat /\ queues[q] = Box(q)
        BY <1>0, <1>6, BoxType, KeepPlaces, QueueAssumption DEF Unexpired, MessagesGet
      <3>2. Cardinality(Visible(Unexpired(Box(q)), n)) \in Nat
        BY <3>1, VisiblePlaces
      <3> QED BY <1>0, <1>6, <3>1, <3>2 DEF MessagesGet, Draw
    <2>2. /\ QueueTypeOK' /\ QueueInv'
          /\ \A p \in Queues \ {q} : Box(p)' = Box(p)
          /\ \A i \in DOMAIN Box(q) : Box(q)[i].expires # 0 =>
               \E j \in DOMAIN Box(q)' : Box(q)'[j].id = Box(q)[i].id
          /\ \A i \in DOMAIN Box(q)' : \E j \in DOMAIN Box(q) :
               Box(q)'[i].id = Box(q)[j].id /\ Box(q)'[i].expires = Box(q)[j].expires
          /\ \A g \in granted' : g.receipt > stamp =>
               \E j \in DOMAIN Box(q) : Box(q)[j].id = g.id /\ Box(q)[j].hidden = 0
      BY <1>0, <1>6, QueueGot
    <2>3. \A p \in Queues : \A x \in Ids(p) \cap confirmed : x \in Ids(p)'
      <3> SUFFICES ASSUME NEW p \in Queues, NEW i \in DOMAIN Box(p), Box(p)[i].id \in confirmed
                   PROVE  Box(p)[i].id \in Ids(p)'
        BY <1>0
      <3>1. Box(p)[i].expires # 0
        BY <1>0 DEF ExpiredGone
      <3> QED BY <1>0, <2>2, <3>1
    <2>4. QueueKeeps
      BY <2>1, <2>3 DEF QueueKeeps
    <2>5. ExpiredGone'
      BY <1>0, <2>1, <2>2 DEF ExpiredGone
    <2>6. Honoured
      <3> SUFFICES ASSUME NEW g \in granted', g.receipt > stamp,
                          NEW last \in granted, last.id = g.id,
                          \A o \in granted : o.id = g.id => o.receipt <= last.receipt
                   PROVE  last.until = 0
        BY DEF Honoured
      <3>1. PICK j \in DOMAIN Box(q) : Box(q)[j].id = g.id /\ Box(q)[j].hidden = 0
        BY <2>2
      <3> QED BY <1>0, <3>1 DEF QueueInv, Agreed, AgreedOn, Newest
    <2>7. stamp' \in 0..MaxStamp /\ stamp <= stamp' /\ confirmed' \subseteq 1..stamp'
      BY <1>0, <2>1
    <2>8. QueueArrivals
      BY <1>0, <1>d, <2>2
    <2> QED BY <1>a, <1>c, <2>1, <2>2, <2>4, <2>5, <2>6, <2>7, <2>8
  <1>7. ASSUME NEW q \in Queues, NEW lease \in granted, MessageDelete(q, lease) PROVE Goal
    <2>1. UNCHANGED <<request, stamp, granted, birth>> /\ confirmed' = confirmed \ {lease.id}
      BY <1>7 DEF MessageDelete, Confirm
    <2>2. /\ QueueTypeOK' /\ QueueInv'
          /\ \A p \in Queues \ {q} : Box(p)' = Box(p)
          /\ \A i \in DOMAIN Box(q) : Box(q)[i].id # lease.id =>
               \E j \in DOMAIN Box(q)' : Box(q)'[j] = Box(q)[i]
          /\ \A i \in DOMAIN Box(q)' : \E j \in DOMAIN Box(q) : Box(q)'[i] = Box(q)[j]
      BY <1>0, <1>7, QueueDeleted
    <2>3. \A p \in Queues : \A x \in Ids(p) \cap confirmed' : x \in Ids(p)'
      <3> SUFFICES ASSUME NEW p \in Queues, NEW i \in DOMAIN Box(p), Box(p)[i].id \in confirmed'
                   PROVE  Box(p)[i].id \in Ids(p)'
        BY <1>0
      <3>1. Box(p)[i].id # lease.id
        BY <2>1
      <3> QED BY <1>0, <2>2, <3>1
    <2>4. QueueKeeps
      BY <2>1, <2>3 DEF QueueKeeps
    <2>5. ExpiredGone'
      BY <1>0, <2>1, <2>2 DEF ExpiredGone
    <2>6. Honoured
      BY <1>0, <2>1, NoLease
    <2>7. QueueArrivals
      BY <1>0, <1>d, <2>2
    <2> QED BY <1>a, <1>b, <1>c, <2>1, <2>2, <2>4, <2>5, <2>6, <2>7
  <1>8. ASSUME NEW q \in Queues, NEW lease \in granted, NEW vt \in Timeouts,
               MessageUpdate(q, lease, vt)
        PROVE  Goal
    <2>1. UNCHANGED <<request, confirmed, birth>> /\ stamp' = stamp + 1 /\ stamp' <= MaxStamp
      BY <1>8 DEF MessageUpdate, Draw
    <2>2. /\ QueueTypeOK' /\ QueueInv'
          /\ \A p \in Queues :
               /\ DOMAIN Box(p)' = DOMAIN Box(p)
               /\ \A i \in DOMAIN Box(p) : /\ Box(p)'[i].id = Box(p)[i].id
                                           /\ Box(p)'[i].expires = Box(p)[i].expires
          /\ \A g \in granted' : g.got => g \in granted
      BY <1>0, <1>8, QueueUpdated
    <2>3. \A p \in Queues : Ids(p)' = Ids(p)
      BY <2>2, IdsKept
    <2>4. QueueKeeps
      BY <2>1, <2>3 DEF QueueKeeps
    <2>5. ExpiredGone'
      BY <1>0, <2>1, <2>2 DEF ExpiredGone
    <2>6. Honoured
      BY <1>0, <2>2, NoLease
    <2>7. stamp' \in 0..MaxStamp /\ stamp <= stamp' /\ confirmed' \subseteq 1..stamp'
      BY <1>0, <2>1
    <2>8. QueueArrivals
      BY <1>d, <2>3
    <2> QED BY <1>a, <1>c, <2>1, <2>2, <2>4, <2>5, <2>6, <2>7, <2>8
  <1>9. CASE Elapse
    <2> DEFINE over == {id \in Stamps : \E q \in Queues : Open(q) /\
                    \E i \in DOMAIN queues[q] : queues[q][i].id = id /\ queues[q][i].expires = 1}
    <2>1. /\ UNCHANGED <<request, stamp, birth>> /\ confirmed' = confirmed \ over
          /\ granted' = {Later(g) : g \in granted}
      BY <1>9 DEF Elapse, Confirm, Later
    <2>2. /\ QueueTypeOK' /\ QueueInv'
          /\ \A p \in Queues :
               /\ DOMAIN Box(p)' = DOMAIN Box(p)
               /\ \A i \in DOMAIN Box(p) :
                    /\ Box(p)'[i].id = Box(p)[i].id
                    /\ Box(p)'[i].expires = Sooner(Box(p)[i].expires)
      BY <1>0, <1>9, QueueElapsed
    <2>3. \A p \in Queues : Ids(p)' = Ids(p)
      BY <2>2, IdsKept
    <2>4. QueueKeeps
      BY <2>1, <2>3 DEF QueueKeeps
    <2>5. ExpiredGone'
      <3> SUFFICES ASSUME NEW p \in Queues, NEW i \in DOMAIN Box(p), Box(p)'[i].expires = 0
                   PROVE  Box(p)[i].id \notin confirmed'
        BY <2>2 DEF ExpiredGone
      <3>1. Box(p)[i] \in Message /\ Box(p)[i].id \in 1..stamp
        BY <1>0, BoxType DEF QueueInv, IdsDrawn
      <3>2. Sooner(Box(p)[i].expires) = 0 /\ Box(p)[i].expires \in Timer
        BY <2>2, <3>1 DEF Message
      <3>3. Box(p)[i].expires = 0 \/ Box(p)[i].expires = 1
        BY <3>2 DEF Sooner, Timer, Forever
      <3>4. CASE Box(p)[i].expires = 0
        BY <1>0, <2>1, <3>4 DEF ExpiredGone
      <3>5. CASE Box(p)[i].expires = 1
        <4>1. Open(p) /\ queues[p] = Box(p)
          <5>1. DOMAIN Box(p) # {}
            OBVIOUS
          <5> QED BY <5>1 DEF Box
        <4>2. Box(p)[i].id \in Stamps
          BY <1>0, <3>1 DEF Stamps
        <4>3. Box(p)[i].id \in over
          BY <3>5, <4>1, <4>2
        <4> QED BY <2>1, <4>3
      <3> QED BY <3>3, <3>4, <3>5
    <2>6. Honoured
      <3>1. \A g \in granted : Later(g).receipt = g.receipt
        BY DataType, <1>0 DEF Later, Lease
      <3> QED BY <1>0, <2>1, <3>1, NoLease
    <2> HIDE DEF over
    <2>7. QueueArrivals
      BY <1>d, <2>3
    <2> QED BY <1>a, <1>b, <1>c, <2>1, <2>2, <2>4, <2>5, <2>6, <2>7
  <1> QED BY <1>1, <1>2, <1>3, <1>4, <1>5, <1>6, <1>7, <1>8, <1>9 DEF QueueNext

-----------------------------------------------------------------------------
\* What a table is and what it holds.
LEMMA TableType ==
  ASSUME TypeOK, NEW t \in Tables
  PROVE  /\ tables \in [Tables -> [Keys -> Entity \cup {Absent}] \cup {Absent}]
         /\ Has(t) => tables[t] \in [Keys -> Entity \cup {Absent}]
         /\ \A k \in Keys : At(t, k) => Has(t) /\ tables[t][k] \in Entity
         /\ Etags(t) = {tables[t][k].etag : k \in {key \in Keys : At(t, key)}}
  BY DEF TypeOK, TableTypeOK, Has, At, Etags

\* A step that changes what table t holds at key k.
LEMMA EntrySet ==
  ASSUME TypeOK, NEW t \in Tables, NEW k \in Keys, Has(t),
         NEW e \in Entity \cup {Absent}, tables' = [tables EXCEPT ![t][k] = e]
  PROVE  /\ tables' \in [Tables -> [Keys -> Entity \cup {Absent}] \cup {Absent}]
         /\ \A u \in Tables : Has(u)' <=> Has(u)
         /\ tables'[t][k] = e /\ (At(t, k)' <=> e # Absent)
         /\ \A u \in Tables, l \in Keys : ~(u = t /\ l = k) =>
              (At(u, l)' <=> At(u, l)) /\ tables'[u][l] = tables[u][l]
  <1> DEFINE f == [tables[t] EXCEPT ![k] = e]
  <1>1. tables[t] \in [Keys -> Entity \cup {Absent}]
    BY TableType
  <1>2. f \in [Keys -> Entity \cup {Absent}] /\ f[k] = e
        /\ \A l \in Keys \ {k} : f[l] = tables[t][l]
    BY <1>1
  <1>3. tables' = [tables EXCEPT ![t] = f]
    OBVIOUS
  <1> HIDE DEF f
  <1>4. f # Absent
    BY <1>2, TableAssumption
  <1>5. tables \in [Tables -> [Keys -> Entity \cup {Absent}] \cup {Absent}]
    BY TableType
  <1>6. tables' \in [Tables -> [Keys -> Entity \cup {Absent}] \cup {Absent}]
    BY <1>2, <1>3, <1>5
  <1>7. tables'[t] = f /\ \A u \in Tables \ {t} : tables'[u] = tables[u]
    BY <1>3, <1>5
  <1>8. \A u \in Tables : Has(u)' <=> Has(u)
    BY <1>4, <1>7 DEF Has
  <1> QED BY <1>2, <1>4, <1>6, <1>7, <1>8 DEF Has, At

\* A step that deletes table t or makes it an empty one.
LEMMA TableEmptied ==
  ASSUME TypeOK, NEW t \in Tables, NEW f,
         f = Absent \/ f = [k \in Keys |-> Absent], tables' = [tables EXCEPT ![t] = f]
  PROVE  /\ tables' \in [Tables -> [Keys -> Entity \cup {Absent}] \cup {Absent}]
         /\ \A k \in Keys : ~At(t, k)'
         /\ \A u \in Tables \ {t} : (Has(u)' <=> Has(u)) /\ tables'[u] = tables[u]
  BY TableType DEF Has, At

\* What a step does to the entities: each is one that was there, or has a fresh etag
\* and is the only version under it; and one that goes is not counted on.
EntitiesMove ==
  /\ \A t \in Tables, k \in Keys : At(t, k)' =>
       \/ At(t, k) /\ tables'[t][k] = tables[t][k]
       \/ /\ tables'[t][k].etag = stamp + 1 /\ stamp' = stamp + 1
          /\ versions' = versions \cup {tables'[t][k]}
  /\ \A t \in Tables, k \in Keys : At(t, k) =>
       \/ At(t, k)' /\ tables'[t][k] = tables[t][k]
       \/ tables[t][k].etag \notin confirmed'
  /\ \/ UNCHANGED <<stamp, versions>> /\ confirmed' \subseteq confirmed
     \/ \E t \in Tables, k \in Keys :
          /\ At(t, k)' /\ tables'[t][k].etag = stamp + 1 /\ stamp' = stamp + 1
          /\ versions' = versions \cup {tables'[t][k]}
          /\ confirmed' \subseteq confirmed \cup {stamp + 1}
  /\ stamp' <= MaxStamp

\* The steps of the table store move entities so.
LEMMA WrittenMoves ==
  ASSUME Inv, NEW t \in Tables, NEW k \in Keys, Has(t), NEW v \in SUBSET Stamps,
         NEW replaced, EtagAt(t, k) \subseteq replaced, Written(t, k, v, replaced)
  PROVE  /\ EntitiesMove /\ versions' \subseteq Entity /\ \A u \in Tables : Has(u)' <=> Has(u)
         /\ tables' \in [Tables -> [Keys -> Entity \cup {Absent}] \cup {Absent}]
  <1>2. TypeOK /\ stamp \in Nat /\ MaxStamp \in Nat /\ versions \subseteq Entity
    BY DataType DEF Inv, TypeOK, TableTypeOK
  <1>3. PICK new \in Entity : new = [etag |-> stamp + 1, value |-> v] /\ new.etag = stamp + 1
    <2>1. stamp + 1 \in Stamps
      BY <1>2 DEF Written, Draw, Stamps
    <2>2. [etag |-> stamp + 1, value |-> v] \in Entity
      BY <2>1 DEF Entity
    <2> QED BY <2>2
  <1>1. /\ stamp' = stamp + 1 /\ stamp' <= MaxStamp
        /\ tables' = [tables EXCEPT ![t][k] = new] /\ versions' = versions \cup {new}
        /\ confirmed' = (confirmed \ replaced) \cup {stamp + 1}
    BY <1>3 DEF Written, Draw, Confirm
  <1>7. new # Absent
    BY TableAssumption
  <1>4. /\ tables' \in [Tables -> [Keys -> Entity \cup {Absent}] \cup {Absent}]
        /\ \A u \in Tables : Has(u)' <=> Has(u)
        /\ tables'[t][k] = new /\ At(t, k)'
        /\ \A u \in Tables, l \in Keys : ~(u = t /\ l = k) =>
              (At(u, l)' <=> At(u, l)) /\ tables'[u][l] = tables[u][l]
    <2>1. new \in Entity \cup {Absent}
      OBVIOUS
    <2>2. TypeOK /\ tables' = [tables EXCEPT ![t][k] = new]
      BY <1>1, <1>2
    <2>3. tables' \in [Tables -> [Keys -> Entity \cup {Absent}] \cup {Absent}]
      BY <2>1, <2>2, EntrySet
    <2>4. \A u \in Tables : Has(u)' <=> Has(u)
      BY <2>1, <2>2, EntrySet
    <2>5. tables'[t][k] = new /\ (At(t, k)' <=> new # Absent)
      BY <2>1, <2>2, EntrySet
    <2>6. \A u \in Tables, l \in Keys : ~(u = t /\ l = k) =>
              (At(u, l)' <=> At(u, l)) /\ tables'[u][l] = tables[u][l]
      <3> DEFINE Others(e) == \A u \in Tables, l \in Keys : ~(u = t /\ l = k) =>
                                (At(u, l)' <=> At(u, l)) /\ tables'[u][l] = tables[u][l]
      <3>1. \A e \in Entity \cup {Absent} :
              tables' = [tables EXCEPT ![t][k] = e] => Others(e)
        BY <1>2, EntrySet
      <3>2. Others(new)
        BY <2>1, <2>2, <3>1
      <3> QED BY <3>2
    <2> QED BY <1>7, <2>3, <2>4, <2>5, <2>6
  <1>5. At(t, k) => tables[t][k].etag \notin confirmed'
    <2> SUFFICES ASSUME At(t, k) PROVE tables[t][k].etag \notin confirmed'
      OBVIOUS
    <2>1. tables[t][k] \in versions
      BY DEF Inv, EtagNamesContent
    <2>2. tables[t][k].etag <= stamp
      BY <2>1 DEF Inv, Drawn
    <2>3. tables[t][k].etag # stamp + 1
      BY <1>2, <2>2
    <2>4. tables[t][k].etag \in replaced
      BY DEF EtagAt
    <2> QED BY <1>1, <2>3, <2>4
  <1>6. EntitiesMove
    BY <1>1, <1>3, <1>4, <1>5 DEF EntitiesMove
  <1> QED BY <1>1, <1>2, <1>3, <1>4, <1>6

\* A table that goes, with all it holds.
LEMMA EmptiedMoves ==
  ASSUME Inv, NEW t \in Tables, NEW f, f = Absent \/ f = [k \in Keys |-> Absent],
         tables' = [tables EXCEPT ![t] = f], confirmed' = confirmed \ Etags(t),
         UNCHANGED <<stamp, versions>>
  PROVE  /\ EntitiesMove /\ versions' \subseteq Entity
         /\ \A u \in Tables \ {t} : Has(u)' <=> Has(u)
         /\ tables' \in [Tables -> [Keys -> Entity \cup {Absent}] \cup {Absent}]
  <1>1. TypeOK /\ stamp <= MaxStamp /\ versions \subseteq Entity
    BY DataType DEF Inv, TypeOK, TableTypeOK
  <1>2. /\ tables' \in [Tables -> [Keys -> Entity \cup {Absent}] \cup {Absent}]
        /\ \A k \in Keys : ~At(t, k)'
        /\ \A u \in Tables \ {t} : (Has(u)' <=> Has(u)) /\ tables'[u] = tables[u]
    BY <1>1, TableEmptied
  <1>3. \A k \in Keys : At(t, k) => tables[t][k].etag \in Etags(t)
    BY DEF Etags
  <1>4. \A u \in Tables \ {t}, k \in Keys : At(u, k)' <=> At(u, k)
    BY <1>2 DEF At
  <1>5. EntitiesMove
    BY <1>1, <1>2, <1>3, <1>4 DEF EntitiesMove
  <1> QED BY <1>1, <1>2, <1>5

\* An entity that is removed.
LEMMA RemovedMoves ==
  ASSUME Inv, NEW t \in Tables, NEW k \in Keys, Has(t), RemoveEntity(t, k)
  PROVE  /\ EntitiesMove /\ versions' \subseteq Entity /\ \A u \in Tables : Has(u)' <=> Has(u)
         /\ tables' \in [Tables -> [Keys -> Entity \cup {Absent}] \cup {Absent}]
  <1>1. TypeOK /\ stamp <= MaxStamp /\ versions \subseteq Entity
    BY DataType DEF Inv, TypeOK, TableTypeOK
  <1>2. /\ tables' = [tables EXCEPT ![t][k] = Absent] /\ UNCHANGED <<stamp, versions>>
        /\ confirmed' = confirmed \ (IF At(t, k) THEN {tables[t][k].etag} ELSE {})
    BY DEF RemoveEntity, Confirm, EtagAt
  <1>3. /\ tables' \in [Tables -> [Keys -> Entity \cup {Absent}] \cup {Absent}]
        /\ \A u \in Tables : Has(u)' <=> Has(u)
        /\ ~At(t, k)'
        /\ \A u \in Tables, l \in Keys : ~(u = t /\ l = k) =>
              (At(u, l)' <=> At(u, l)) /\ tables'[u][l] = tables[u][l]
    BY <1>1, <1>2, EntrySet
  <1>4. EntitiesMove
    BY <1>1, <1>2, <1>3 DEF EntitiesMove
  <1> QED BY <1>1, <1>2, <1>3, <1>4

\* What every step that moves entities so keeps.
LEMMA MovedKeeps ==
  ASSUME Inv, EntitiesMove, versions' \subseteq Entity
  PROVE  /\ EtagNamesContent' /\ TableKeeps
         /\ stamp' \in 0..MaxStamp /\ stamp <= stamp' /\ Drawn'
         /\ \A t \in Tables, k \in Keys : At(t, k)' =>
              \/ At(t, k) /\ tables'[t][k] = tables[t][k]
              \/ tables'[t][k].etag > stamp
  <1>1. /\ TypeOK /\ stamp \in Nat /\ stamp <= MaxStamp /\ MaxStamp \in Nat
        /\ versions \subseteq Entity /\ confirmed \subseteq 1..stamp
        /\ \A v \in versions : v.etag <= stamp
        /\ \A v, w \in versions : v.etag = w.etag => v = w
        /\ \A t \in Tables, k \in Keys : At(t, k) => tables[t][k] \in versions
    BY DataType DEF Inv, TypeOK, TableTypeOK, Drawn, EtagNamesContent
  <1>2. stamp' = stamp \/ stamp' = stamp + 1
    BY DEF EntitiesMove
  <1>3. stamp' \in 0..MaxStamp /\ stamp <= stamp'
    BY <1>1, <1>2 DEF EntitiesMove
  <1>4. Drawn' /\ \A v, w \in versions' : v.etag = w.etag => v = w
    <2>1. CASE UNCHANGED <<stamp, versions>> /\ confirmed' \subseteq confirmed
      BY <1>1, <2>1 DEF Drawn
    <2>2. CASE \E t \in Tables, k \in Keys :
                 /\ At(t, k)' /\ tables'[t][k].etag = stamp + 1 /\ stamp' = stamp + 1
                 /\ versions' = versions \cup {tables'[t][k]}
                 /\ confirmed' \subseteq confirmed \cup {stamp + 1}
      <3>1. PICK e : /\ e.etag = stamp + 1 /\ stamp' = stamp + 1
                     /\ versions' = versions \cup {e}
                     /\ confirmed' \subseteq confirmed \cup {stamp + 1}
        BY <2>2
      <3>2. confirmed' \subseteq 1..stamp'
        <4>1. 1..stamp \cup {stamp + 1} \subseteq 1..(stamp + 1)
          BY <1>1
        <4> QED BY <1>1, <3>1, <4>1
      <3>3. \A v \in versions : v.etag \in Nat /\ v.etag # stamp + 1 /\ v.etag <= stamp + 1
        BY <1>1 DEF Entity, Stamps
      <3>4. \A v \in versions' : v.etag <= stamp'
        BY <1>1, <3>1, <3>3
      <3>5. \A v, w \in versions' : v.etag = w.etag => v = w
        BY <1>1, <3>1, <3>3
      <3> QED BY <3>2, <3>4, <3>5 DEF Drawn
    <2> QED BY <2>1, <2>2 DEF EntitiesMove
  <1>5. \A t \in Tables, k \in Keys : At(t, k)' => tables'[t][k] \in versions'
    <2>1. versions \subseteq versions'
      BY DEF EntitiesMove
    <2> QED BY <1>1, <2>1 DEF EntitiesMove
  <1>6. TableKeeps
    <2>1. \A t \in Tables, k \in Keys : At(t, k)' => tables'[t][k].etag \in Etags(t)'
      BY DEF Etags, At, Has
    <2>2. \A x \in confirmed' : x \in confirmed \/ \E t \in Tables : x \in Etags(t)'
      BY <2>1 DEF EntitiesMove
    <2>3. \A t \in Tables : \A x \in Etags(t) \cap confirmed' : x \in Etags(t)'
      <3> SUFFICES ASSUME NEW t \in Tables, NEW k \in Keys, At(t, k),
                          tables[t][k].etag \in confirmed'
                   PROVE  tables[t][k].etag \in Etags(t)'
        BY DEF Etags
      <3>1. At(t, k)' /\ tables'[t][k] = tables[t][k]
        BY DEF EntitiesMove
      <3> QED BY <2>1, <3>1
    <2> QED BY <2>2, <2>3 DEF TableKeeps
  <1>7. \A t \in Tables, k \in Keys : At(t, k)' =>
              \/ At(t, k) /\ tables'[t][k] = tables[t][k]
              \/ tables'[t][k].etag > stamp
    <2>1. stamp + 1 > stamp
      BY <1>1
    <2> QED BY <2>1 DEF EntitiesMove
  <1> QED BY <1>3, <1>4, <1>5, <1>6, <1>7 DEF EtagNamesContent

\* Every step of the table store.
LEMMA TableStep ==
  ASSUME Inv, TableNext
  PROVE  /\ TableTypeOK' /\ EtagNamesContent' /\ Compared' /\ GuardsHold' /\ TableKeeps
         /\ request' \in [Clients -> {Idle} \cup QueueRequest \cup TableRequest \cup BlobRequest]
         /\ stamp' \in 0..MaxStamp /\ stamp <= stamp' /\ Drawn'
         /\ confirmed' \subseteq confirmed \cup {stamp'}
         /\ confirmed' \subseteq confirmed \/ stamp' = stamp + 1
         /\ NewLooks /\ TableArrivals
  <1> DEFINE Requests == {Idle} \cup QueueRequest \cup TableRequest \cup BlobRequest
             Others(c) == \A d \in Clients \ {c} : request'[d] = request[d]
             Moved == EntitiesMove /\ versions' \subseteq Entity
             Typed == tables' \in [Tables -> [Keys -> Entity \cup {Absent}] \cup {Absent}]
             Guards == \A c \in Clients, t \in Tables :
               request'[c] = request[c] /\ request[c].op \in EntityOps
                 /\ t = request[c].table => Has(t)'
             FreshGuard == \A c \in Clients, t \in Tables :
               request'[c] # request[c] /\ request'[c].op \in EntityOps
                 /\ t = request'[c].table => Has(t)'
             FreshDelete == \A c \in Clients :
               request'[c] # request[c] /\ request'[c].op = "delete_entity" =>
                 /\ request'[c].since = stamp /\ UNCHANGED tables
                 /\ tables[request'[c].table][request'[c].key].etag = request'[c].if_match
             Fresh == FreshGuard /\ FreshDelete /\ NewLooks
             Goal == Moved /\ Typed /\ Guards /\ Fresh /\ request' \in [Clients -> Requests]
  <1>0. /\ TypeOK /\ stamp \in Nat /\ request \in [Clients -> Requests]
        /\ stamp <= MaxStamp /\ versions \subseteq Entity
        /\ \A c \in Clients : request[c].op \in EntityOps =>
             /\ Has(request[c].table) /\ request[c].table \in Tables /\ request[c].key \in Keys
    BY DataType, RequestType DEF Inv, TypeOK, TableTypeOK, GuardsHold
  <1>1. ASSUME UNCHANGED <<tables, versions, stamp>>, confirmed' = confirmed
        PROVE  Moved /\ Typed /\ Guards
    BY <1>0, <1>1 DEF EntitiesMove, At, Has, TypeOK, TableTypeOK
  <1>2. ASSUME NEW c \in Clients, NEW t \in Tables, TablePut(c, t) PROVE Goal
    <2> DEFINE r == [op |-> "create_table", table |-> t, since |-> stamp]
    <2>1. r \in Requests /\ request' = [request EXCEPT ![c] = r]
          /\ UNCHANGED <<tables, versions, stamp>> /\ confirmed' = confirmed
      BY <1>0, <1>2, DataType DEF TablePut, Begin, TableRequest, tableVars
    <2>2. request' \in [Clients -> Requests] /\ request'[c] = r /\ Others(c)
      BY <1>0, <2>1, RequestStep
    <2>3. r.op = "create_table" /\ r.table = t /\ r.since = stamp
      OBVIOUS
    <2> HIDE DEF r
    <2>4. \A x : ~Stands(r, x)
      BY <1>2, <2>3 DEF Stands, TablePut, Etags, At
    <2>5. NewLooks
      BY <2>2, <2>3, <2>4 DEF NewLooks
    <2> QED BY <1>1, <2>1, <2>2, <2>3, <2>5 DEF EntityOps
  <1>3. ASSUME NEW c \in Clients, TableInsert(c) PROVE Goal
    <2>1. PICK t \in Tables : t = request[c].table
      BY <1>0, <1>3, RequestType DEF TableInsert, End
    <2>2. /\ request[c].op = "create_table" /\ request' = [request EXCEPT ![c] = Idle]
          /\ ~Guarded(t) /\ tables' = [tables EXCEPT ![t] = [k \in Keys |-> Absent]]
          /\ confirmed' = confirmed \ Overtaken(c, Etags(t)) /\ UNCHANGED <<stamp, versions>>
      BY <1>3, <2>1 DEF TableInsert, End, Confirm
    <2>6. Overtaken(c, Etags(t)) = Etags(t)
      <3>1. \A x \in Etags(t) : Stands(request[c], x)
        BY <2>1, <2>2 DEF Stands
      <3> QED BY <2>2, <3>1, OvertakesAll DEF Inv, Creations
    <2>3. request' \in [Clients -> Requests] /\ request'[c] = Idle /\ Others(c)
      BY <1>0, <2>2, RequestStep
    <2>4. Moved /\ Typed /\ \A u \in Tables \ {t} : Has(u)' <=> Has(u)
      BY <2>2, <2>6, EmptiedMoves
    <2>5. Guards
      BY <1>0, <2>2, <2>3, <2>4 DEF Guarded, Has
    <2>7. NewLooks
      BY <2>3 DEF NewLooks, Idle, Creations
    <2> QED BY <2>3, <2>4, <2>5, <2>7 DEF Idle, EntityOps
  <1>4. ASSUME NEW t \in Tables, TableDelete(t) PROVE Goal
    <2>1. /\ ~Guarded(t) /\ tables' = [tables EXCEPT ![t] = Absent]
          /\ confirmed' = confirmed \ Etags(t) /\ UNCHANGED <<request, stamp, versions>>
      BY <1>4 DEF TableDelete, Confirm
    <2>2. Moved /\ Typed /\ \A u \in Tables \ {t} : Has(u)' <=> Has(u)
      BY <2>1, EmptiedMoves
    <2>3. Guards
      BY <1>0, <2>1, <2>2 DEF Guarded, Has
    <2> QED BY <1>0, <2>1, <2>2, <2>3 DEF NewLooks
  <1>5. ASSUME NEW c \in Clients, NEW t \in Tables, NEW k \in Keys, ResourcePost(c, t, k)
        PROVE  Goal
    <2> DEFINE r == [op |-> "insert_entity", table |-> t, key |-> k, since |-> stamp]
    <2>1. r \in Requests /\ request' = [request EXCEPT ![c] = r] /\ Has(t)
          /\ UNCHANGED <<tables, versions, stamp>> /\ confirmed' = confirmed
      BY <1>0, <1>5, DataType DEF ResourcePost, Begin, TableRequest, tableVars
    <2>2. request' \in [Clients -> Requests] /\ request'[c] = r /\ Others(c)
      BY <1>0, <2>1, RequestStep
    <2>3. r.op = "insert_entity" /\ r.table = t /\ r.key = k /\ r.since = stamp
      OBVIOUS
    <2>4. Has(t)'
      BY <2>1 DEF Has
    <2> HIDE DEF r
    <2>5. FreshGuard
      BY <2>2, <2>3, <2>4
    <2>6. FreshDelete
      BY <2>2, <2>3
    <2>7. \A x : ~Stands(r, x)
      BY <1>5, <2>3 DEF Stands, ResourcePost, EtagAt
    <2>8. NewLooks
      BY <2>2, <2>3, <2>7 DEF NewLooks
    <2> QED BY <1>1, <2>1, <2>2, <2>5, <2>6, <2>8
  <1>6. ASSUME NEW c \in Clients, NEW t \in Tables, NEW k \in Keys, NEW v \in versions,
               ResourceDelete(c, t, k, v.etag)
        PROVE  Goal
    <2>1. PICK r : r = [op |-> "delete_entity", table |-> t, key |-> k,
                        if_match |-> v.etag, since |-> stamp]
      OBVIOUS
    <2>2. v.etag \in Stamps /\ stamp \in 0..MaxStamp
      BY <1>0 DEF Entity, TypeOK
    <2>3. r \in Requests
      BY <2>1, <2>2 DEF TableRequest
    <2>4. /\ request' = [request EXCEPT ![c] = r] /\ At(t, k) /\ tables[t][k].etag = v.etag
          /\ UNCHANGED <<tables, versions, stamp>> /\ confirmed' = confirmed
      BY <1>6, <2>1 DEF ResourceDelete, Matches, Begin, tableVars
    <2>5. request' \in [Clients -> Requests] /\ request'[c] = r /\ Others(c)
      BY <1>0, <2>3, <2>4, RequestStep
    <2>6. r.table = t /\ r.key = k /\ r.since = stamp /\ r.if_match = v.etag
          /\ r.op = "delete_entity"
      BY <2>1
    <2>7. Has(t)'
      BY <2>4 DEF At, Has
    <2>8. FreshGuard
      BY <2>5, <2>6, <2>7
    <2>9. FreshDelete
      BY <2>4, <2>5, <2>6
    <2>10. NewLooks
      BY <2>5, <2>6 DEF NewLooks, Creations
    <2> QED BY <1>1, <2>4, <2>5, <2>8, <2>9, <2>10
  <1>7. ASSUME NEW c \in Clients, EntityInsert(c) PROVE Goal
    <2>0. request[c].op \in EntityOps
      BY <1>7 DEF EntityInsert, End, EntityOps
    <2>1. PICK t \in Tables, k \in Keys : t = request[c].table /\ k = request[c].key
      BY <1>0, <2>0
    <2>2. PICK v \in SUBSET Stamps : v = {stamp + 1}
      BY <1>0, <1>7, DataType DEF EntityInsert, Written, Draw, Stamps
    <2>7. request[c].op = "insert_entity" /\ Overtaken(c, EtagAt(t, k)) = EtagAt(t, k)
      <3>1. request[c].op = "insert_entity"
        BY <1>7 DEF EntityInsert, End
      <3>2. \A x \in EtagAt(t, k) : Stands(request[c], x)
        BY <2>1, <3>1 DEF Stands
      <3> QED BY <3>1, <3>2, OvertakesAll DEF Inv, Creations
    <2>3. /\ Has(t) /\ request' = [request EXCEPT ![c] = Idle]
          /\ Written(t, k, v, EtagAt(t, k))
      BY <1>0, <1>7, <2>0, <2>1, <2>2, <2>7 DEF EntityInsert, End
    <2>4. request' \in [Clients -> Requests] /\ request'[c] = Idle /\ Others(c)
      BY <1>0, <2>3, RequestStep
    <2>5. Moved /\ Typed /\ \A u \in Tables : Has(u)' <=> Has(u)
      BY <2>3, WrittenMoves
    <2>6. Guards
      BY <1>0, <2>5 DEF Has
    <2>8. NewLooks
      BY <2>4 DEF NewLooks, Idle, Creations
    <2> QED BY <2>4, <2>5, <2>6, <2>8 DEF Idle, EntityOps
  <1>8. ASSUME NEW c \in Clients, EntityDelete(c) PROVE Goal
    <2>0. request[c].op \in EntityOps
      BY <1>8 DEF EntityDelete, End, EntityOps
    <2>1. PICK t \in Tables, k \in Keys : t = request[c].table /\ k = request[c].key
      BY <1>0, <2>0
    <2>3. Has(t) /\ RemoveEntity(t, k) /\ request' = [request EXCEPT ![c] = Idle]
      BY <1>0, <1>8, <2>0, <2>1 DEF EntityDelete, End
    <2>4. request' \in [Clients -> Requests] /\ request'[c] = Idle /\ Others(c)
      BY <1>0, <2>3, RequestStep
    <2>5. Moved /\ Typed /\ \A u \in Tables : Has(u)' <=> Has(u)
      BY <2>3, RemovedMoves
    <2>6. Guards
      BY <1>0, <2>5 DEF Has
    <2>7. NewLooks
      BY <2>4 DEF NewLooks, Idle, Creations
    <2> QED BY <2>4, <2>5, <2>6, <2>7 DEF Idle, EntityOps
  <1>9. ASSUME NEW t \in Tables, NEW k \in Keys, EntityDeleteAny(t, k) PROVE Goal
    <2>1. Has(t) /\ RemoveEntity(t, k) /\ request' = request
      BY <1>9 DEF EntityDeleteAny, At
    <2>2. Moved /\ Typed /\ \A u \in Tables : Has(u)' <=> Has(u)
      BY <2>1, RemovedMoves
    <2>3. Guards
      BY <1>0, <2>2 DEF Has
    <2> QED BY <1>0, <2>1, <2>2, <2>3 DEF NewLooks
  <1>10. ASSUME NEW t \in Tables, NEW k \in Keys, NEW merge \in BOOLEAN,
                NEW if_match \in {Always} \cup {v.etag : v \in versions},
                UpsertOrUpdate(t, k, merge, if_match)
         PROVE  Goal
    <2>1. At(t, k) => tables[t][k].value \in SUBSET Stamps
      BY <1>0, TableType DEF Entity
    <2>2. stamp + 1 \in Stamps
      BY <1>0, <1>10, DataType
         DEF UpsertOrUpdate, Upsert, Update, Written, Draw, Stamps
    <2>3. PICK v \in SUBSET Stamps : Written(t, k, v, EtagAt(t, k))
      <3>1. CASE Upsert(t, k, merge)
        BY <2>1, <2>2, <3>1 DEF Upsert
      <3>2. CASE Update(t, k, merge, if_match)
        <4>1. At(t, k) /\ EtagAt(t, k) = {if_match}
          BY <3>2 DEF Update, EtagAt
        <4> QED BY <2>1, <2>2, <3>2, <4>1 DEF Update
      <3> QED BY <1>10, <3>1, <3>2 DEF UpsertOrUpdate
    <2>4. Has(t) /\ request' = request
      BY <1>10 DEF UpsertOrUpdate
    <2>5. Moved /\ Typed /\ \A u \in Tables : Has(u)' <=> Has(u)
      BY <2>3, <2>4, WrittenMoves
    <2>6. Guards
      BY <1>0, <2>5 DEF Has
    <2> QED BY <1>0, <2>4, <2>5, <2>6 DEF NewLooks
  <1>11. Goal
    BY <1>2, <1>3, <1>4, <1>5, <1>6, <1>7, <1>8, <1>9, <1>10 DEF TableNext
  <1>12. /\ EtagNamesContent' /\ TableKeeps
         /\ stamp' \in 0..MaxStamp /\ stamp <= stamp' /\ Drawn'
         /\ \A t \in Tables, k \in Keys : At(t, k)' =>
              \/ At(t, k) /\ tables'[t][k] = tables[t][k]
              \/ tables'[t][k].etag > stamp
    BY <1>11, MovedKeeps
  <1>13. GuardsHold'
    <2> SUFFICES ASSUME NEW c \in Clients, NEW r, r = request'[c], r.op \in EntityOps
                 PROVE  Has(r.table)'
      BY DEF GuardsHold, Has
    <2>1. r \in Requests
      BY <1>11
    <2>2. r.table \in Tables
      BY <2>1 DEF Idle, QueueRequest, TableRequest, BlobRequest, EntityOps
    <2> QED BY <1>11, <2>2
  <1>14. Compared'
    <2> SUFFICES ASSUME NEW c \in Clients, NEW r, r = request'[c], r.op = "delete_entity"
                 PROVE  /\ r.since <= stamp'
                        /\ At(r.table, r.key)' =>
                             \/ tables'[r.table][r.key].etag = r.if_match
                             \/ tables'[r.table][r.key].etag > r.since
      BY DEF Compared, At, Has
    <2>0. r \in Requests
      BY <1>11
    <2>1. r.table \in Tables /\ r.key \in Keys /\ r.since \in Nat
      BY <2>0, <1>0, DataType DEF Idle, QueueRequest, TableRequest, BlobRequest
    <2> DEFINE t == r.table
               k == r.key
    <2>2. CASE r = request[c]
      <3>1. /\ r.since <= stamp
            /\ At(t, k) => tables[t][k].etag = r.if_match \/ tables[t][k].etag > r.since
        BY <2>2 DEF Inv, Compared
      <3>2. At(t, k)' => tables'[t][k].etag \in Nat
        BY <1>11, <1>12, <2>1 DEF EtagNamesContent, Entity, Stamps
      <3>3. r.since <= stamp' /\ \A e \in Nat : e > stamp => e > r.since
        BY <1>0, <1>12, <2>1, <3>1
      <3>4. At(t, k)' => \/ At(t, k) /\ tables'[t][k] = tables[t][k]
                        \/ tables'[t][k].etag > stamp
        BY <1>12, <2>1
      <3> QED BY <3>1, <3>2, <3>3, <3>4
    <2>3. CASE r # request[c]
      BY <1>0, <1>11, <1>12, <2>3
    <2> QED BY <2>2, <2>3
  <1>15. /\ confirmed' \subseteq confirmed \cup {stamp'}
         /\ confirmed' \subseteq confirmed \/ stamp' = stamp + 1
    BY <1>11 DEF EntitiesMove
  <1>16. TableArrivals
    BY <1>11 DEF EntitiesMove, TableArrivals, EtagAt
  <1> QED BY <1>11, <1>12, <1>13, <1>14, <1>15, <1>16 DEF TableTypeOK

-----------------------------------------------------------------------------
\* A step that gives container n the blobs f.
LEMMA BlobsSet ==
  ASSUME TypeOK, NEW n \in Containers,
         NEW f \in [Blobs -> Stamps \cup {Absent}] \cup {Absent},
         containers' = [containers EXCEPT ![n] = f],
         \A b \in Listed(n) : containers[n][b] \in confirmed' =>
           f # Absent /\ \E a \in Blobs : f[a] = containers[n][b],
         \A x \in confirmed' : x \in confirmed \/ (f # Absent /\ \E a \in Blobs : f[a] = x),
         confirmed' \subseteq Stamps
  PROVE  BlobTypeOK' /\ BlobKeeps
  <1>1. containers \in [Containers -> [Blobs -> Stamps \cup {Absent}] \cup {Absent}]
    BY DEF TypeOK, BlobTypeOK
  <1>2. BlobTypeOK'
    BY <1>1 DEF BlobTypeOK
  <1>3. \A o \in Containers \ {n} : BlobEtags(o)' = BlobEtags(o)
    BY <1>1 DEF BlobEtags, Listed, Exists
  <1>4. \A x \in Stamps : f # Absent /\ (\E a \in Blobs : f[a] = x) => x \in BlobEtags(n)'
    <2> SUFFICES ASSUME f # Absent, NEW a \in Blobs, f[a] \in Stamps
                 PROVE  f[a] \in BlobEtags(n)'
      OBVIOUS
    <2>1. containers'[n] = f /\ f[a] # Absent
      BY <1>1, BlobAssumption
    <2> QED BY <2>1 DEF BlobEtags, Listed, Exists
  <1>5. \A x \in BlobEtags(n) \cap confirmed' : x \in BlobEtags(n)'
    BY <1>4 DEF BlobEtags
  <1>6. \A x \in confirmed' : x \in confirmed \/ x \in BlobEtags(n)'
    BY <1>4
  <1>7. \A o \in Containers : \A x \in BlobEtags(o) \cap confirmed' : x \in BlobEtags(o)'
    BY <1>3, <1>5
  <1> QED BY <1>2, <1>6, <1>7 DEF BlobKeeps

\* What that adds to the container.
LEMMA BlobsArrive ==
  ASSUME TypeOK, NEW n \in Containers,
         NEW f \in [Blobs -> Stamps \cup {Absent}] \cup {Absent},
         containers' = [containers EXCEPT ![n] = f],
         f # Absent => \A b \in Blobs : \/ f[b] = Absent \/ f[b] = stamp + 1
                                        \/ b \in Listed(n) /\ f[b] = containers[n][b]
  PROVE  BlobArrivals
  <1>1. containers \in [Containers -> [Blobs -> Stamps \cup {Absent}] \cup {Absent}]
    BY DEF TypeOK, BlobTypeOK
  <1>2. \A o \in Containers \ {n} : BlobEtags(o)' = BlobEtags(o)
    BY <1>1 DEF BlobEtags, Listed, Exists
  <1>3. \A x \in BlobEtags(n)' : x \in BlobEtags(n) \/ x = stamp + 1
    <2>1. containers'[n] = f
      BY <1>1
    <2>2. \A x \in BlobEtags(n)' : f # Absent /\ \E b \in Blobs : f[b] = x /\ x # Absent
      BY <2>1 DEF BlobEtags, Listed, Exists
    <2> QED BY <2>2 DEF BlobEtags
  <1> QED BY <1>2, <1>3 DEF BlobArrivals

\* Every step of the blob store.
LEMMA BlobStep ==
  ASSUME Inv, BlobNext
  PROVE  /\ BlobTypeOK' /\ BlobKeeps
         /\ request' \in [Clients -> {Idle} \cup QueueRequest \cup TableRequest \cup BlobRequest]
         /\ \A c \in Clients : request'[c] = request[c] \/ request'[c].op \notin EntityOps
         /\ stamp' \in 0..MaxStamp /\ stamp <= stamp'
         /\ confirmed' \subseteq confirmed \cup {stamp'}
         /\ confirmed' \subseteq confirmed \/ stamp' = stamp + 1
         /\ NewLooks /\ BlobArrivals
  <1> DEFINE Requests == {Idle} \cup QueueRequest \cup TableRequest \cup BlobRequest
             Held == [Blobs -> Stamps \cup {Absent}]
             Asked == /\ request' \in [Clients -> Requests] /\ NewLooks
                      /\ \A c \in Clients :
                           request'[c] = request[c] \/ request'[c].op \notin EntityOps
             Counted == /\ stamp' \in 0..MaxStamp /\ stamp <= stamp'
                        /\ confirmed' \subseteq confirmed \cup {stamp'}
                        /\ confirmed' \subseteq confirmed \/ stamp' = stamp + 1
             Goal == BlobTypeOK' /\ BlobKeeps /\ Asked /\ Counted /\ BlobArrivals
  <1>0. /\ TypeOK /\ stamp \in Nat /\ stamp <= MaxStamp /\ MaxStamp \in Nat
        /\ request \in [Clients -> Requests] /\ confirmed \subseteq Stamps
        /\ containers \in [Containers -> Held \cup {Absent}]
    BY DataType DEF Inv, TypeOK, BlobTypeOK
  <1>1. ASSUME request' = request PROVE Asked
    BY <1>0, <1>1 DEF NewLooks
  <1>2. ASSUME stamp' = stamp, confirmed' \subseteq confirmed PROVE Counted
    BY <1>0, <1>2
  <1>3. ASSUME NEW c \in Clients, NEW n \in Containers, ContainerPut(c, n) PROVE Goal
    <2> DEFINE r == [op |-> "create_container", name |-> n, since |-> stamp]
    <2>1. r \in Requests /\ request' = [request EXCEPT ![c] = r]
          /\ UNCHANGED <<stamp, confirmed, containers>>
      BY <1>0, <1>3 DEF ContainerPut, Begin, BlobRequest
    <2>2. request' \in [Clients -> Requests] /\ request'[c] = r
          /\ \A d \in Clients \ {c} : request'[d] = request[d]
      BY <1>0, <2>1, RequestStep
    <2>3. r.op = "create_container" /\ r.name = n /\ r.since = stamp
      OBVIOUS
    <2> HIDE DEF r
    <2>6. \A x : ~Stands(r, x)
      BY <1>3, <2>3 DEF Stands, ContainerPut, BlobEtags, Listed
    <2>7. NewLooks
      BY <2>2, <2>3, <2>6 DEF NewLooks
    <2>4. Asked
      BY <2>2, <2>3, <2>7 DEF EntityOps
    <2>5. BlobTypeOK' /\ BlobKeeps /\ BlobArrivals
      BY <1>0, <2>1 DEF BlobTypeOK, BlobKeeps, BlobArrivals, BlobEtags, Listed, Exists
    <2> QED BY <1>2, <2>1, <2>4, <2>5
  <1>4. ASSUME NEW c \in Clients, ContainerInsert(c) PROVE Goal
    <2>1. PICK n \in Containers : n = request[c].name
      BY <1>0, <1>4, RequestType DEF ContainerInsert, End
    <2>7. request[c].op = "create_container" /\ Overtaken(c, BlobEtags(n)) = BlobEtags(n)
      <3>1. request[c].op = "create_container"
        BY <1>4 DEF ContainerInsert, End
      <3>2. \A x \in BlobEtags(n) : Stands(request[c], x)
        BY <2>1, <3>1 DEF Stands
      <3> QED BY <3>1, <3>2, OvertakesAll DEF Inv, Creations
    <2>2. /\ request' = [request EXCEPT ![c] = Idle] /\ stamp' = stamp
          /\ containers' = [containers EXCEPT ![n] = Empty]
          /\ confirmed' = confirmed \ BlobEtags(n)
      BY <1>4, <2>1, <2>7 DEF ContainerInsert, End, Confirm
    <2>3. request' \in [Clients -> Requests] /\ request'[c] = Idle
          /\ \A d \in Clients \ {c} : request'[d] = request[d]
      BY <1>0, <2>2, RequestStep
    <2>8. NewLooks
      BY <2>3 DEF NewLooks, Idle, Creations
    <2>4. Asked
      BY <2>3, <2>8 DEF Idle, EntityOps
    <2>5. Empty \in Held /\ \A b \in Blobs : Empty[b] = Absent
      BY DEF Empty
    <2>6. BlobTypeOK' /\ BlobKeeps
      BY <1>0, <2>2, <2>5, BlobsSet DEF BlobEtags
    <2>9. BlobArrivals
      <3>1. PICK f \in Held : f = Empty /\ \A b \in Blobs : f[b] = Absent
        BY <2>5
      <3>2. f \in Held \cup {Absent} /\ containers' = [containers EXCEPT ![n] = f]
        BY <2>2, <3>1
      <3> QED BY <1>0, <3>1, <3>2, BlobsArrive
    <2> QED BY <1>2, <2>2, <2>4, <2>6, <2>9
  <1>5. ASSUME NEW n \in Containers, ContainerDelete(n) PROVE Goal
    <2>1. /\ request' = request /\ stamp' = stamp
          /\ containers' = [containers EXCEPT ![n] = Absent]
          /\ confirmed' = confirmed \ BlobEtags(n)
      BY <1>5 DEF ContainerDelete, Confirm
    <2>2. BlobTypeOK' /\ BlobKeeps
      BY <1>0, <2>1, BlobsSet DEF BlobEtags
    <2>3. BlobArrivals
      BY <1>0, <2>1, BlobsArrive
    <2> QED BY <1>1, <1>2, <2>1, <2>2, <2>3
  <1>6. ASSUME NEW n \in Containers, NEW b \in Blobs, BlobPut(n, b) PROVE Goal
    <2>1. stamp + 1 \in Stamps
      BY <1>0, <1>6 DEF BlobPut, Draw, Stamps
    <2>2. /\ Uploaded(n, b) \in Held /\ Uploaded(n, b)[b] = stamp + 1
          /\ \A a \in Listed(n) \ {b} : Uploaded(n, b)[a] = containers[n][a]
          /\ \A a \in Blobs : a \notin Listed(n) /\ a # b => Uploaded(n, b)[a] = Absent
      BY <1>0, <2>1 DEF Uploaded, Empty, Listed, Exists
    <2>3. PICK f \in Held : f = Uploaded(n, b)
      BY <2>2
    <2>4. /\ containers' = [containers EXCEPT ![n] = f] /\ request' = request
          /\ stamp' = stamp + 1 /\ stamp' <= MaxStamp
          /\ confirmed' = (confirmed \ {containers[n][x] : x \in Listed(n) \cap {b}})
                            \cup {stamp + 1}
      BY <1>6, <2>3 DEF BlobPut, Draw, Confirm
    <2>5. f # Absent
      BY BlobAssumption
    <2>6. \A a \in Listed(n) : containers[n][a] \in confirmed' =>
             f # Absent /\ \E x \in Blobs : f[x] = containers[n][a]
      BY <2>2, <2>3, <2>4, <2>5 DEF Listed
    <2>7. \A x \in confirmed' : x \in confirmed \/ (f # Absent /\ \E a \in Blobs : f[a] = x)
      BY <2>2, <2>3, <2>4, <2>5
    <2>8. confirmed' \subseteq Stamps
      BY <1>0, <2>1, <2>4
    <2>9. BlobTypeOK' /\ BlobKeeps
      <3>1. containers' = [containers EXCEPT ![n] = f] /\ f \in Held \cup {Absent}
        BY <2>4
      <3> QED BY <1>0, <2>6, <2>7, <2>8, <3>1, BlobsSet
    <2>10. stamp' \in 0..MaxStamp /\ stamp <= stamp'
      BY <1>0, <2>4
    <2>11. BlobArrivals
      <3>1. containers' = [containers EXCEPT ![n] = f] /\ f \in Held \cup {Absent}
        BY <2>4
      <3>2. \A a \in Blobs : \/ f[a] = Absent \/ f[a] = stamp + 1
                             \/ a \in Listed(n) /\ f[a] = containers[n][a]
        BY <2>2, <2>3
      <3> QED BY <1>0, <3>1, <3>2, BlobsArrive
    <2> QED BY <1>1, <2>4, <2>9, <2>10, <2>11
  <1>7. ASSUME NEW n \in Containers, NEW b \in Blobs, BlobDelete(n, b) PROVE Goal
    <2>1. /\ request' = request /\ stamp' = stamp /\ b \in Listed(n)
          /\ containers' = [containers EXCEPT ![n][b] = Absent]
          /\ confirmed' = confirmed \ {containers[n][b]}
      BY <1>7 DEF BlobDelete, Confirm
    <2>2. containers[n] \in Held
      BY <1>0, <2>1 DEF Listed, Exists
    <2>3. PICK f \in Held : f = [containers[n] EXCEPT ![b] = Absent]
      BY <2>2
    <2>4. containers' = [containers EXCEPT ![n] = f]
      BY <2>1, <2>3
    <2>5. f # Absent /\ f[b] = Absent /\ \A a \in Blobs \ {b} : f[a] = containers[n][a]
      BY <2>2, <2>3, BlobAssumption
    <2>6. \A a \in Listed(n) : containers[n][a] \in confirmed' =>
             f # Absent /\ \E x \in Blobs : f[x] = containers[n][a]
      BY <2>1, <2>5 DEF Listed
    <2>7. BlobTypeOK' /\ BlobKeeps
      <3>1. f \in Held \cup {Absent} /\ confirmed' \subseteq confirmed
            /\ confirmed' \subseteq Stamps
        BY <1>0, <2>1
      <3> QED BY <1>0, <2>4, <2>6, <3>1, BlobsSet
    <2>8. BlobArrivals
      <3>1. \A a \in Blobs : \/ f[a] = Absent \/ f[a] = stamp + 1
                             \/ a \in Listed(n) /\ f[a] = containers[n][a]
        BY <2>1, <2>2, <2>5 DEF Listed
      <3>2. f \in Held \cup {Absent}
        OBVIOUS
      <3> QED BY <1>0, <2>4, <3>1, <3>2, BlobsArrive
    <2> QED BY <1>1, <1>2, <2>1, <2>7, <2>8
  <1> QED BY <1>3, <1>4, <1>5, <1>6, <1>7 DEF BlobNext

-----------------------------------------------------------------------------
\* Reading the tables back gives what there was.
LEMMA TableRestored ==
  ASSUME TypeOK, TableRestore
  PROVE  UNCHANGED tableVars
  <1>1. tables \in [Tables -> [Keys -> Entity \cup {Absent}] \cup {Absent}]
    BY DEF TypeOK, TableTypeOK
  <1>2. \A t \in Tables : tables'[t] = tables[t]
    <2> SUFFICES ASSUME NEW t \in Tables PROVE tables'[t] = tables[t]
      OBVIOUS
    <2>1. CASE Has(t)
      <3>1. tables[t] \in [Keys -> Entity \cup {Absent}]
        BY <1>1, <2>1 DEF Has
      <3>2. tables'[t] = [k \in Keys |-> IF At(t, k) THEN tables[t][k] ELSE Absent]
        BY <2>1 DEF TableRestore, Reread
      <3>3. \A k \in Keys : (IF At(t, k) THEN tables[t][k] ELSE Absent) = tables[t][k]
        BY <2>1 DEF At
      <3>4. tables'[t] = [k \in Keys |-> tables[t][k]]
        BY <3>2, <3>3
      <3> QED BY <3>1, <3>4
    <2>2. CASE ~Has(t)
      BY <2>2 DEF TableRestore, Has
    <2> QED BY <2>1, <2>2
  <1>3. tables' = [t \in Tables |-> tables'[t]]
    BY DEF TableRestore
  <1> QED BY <1>1, <1>2, <1>3 DEF TableRestore, tableVars

\* What stays when the tables do: the etags, and what requests on entities found.
LEMMA TableStill ==
  ASSUME Inv, UNCHANGED tableVars, stamp' \in Nat, stamp <= stamp',
         \A c \in Clients : request'[c] = request[c] \/ request'[c].op \notin EntityOps
  PROVE  /\ TableTypeOK' /\ EtagNamesContent' /\ Compared' /\ GuardsHold'
         /\ \A v \in versions' : v.etag <= stamp'
         /\ \A t \in Tables : Etags(t)' = Etags(t)
  <1>1. /\ TypeOK /\ stamp \in Nat /\ versions \subseteq Entity
        /\ \A v \in versions : v.etag <= stamp
    BY DataType DEF Inv, Drawn, TypeOK, TableTypeOK
  <1>2. UNCHANGED <<tables, versions>>
    BY DEF tableVars
  <1>3. TableTypeOK' /\ EtagNamesContent'
    BY <1>1, <1>2 DEF Inv, TypeOK, TableTypeOK, EtagNamesContent, At, Has
  <1>4. GuardsHold'
    BY <1>2 DEF Inv, GuardsHold, Has
  <1>5. Compared'
    <2> SUFFICES ASSUME NEW c \in Clients, NEW r, r = request'[c], r.op = "delete_entity"
                 PROVE  /\ r.since <= stamp'
                        /\ At(r.table, r.key)' =>
                             \/ tables'[r.table][r.key].etag = r.if_match
                             \/ tables'[r.table][r.key].etag > r.since
      BY DEF Compared, At, Has
    <2>1. r = request[c]
      BY DEF EntityOps
    <2>2. r.since \in Nat
      BY <1>1, <2>1, RequestType
    <2>3. At(r.table, r.key)' => At(r.table, r.key)
      BY <1>2 DEF At, Has
    <2> QED BY <1>1, <1>2, <2>1, <2>2, <2>3 DEF Inv, Compared
  <1>6. \A v \in versions' : v.etag <= stamp'
    BY <1>1, <1>2 DEF Entity, Stamps
  <1>7. \A t \in Tables : Etags(t)' = Etags(t)
    BY <1>2 DEF Etags, At, Has
  <1> QED BY <1>3, <1>4, <1>5, <1>6, <1>7

\* What stays when the queues do: nobody is told of their messages.
LEMMA QueuesStay ==
  ASSUME Inv, UNCHANGED queueVars, stamp' \in Nat, stamp <= stamp',
         confirmed' \subseteq confirmed \cup {stamp'},
         confirmed' \subseteq confirmed \/ stamp' = stamp + 1
  PROVE  /\ QueueTypeOK' /\ QueueInv' /\ ExpiredGone' /\ Honoured
         /\ \A q \in Queues : Ids(q)' = Ids(q)
  <1>1. TypeOK /\ QueueInv /\ stamp \in Nat
    BY DataType DEF Inv
  <1>2. UNCHANGED <<queues, granted, birth>>
    BY DEF queueVars
  <1>3. QueueInv'
    BY <1>1, QueueStill
  <1>4. QueueTypeOK'
    <2>1. birth' \in 0..stamp'
      BY <1>1, <1>2, DataType
    <2> QED BY <1>1, <1>2, <2>1 DEF TypeOK, QueueTypeOK
  <1>5. ExpiredGone'
    <2> SUFFICES ASSUME NEW q \in Queues, NEW i \in DOMAIN Box(q), Box(q)[i].expires = 0
                 PROVE  Box(q)[i].id \notin confirmed'
      BY <1>2 DEF ExpiredGone, Box, Open
    <2>1. Box(q)[i].id \notin confirmed
      BY DEF Inv, ExpiredGone
    <2>2. Box(q)[i].id \in 1..stamp
      BY <1>1 DEF QueueInv, IdsDrawn
    <2>3. stamp' = stamp + 1 => Box(q)[i].id # stamp'
      BY <1>1, <2>2
    <2> QED BY <2>1, <2>3
  <1>6. Honoured
    BY <1>1, <1>2, NoLease
  <1>7. \A q \in Queues : Ids(q)' = Ids(q)
    BY <1>2 DEF Ids, Open
  <1> QED BY <1>3, <1>4, <1>5, <1>6, <1>7

\* Drawing one UUID more, for what is confirmed.
LEMMA OneMore ==
  ASSUME TypeOK, Drawn, stamp' \in 0..MaxStamp, stamp <= stamp',
         \/ confirmed' \subseteq 1..stamp'
         \/ /\ confirmed' \subseteq confirmed \cup {stamp'}
            /\ confirmed' \subseteq confirmed \/ stamp' = stamp + 1
  PROVE  confirmed' \subseteq 1..stamp' /\ confirmed' \subseteq Stamps /\ stamp' \in Nat
  <1>1. stamp \in Nat /\ MaxStamp \in Nat /\ stamp' \in Nat /\ stamp' <= MaxStamp
    BY DataType
  <1>2. 1..stamp \subseteq 1..stamp' /\ 1..stamp' \subseteq 1..MaxStamp
    BY <1>1
  <1>3. stamp' = stamp + 1 => stamp' \in 1..stamp'
    BY <1>1
  <1> QED BY <1>1, <1>2, <1>3 DEF Drawn, Stamps

\* What is confirmed is kept where each store keeps what it has.
LEMMA StoresKeep ==
  ASSUME AcceptedKept,
         \A x \in confirmed' : \/ x \in confirmed
                               \/ \E q \in Queues : x \in Ids(q)'
                               \/ \E t \in Tables : x \in Etags(t)'
                               \/ \E n \in Containers : x \in BlobEtags(n)',
         \A q \in Queues : \A x \in Ids(q) \cap confirmed' : \E p \in Queues : x \in Ids(p)',
         \A t \in Tables : \A x \in Etags(t) \cap confirmed' : \E u \in Tables : x \in Etags(u)',
         \A n \in Containers : \A x \in BlobEtags(n) \cap confirmed' :
           \E o \in Containers : x \in BlobEtags(o)'
  PROVE  AcceptedKept'
  <1> SUFFICES ASSUME NEW x \in confirmed'
               PROVE  \/ \E q \in Queues : x \in Ids(q)'
                      \/ \E t \in Tables : x \in Etags(t)'
                      \/ \E n \in Containers : x \in BlobEtags(n)'
    BY DEF AcceptedKept
  <1>1. CASE x \notin confirmed
    BY <1>1
  <1>2. CASE x \in confirmed
    <2>1. \/ \E q \in Queues : x \in Ids(q)
          \/ \E t \in Tables : x \in Etags(t)
          \/ \E n \in Containers : x \in BlobEtags(n)
      BY <1>2 DEF AcceptedKept
    <2> QED BY <2>1
  <1> QED BY <1>1, <1>2

\* The invariant holds of an account nobody has used.
LEMMA InitInv ==
  ASSUME Init
  PROVE  Inv
  <1> USE DEF Init, RequestInit, QueueInit, TableInit, BlobInit
  <1>1. MaxStamp \in Nat
    BY StorageAssumption
  <1>2. \A q \in Queues : ~Open(q) /\ Box(q) = <<>> /\ DOMAIN Box(q) = {}
    BY DEF Open, Box
  <1>3. \A t \in Tables, k \in Keys : ~At(t, k)
    BY DEF At, Has
  <1>4. TypeOK
    BY <1>1 DEF TypeOK, QueueTypeOK, TableTypeOK, BlobTypeOK
  <1>5. Drawn /\ EtagNamesContent /\ AcceptedKept
    BY <1>3 DEF Drawn, EtagNamesContent, AcceptedKept
  <1>6. QueueInv /\ ExpiredGone
    BY <1>2, FS_EmptySet
       DEF QueueInv, IdsDrawn, IdsUnique, ReceiptsUnique, Agreed, ExpiredGone
  <1>7. Compared /\ GuardsHold /\ Unseen
    BY DEF Compared, GuardsHold, Unseen, Idle, EntityOps, Creations
  <1> QED BY <1>4, <1>5, <1>6, <1>7 DEF Inv

\* The account is restarted.
LEMMA RestartStep ==
  ASSUME Inv, Restart
  PROVE  Inv' /\ Honoured
  <1> DEFINE Requests == {Idle} \cup QueueRequest \cup TableRequest \cup BlobRequest
  <1>1. /\ TypeOK /\ QueueInv /\ Drawn /\ stamp \in Nat
        /\ UNCHANGED <<stamp, confirmed, containers>>
        /\ QueueRestore /\ TableRestore /\ request' = [c \in Clients |-> Idle]
    BY DataType DEF Inv, Restart, BlobRestore
  <1>2. /\ QueueTypeOK' /\ QueueInv'
        /\ \A q \in Queues :
             /\ DOMAIN Box(q)' = DOMAIN Box(q)
             /\ \A i \in DOMAIN Box(q) : /\ Box(q)'[i].id = Box(q)[i].id
                                         /\ Box(q)'[i].expires = Box(q)[i].expires
    BY <1>1, QueueRestored
  <1>3. \A q \in Queues : Ids(q)' = Ids(q)
    BY <1>2, IdsKept
  <1>4. UNCHANGED tableVars
    BY <1>1, TableRestored
  <1>5. \A c \in Clients : request'[c] = request[c] \/ request'[c].op \notin EntityOps
    BY <1>1 DEF Idle, EntityOps
  <1>6. /\ TableTypeOK' /\ EtagNamesContent' /\ Compared' /\ GuardsHold'
        /\ \A v \in versions' : v.etag <= stamp'
        /\ \A t \in Tables : Etags(t)' = Etags(t)
    BY <1>1, <1>4, <1>5, TableStill
  <1>7. \A n \in Containers : BlobEtags(n)' = BlobEtags(n)
    BY <1>1 DEF BlobEtags, Listed, Exists
  <1>8. TypeOK'
    BY <1>1, <1>2, <1>6 DEF TypeOK, BlobTypeOK
  <1>9. Drawn'
    BY <1>1, <1>6 DEF Drawn
  <1>10. ExpiredGone'
    BY <1>1, <1>2 DEF Inv, ExpiredGone
  <1>11. AcceptedKept'
    BY <1>1, <1>3, <1>6, <1>7, StoresKeep DEF Inv
  <1>12. Honoured
    BY <1>1, NoLease DEF QueueRestore
  <1>13. Unseen'
    BY <1>1 DEF Unseen, Idle, Creations
  <1> QED BY <1>2, <1>6, <1>8, <1>9, <1>10, <1>11, <1>12, <1>13 DEF Inv

\* Every step keeps the invariant and honours the leases.
LEMMA StepInv ==
  ASSUME Inv, [Next]_vars
  PROVE  Inv' /\ Honoured
  <1> DEFINE Requests == {Idle} \cup QueueRequest \cup TableRequest \cup BlobRequest
  <1>0. TypeOK /\ QueueInv /\ Drawn /\ AcceptedKept /\ Unseen
    BY DEF Inv
  <1>a. UNCHANGED queueVars => QueueArrivals
    BY DEF queueVars, QueueArrivals, Ids, Open
  <1>b. UNCHANGED tableVars => TableArrivals
    BY DEF tableVars, TableArrivals, EtagAt, At, Has
  <1>c. UNCHANGED containers => BlobArrivals
    BY DEF BlobArrivals, BlobEtags, Listed, Exists
  <1>1. CASE QueueNext /\ UNCHANGED <<tableVars, containers>>
    <2>1. /\ QueueTypeOK' /\ QueueInv' /\ QueueKeeps /\ ExpiredGone' /\ Honoured
          /\ request' \in [Clients -> Requests]
          /\ \A c \in Clients : request'[c] = request[c] \/ request'[c].op \notin EntityOps
          /\ stamp' \in 0..MaxStamp /\ stamp <= stamp' /\ confirmed' \subseteq 1..stamp'
          /\ NewLooks /\ QueueArrivals
      BY <1>1, QueueStep
    <2>2. confirmed' \subseteq Stamps /\ stamp' \in Nat
      BY <1>0, <2>1, OneMore
    <2>3. /\ TableTypeOK' /\ EtagNamesContent' /\ Compared' /\ GuardsHold'
          /\ \A v \in versions' : v.etag <= stamp'
          /\ \A t \in Tables : Etags(t)' = Etags(t)
      BY <1>1, <2>1, <2>2, TableStill
    <2>4. BlobTypeOK' /\ \A n \in Containers : BlobEtags(n)' = BlobEtags(n)
      BY <1>0, <1>1 DEF TypeOK, BlobTypeOK, BlobEtags, Listed, Exists
    <2>5. AcceptedKept'
      BY <1>0, <2>1, <2>3, <2>4, StoresKeep DEF QueueKeeps
    <2>6. Unseen'
      BY <1>0, <1>1, <1>b, <1>c, <2>1, <2>2, UnseenStep
    <2> QED BY <2>1, <2>2, <2>3, <2>4, <2>5, <2>6 DEF Inv, TypeOK, Drawn
  <1>2. CASE TableNext /\ UNCHANGED <<queueVars, containers>>
    <2>1. /\ TableTypeOK' /\ EtagNamesContent' /\ Compared' /\ GuardsHold' /\ TableKeeps
          /\ request' \in [Clients -> Requests]
          /\ stamp' \in 0..MaxStamp /\ stamp <= stamp' /\ Drawn'
          /\ confirmed' \subseteq confirmed \cup {stamp'}
          /\ confirmed' \subseteq confirmed \/ stamp' = stamp + 1
          /\ NewLooks /\ TableArrivals
      BY <1>2, TableStep
    <2>2. confirmed' \subseteq Stamps /\ stamp' \in Nat
      BY <1>0, <2>1, OneMore
    <2>3. /\ QueueTypeOK' /\ QueueInv' /\ ExpiredGone' /\ Honoured
          /\ \A q \in Queues : Ids(q)' = Ids(q)
      BY <1>2, <2>1, <2>2, QueuesStay
    <2>4. BlobTypeOK' /\ \A n \in Containers : BlobEtags(n)' = BlobEtags(n)
      BY <1>0, <1>2 DEF TypeOK, BlobTypeOK, BlobEtags, Listed, Exists
    <2>5. AcceptedKept'
      BY <1>0, <2>1, <2>3, <2>4, StoresKeep DEF TableKeeps
    <2>6. Unseen'
      BY <1>0, <1>2, <1>a, <1>c, <2>1, <2>2, UnseenStep
    <2> QED BY <2>1, <2>2, <2>3, <2>4, <2>5, <2>6 DEF Inv, TypeOK
  <1>3. CASE BlobNext /\ UNCHANGED <<queueVars, tableVars>>
    <2>1. /\ BlobTypeOK' /\ BlobKeeps
          /\ request' \in [Clients -> Requests]
          /\ \A c \in Clients : request'[c] = request[c] \/ request'[c].op \notin EntityOps
          /\ stamp' \in 0..MaxStamp /\ stamp <= stamp'
          /\ confirmed' \subseteq confirmed \cup {stamp'}
          /\ confirmed' \subseteq confirmed \/ stamp' = stamp + 1
          /\ NewLooks /\ BlobArrivals
      BY <1>3, BlobStep
    <2>2. confirmed' \subseteq 1..stamp' /\ confirmed' \subseteq Stamps /\ stamp' \in Nat
      BY <1>0, <2>1, OneMore
    <2>3. /\ QueueTypeOK' /\ QueueInv' /\ ExpiredGone' /\ Honoured
          /\ \A q \in Queues : Ids(q)' = Ids(q)
      BY <1>3, <2>1, <2>2, QueuesStay
    <2>4. /\ TableTypeOK' /\ EtagNamesContent' /\ Compared' /\ GuardsHold'
          /\ \A v \in versions' : v.etag <= stamp'
          /\ \A t \in Tables : Etags(t)' = Etags(t)
      BY <1>3, <2>1, <2>2, TableStill
    <2>5. AcceptedKept'
      BY <1>0, <2>1, <2>3, <2>4, StoresKeep DEF BlobKeeps
    <2>6. Unseen'
      BY <1>0, <1>3, <1>a, <1>b, <2>1, <2>2, UnseenStep
    <2> QED BY <2>1, <2>2, <2>3, <2>4, <2>5, <2>6 DEF Inv, TypeOK, Drawn
  <1>4. CASE Restart
    BY <1>4, RestartStep
  <1>5. CASE UNCHANGED vars
    <2>1. UNCHANGED <<request, stamp, confirmed, queueVars, tableVars, containers>>
      BY <1>5 DEF vars, requestVars
    <2>2. stamp \in Nat
      BY <1>0, DataType
    <2>3. /\ QueueTypeOK' /\ QueueInv' /\ ExpiredGone' /\ Honoured
          /\ \A q \in Queues : Ids(q)' = Ids(q)
      BY <2>1, <2>2, QueuesStay
    <2>4. /\ TableTypeOK' /\ EtagNamesContent' /\ Compared' /\ GuardsHold'
          /\ \A v \in versions' : v.etag <= stamp'
          /\ \A t \in Tables : Etags(t)' = Etags(t)
      BY <2>1, <2>2, TableStill
    <2>5. BlobTypeOK' /\ \A n \in Containers : BlobEtags(n)' = BlobEtags(n)
      BY <1>0, <2>1 DEF TypeOK, BlobTypeOK, BlobEtags, Listed, Exists
    <2>6. AcceptedKept'
      BY <1>0, <2>1, <2>3, <2>4, <2>5, StoresKeep
    <2>7. Unseen'
      <3>1. request' \in [Clients -> Requests] /\ NewLooks
        BY <1>0, <2>1 DEF TypeOK, NewLooks
      <3> QED BY <1>0, <1>a, <1>b, <1>c, <2>1, <2>2, <3>1, UnseenStep
    <2> QED BY <1>0, <2>1, <2>3, <2>4, <2>5, <2>6, <2>7 DEF Inv, TypeOK, Drawn
  <1> QED BY <1>1, <1>2, <1>3, <1>4, <1>5 DEF Next

-----------------------------------------------------------------------------
\* What a peek shows is what the next get hands out, and the count is of all of it.
LEMMA PeekShown ==
  ASSUME TypeOK
  PROVE  PeekShowsNext
  <1> SUFFICES ASSUME NEW q \in Queues, NEW n \in Counts, Open(q)
               PROVE  LET kept == Unexpired(queues[q])
                          peek == Peeked(queues[q], n)
                      IN /\ {kept[i].id : i \in Visible(kept, n)} = {peek[i].id : i \in DOMAIN peek}
                         /\ Approximate(queues[q]) = Cardinality(Visible(kept, Len(kept)))
    BY DEF PeekShowsNext
  <1> DEFINE s == queues[q]
             kept == Unexpired(s)
             I == Places(kept, Showing)
             c == Cardinality(I)
             shown == Shown(s)
             m == IF n < Len(shown) THEN n ELSE Len(shown)
             peek == Peeked(s, n)
  <1>1. s \in Seq(Message) /\ n \in Nat
    BY BoxType, QueueAssumption
  <1>2. kept \in Seq(Message)
    BY <1>1, KeepPlaces DEF Unexpired
  <1>3. shown = Keep(kept, Showing)
    BY <1>1, KeepTwice DEF Shown, Unexpired
  <1>4. /\ shown \in Seq(Message) /\ DOMAIN shown = 1..c /\ Len(shown) = c /\ c \in Nat
        /\ I \in SUBSET (1..Len(kept))
        /\ \A k \in DOMAIN shown : /\ Nth(I, k) \in I /\ Rank(I, Nth(I, k)) = k
                                   /\ shown[k] = kept[Nth(I, k)]
        /\ \A i \in I : Rank(I, i) \in DOMAIN shown /\ shown[Rank(I, i)] = kept[i]
    <2> HIDE DEF kept
    <2> QED BY <1>2, <1>3, KeepPlaces
  <1>5. m \in 0..c /\ m <= n /\ \A k \in 1..c : k <= n => k <= m
    BY <1>1, <1>4
  <1>6. DOMAIN peek = 1..m /\ \A k \in 1..m : peek[k] = shown[k]
    <2> HIDE DEF m, shown
    <2>1. peek = SubSeq(shown, 1, m)
      BY DEF Peeked, m, shown
    <2> QED BY <1>4, <1>5, <2>1
  <1>7. Visible(kept, n) = {i \in I : Rank(I, i) <= n}
    BY DEF Visible
  <1>8. Visible(kept, Len(kept)) = I
    <2>1. Len(kept) \in Nat /\ c <= Len(kept)
      <3> HIDE DEF kept
      <3>0. Len(kept) \in Nat
        BY <1>2
      <3>1. IsFiniteSet(1..Len(kept)) /\ Cardinality(1..Len(kept)) = Len(kept)
        BY <3>0, FS_Interval
      <3> QED BY <1>2, <1>4, <3>1, FS_Subset
    <2>2. \A i \in I : Rank(I, i) <= Len(kept)
      BY <1>4, <2>1
    <2> QED BY <2>2 DEF Visible
  <1>9. Approximate(s) = Cardinality(Visible(kept, Len(kept)))
    BY <1>4, <1>8 DEF Approximate
  <1> HIDE DEF kept, I, c, shown, m, peek
  <1>10. \A i \in Visible(kept, n) : \E k \in DOMAIN peek : peek[k].id = kept[i].id
    BY <1>4, <1>5, <1>6, <1>7
  <1>11. \A k \in DOMAIN peek : \E i \in Visible(kept, n) : kept[i].id = peek[k].id
    BY <1>1, <1>4, <1>5, <1>6, <1>7
  <1>12. {kept[i].id : i \in Visible(kept, n)} = {peek[i].id : i \in DOMAIN peek}
    BY <1>10, <1>11
  <1> QED BY <1>9, <1>12 DEF kept, peek

\* What the invariant says of leases, in the words of the store.
LEMMA LeasesFrom ==
  ASSUME Inv
  PROVE  LeasesAgree
  <1>1. \A q \in Queues : Open(q) => Box(q) = queues[q]
    BY DEF Box
  <1> QED BY <1>1 DEF Inv, QueueInv, Agreed, AgreedOn, GotOf, LeasesAgree

-----------------------------------------------------------------------------
\* In every state the invariant holds, and with it the types of every variable.
THEOREM SpecInv == Spec => []Inv
  <1>1. Init => Inv
    BY InitInv
  <1>2. Inv /\ [Next]_vars => Inv'
    BY StepInv
  <1> QED BY <1>1, <1>2, PTL DEF Spec

\* Requests, stores and the history keep their types in every state.
THEOREM SpecTypeOK == Spec => []TypeOK
  <1>1. Inv => TypeOK
    BY DEF Inv
  <1> QED BY <1>1, SpecInv, PTL

\* A receipt that works is the newest given for its message since the last restart,
\* and a message counts how often it was handed out (get_messages, MessageDump).
THEOREM SpecLeasesAgree == Spec => []LeasesAgree
  <1>1. Inv => LeasesAgree
    BY LeasesFrom
  <1> QED BY <1>1, SpecInv, PTL

\* A peek and the count of a queue agree with the next get (peek_messages).
THEOREM SpecPeekShowsNext == Spec => []PeekShowsNext
  <1>1. Inv => PeekShowsNext
    BY PeekShown DEF Inv
  <1> QED BY <1>1, SpecInv, PTL

\* An etag that still matches names what its holder was shown (update_entity).
THEOREM SpecEtagNamesContent == Spec => []EtagNamesContent
  <1>1. Inv => EtagNamesContent
    BY DEF Inv
  <1> QED BY <1>1, SpecInv, PTL

\* What clients were told of is stored until somebody asks to remove or replace it, its
\* time is over, or a creation that had looked before it came overtakes it.
THEOREM SpecAcceptedKept == Spec => []AcceptedKept
  <1>1. Inv => AcceptedKept
    BY DEF Inv
  <1> QED BY <1>1, SpecInv, PTL

\* A message is handed out again only when the time of its last lease is over.
THEOREM SpecLeaseHonoured == Spec => LeaseHonoured
  <1>1. Inv /\ [Next]_vars =>
          [\A g \in granted' : g.got /\ g.receipt > stamp =>
             \A last \in granted :
               /\ last.id = g.id
               /\ \A o \in granted : o.id = g.id => o.receipt <= last.receipt
               => last.until = 0]_<<requestVars, queueVars>>
    BY StepInv DEF Honoured
  <1> QED BY <1>1, SpecInv, PTL DEF Spec, LeaseHonoured

\* A conditional delete removes the version it names, or one written since its
\* comparison (delete_entity).
THEOREM SpecIfMatchHonoured == Spec => IfMatchHonoured
  <1>1. Inv /\ [Next]_vars =>
          [\A c \in Clients : request[c].op = "delete_entity" /\ request'[c] = Idle =>
             LET r == request[c]
             IN At(r.table, r.key) /\ tables'[r.table][r.key] = Absent =>
                  \/ tables[r.table][r.key].etag = r.if_match
                  \/ tables[r.table][r.key].etag > r.since]_<<requestVars, tableVars>>
    BY DEF Inv, Compared
  <1> QED BY <1>1, SpecInv, PTL DEF Spec, IfMatchHonoured
=============================================================================
