------------------------------ MODULE QueueStore ------------------------------
(***************************************************************************)
(* The queue store of a storage account (storage/queue/core) behind its    *)
(* REST front end (storage/queue/server).                                  *)
(*                                                                         *)
(* A queue is a vector of messages.  Getting a message leases it: it is    *)
(* hidden for a while and comes with a pop receipt, which deleting or      *)
(* updating it needs.  An instant is the number of units left until it; a  *)
(* comparison with now is one with zero.                                   *)
(***************************************************************************)
EXTENDS StorageRequests, Buckets

CONSTANTS
  Queues,
  Timeouts,    \* visibility timeouts clients ask for, negative ones too
  TTLs,        \* times to live; negative is for ever
  Counts       \* numofmessages

VARIABLES
  queues,      \* the messages of each queue
  granted,     \* history: every lease given, and the time left of it
  birth        \* history: the last UUID drawn before the store was restored

queueVars == <<queues, granted, birth>>

None    == 0   \* no pop receipt
Forever == -1
Timer   == Nat \cup {Forever}

Message == [id : Nat, expires : Timer, hidden : Nat,
            dequeue_count : Nat, pop_receipt : Nat]
Live    == {m \in Message : m.expires # 0}   \* its time to live is not over
Showing == {m \in Message : m.hidden = 0}
Lease   == [id : Nat, receipt : Nat, until : Nat, got : BOOLEAN]

ASSUME QueueAssumption ==
  /\ Timeouts \subseteq Int /\ TTLs \subseteq Int /\ Counts \subseteq Nat
  /\ Absent \notin Seq(Message)

Open(q)   == queues[q] # Absent
Ids(q)    == IF Open(q) THEN {queues[q][i].id : i \in DOMAIN queues[q]} ELSE {}

\* The max(0) of every visibility timeout.
Clamp(vt) == IF vt < 0 THEN 0 ELSE vt

QueueInit ==
  /\ queues = [q \in Queues |-> Absent]
  /\ granted = {}
  /\ birth = 0

-----------------------------------------------------------------------------
\* queue_put and the first step of create_queue, contains_key.  An existing queue
\* is a conflict and stays as it is.
QueuePut(c, q) ==
  /\ ~Open(q)
  /\ Begin(c, [op |-> "create_queue", name |-> q, since |-> stamp])
  /\ UNCHANGED <<stamp, confirmed, queueVars>>

\* The second step, insert: whatever the queue has become by now is replaced.
QueueInsert(c) ==
  /\ End(c, "create_queue")
  /\ LET q == request[c].name
     IN /\ queues' = [queues EXCEPT ![q] = <<>>]
        /\ Confirm({}, Overtaken(c, Ids(q)))
  /\ UNCHANGED <<stamp, granted, birth>>

QueueDelete(q) ==
  /\ Open(q)
  /\ queues' = [queues EXCEPT ![q] = Absent]
  /\ Confirm({}, Ids(q))
  /\ UNCHANGED <<request, stamp, granted, birth>>

MessagesClear(q) ==
  /\ Open(q)
  /\ queues' = [queues EXCEPT ![q] = <<>>]
  /\ Confirm({}, Ids(q))
  /\ UNCHANGED <<request, stamp, granted, birth>>

\* put_message: what is added to the queue.
NewMessage(vt, ttl) ==
  [id |-> stamp + 1,
   expires |-> IF ttl < 0 THEN Forever ELSE ttl,
   hidden |-> Clamp(vt), dequeue_count |-> 0, pop_receipt |-> None]

\* messages_post.
MessagesPost(q, vt, ttl) ==
  /\ Open(q)
  /\ Draw(1)
  /\ queues' = [queues EXCEPT ![q] = Append(@, NewMessage(vt, ttl))]
  /\ Confirm(IF ttl = 0 THEN {} ELSE {stamp + 1}, {})
  /\ UNCHANGED <<request, granted, birth>>

-----------------------------------------------------------------------------
\* get_messages evicts what is over.
Unexpired(s) == Keep(s, Live)

\* Positions of the first n messages of s that are visible.
Visible(s, n) == {i \in Places(s, Showing) : Rank(Places(s, Showing), i) <= n}

\* get_messages on the messages s: the expired ones are evicted and the first n
\* visible ones leased.
Leased(s, n, vt) ==
  LET kept == Unexpired(s)
  IN [i \in DOMAIN kept |->
        IF i \in Visible(kept, n)
        THEN [kept[i] EXCEPT !.dequeue_count = @ + 1,
                             !.pop_receipt = stamp + Rank(Places(kept, Showing), i),
                             !.hidden = Clamp(vt)]
        ELSE kept[i]]

\* The leases that the messages s have and no client was given yet.
New(s, got) ==
  {[id |-> s[i].id, receipt |-> s[i].pop_receipt, until |-> s[i].hidden, got |-> got] :
     i \in {k \in DOMAIN s : s[k].pop_receipt > stamp}}

\* messages_get.
MessagesGet(q, n, vt) ==
  /\ Open(q)
  /\ LET s == Leased(queues[q], n, vt)
     IN /\ Draw(Cardinality(Visible(Unexpired(queues[q]), n)))
        /\ queues' = [queues EXCEPT ![q] = s]
        /\ granted' = granted \cup New(s, TRUE)
  /\ UNCHANGED <<request, confirmed, birth>>

Shown(s) == Keep(s, Live \cap Showing)

\* Shows what has expired too.
Peeked_Mistake(s, n) ==
  LET shown == Keep(s, Showing)
  IN SubSeq(shown, 1, IF n < Len(shown) THEN n ELSE Len(shown))
\* peek_messages: it filters in passing and changes nothing.
Peeked(s, n) == SubSeq(Shown(s), 1, IF n < Len(Shown(s)) THEN n ELSE Len(Shown(s)))

\* The count of list_queues and queue_get.
Approximate(s) == Len(Shown(s))

\* Where the message is that the caller's id and receipt name.
Matching(q, lease) ==
  {i \in DOMAIN queues[q] :
     queues[q][i].id = lease.id /\ queues[q][i].pop_receipt = lease.receipt}

\* message_delete, with an id and a receipt somebody was given once.
MessageDelete(q, lease) ==
  /\ Open(q)
  /\ \E i \in Matching(q, lease) : queues' = [queues EXCEPT ![q] = RemoveAt(@, i)]
  /\ Confirm({}, {lease.id})
  /\ UNCHANGED <<request, stamp, granted, birth>>

\* update_message: a new timeout from now on and a fresh receipt.
Renewed(m, vt) == [m EXCEPT !.hidden = Clamp(vt), !.pop_receipt = stamp + 1]

\* message_update.
MessageUpdate(q, lease, vt) ==
  /\ Open(q)
  /\ Draw(1)
  /\ \E i \in Matching(q, lease) :
       LET m == Renewed(queues[q][i], vt)
       IN /\ queues' = [queues EXCEPT ![q][i] = m]
          /\ granted' = granted \cup New(<<m>>, FALSE)
  /\ UNCHANGED <<request, confirmed, birth>>

-----------------------------------------------------------------------------
\* The receipt is written out and read back.
Dumped_Mistake(m) == m
\* dump: MessageDump has all of a message but the receipt.
Dumped(m) == [m EXCEPT !.pop_receipt = None]

\* A message comes back visible.
Restored_Mistake(m) == [m EXCEPT !.hidden = 0]
\* restore.
Restored(m) == m

QueueRestore ==
  /\ queues' = [q \in Queues |->
       IF Open(q) THEN [i \in DOMAIN queues[q] |-> Restored(Dumped(queues[q][i]))] ELSE Absent]
  /\ birth' = stamp
  /\ UNCHANGED granted

\* The clock advances by one unit.
Sooner(t) == IF t > 0 THEN t - 1 ELSE t

Elapse ==
  /\ queues' = [q \in Queues |->
       IF Open(q) THEN [i \in DOMAIN queues[q] |->
                          [queues[q][i] EXCEPT !.expires = Sooner(@), !.hidden = Sooner(@)]]
                  ELSE Absent]
  /\ granted' = {[g EXCEPT !.until = Sooner(@)] : g \in granted}
  /\ Confirm({}, {id \in Stamps : \E q \in Queues : Open(q) /\
                    \E i \in DOMAIN queues[q] : queues[q][i].id = id /\ queues[q][i].expires = 1})
  /\ UNCHANGED <<request, stamp, birth>>

QueueNext ==
  \/ \E q \in Queues :
       \/ \E c \in Clients : QueuePut(c, q)
       \/ QueueDelete(q) \/ MessagesClear(q)
       \/ \E vt \in Timeouts, ttl \in TTLs : MessagesPost(q, vt, ttl)
       \/ \E n \in Counts, vt \in Timeouts : MessagesGet(q, n, vt)
       \/ \E lease \in granted :
            \/ MessageDelete(q, lease)
            \/ \E vt \in Timeouts : MessageUpdate(q, lease, vt)
  \/ \E c \in Clients : QueueInsert(c)
  \/ Elapse

-----------------------------------------------------------------------------
QueueRequest == [op : {"create_queue"}, name : Queues, since : 0..MaxStamp]

QueueTypeOK ==
  /\ queues \in [Queues -> Seq(Message) \cup {Absent}]
  /\ granted \subseteq Lease
  /\ birth \in 0..stamp

\* A receipt that works is the newest one given for its message, and was given
\* since the store was restored (MessageDump: a lease does not survive a restart);
\* a message counts how often it was handed out, over restarts too.
LeasesAgree ==
  \A q \in Queues : Open(q) => \A i \in DOMAIN queues[q] :
    LET m == queues[q][i]
        given == {g \in granted : g.id = m.id}
    IN /\ m.dequeue_count = Cardinality({g \in given : g.got})
       /\ m.pop_receipt # None =>
            /\ m.pop_receipt > birth
            /\ \E g \in given : g.receipt = m.pop_receipt
            /\ \A g \in given : g.receipt <= m.pop_receipt

\* A message is handed out again only when the time of its last lease is over,
\* through every update, restart and change of the queue (get_messages).
LeaseHonoured ==
  [][\A g \in granted' : g.got /\ g.receipt > stamp =>
       \A last \in granted :
         /\ last.id = g.id
         /\ \A o \in granted : o.id = g.id => o.receipt <= last.receipt
         => last.until = 0]_<<requestVars, queueVars>>

\* What a peek and the count of a queue show is what the next get hands out, though
\* only the get evicts what has expired (peek_messages, list_queues, get_messages).
PeekShowsNext ==
  \A q \in Queues, n \in Counts : Open(q) =>
    LET kept == Unexpired(queues[q])
        peek == Peeked(queues[q], n)
    IN /\ {kept[i].id : i \in Visible(kept, n)} = {peek[i].id : i \in DOMAIN peek}
       /\ Approximate(queues[q]) = Cardinality(Visible(kept, Len(kept)))
=============================================================================
