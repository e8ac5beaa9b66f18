--------------------------- MODULE TelemetryProofs ---------------------------
(***************************************************************************)
(* Proofs about Telemetry, for any number of connections, bodies, items    *)
(* and starts.                                                             *)
(***************************************************************************)
EXTENDS Telemetry, BucketsProofs

\* The requests under way, by their clients.
Busy == {c \in Clients : request[c] # Idle}

\* What is left of a request r: its items are its own, and those that have a number have
\* it in their order, from the counter of the store they go to.
RequestOK(r) ==
  /\ r.life <= life /\ r.req <= Len(before)
  /\ r.todo # <<>> /\ r.numbered <= Len(r.todo)
  /\ \A i \in DOMAIN r.todo : r.todo[i].req = r.req
  /\ \A i \in 1..r.numbered : r.todo[i].id < next_id[r.life]
  /\ \A i, j \in 1..r.numbered : i < j => r.todo[i].id < r.todo[j].id
\* RequestOK, of every request under way.
RequestsOK == \A c \in Busy : RequestOK(request[c])

\* Requests under way have numbers of their own, and so have their items.
RequestsApart ==
  \A c, d \in Busy : c # d =>
    /\ request[c].req # request[d].req
    /\ request[c].life = request[d].life =>
         \A i \in 1..request[c].numbered, j \in 1..request[d].numbered :
           request[c].todo[i].id # request[d].todo[j].id

\* What a store has was numbered by its counter, for a request that has arrived.
Stored ==
  \A n \in Lives : \A i \in DOMAIN items[n] :
    items[n][i].id < next_id[n] /\ items[n][i].req \in DOMAIN before
\* The items of a store have ids of their own.
StoredApart ==
  \A n \in Lives : \A i, j \in DOMAIN items[n] :
    items[n][i].id = items[n][j].id => i = j

\* A numbered item that is still to be pushed is new to its store, and comes after what
\* its request has pushed there.
ComingNew ==
  \A c \in Busy : \A k \in 1..request[c].numbered : \A i \in DOMAIN items[request[c].life] :
    LET old == items[request[c].life][i]
        new == request[c].todo[k]
    IN old.id # new.id /\ (old.req = new.req => old.id < new.id)

\* ListedInOrder, oldest first.
Ordered ==
  \A n \in Lives : \A i, j \in DOMAIN items[n] : i < j =>
    /\ items[n][i].req = items[n][j].req => items[n][i].id < items[n][j].id
    /\ items[n][j].req \notin before[items[n][i].req]

\* What was over when a request began had begun before it.
Past == \A p \in DOMAIN before : \A q \in before[p] : q < p
\* And it is not under way any more.
Ongoing == \A c \in Busy : \A p \in DOMAIN before : request[c].req \notin before[p]

\* How items are numbered.
Numbering == RequestsOK /\ RequestsApart /\ Stored /\ StoredApart /\ ComingNew
\* The part about order.
Ordering  == Ordered /\ Past /\ Ongoing
\* The inductive invariant.
Inv == TypeOK /\ Numbering /\ Ordering /\ NewestKept

-----------------------------------------------------------------------------
\* What requests bring.

\* A request under way, and one that is not.
LEMMA BusyRequest ==
  ASSUME TypeOK, NEW c \in Clients
  PROVE  /\ c \in Busy <=> request[c] # Idle
         /\ c \in Busy => /\ request[c] \in Request
                          /\ request[c].todo \in Seq(Item) /\ request[c].numbered \in Nat
                          /\ request[c].life \in Lives /\ request[c].req \in 1..MaxRequests
                          /\ request[c].atOnce \in BOOLEAN
                          /\ next_id[request[c].life] \in 1..MaxItems + 1
                          /\ next_id[request[c].life] \in Nat
                          /\ items[request[c].life] \in Seq(Item)
                          /\ pushed[request[c].life] \in Seq(Item)
         /\ request[c].life \in Lives => c \in Busy
  <1>1. request[c] \in Request \cup {Idle} /\ MaxItems \in Nat
    BY TelemetryAssumption DEF TypeOK
  <1>2. CASE request[c] # Idle
    <2>1. request[c] \in Request /\ c \in Busy
      BY <1>1, <1>2 DEF Busy
    <2>2. /\ request[c].todo \in Seq(Item) /\ request[c].numbered \in Nat
          /\ request[c].life \in Lives /\ request[c].req \in 1..MaxRequests
          /\ request[c].atOnce \in BOOLEAN
      BY <2>1 DEF Request
    <2> QED BY <1>1, <2>1, <2>2 DEF TypeOK, Busy
  <1>3. CASE request[c] = Idle
    BY <1>3, TelemetryAssumption DEF Busy, Idle, Lives
  <1> QED BY <1>2, <1>3

\* A function on the places of a sequence is a sequence.
LEMMA ItemSeq ==
  ASSUME NEW S, NEW s \in Seq(S), NEW f, f = [i \in DOMAIN s |-> f[i]],
         \A i \in DOMAIN s : f[i] \in Item
  PROVE  f \in Seq(Item)
  <1>1. DOMAIN s = 1..Len(s) /\ Len(s) \in Nat
    OBVIOUS
  <1> QED BY <1>1

\* The elements of a sequence of items.
LEMMA Elements ==
  ASSUME NEW s \in Seq(Item), NEW i \in DOMAIN s
  PROVE  s[i] \in Item /\ s[i].id \in Nat /\ s[i].req \in Nat
  <1>1. s[i] \in Item
    OBVIOUS
  <1> QED BY <1>1 DEF Item

\* What track takes from a Breeze body.
LEMMA AcceptedItems ==
  ASSUME NEW body \in BreezeBodies
  PROVE  Accepted(body) \in Seq(Item)
  <1> DEFINE batch == parse_batch(body)
             objects == Keep(batch, Envelope)
  <1>1. body \in Seq(Entry)
    BY TelemetryAssumption
  <1>2. batch \in Seq(Entry)
    BY <1>1, BucketKeep DEF parse_batch
  <1>3. objects \in Seq(Entry) /\ \A i \in DOMAIN objects : objects[i] \in Envelope
    BY <1>2, KeepPlaces
  <1>4. ASSUME NEW e \in Envelope PROVE parse_envelope(e) \in Item
    BY DEF Envelope, parse_envelope, NewItem, Item, TypeOf, from_base_type, Types
  <1> HIDE DEF objects
  <1>5. [i \in DOMAIN objects |-> parse_envelope(objects[i])] \in Seq(Item)
    BY <1>3, <1>4
  <1> QED BY <1>5 DEF Accepted, objects

\* What the OTLP handlers take from their bodies.
LEMMA RecordItems ==
  /\ \A body \in LogBodies : parse_otlp_logs(body) \in Seq(Item)
  /\ \A body \in SpanBodies : parse_otlp_traces(body) \in Seq(Item)
  /\ \A body \in MetricBodies : parse_otlp_metrics(body) \in Seq(Item)
  <1>1. ASSUME NEW body \in LogBodies PROVE parse_otlp_logs(body) \in Seq(Item)
    <2>1. body \in Seq(Record)
      BY TelemetryAssumption
    <2>2. ASSUME NEW i \in DOMAIN body PROVE parse_otlp_logs(body)[i] \in Item
      <3>1. body[i] \in Record
        BY <2>1
      <3> QED BY <3>1 DEF parse_otlp_logs, Record, NewItem, Item, Types, id_to_hex
    <2>3. parse_otlp_logs(body) = [i \in DOMAIN body |-> parse_otlp_logs(body)[i]]
      BY DEF parse_otlp_logs
    <2> QED BY <2>1, <2>2, <2>3, ItemSeq
  <1>2. ASSUME NEW body \in SpanBodies PROVE parse_otlp_traces(body) \in Seq(Item)
    <2>1. body \in Seq(Span)
      BY TelemetryAssumption
    <2>2. ASSUME NEW e \in Span
          PROVE  NewItem(IF e.kind \in {2, 5} THEN "request" ELSE "dependency",
                         id_to_hex(e.traceId), e.at, e.code = 2) \in Item
      BY DEF Span, NewItem, Item, Types, id_to_hex
    <2>3. /\ parse_otlp_traces(body) = [i \in DOMAIN body |-> parse_otlp_traces(body)[i]]
          /\ \A i \in DOMAIN body : parse_otlp_traces(body)[i] \in Item
      BY <2>1, <2>2 DEF parse_otlp_traces
    <2> QED BY <2>1, <2>3, ItemSeq
  <1>3. ASSUME NEW body \in MetricBodies PROVE parse_otlp_metrics(body) \in Seq(Item)
    <2>1. body \in Seq(Point)
      BY TelemetryAssumption
    <2>2. ASSUME NEW i \in DOMAIN body PROVE parse_otlp_metrics(body)[i] \in Item
      <3>1. body[i] \in Point
        BY <2>1
      <3> QED BY <3>1 DEF parse_otlp_metrics, Point, NewItem, Item, Types
    <2>3. parse_otlp_metrics(body) = [i \in DOMAIN body |-> parse_otlp_metrics(body)[i]]
      BY DEF parse_otlp_metrics
    <2> QED BY <2>1, <2>2, <2>3, ItemSeq
  <1> QED BY <1>1, <1>2, <1>3

\* The first element of a sequence goes.
LEMMA FirstGone ==
  ASSUME NEW T, NEW s \in Seq(T), s # <<>>
  PROVE  /\ RemoveAt(s, 1) \in Seq(T) /\ Len(RemoveAt(s, 1)) = Len(s) - 1
         /\ \A i \in 1..Len(s) - 1 : RemoveAt(s, 1)[i] = s[i + 1]
  <1>1. Len(s) \in Nat /\ Len(s) >= 1
    OBVIOUS
  <1>2. SubSeq(s, 1, 0) = <<>>
    BY <1>1
  <1>3. SubSeq(s, 2, Len(s)) = [i \in 1..Len(s) - 1 |-> s[i + 1]]
    BY <1>1
  <1>4. [i \in 1..Len(s) - 1 |-> s[i + 1]] \in Seq(T)
    BY <1>1
  <1>5. RemoveAt(s, 1) = [i \in 1..Len(s) - 1 |-> s[i + 1]]
    BY <1>2, <1>3, <1>4 DEF RemoveAt
  <1> QED BY <1>1, <1>4, <1>5

-----------------------------------------------------------------------------
\* What the steps of a request change.

\* A request arrives at a connection that has none, as the next one, with no number yet.
LEMMA ReceiveFacts ==
  ASSUME TypeOK, NEW c \in Clients, NEW n \in Lives, NEW todo \in Seq(Item),
         NEW atOnce \in BOOLEAN, Receive(c, n, todo, atOnce)
  PROVE  /\ UNCHANGED <<running, life, items, next_id, pushed, single>>
         /\ before' = Append(before, Over) /\ Len(before) + 1 <= MaxRequests
         /\ c \notin Busy /\ Busy' = Busy \cup {c}
         /\ request' \in [Clients -> Request \cup {Idle}]
         /\ \A d \in Clients : d # c => request'[d] = request[d]
         /\ request'[c] \in Request
         /\ request'[c].req = Len(before) + 1 /\ request'[c].numbered = 0
         /\ request'[c].life = n /\ n <= life
         /\ request'[c].todo # <<>>
         /\ \A i \in DOMAIN request'[c].todo : request'[c].todo[i].req = Len(before) + 1
  <1> DEFINE q == Len(before) + 1
             list1 == [i \in DOMAIN todo |-> [todo[i] EXCEPT !.req = q]]
             r == [req |-> q, life |-> n, atOnce |-> atOnce, numbered |-> 0, todo |-> list1]
  <1>1. /\ UNCHANGED <<running, life, items, next_id, pushed, single>>
        /\ before' = Append(before, Over) /\ Len(before) < MaxRequests
        /\ n <= life /\ todo # <<>> /\ request[c] = Idle
        /\ request' = [request EXCEPT ![c] = r]
    BY DEF Receive
  <1>2. /\ q \in 1..MaxRequests /\ q \in Nat /\ Len(before) \in Nat /\ MaxRequests \in Nat
        /\ request \in [Clients -> Request \cup {Idle}]
    BY <1>1, TelemetryAssumption DEF TypeOK
  <1>3. list1 \in Seq(Item) /\ list1 # <<>> /\ \A i \in DOMAIN list1 : list1[i].req = q
    <2>1. ASSUME NEW i \in DOMAIN todo
          PROVE  [todo[i] EXCEPT !.req = q] \in Item /\ [todo[i] EXCEPT !.req = q].req = q
      <3>1. todo[i] \in Item
        OBVIOUS
      <3> QED BY <1>2, <3>1 DEF Item
    <2>2. list1 \in Seq(Item)
      BY <2>1, ItemSeq
    <2>3. list1 # <<>>
      <3>1. DOMAIN list1 = DOMAIN todo /\ DOMAIN todo = 1..Len(todo) /\ Len(todo) >= 1
        BY <1>1
      <3> QED BY <3>1
    <2> QED BY <2>1, <2>2, <2>3
  <1> HIDE DEF list1
  <1>4. /\ r \in Request /\ r.req = q /\ r.life = n /\ r.numbered = 0 /\ r.todo = list1
        /\ r # Idle
    BY <1>2, <1>3, TelemetryAssumption DEF Request, Idle, Lives
  <1> HIDE DEF r, q
  <1>5. request'[c] = r /\ \A d \in Clients : d # c => request'[d] = request[d]
    BY <1>1, <1>2
  <1>6. request' \in [Clients -> Request \cup {Idle}]
    BY <1>1, <1>2, <1>4
  <1>7. c \notin Busy /\ Busy' = Busy \cup {c}
    BY <1>1, <1>4, <1>5 DEF Busy
  <1> QED BY <1>1, <1>2, <1>3, <1>4, <1>5, <1>6, <1>7 DEF q

\* One more item of a request gets the number of its store's counter.
LEMMA NumberFacts ==
  ASSUME TypeOK, RequestsOK, NEW c \in Clients, Number(c)
  PROVE  /\ UNCHANGED <<running, life, items, before, pushed, single>>
         /\ c \in Busy /\ Busy' = Busy
         /\ next_id' = [next_id EXCEPT ![request[c].life] = @ + 1]
         /\ next_id[request[c].life] <= MaxItems
         /\ request' \in [Clients -> Request \cup {Idle}]
         /\ \A d \in Clients : d # c => request'[d] = request[d]
         /\ request'[c].req = request[c].req /\ request'[c].life = request[c].life
         /\ request'[c].numbered = request[c].numbered + 1
         /\ request[c].numbered + 1 <= Len(request[c].todo)
         /\ Len(request'[c].todo) = Len(request[c].todo)
         /\ request'[c].todo \in Seq(Item)
         /\ \A i \in DOMAIN request[c].todo :
              /\ request'[c].todo[i].req = request[c].todo[i].req
              /\ request'[c].todo[i].id = IF i = request[c].numbered + 1
                                          THEN next_id[request[c].life]
                                          ELSE request[c].todo[i].id
  <1> DEFINE r == request[c]
             k == r.numbered + 1
             item == [r.todo[k] EXCEPT !.id = next_id[r.life]]
             todo == [r.todo EXCEPT ![k] = item]
             r1 == [r EXCEPT !.todo = todo, !.numbered = k]
  <1>1. c \in Busy
    BY DEF Number, Busy
  <1>2. /\ r \in Request /\ r.todo \in Seq(Item) /\ r.numbered \in Nat
        /\ next_id[r.life] \in Nat /\ r.todo # <<>>
    BY <1>1, BusyRequest DEF RequestsOK, RequestOK
  <1>3. r.numbered < Len(r.todo)
    <2>1. Len(r.todo) \in Nat /\ Len(r.todo) >= 1
      BY <1>2
    <2> QED BY <1>2, <2>1 DEF Number
  <1>4. k \in DOMAIN r.todo /\ r.todo[k] \in Item
    BY <1>2, <1>3
  <1>5. /\ UNCHANGED <<running, life, items, before, pushed, single>>
        /\ next_id' = [next_id EXCEPT ![r.life] = @ + 1]
        /\ next_id[r.life] <= MaxItems
        /\ request' = [request EXCEPT ![c].todo[k].id = next_id[r.life],
                                      ![c].numbered = @ + 1]
    BY DEF Number, Fresh
  <1>6. item \in Item /\ item.id = next_id[r.life] /\ item.req = r.todo[k].req
    BY <1>2, <1>4 DEF Item
  <1>7. request' = [request EXCEPT ![c] = r1]
    BY <1>2, <1>4, <1>5 DEF TypeOK, Request
  <1> HIDE DEF item
  <1>8. /\ todo \in Seq(Item) /\ Len(todo) = Len(r.todo) /\ todo[k] = item
        /\ \A i \in DOMAIN r.todo : i # k => todo[i] = r.todo[i]
    BY <1>2, <1>4, <1>6
  <1>9. /\ r1 \in Request /\ r1.req = r.req /\ r1.life = r.life /\ r1.numbered = k
        /\ r1.todo = todo
    <2>1. k \in Nat /\ r \in Request /\ todo \in Seq(Item)
      BY <1>2, <1>8
    <2> HIDE DEF k, todo, r
    <2> QED BY <2>1 DEF Request
  <1>10. r1 # Idle
    BY <1>9, TelemetryAssumption DEF Request, Idle, Lives
  <1> HIDE DEF r1
  <1>11. request \in [Clients -> Request \cup {Idle}]
    BY DEF TypeOK
  <1>12. /\ request'[c] = r1 /\ \A d \in Clients : d # c => request'[d] = request[d]
         /\ request' \in [Clients -> Request \cup {Idle}]
    BY <1>7, <1>9, <1>11
  <1>13. Busy' = Busy
    BY <1>1, <1>10, <1>12 DEF Busy
  <1>14. \A i \in DOMAIN r.todo :
           /\ r1.todo[i].req = r.todo[i].req
           /\ r1.todo[i].id = IF i = k THEN next_id[r.life] ELSE r.todo[i].id
    BY <1>6, <1>8, <1>9
  <1>15. r1.todo \in Seq(Item) /\ Len(r1.todo) = Len(r.todo) /\ k <= Len(r.todo)
    BY <1>4, <1>8, <1>9
  <1> QED BY <1>1, <1>5, <1>9, <1>12, <1>13, <1>14, <1>15

\* The first item of a request goes to the store, and the others move up.
LEMMA PushFacts ==
  ASSUME TypeOK, RequestsOK, NEW c \in Clients, Push(c)
  PROVE  /\ UNCHANGED <<running, life, next_id, before>>
         /\ c \in Busy /\ Busy' \subseteq Busy
         /\ request[c].numbered >= 1 /\ 1 \in DOMAIN request[c].todo
         /\ request[c].todo[1] \in Item
         /\ items' = [items EXCEPT ![request[c].life] =
                        Capped(Append(@, request[c].todo[1]))]
         /\ pushed' = [pushed EXCEPT ![request[c].life] = Append(@, request[c].todo[1])]
         /\ single' = [single EXCEPT ![request[c].life] =
                         @ \cup ({request[c].todo[1]} \cap Single)]
         /\ request' \in [Clients -> Request \cup {Idle}]
         /\ \A d \in Clients : d # c => request'[d] = request[d]
         /\ c \in Busy' =>
              /\ request'[c].req = request[c].req /\ request'[c].life = request[c].life
              /\ request'[c].numbered = request[c].numbered - 1
              /\ request'[c].todo \in Seq(Item) /\ request'[c].todo # <<>>
              /\ Len(request'[c].todo) = Len(request[c].todo) - 1
              /\ \A i \in DOMAIN request'[c].todo :
                   i + 1 \in DOMAIN request[c].todo
                     /\ request'[c].todo[i] = request[c].todo[i + 1]
  <1> DEFINE r == request[c]
             rest == RemoveAt(r.todo, 1)
             k == r.numbered - 1
             r1 == [r EXCEPT !.todo = rest, !.numbered = k]
  <1>1. c \in Busy
    BY DEF Push, Busy
  <1>2. /\ r \in Request /\ r.todo \in Seq(Item) /\ r.numbered \in Nat /\ r.todo # <<>>
    BY <1>1, BusyRequest DEF RequestsOK, RequestOK
  <1>3. Len(r.todo) \in Nat /\ Len(r.todo) >= 1
    BY <1>2
  <1>4. r.numbered >= 1
    BY <1>2, <1>3 DEF Push, Numbered
  <1>5. 1 \in DOMAIN r.todo /\ r.todo[1] \in Item
    BY <1>2, <1>3
  <1>6. /\ UNCHANGED <<running, life, next_id, before>>
        /\ items' = [items EXCEPT ![r.life] = Capped(Append(@, r.todo[1]))]
        /\ pushed' = [pushed EXCEPT ![r.life] = Append(@, r.todo[1])]
        /\ single' = [single EXCEPT ![r.life] = @ \cup ({r.todo[1]} \cap Single)]
        /\ request' = [request EXCEPT ![c] = IF Len(r.todo) = 1 THEN Idle ELSE r1]
    BY DEF Push, Taken
  <1>7. /\ rest \in Seq(Item) /\ Len(rest) = Len(r.todo) - 1
        /\ \A i \in 1..Len(r.todo) - 1 : rest[i] = r.todo[i + 1]
    BY <1>2, FirstGone
  <1> HIDE DEF rest
  <1>8. /\ r1 \in Request /\ r1.req = r.req /\ r1.life = r.life
        /\ r1.numbered = r.numbered - 1 /\ r1.todo = rest
    <2>1. k \in Nat /\ r \in Request /\ rest \in Seq(Item)
      BY <1>2, <1>4, <1>7
    <2> HIDE DEF k, r
    <2>2. /\ r1 \in Request /\ r1.req = r.req /\ r1.life = r.life
          /\ r1.numbered = k /\ r1.todo = rest
      BY <2>1 DEF Request
    <2> QED BY <2>2 DEF k, r
  <1> HIDE DEF r1
  <1>9. request \in [Clients -> Request \cup {Idle}]
    BY DEF TypeOK
  <1>10. /\ \A d \in Clients : d # c => request'[d] = request[d]
         /\ request'[c] = IF Len(r.todo) = 1 THEN Idle ELSE r1
         /\ request' \in [Clients -> Request \cup {Idle}]
    BY <1>6, <1>8, <1>9
  <1>11. Busy' \subseteq Busy
    BY <1>1, <1>10 DEF Busy
  <1>12. ASSUME c \in Busy'
         PROVE  /\ request'[c] = r1 /\ rest # <<>>
                /\ \A i \in DOMAIN rest : i + 1 \in DOMAIN r.todo /\ rest[i] = r.todo[i + 1]
    <2>1. request'[c] = r1 /\ Len(r.todo) # 1
      BY <1>10, <1>12 DEF Busy
    <2>2. Len(rest) # 0
      BY <1>3, <1>7, <2>1
    <2>3. DOMAIN rest = 1..Len(r.todo) - 1 /\ DOMAIN r.todo = 1..Len(r.todo)
      BY <1>2, <1>7
    <2>4. rest # <<>>
      BY <2>2
    <2>5. ASSUME NEW i \in DOMAIN rest
          PROVE  i + 1 \in DOMAIN r.todo /\ rest[i] = r.todo[i + 1]
      BY <1>3, <1>7, <2>3
    <2> QED BY <2>1, <2>4, <2>5
  <1> QED BY <1>1, <1>4, <1>5, <1>6, <1>7, <1>8, <1>10, <1>11, <1>12

\* A store t, of s after a push: item is the last, and the first of s may have gone.
Pushed(s, item, t) ==
  \E k \in {0, 1} :
    /\ \A i \in DOMAIN t : t[i] = IF i + k = Len(s) + 1 THEN item ELSE s[i + k]
    /\ \A i \in DOMAIN t : i + k # Len(s) + 1 => i + k \in DOMAIN s

\* The first of s goes when there are too many.
LEMMA StorePush ==
  ASSUME NEW s \in Seq(Item), NEW item \in Item, NEW t, t = Capped(Append(s, item))
  PROVE  t \in Seq(Item) /\ Pushed(s, item, t)
  <1>1. PICK a : a = Append(s, item)
    OBVIOUS
  <1>2. /\ a \in Seq(Item) /\ Len(a) = Len(s) + 1 /\ Len(s) \in Nat
        /\ \A i \in 1..Len(a) : a[i] = IF i = Len(s) + 1 THEN item ELSE s[i]
    BY <1>1
  <1>3. CASE Len(a) > MAX_ITEMS
    <2>1. t = Tail(a)
      BY <1>1, <1>3 DEF Capped
    <2>2. /\ t \in Seq(Item)
          /\ \A i \in DOMAIN t : t[i] = a[i + 1] /\ i + 1 \in 1..Len(a)
      BY <1>2, <2>1
    <2>3. /\ \A i \in DOMAIN t : t[i] = IF i + 1 = Len(s) + 1 THEN item ELSE s[i + 1]
          /\ \A i \in DOMAIN t : i + 1 # Len(s) + 1 => i + 1 \in DOMAIN s
      BY <1>2, <2>2
    <2> QED BY <2>2, <2>3 DEF Pushed
  <1>4. CASE ~(Len(a) > MAX_ITEMS)
    <2>1. t = a
      BY <1>1, <1>4 DEF Capped
    <2>2. /\ \A i \in DOMAIN t : t[i] = IF i + 0 = Len(s) + 1 THEN item ELSE s[i + 0]
          /\ \A i \in DOMAIN t : i + 0 # Len(s) + 1 => i + 0 \in DOMAIN s
      BY <1>2, <2>1
    <2> QED BY <1>2, <2>1, <2>2 DEF Pushed
  <1> QED BY <1>3, <1>4

-----------------------------------------------------------------------------
\* A request arrives.

\* Receive keeps the invariant: the requests that are over are not under way.
LEMMA ReceiveKeeps ==
  ASSUME Inv, NEW c \in Clients, NEW n \in Lives, NEW todo \in Seq(Item),
         NEW atOnce \in BOOLEAN, Receive(c, n, todo, atOnce)
  PROVE  Inv'
  <1> DEFINE q == Len(before) + 1
             p1 == request'[c]
  <1>1. TypeOK /\ Numbering /\ Ordering /\ NewestKept
    BY DEF Inv
  <1>2. /\ UNCHANGED <<running, life, items, next_id, pushed, single>>
        /\ before' = Append(before, Over) /\ q <= MaxRequests
        /\ c \notin Busy /\ Busy' = Busy \cup {c}
        /\ request' \in [Clients -> Request \cup {Idle}]
        /\ \A d \in Clients : d # c => request'[d] = request[d]
        /\ p1 \in Request /\ p1.req = q /\ p1.numbered = 0
        /\ p1.life = n /\ n <= life /\ p1.todo # <<>>
        /\ \A i \in DOMAIN p1.todo : p1.todo[i].req = q
    BY <1>1, ReceiveFacts
  <1>3. /\ before \in Seq(SUBSET (1..MaxRequests)) /\ Len(before) \in Nat
        /\ DOMAIN before = 1..Len(before) /\ MaxRequests \in Nat
        /\ Over \subseteq 1..Len(before) /\ Over \in SUBSET (1..MaxRequests)
    <2>1. before \in Seq(SUBSET (1..MaxRequests)) /\ MaxRequests \in Nat
      BY <1>1, TelemetryAssumption DEF TypeOK
    <2>2. Over \subseteq 1..Len(before)
      BY DEF Over
    <2> QED BY <1>2, <2>1, <2>2
  <1>4. /\ before' \in Seq(SUBSET (1..MaxRequests)) /\ Len(before') = q
        /\ DOMAIN before' = DOMAIN before \cup {q} /\ before'[q] = Over
        /\ \A p \in DOMAIN before : before'[p] = before[p]
    BY <1>2, <1>3
  <1>5. TypeOK'
    BY <1>1, <1>2, <1>4 DEF TypeOK
  <1>6. \A d \in Busy : d \in Clients /\ d # c /\ request'[d] = request[d]
    BY <1>2 DEF Busy
  <1>7. \A d \in Busy : request[d].req \in DOMAIN before /\ request[d].req # q
    <2>1. ASSUME NEW d \in Busy PROVE request[d].req \in DOMAIN before /\ request[d].req # q
      <3>1. request[d].req \in 1..MaxRequests
        BY <1>1, <1>6, BusyRequest
      <3>2. request[d].req <= Len(before)
        BY <1>1 DEF Numbering, RequestsOK, RequestOK
      <3> QED BY <1>3, <3>1, <3>2
    <2> QED BY <2>1
  <1>8. RequestsOK'
    <2>1. ASSUME NEW d \in Busy' PROVE RequestOK(request[d])'
      <3>1. CASE d = c
        <4>1. p1.todo \in Seq(Item)
          BY <1>2 DEF Request
        <4>2. p1.numbered <= Len(p1.todo) /\ 1..p1.numbered = {}
          BY <1>2, <4>1
        <4>3. p1.life <= life'
          BY <1>2
        <4> QED BY <1>2, <1>3, <1>4, <3>1, <4>2, <4>3 DEF RequestOK
      <3>2. CASE d # c
        <4>1. d \in Busy /\ request'[d] = request[d]
          BY <1>2, <1>6, <3>2
        <4>2. RequestOK(request[d]) /\ request[d].req <= q
          BY <1>1, <1>3, <1>7, <4>1 DEF Numbering, RequestsOK
        <4> QED BY <1>2, <1>4, <4>1, <4>2 DEF RequestOK
      <3> QED BY <3>1, <3>2
    <2> QED BY <2>1 DEF RequestsOK
  <1>9. RequestsApart'
    <2>1. 1..p1.numbered = {}
      BY <1>2
    <2>2. ASSUME NEW d \in Busy', NEW e \in Busy', d # e
          PROVE  /\ request'[d].req # request'[e].req
                 /\ request'[d].life = request'[e].life =>
                      \A i \in 1..request'[d].numbered, j \in 1..request'[e].numbered :
                        request'[d].todo[i].id # request'[e].todo[j].id
      <3>1. CASE d = c
        <4>1. request'[e].req # q
          BY <1>2, <1>6, <1>7, <2>2, <3>1
        <4> QED BY <1>2, <2>1, <3>1, <4>1
      <3>2. CASE e = c
        <4>1. request'[d].req # q
          BY <1>2, <1>6, <1>7, <2>2, <3>2
        <4> QED BY <1>2, <2>1, <3>2, <4>1
      <3>3. CASE d # c /\ e # c
        <4>1. d \in Busy /\ e \in Busy /\ request'[d] = request[d] /\ request'[e] = request[e]
          BY <1>2, <1>6, <3>3
        <4> QED BY <1>1, <2>2, <4>1 DEF Numbering, RequestsApart
      <3> QED BY <3>1, <3>2, <3>3
    <2> QED BY <2>2 DEF RequestsApart
  <1>10. Stored' /\ StoredApart'
    BY <1>1, <1>2, <1>4 DEF Numbering, Stored, StoredApart
  <1>11. ComingNew'
    <2>1. 1..p1.numbered = {} /\ items' = items
      BY <1>2
    <2>2. \A d \in Busy' : d = c \/ (d \in Busy /\ request'[d] = request[d])
      BY <1>2, <1>6
    <2>3. ComingNew
      BY <1>1 DEF Numbering
    <2> HIDE DEF p1
    <2>4. ASSUME NEW d \in Busy', NEW k \in 1..request'[d].numbered,
                 NEW i \in DOMAIN items'[request'[d].life]
          PROVE  LET old == items'[request'[d].life][i]
                     new == request'[d].todo[k]
                 IN old.id # new.id /\ (old.req = new.req => old.id < new.id)
      <3>1. d \in Busy /\ request'[d] = request[d]
        BY <2>1, <2>2 DEF p1
      <3> QED BY <2>1, <2>3, <3>1 DEF ComingNew
    <2> QED BY <2>4 DEF ComingNew
  <1>12. Ordered'
    <2>1. items' = items /\ \A n1 \in Lives : \A i \in DOMAIN items[n1] :
                              items[n1][i].req \in DOMAIN before
      BY <1>1, <1>2 DEF Numbering, Stored
    <2> QED BY <1>1, <1>4, <2>1 DEF Ordering, Ordered
  <1>13. Past'
    BY <1>1, <1>3, <1>4 DEF Ordering, Past
  <1>14. Ongoing'
    <2>1. ASSUME NEW d \in Busy', NEW p \in DOMAIN before'
          PROVE  request'[d].req \notin before'[p]
      <3>1. CASE p = q
        <4>1. \A e \in Busy : request[e].req \notin Over
          BY <1>6 DEF Over
        <4> QED BY <1>2, <1>3, <1>4, <1>6, <3>1, <4>1
      <3>2. CASE p # q
        <4>1. p \in DOMAIN before /\ before'[p] = before[p] /\ p \in Nat /\ p < q
          BY <1>3, <1>4, <3>2
        <4>2. CASE d = c
          BY <1>1, <1>2, <1>3, <4>1, <4>2 DEF Ordering, Past
        <4>3. CASE d # c
          BY <1>1, <1>2, <1>6, <4>1, <4>3 DEF Ordering, Ongoing
        <4> QED BY <4>2, <4>3
      <3> QED BY <3>1, <3>2
    <2> QED BY <2>1 DEF Ongoing
  <1>15. NewestKept'
    BY <1>1, <1>2 DEF NewestKept
  <1> QED
    BY <1>5, <1>8, <1>9, <1>10, <1>11, <1>12, <1>13, <1>14, <1>15
       DEF Inv, Numbering, Ordering

-----------------------------------------------------------------------------
\* An item is numbered.

\* Number keeps it: the counter is above every number there is.
LEMMA NumberKeeps ==
  ASSUME Inv, NEW c \in Clients, Number(c)
  PROVE  Inv'
  <1>1. TypeOK /\ Numbering /\ Ordering /\ NewestKept
    BY DEF Inv
  <1>2. RequestsOK
    BY <1>1 DEF Numbering
  <1>3. c \in Busy
    BY <1>1, <1>2, NumberFacts
  <1>4. PICK n \in Lives : n = request[c].life
    BY <1>1, <1>3, BusyRequest
  <1>5. PICK id \in Nat : id = next_id[n]
    BY <1>1, <1>3, <1>4, BusyRequest
  <1>6. PICK k \in Nat : k = request[c].numbered + 1
    <2>1. request[c].numbered \in Nat
      BY <1>1, <1>3, BusyRequest
    <2> QED BY <2>1
  <1>7. /\ UNCHANGED <<running, life, items, before, pushed, single>> /\ Busy' = Busy
        /\ next_id' = [next_id EXCEPT ![n] = id + 1] /\ id <= MaxItems
        /\ request' \in [Clients -> Request \cup {Idle}]
        /\ \A d \in Clients : d # c => request'[d] = request[d]
        /\ request'[c].req = request[c].req /\ request'[c].life = n
        /\ request'[c].numbered = k /\ k <= Len(request[c].todo)
        /\ Len(request'[c].todo) = Len(request[c].todo) /\ request'[c].todo \in Seq(Item)
        /\ \A i \in DOMAIN request[c].todo :
             /\ request'[c].todo[i].req = request[c].todo[i].req
             /\ request'[c].todo[i].id = IF i = k THEN id ELSE request[c].todo[i].id
    BY <1>1, <1>2, <1>4, <1>5, <1>6, NumberFacts
  <1>8. TypeOK'
    BY <1>1, <1>5, <1>7, TelemetryAssumption DEF TypeOK
  <1>9. /\ DOMAIN next_id = Lives /\ MaxItems \in Nat
        /\ \A m \in Lives : next_id[m] \in Nat /\ next_id'[m] \in Nat
                            /\ next_id[m] <= next_id'[m]
        /\ next_id'[n] = id + 1
    BY <1>1, <1>5, <1>7, TelemetryAssumption DEF TypeOK
  <1>10. /\ \A d \in Busy : d \in Clients /\ (d # c => request'[d] = request[d])
         /\ \A d \in Busy : request'[d].req = request[d].req /\ request'[d].life = request[d].life
    BY <1>4, <1>7 DEF Busy
  <1>11. /\ request[c].todo \in Seq(Item) /\ DOMAIN request[c].todo = 1..Len(request[c].todo)
         /\ Len(request[c].todo) \in Nat /\ DOMAIN request'[c].todo = DOMAIN request[c].todo
    <2>1. request[c].todo \in Seq(Item)
      BY <1>1, <1>3, BusyRequest
    <2> QED BY <1>7, <2>1
  \* The numbered items of c: those that were, and one with a number of its own.
  <1>12. \A i \in 1..k : i \in DOMAIN request[c].todo
    BY <1>7, <1>11
  <1>13. \A i \in 1..k :
           \/ i = k /\ request'[c].todo[i].id = id
           \/ i \in 1..request[c].numbered /\ i < k
              /\ request'[c].todo[i].id = request[c].todo[i].id
    <2>1. request[c].numbered \in Nat /\ request[c].numbered = k - 1
      BY <1>1, <1>3, <1>6, BusyRequest
    <2>2. \A i \in 1..k : i = k \/ (i \in 1..request[c].numbered /\ i < k)
      BY <2>1
    <2> QED BY <1>7, <1>12, <2>2
  <1>14. \A i \in 1..request[c].numbered :
           request[c].todo[i].id \in Nat /\ request[c].todo[i].id < id
    <2>1. RequestOK(request[c])
      BY <1>2, <1>3 DEF RequestsOK
    <2>2. \A i \in 1..request[c].numbered : i \in DOMAIN request[c].todo
      <3>1. request[c].numbered \in Nat /\ request[c].numbered <= Len(request[c].todo)
        BY <1>1, <1>3, <2>1, BusyRequest DEF RequestOK
      <3> QED BY <1>11, <3>1
    <2>3. \A i \in DOMAIN request[c].todo : request[c].todo[i].id \in Nat
      BY <1>11, Elements
    <2> QED BY <1>4, <1>5, <2>1, <2>2, <2>3 DEF RequestOK
  <1>15. RequestsOK'
    <2>1. ASSUME NEW d \in Busy, d # c PROVE RequestOK(request[d])'
      <3>1. RequestOK(request[d]) /\ request'[d] = request[d]
        BY <1>2, <1>10, <2>1 DEF RequestsOK
      <3>2. /\ request[d] \in Request /\ request[d].todo \in Seq(Item)
            /\ request[d].life \in Lives /\ request[d].numbered \in Nat
        BY <1>1, <1>10, <2>1, BusyRequest
      <3>3. ASSUME NEW i \in 1..request[d].numbered
            PROVE  request[d].todo[i].id < next_id'[request[d].life]
        <4>1. i \in DOMAIN request[d].todo
          BY <3>1, <3>2 DEF RequestOK
        <4>2. request[d].todo[i].id \in Nat
          BY <3>2, <4>1, Elements
        <4>3. request[d].todo[i].id < next_id[request[d].life]
          BY <3>1 DEF RequestOK
        <4>4. /\ next_id[request[d].life] \in Nat /\ next_id'[request[d].life] \in Nat
              /\ next_id[request[d].life] <= next_id'[request[d].life]
          BY <1>9, <3>2
        <4> QED BY <4>2, <4>3, <4>4
      <3> QED BY <1>7, <3>1, <3>3 DEF RequestOK
    <2>2. RequestOK(request[c])'
      <3>1. RequestOK(request[c])
        BY <1>2, <1>3 DEF RequestsOK
      <3>2. request'[c].todo # <<>>
        BY <1>7, <1>11, <3>1 DEF RequestOK
      <3>3. /\ \A i \in 1..k : request'[c].todo[i].id < id + 1
            /\ \A i, j \in 1..k : i < j => request'[c].todo[i].id < request'[c].todo[j].id
        <4>1. \A i \in 1..k : request'[c].todo[i].id < id + 1
          BY <1>5, <1>13, <1>14
        <4>2. ASSUME NEW i \in 1..k, NEW j \in 1..k, i < j
              PROVE  request'[c].todo[i].id < request'[c].todo[j].id
          <5>1. i # k
            BY <1>6, <4>2
          <5>2. i \in 1..request[c].numbered /\ request'[c].todo[i].id = request[c].todo[i].id
            BY <1>13, <5>1
          <5>3. CASE j = k
            BY <1>13, <1>14, <5>2, <5>3
          <5>4. CASE j # k
            <6>1. j \in 1..request[c].numbered /\ request'[c].todo[j].id = request[c].todo[j].id
              BY <1>13, <5>4
            <6> QED BY <3>1, <4>2, <5>2, <6>1 DEF RequestOK
          <5> QED BY <5>3, <5>4
        <4> QED BY <4>1, <4>2
      <3>4. \A i \in DOMAIN request'[c].todo : request'[c].todo[i].req = request'[c].req
        BY <1>7, <1>11, <3>1 DEF RequestOK
      <3>5. request'[c].life <= life' /\ request'[c].req <= Len(before')
        BY <1>4, <1>7, <3>1 DEF RequestOK
      <3>6. request'[c].numbered <= Len(request'[c].todo) /\ request'[c].numbered = k
            /\ next_id'[request'[c].life] = id + 1
        BY <1>7, <1>9
      <3> QED BY <3>2, <3>3, <3>4, <3>5, <3>6 DEF RequestOK
    <2> QED BY <1>7, <2>1, <2>2 DEF RequestsOK
  \* Another request in the life has no item with that number.
  <1>16. \A d \in Busy : d # c /\ request[d].life = n =>
           \A j \in 1..request[d].numbered : request[d].todo[j].id \in Nat
                                             /\ request[d].todo[j].id < id
    <2>1. ASSUME NEW d \in Busy, d # c, request[d].life = n,
                 NEW j \in 1..request[d].numbered
          PROVE  request[d].todo[j].id \in Nat /\ request[d].todo[j].id < id
      <3>1. RequestOK(request[d]) /\ request[d].todo \in Seq(Item)
            /\ request[d].numbered \in Nat
        BY <1>1, <1>2, <1>10, <2>1, BusyRequest DEF RequestsOK
      <3>2. j \in DOMAIN request[d].todo
        BY <3>1 DEF RequestOK
      <3>3. request[d].todo[j].id \in Nat
        BY <3>1, <3>2, Elements
      <3> QED BY <1>5, <2>1, <3>1, <3>3 DEF RequestOK
    <2> QED BY <2>1
  <1>17. \A d \in Busy : d # c /\ request[d].life = n =>
           \A i \in 1..k, j \in 1..request[d].numbered :
             request'[c].todo[i].id # request[d].todo[j].id
    <2>1. ASSUME NEW d \in Busy, d # c, request[d].life = n, NEW i \in 1..k,
                 NEW j \in 1..request[d].numbered
          PROVE  request'[c].todo[i].id # request[d].todo[j].id
      <3>1. CASE request'[c].todo[i].id = id
        <4>1. request[d].todo[j].id \in Nat /\ request[d].todo[j].id < id
          BY <1>16, <2>1
        <4> QED BY <1>5, <3>1, <4>1
      <3>2. CASE i \in 1..request[c].numbered
                 /\ request'[c].todo[i].id = request[c].todo[i].id
        BY <1>1, <1>3, <1>4, <2>1, <3>2 DEF Numbering, RequestsApart
      <3> QED BY <1>13, <3>1, <3>2
    <2> QED BY <2>1
  <1>18. RequestsApart'
    <2>1. ASSUME NEW d \in Busy, NEW e \in Busy, d # e
          PROVE  /\ request'[d].req # request'[e].req
                 /\ request'[d].life = request'[e].life =>
                      \A i \in 1..request'[d].numbered, j \in 1..request'[e].numbered :
                        request'[d].todo[i].id # request'[e].todo[j].id
      <3>1. request'[d].req # request'[e].req
        BY <1>1, <1>10, <2>1 DEF Numbering, RequestsApart
      <3>2. ASSUME request'[d].life = request'[e].life,
                   NEW i \in 1..request'[d].numbered, NEW j \in 1..request'[e].numbered
            PROVE  request'[d].todo[i].id # request'[e].todo[j].id
        <4>1. request[d].life = request[e].life
          BY <1>10, <3>2
        <4>2. CASE d = c
          <5>1. e # c /\ request'[e] = request[e] /\ request[e].life = n /\ i \in 1..k
            BY <1>4, <1>7, <1>10, <2>1, <3>2, <4>1, <4>2
          <5> QED BY <1>17, <3>2, <4>2, <5>1
        <4>3. CASE e = c
          <5>1. d # c /\ request'[d] = request[d] /\ request[d].life = n /\ j \in 1..k
            BY <1>4, <1>7, <1>10, <2>1, <3>2, <4>1, <4>3
          <5> QED BY <1>17, <3>2, <4>3, <5>1
        <4>4. CASE d # c /\ e # c
          <5>1. request'[d] = request[d] /\ request'[e] = request[e]
            BY <1>10, <4>4
          <5> QED BY <1>1, <2>1, <3>2, <4>1, <5>1 DEF Numbering, RequestsApart
        <4> QED BY <4>2, <4>3, <4>4
      <3> QED BY <3>1, <3>2
    <2> QED BY <1>7, <2>1 DEF RequestsApart
  <1>19. \A m \in Lives : items[m] \in Seq(Item)
                          /\ \A i \in DOMAIN items[m] : items[m][i] \in Item
    <2>1. \A m \in Lives : items[m] \in Seq(Item)
      BY <1>1 DEF TypeOK
    <2> QED BY <2>1
  <1>20. Stored' /\ StoredApart'
    <2>1. ASSUME NEW m \in Lives, NEW i \in DOMAIN items[m]
          PROVE  items[m][i].id < next_id'[m] /\ items[m][i].req \in DOMAIN before
      <3>1. items[m][i].id \in Nat
        BY <1>19 DEF Item
      <3>2. items[m][i].id < next_id[m] /\ items[m][i].req \in DOMAIN before
        BY <1>1 DEF Numbering, Stored
      <3> QED BY <1>9, <3>1, <3>2
    <2> QED BY <1>1, <1>7, <2>1 DEF Numbering, Stored, StoredApart
  <1>21. ComingNew'
    <2>1. ComingNew
      BY <1>1 DEF Numbering
    <2>2. ASSUME NEW d \in Busy, NEW p \in 1..request'[d].numbered,
                 NEW i \in DOMAIN items[request'[d].life]
          PROVE  LET old == items[request'[d].life][i]
                     new == request'[d].todo[p]
                 IN old.id # new.id /\ (old.req = new.req => old.id < new.id)
      <3>1. CASE d # c
        <4>1. request'[d] = request[d]
          BY <1>10, <3>1
        <4> QED BY <2>1, <2>2, <4>1 DEF ComingNew
      <3>2. CASE d = c /\ p = k
        <4>1. items[n][i].id \in Nat /\ items[n][i].id < id /\ i \in DOMAIN items[n]
          <5>1. i \in DOMAIN items[n]
            BY <1>7, <2>2, <3>2
          <5>2. items[n][i].id \in Nat
            BY <1>19, <5>1 DEF Item
          <5> QED BY <1>1, <1>5, <5>1, <5>2 DEF Numbering, Stored
        <4>2. request'[d].todo[p].id = id /\ request'[d].life = n
          BY <1>6, <1>7, <1>11, <1>12, <3>2, <2>2
        <4> QED BY <1>5, <4>1, <4>2
      <3>3. CASE d = c /\ p # k
        <4>1. p \in 1..k /\ request'[c].life = n /\ i \in DOMAIN items[n]
          BY <1>7, <2>2, <3>3
        <4>2. /\ p \in 1..request[c].numbered
              /\ request'[c].todo[p].id = request[c].todo[p].id
              /\ request'[c].todo[p].req = request[c].todo[p].req
          BY <1>7, <1>12, <1>13, <3>3, <4>1
        <4>3. /\ items[n][i].id # request[c].todo[p].id
              /\ items[n][i].req = request[c].todo[p].req =>
                   items[n][i].id < request[c].todo[p].id
          BY <1>3, <1>4, <2>1, <4>1, <4>2 DEF ComingNew
        <4> QED BY <3>3, <4>1, <4>2, <4>3
      <3> QED BY <3>1, <3>2, <3>3
    <2> QED BY <1>7, <2>2 DEF ComingNew
  <1>22. Ordering' /\ NewestKept'
    BY <1>1, <1>7, <1>10 DEF Ordering, Ordered, Past, Ongoing, NewestKept
  <1> QED
    BY <1>8, <1>15, <1>18, <1>20, <1>21, <1>22 DEF Inv, Numbering

-----------------------------------------------------------------------------
\* An item is pushed.

\* The items of a sequence but for the first ones.
LEMMA Later ==
  ASSUME NEW a \in Seq(Item), NEW skip \in Nat, skip <= Len(a)
  PROVE  /\ SubSeq(a, skip + 1, Len(a)) \in Seq(Item)
         /\ Len(SubSeq(a, skip + 1, Len(a))) = Len(a) - skip
         /\ Len(a) - skip \in Nat
         /\ \A i \in 1..Len(a) - skip : SubSeq(a, skip + 1, Len(a))[i] = a[i + skip]
  <1>1. Len(a) \in Nat /\ Len(a) - skip \in Nat
    OBVIOUS
  <1>2. SubSeq(a, skip + 1, Len(a)) = [i \in 1..Len(a) - skip |-> a[i + skip]]
    BY <1>1
  <1>3. [i \in 1..Len(a) - skip |-> a[i + skip]] \in Seq(Item)
    BY <1>1
  <1> QED BY <1>1, <1>2, <1>3

\* The items of a sequence but for the first.
LEMMA AllButFirst ==
  ASSUME NEW a \in Seq(Item), Len(a) >= 1
  PROVE  /\ Tail(a) \in Seq(Item) /\ Len(Tail(a)) = Len(a) - 1
         /\ \A i \in 1..Len(Tail(a)) : Tail(a)[i] = a[i + 1] /\ i + 1 \in 1..Len(a)
  OBVIOUS

\* How many of len items are too many, and of one more.
LEMMA Skips ==
  ASSUME NEW max \in Nat, NEW len \in Nat
  PROVE  \E skip, skip1 \in Nat :
           /\ skip <= len /\ skip + 1 = IF len > max THEN len - max + 1 ELSE 1
           /\ skip1 <= len + 1 /\ skip1 + 1 = IF len + 1 > max THEN len + 1 - max + 1 ELSE 1
           /\ (len - skip) + 1 > max => skip1 = skip + 1
           /\ ~((len - skip) + 1 > max) => skip1 = skip
  <1>1. CASE len > max
    <2>1. len - max \in Nat /\ len + 1 - max \in Nat
      BY <1>1
    <2> WITNESS len - max \in Nat, len + 1 - max \in Nat
    <2> QED BY <1>1, <2>1
  <1>2. CASE ~(len > max) /\ len + 1 > max
    <2>1. 0 \in Nat /\ 1 \in Nat
      OBVIOUS
    <2> WITNESS 0 \in Nat, 1 \in Nat
    <2> QED BY <1>2
  <1>3. CASE ~(len + 1 > max)
    <2>1. 0 \in Nat
      OBVIOUS
    <2> WITNESS 0 \in Nat, 0 \in Nat
    <2> QED BY <1>3
  <1> QED BY <1>1, <1>2, <1>3

\* The newest MAX_ITEMS of all items.
Newest(all) ==
  SubSeq(all, IF Len(all) > MAX_ITEMS THEN Len(all) - MAX_ITEMS + 1 ELSE 1, Len(all))

\* A push keeps the newest.
LEMMA NewestPush ==
  ASSUME NEW s \in Seq(Item), NEW all \in Seq(Item), NEW item \in Item, s = Newest(all)
  PROVE  Capped(Append(s, item)) = Newest(Append(all, item))
  <1>0. PICK more : more = Append(all, item)
    OBVIOUS
  <1>1. /\ MAX_ITEMS \in Nat /\ Len(all) \in Nat /\ more \in Seq(Item) /\ Len(more) = Len(all) + 1
        /\ \A i \in 1..Len(more) : more[i] = IF i = Len(all) + 1 THEN item ELSE all[i]
    BY <1>0, TelemetryAssumption
  <1>2. PICK skip \in Nat, skip1 \in Nat :
          /\ skip <= Len(all)
          /\ skip + 1 = IF Len(all) > MAX_ITEMS THEN Len(all) - MAX_ITEMS + 1 ELSE 1
          /\ skip1 <= Len(all) + 1
          /\ skip1 + 1 = IF Len(all) + 1 > MAX_ITEMS THEN Len(all) + 1 - MAX_ITEMS + 1 ELSE 1
          /\ (Len(all) - skip) + 1 > MAX_ITEMS => skip1 = skip + 1
          /\ ~((Len(all) - skip) + 1 > MAX_ITEMS) => skip1 = skip
    <2>1. MAX_ITEMS \in Nat /\ Len(all) \in Nat
      BY <1>1
    <2> QED BY <2>1, Skips
  <1>4. s = SubSeq(all, skip + 1, Len(all))
    BY <1>2 DEF Newest
  <1>5. /\ Len(s) = Len(all) - skip /\ Len(s) \in Nat
        /\ \A i \in 1..Len(s) : s[i] = all[i + skip]
    <2>1. /\ Len(SubSeq(all, skip + 1, Len(all))) = Len(all) - skip
          /\ Len(all) - skip \in Nat
          /\ \A i \in 1..Len(all) - skip : SubSeq(all, skip + 1, Len(all))[i] = all[i + skip]
      BY <1>2, Later
    <2> QED BY <1>4, <2>1
  <1>6. PICK a : a = Append(s, item)
    OBVIOUS
  <1>7. /\ a \in Seq(Item) /\ Len(a) = Len(s) + 1
        /\ \A i \in 1..Len(a) : a[i] = IF i = Len(s) + 1 THEN item ELSE s[i]
    BY <1>6
  <1>8. /\ Len(a) = Len(more) - skip /\ Len(a) \in Nat /\ Len(a) = (Len(all) - skip) + 1
        /\ \A i \in 1..Len(a) : a[i] = more[i + skip]
    <2>1. ASSUME NEW i \in 1..Len(a) PROVE a[i] = more[i + skip]
      <3>1. /\ i + skip \in 1..Len(more) /\ (i = Len(s) + 1 <=> i + skip = Len(all) + 1)
            /\ (i # Len(s) + 1 => i \in 1..Len(s))
        <4>1. PICK x \in Nat, y \in Nat : x = Len(all) /\ y = Len(s) /\ y = x - skip
          BY <1>1, <1>5
        <4>2. i \in 1..y + 1 /\ Len(more) = x + 1
          BY <1>1, <1>7, <4>1
        <4>3. i \in Nat /\ i >= 1 /\ i <= y + 1 /\ x = y + skip
          BY <4>1, <4>2
        <4>4. i + skip \in 1..x + 1 /\ (i # y + 1 => i \in 1..y)
          BY <4>3
        <4>5. i = y + 1 <=> i + skip = x + 1
          BY <4>3
        <4> QED BY <4>1, <4>2, <4>4, <4>5
      <3> QED BY <1>1, <1>5, <1>7, <3>1
    <2>2. Len(a) = Len(more) - skip /\ Len(a) \in Nat /\ Len(a) = (Len(all) - skip) + 1
      BY <1>1, <1>5, <1>7
    <2> QED BY <2>1, <2>2
  <1>9. PICK t : t = Capped(a)
    OBVIOUS
  <1>10. /\ t \in Seq(Item) /\ Len(t) = Len(more) - skip1
         /\ \A i \in 1..Len(t) : t[i] = more[i + skip1]
    <2>1. CASE Len(a) > MAX_ITEMS
      <3>1. t = Tail(a)
        BY <1>9, <2>1 DEF Capped
      <3>2. skip1 = skip + 1 /\ Len(a) >= 1
        <4>1. skip1 = skip + 1
          BY <1>2, <1>8, <2>1
        <4> QED BY <1>5, <1>7, <4>1
      <3>3. /\ t \in Seq(Item) /\ Len(t) = Len(a) - 1
            /\ \A i \in 1..Len(t) : t[i] = a[i + 1] /\ i + 1 \in 1..Len(a)
        BY <1>7, <3>1, <3>2, AllButFirst
      <3>4. \A i \in 1..Len(t) : t[i] = more[i + skip1]
        <4>1. ASSUME NEW i \in 1..Len(t) PROVE t[i] = more[i + skip1]
          <5>1. (i + 1) + skip = i + skip1
            BY <3>2
          <5> QED BY <1>8, <3>3, <5>1
        <4> QED BY <4>1
      <3>5. Len(t) = Len(more) - skip1
        BY <1>1, <1>8, <3>2, <3>3
      <3> QED BY <3>3, <3>4, <3>5
    <2>2. CASE ~(Len(a) > MAX_ITEMS)
      <3>1. t = a
        BY <1>9, <2>2 DEF Capped
      <3>2. skip1 = skip
        BY <1>2, <1>8, <2>2
      <3> QED BY <1>7, <1>8, <3>1, <3>2
    <2> QED BY <2>1, <2>2
  <1>11. PICK u : u = SubSeq(more, skip1 + 1, Len(more))
    OBVIOUS
  <1>12. /\ u \in Seq(Item) /\ Len(u) = Len(more) - skip1
         /\ \A i \in 1..Len(more) - skip1 : u[i] = more[i + skip1]
    <2>1. skip1 <= Len(more)
      BY <1>1, <1>2
    <2>2. /\ SubSeq(more, skip1 + 1, Len(more)) \in Seq(Item)
          /\ Len(SubSeq(more, skip1 + 1, Len(more))) = Len(more) - skip1
          /\ \A i \in 1..Len(more) - skip1 :
               SubSeq(more, skip1 + 1, Len(more))[i] = more[i + skip1]
      BY <1>1, <2>1, Later
    <2> QED BY <1>11, <2>2
  <1>13. t = u
    <2>1. Len(t) = Len(u) /\ \A i \in 1..Len(t) : t[i] = u[i]
      BY <1>10, <1>12
    <2>2. t \in Seq(Item) /\ u \in Seq(Item)
      BY <1>10, <1>12
    <2>3. /\ t = [i \in 1..Len(t) |-> t[i]] /\ u = [i \in 1..Len(u) |-> u[i]]
      BY <2>2
    <2> QED BY <2>1, <2>3
  <1>14. skip1 + 1 = IF Len(more) > MAX_ITEMS THEN Len(more) - MAX_ITEMS + 1 ELSE 1
    BY <1>1, <1>2
  <1> QED BY <1>0, <1>6, <1>9, <1>11, <1>13, <1>14 DEF Newest

\* Push keeps it: what is pushed is new to the store, and comes after its request's others.
LEMMA PushKeeps ==
  ASSUME Inv, NEW c \in Clients, Push(c)
  PROVE  Inv'
  <1>1. TypeOK /\ Numbering /\ Ordering /\ NewestKept
    BY DEF Inv
  <1>2. RequestsOK
    BY <1>1 DEF Numbering
  <1>3. c \in Busy
    BY <1>1, <1>2, PushFacts
  <1>4. PICK n \in Lives : n = request[c].life
    BY <1>1, <1>3, BusyRequest
  <1>5. PICK item \in Item : item = request[c].todo[1]
    BY <1>1, <1>2, PushFacts
  <1>6. PICK s \in Seq(Item) : s = items[n]
    BY <1>1 DEF TypeOK
  <1>7. PICK all \in Seq(Item) : all = pushed[n]
    BY <1>1 DEF TypeOK
  <1>8. /\ UNCHANGED <<running, life, next_id, before>> /\ Busy' \subseteq Busy
        /\ request[c].numbered >= 1 /\ 1 \in DOMAIN request[c].todo
        /\ items' = [items EXCEPT ![n] = Capped(Append(s, item))]
        /\ pushed' = [pushed EXCEPT ![n] = Append(all, item)]
        /\ single' = [single EXCEPT ![n] = @ \cup ({item} \cap Single)]
        /\ request' \in [Clients -> Request \cup {Idle}]
        /\ \A d \in Clients : d # c => request'[d] = request[d]
        /\ c \in Busy' =>
             /\ request'[c].req = request[c].req /\ request'[c].life = n
             /\ request'[c].numbered = request[c].numbered - 1
             /\ request'[c].todo \in Seq(Item) /\ request'[c].todo # <<>>
             /\ Len(request'[c].todo) = Len(request[c].todo) - 1
             /\ \A i \in DOMAIN request'[c].todo :
                  i + 1 \in DOMAIN request[c].todo
                    /\ request'[c].todo[i] = request[c].todo[i + 1]
    BY <1>1, <1>2, <1>4, <1>5, <1>6, <1>7, PushFacts
  <1>9. PICK t \in Seq(Item) : t = Capped(Append(s, item))
    <2>1. Capped(Append(s, item)) \in Seq(Item)
      BY StorePush
    <2> QED BY <2>1
  <1>10. PICK k \in {0, 1} :
           /\ \A i \in DOMAIN t : t[i] = IF i + k = Len(s) + 1 THEN item ELSE s[i + k]
           /\ \A i \in DOMAIN t : i + k # Len(s) + 1 => i + k \in DOMAIN s
    <2>1. Pushed(s, item, t)
      BY <1>9, StorePush
    <2> QED BY <2>1 DEF Pushed
  <1>11. /\ DOMAIN items = Lives /\ DOMAIN pushed = Lives
         /\ items'[n] = t /\ \A m \in Lives : m # n => items'[m] = items[m]
         /\ pushed'[n] = Append(all, item) /\ \A m \in Lives : m # n => pushed'[m] = pushed[m]
    BY <1>1, <1>8, <1>9 DEF TypeOK
  <1>12. TypeOK'
    <2>1. Append(all, item) \in Seq(Item)
      OBVIOUS
    <2>2. single' \in [Lives -> SUBSET Single]
      BY <1>1, <1>8 DEF TypeOK
    <2> QED BY <1>1, <1>8, <1>9, <2>1, <2>2 DEF TypeOK
  <1>13. RequestOK(request[c])
    BY <1>2, <1>3 DEF RequestsOK
  \* The item that goes to the store is the first of the request, and has a number.
  <1>14. /\ 1 \in 1..request[c].numbered /\ item.req = request[c].req
         /\ item.id < next_id[n] /\ request[c].req \in DOMAIN before
    <2>1. request[c].numbered \in Nat /\ request[c].req \in 1..MaxRequests
      BY <1>1, <1>3, BusyRequest
    <2>2. before \in Seq(SUBSET (1..MaxRequests)) /\ request[c].req <= Len(before)
      BY <1>1, <1>13 DEF TypeOK, RequestOK
    <2>3. 1 \in 1..request[c].numbered
      BY <1>8, <2>1
    <2>4. request[c].req \in DOMAIN before
      BY <2>1, <2>2
    <2> QED BY <1>4, <1>5, <1>8, <1>13, <2>3, <2>4 DEF RequestOK
  <1>15. /\ \A d \in Busy' : d \in Busy /\ d \in Clients
         /\ \A d \in Busy' : d # c => request'[d] = request[d]
         /\ \A d \in Busy' : request'[d].req = request[d].req /\ request'[d].life = request[d].life
    BY <1>4, <1>8 DEF Busy
  <1>16. ASSUME c \in Busy'
         PROVE  \A i \in 1..request'[c].numbered :
                  /\ i + 1 \in 1..request[c].numbered /\ i \in DOMAIN request'[c].todo
                  /\ request'[c].todo[i] = request[c].todo[i + 1]
    <2>1. /\ request[c].numbered \in Nat /\ request[c].todo \in Seq(Item)
          /\ request[c].numbered <= Len(request[c].todo)
      BY <1>1, <1>3, <1>13, BusyRequest DEF RequestOK
    <2>2. /\ Len(request'[c].todo) = Len(request[c].todo) - 1 /\ request'[c].todo \in Seq(Item)
          /\ request'[c].numbered = request[c].numbered - 1
      BY <1>8, <1>16
    <2>3. \A i \in 1..request'[c].numbered :
            i + 1 \in 1..request[c].numbered /\ i \in DOMAIN request'[c].todo
      BY <2>1, <2>2
    <2> QED BY <1>8, <1>16, <2>3
  <1>17. RequestsOK'
    <2>1. ASSUME NEW d \in Busy', d # c PROVE RequestOK(request[d])'
      BY <1>2, <1>8, <1>15, <2>1 DEF RequestsOK, RequestOK
    <2>2. ASSUME c \in Busy' PROVE RequestOK(request[c])'
      <3>1. /\ request'[c].life = n /\ request'[c].req = request[c].req
            /\ request'[c].life <= life' /\ request'[c].req <= Len(before')
            /\ request'[c].todo # <<>>
        BY <1>4, <1>8, <1>13, <2>2 DEF RequestOK
      <3>2. request'[c].numbered <= Len(request'[c].todo)
        <4>1. request[c].numbered \in Nat /\ request[c].todo \in Seq(Item)
          BY <1>1, <1>3, BusyRequest
        <4> QED BY <1>8, <1>13, <2>2, <4>1 DEF RequestOK
      <3>3. \A i \in DOMAIN request'[c].todo : request'[c].todo[i].req = request'[c].req
        BY <1>8, <1>13, <2>2 DEF RequestOK
      <3>4. \A i \in 1..request'[c].numbered :
              request'[c].todo[i].id < next_id'[request'[c].life]
        BY <1>4, <1>8, <1>13, <1>16, <2>2, <3>1 DEF RequestOK
      <3>5. ASSUME NEW i \in 1..request'[c].numbered, NEW j \in 1..request'[c].numbered, i < j
            PROVE  request'[c].todo[i].id < request'[c].todo[j].id
        <4>1. /\ i + 1 \in 1..request[c].numbered /\ j + 1 \in 1..request[c].numbered
              /\ i + 1 < j + 1
              /\ request'[c].todo[i] = request[c].todo[i + 1]
              /\ request'[c].todo[j] = request[c].todo[j + 1]
          BY <1>16, <2>2, <3>5
        <4> QED BY <1>13, <4>1 DEF RequestOK
      <3> QED BY <3>1, <3>2, <3>3, <3>4, <3>5 DEF RequestOK
    <2> QED BY <2>1, <2>2 DEF RequestsOK
  \* Every numbered item of a request under way was one.
  <1>18. \A d \in Busy' : \A i \in 1..request'[d].numbered :
           \E j \in 1..request[d].numbered : request'[d].todo[i] = request[d].todo[j]
    BY <1>15, <1>16
  <1>19. RequestsApart'
    <2>1. ASSUME NEW d \in Busy', NEW e \in Busy', d # e
          PROVE  /\ request'[d].req # request'[e].req
                 /\ request'[d].life = request'[e].life =>
                      \A i \in 1..request'[d].numbered, j \in 1..request'[e].numbered :
                        request'[d].todo[i].id # request'[e].todo[j].id
      <3>1. request'[d].req # request'[e].req
        BY <1>1, <1>15, <2>1 DEF Numbering, RequestsApart
      <3>2. ASSUME request'[d].life = request'[e].life,
                   NEW i \in 1..request'[d].numbered, NEW j \in 1..request'[e].numbered
            PROVE  request'[d].todo[i].id # request'[e].todo[j].id
        <4>1. PICK i1 \in 1..request[d].numbered : request'[d].todo[i] = request[d].todo[i1]
          BY <1>18
        <4>2. PICK j1 \in 1..request[e].numbered : request'[e].todo[j] = request[e].todo[j1]
          BY <1>18
        <4>3. request[d].life = request[e].life
          BY <1>15, <3>2
        <4> QED BY <1>1, <1>15, <2>1, <4>1, <4>2, <4>3 DEF Numbering, RequestsApart
      <3> QED BY <3>1, <3>2
    <2> QED BY <2>1 DEF RequestsApart
  <1>20. \A i \in DOMAIN s :
           /\ s[i].id < next_id[n] /\ s[i].req \in DOMAIN before
           /\ s[i].id # item.id /\ (s[i].req = item.req => s[i].id < item.id)
           /\ \A j \in DOMAIN s : s[i].id = s[j].id => i = j
           /\ \A j \in DOMAIN s : i < j => /\ s[i].req = s[j].req => s[i].id < s[j].id
                                           /\ s[j].req \notin before[s[i].req]
    <2>1. /\ \A i \in DOMAIN items[n] : items[n][i].id < next_id[n]
                                        /\ items[n][i].req \in DOMAIN before
          /\ \A i, j \in DOMAIN items[n] : items[n][i].id = items[n][j].id => i = j
          /\ \A i, j \in DOMAIN items[n] : i < j =>
               /\ items[n][i].req = items[n][j].req => items[n][i].id < items[n][j].id
               /\ items[n][j].req \notin before[items[n][i].req]
      BY <1>1 DEF Numbering, Ordering, Stored, StoredApart, Ordered
    <2>2. \A i \in DOMAIN items[n] :
            /\ items[n][i].id # item.id
            /\ items[n][i].req = item.req => items[n][i].id < item.id
      BY <1>1, <1>3, <1>4, <1>5, <1>14 DEF Numbering, ComingNew
    <2> QED BY <1>6, <2>1, <2>2
  \* Each item of the store is the one that was pushed, and the last, or one it had.
  <1>21. \A i \in DOMAIN t : \/ i + k = Len(s) + 1 /\ t[i] = item
                             \/ i + k \in DOMAIN s /\ t[i] = s[i + k]
    BY <1>10
  <1>22. /\ DOMAIN t \subseteq Nat /\ k \in Nat /\ Len(s) \in Nat /\ DOMAIN s = 1..Len(s)
    BY <1>10
  <1>23. Stored'
    <2>1. ASSUME NEW i \in DOMAIN t PROVE t[i].id < next_id[n] /\ t[i].req \in DOMAIN before
      BY <1>14, <1>20, <1>21
    <2> QED BY <1>1, <1>8, <1>11, <2>1 DEF Numbering, Stored
  <1>24. StoredApart'
    <2>1. ASSUME NEW i \in DOMAIN t, NEW j \in DOMAIN t, t[i].id = t[j].id PROVE i = j
      <3>1. CASE i + k = Len(s) + 1
        BY <1>20, <1>21, <1>22, <2>1, <3>1
      <3>2. CASE i + k \in DOMAIN s /\ t[i] = s[i + k]
        BY <1>20, <1>21, <1>22, <2>1, <3>2
      <3> QED BY <1>21, <3>1, <3>2
    <2> QED BY <1>1, <1>11, <2>1 DEF Numbering, StoredApart
  <1>25. Ordered'
    <2>1. ASSUME NEW i \in DOMAIN t, NEW j \in DOMAIN t, i < j
          PROVE  /\ t[i].req = t[j].req => t[i].id < t[j].id
                 /\ t[j].req \notin before[t[i].req]
      <3>1. i + k \in DOMAIN s /\ t[i] = s[i + k]
        <4>1. CASE j + k = Len(s) + 1
          BY <1>21, <1>22, <2>1, <4>1
        <4>2. CASE j + k \in DOMAIN s
          BY <1>21, <1>22, <2>1, <4>2
        <4> QED BY <1>21, <4>1, <4>2
      <3>2. CASE j + k = Len(s) + 1 /\ t[j] = item
        <4>1. item.req \notin before[s[i + k].req]
          BY <1>1, <1>3, <1>14, <1>20, <3>1 DEF Ordering, Ongoing
        <4> QED BY <1>20, <3>1, <3>2, <4>1
      <3>3. CASE j + k \in DOMAIN s /\ t[j] = s[j + k]
        <4>1. i + k < j + k
          BY <1>22, <2>1
        <4> QED BY <1>20, <3>1, <3>3, <4>1
      <3> QED BY <1>21, <3>2, <3>3
    <2> QED BY <1>1, <1>8, <1>11, <2>1 DEF Ordering, Ordered
  <1>26. ComingNew'
    <2>1. ASSUME NEW d \in Busy', NEW p \in 1..request'[d].numbered,
                 NEW i \in DOMAIN items'[request'[d].life]
          PROVE  LET old == items'[request'[d].life][i]
                     new == request'[d].todo[p]
                 IN old.id # new.id /\ (old.req = new.req => old.id < new.id)
      <3>1. PICK q \in 1..request[d].numbered : request'[d].todo[p] = request[d].todo[q]
        BY <1>18
      <3>2. d \in Busy /\ request'[d].life = request[d].life
        BY <1>15
      <3>3. ComingNew
        BY <1>1 DEF Numbering
      <3>4. ASSUME NEW j \in DOMAIN items[request[d].life]
            PROVE  /\ items[request[d].life][j].id # request[d].todo[q].id
                   /\ items[request[d].life][j].req = request[d].todo[q].req =>
                        items[request[d].life][j].id < request[d].todo[q].id
        BY <3>2, <3>3 DEF ComingNew
      <3>5. CASE request[d].life # n
        <4>1. items'[request'[d].life] = items[request[d].life]
          <5>1. request[d].life \in Lives
            BY <1>1, <1>15, BusyRequest
          <5> QED BY <1>11, <3>2, <3>5, <5>1
        <4> QED BY <3>1, <3>4, <4>1
      <3>6. CASE request[d].life = n
        <4>1. i \in DOMAIN t /\ items'[request'[d].life][i] = t[i]
          BY <1>11, <3>2, <3>6
        <4>2. CASE i + k \in DOMAIN s /\ t[i] = s[i + k]
          BY <1>6, <3>1, <3>4, <3>6, <4>1, <4>2
        <4>3. CASE t[i] = item /\ d = c
          <5>1. p + 1 \in 1..request[c].numbered /\ request'[c].todo[p] = request[c].todo[p + 1]
                /\ 1 < p + 1
            BY <1>16, <4>3
          <5>2. /\ item.id < request[c].todo[p + 1].id
            BY <1>5, <1>13, <1>14, <5>1 DEF RequestOK
          <5>3. item.id \in Nat
            BY DEF Item
          <5>4. request[c].todo[p + 1].id \in Nat
            <6>1. /\ request[c].todo \in Seq(Item) /\ request[c].numbered \in Nat
                  /\ request[c].numbered <= Len(request[c].todo)
              BY <1>1, <1>3, <1>13, BusyRequest DEF RequestOK
            <6>2. p + 1 \in DOMAIN request[c].todo
              BY <5>1, <6>1
            <6> QED BY <6>1, <6>2, Elements
          <5> QED BY <4>1, <4>3, <5>1, <5>2, <5>3, <5>4
        <4>4. CASE t[i] = item /\ d # c
          <5>1. /\ request[c].req # request[d].req
                /\ request[c].todo[1].id # request[d].todo[q].id
            BY <1>1, <1>3, <1>4, <1>14, <3>2, <3>6, <4>4 DEF Numbering, RequestsApart
          <5>2. request[d].todo[q].req = request[d].req
            <6>1. /\ RequestOK(request[d]) /\ request[d].todo \in Seq(Item)
                  /\ request[d].numbered \in Nat
              BY <1>1, <1>2, <1>15, <3>2, BusyRequest DEF RequestsOK
            <6>2. q \in DOMAIN request[d].todo
              BY <6>1 DEF RequestOK
            <6> QED BY <6>1, <6>2 DEF RequestOK
          <5> QED BY <1>5, <1>14, <3>1, <4>1, <4>4, <5>1, <5>2
        <4> QED BY <1>21, <4>1, <4>2, <4>3, <4>4
      <3> QED BY <3>5, <3>6
    <2> QED BY <2>1 DEF ComingNew
  <1>27. Past' /\ Ongoing'
    BY <1>1, <1>8, <1>15 DEF Ordering, Past, Ongoing
  <1>28. NewestKept'
    <2>1. s = Newest(all)
      BY <1>1, <1>6, <1>7 DEF NewestKept, Newest
    <2>2. t = Newest(Append(all, item))
      BY <1>9, <2>1, NewestPush
    <2>3. \A m \in Lives : m # n => items'[m] = items[m] /\ pushed'[m] = pushed[m]
      BY <1>11
    <2>4. items'[n] = Newest(pushed'[n])
      BY <1>11, <2>2
    <2>5. \A m \in Lives : items'[m] = Newest(pushed'[m])
      BY <1>1, <2>3, <2>4 DEF NewestKept, Newest
    <2> QED BY <2>5 DEF NewestKept, Newest
  <1> QED
    BY <1>12, <1>17, <1>19, <1>23, <1>24, <1>25, <1>26, <1>27, <1>28
       DEF Inv, Numbering, Ordering

-----------------------------------------------------------------------------
\* The invariant.

\* It holds at first.
LEMMA InitInv == Init => Inv
  <1> SUFFICES ASSUME Init PROVE Inv
    OBVIOUS
  <1>1. TypeOK
    <2>1. MaxItems \in Nat /\ MaxLives \in Nat /\ 1 \in 1..MaxItems + 1 /\ 0 \in 0..MaxLives
      BY TelemetryAssumption
    <2>2. <<>> \in Seq(Item) /\ <<>> \in Seq(SUBSET (1..MaxRequests)) /\ Len(before) = 0
      BY DEF Init
    <2>3. 0 <= MaxRequests
      BY TelemetryAssumption
    <2> QED BY <2>1, <2>2, <2>3 DEF Init, TypeOK
  <1>2. Busy = {} /\ DOMAIN before = {} /\ \A n \in Lives : items[n] = <<>> /\ pushed[n] = <<>>
    BY DEF Init, Busy
  <1>3. Numbering /\ Ordering
    BY <1>2 DEF Numbering, Ordering, RequestsOK, RequestsApart, Stored, StoredApart, ComingNew,
                Ordered, Past, Ongoing
  <1>4. <<>> = Newest(<<>>)
    BY TelemetryAssumption DEF Newest
  <1>5. NewestKept
    BY <1>2, <1>4 DEF NewestKept, Newest
  <1> QED BY <1>1, <1>3, <1>5 DEF Inv

\* Starts, stops and steps of no action.
LEMMA SameStores ==
  ASSUME Inv, TypeOK', life <= life', UNCHANGED <<items, next_id, request, before, pushed>>
  PROVE  Inv'
  <1>1. TypeOK /\ Numbering /\ Ordering /\ NewestKept /\ life \in Nat /\ life' \in Nat
    BY TelemetryAssumption DEF Inv, TypeOK
  <1>2. Busy' = Busy
    BY DEF Busy
  <1>3. RequestsOK'
    <2>1. ASSUME NEW c \in Busy PROVE RequestOK(request[c])'
      <3>1. RequestOK(request[c]) /\ request[c].life \in Nat
        <4>1. request[c].life \in Lives
          BY <1>1, BusyRequest DEF Busy
        <4> QED BY <1>1, <4>1, TelemetryAssumption DEF Numbering, RequestsOK, Lives
      <3>2. request[c].life <= life'
        BY <1>1, <3>1 DEF RequestOK
      <3> QED BY <3>1, <3>2 DEF RequestOK
    <2> QED BY <1>2, <2>1 DEF RequestsOK
  <1>4. Numbering'
    BY <1>1, <1>2, <1>3 DEF Numbering, RequestsApart, Stored, StoredApart, ComingNew
  <1>5. Ordering' /\ NewestKept'
    BY <1>1, <1>2 DEF Ordering, Ordered, Past, Ongoing, NewestKept
  <1> QED BY <1>4, <1>5 DEF Inv

\* clear_items keeps it.
LEMMA ClearKeeps ==
  ASSUME Inv, NEW n \in Lives, clear_items(n)
  PROVE  Inv'
  <1>1. TypeOK /\ Numbering /\ Ordering /\ NewestKept
    BY DEF Inv
  <1>2. /\ UNCHANGED <<running, life, next_id, request, before, single>> /\ Busy' = Busy
        /\ items'[n] = <<>> /\ \A m \in Lives : m # n => items'[m] = items[m]
        /\ pushed'[n] = <<>> /\ \A m \in Lives : m # n => pushed'[m] = pushed[m]
    BY <1>1 DEF clear_items, TypeOK, Busy
  <1>3. TypeOK'
    BY <1>1, <1>2 DEF clear_items, TypeOK
  <1>4. DOMAIN items'[n] = {} /\ Newest(<<>>) = <<>>
    BY <1>2, TelemetryAssumption DEF Newest
  <1>5. RequestsOK' /\ RequestsApart'
    BY <1>1, <1>2 DEF Numbering, RequestsOK, RequestOK, RequestsApart
  <1>6. Stored' /\ StoredApart'
    BY <1>1, <1>2, <1>4 DEF Numbering, Stored, StoredApart
  <1>7. ComingNew'
    <2>1. \A c \in Busy : request[c].life \in Lives
      BY <1>1, BusyRequest DEF Busy
    <2>2. ASSUME NEW c \in Busy, NEW k \in 1..request[c].numbered,
                 NEW i \in DOMAIN items'[request[c].life]
          PROVE  LET old == items'[request[c].life][i]
                     new == request[c].todo[k]
                 IN old.id # new.id /\ (old.req = new.req => old.id < new.id)
      <3>1. items'[request[c].life] = items[request[c].life]
        BY <1>2, <1>4, <2>1
      <3> QED BY <1>1, <3>1 DEF Numbering, ComingNew
    <2>3. request' = request /\ Busy' = Busy
      BY <1>2
    <2> QED BY <2>2, <2>3 DEF ComingNew
  <1>8. Ordered'
    BY <1>1, <1>2, <1>4 DEF Ordering, Ordered
  <1>9. Past' /\ Ongoing'
    BY <1>1, <1>2 DEF Ordering, Past, Ongoing
  <1>10. \A m \in Lives : items'[m] = Newest(pushed'[m])
    BY <1>1, <1>2, <1>4 DEF NewestKept, Newest
  <1>11. NewestKept'
    BY <1>10 DEF NewestKept, Newest
  <1> QED
    BY <1>3, <1>5, <1>6, <1>7, <1>8, <1>9, <1>11 DEF Inv, Numbering, Ordering

\* Every step keeps it.
LEMMA NextInv == Inv /\ [Next]_vars => Inv'
  <1> SUFFICES ASSUME Inv, [Next]_vars PROVE Inv'
    OBVIOUS
  <1>0. TypeOK /\ life \in Nat /\ MaxLives \in Nat
    BY TelemetryAssumption DEF Inv, TypeOK
  <1>1. CASE Start
    <2>1. TypeOK'
      BY <1>0, <1>1 DEF Start, TypeOK
    <2> QED BY <1>0, <1>1, <2>1, SameStores DEF Start
  <1>2. CASE Stop
    <2>1. TypeOK'
      BY <1>0, <1>2 DEF Stop, TypeOK
    <2> QED BY <1>0, <1>2, <2>1, SameStores DEF Stop
  <1>3. ASSUME NEW n \in Lives, clear_items(n) PROVE Inv'
    BY <1>3, ClearKeeps
  <1>4. ASSUME NEW n \in Lives, NEW c \in Clients, NEW body \in BreezeBodies, track(c, n, body)
        PROVE  Inv'
    BY <1>4, AcceptedItems, ReceiveKeeps DEF track
  <1>5. ASSUME NEW n \in Lives, NEW c \in Clients, NEW body \in LogBodies, otlp_logs(c, n, body)
        PROVE  Inv'
    BY <1>5, RecordItems, ReceiveKeeps DEF otlp_logs
  <1>6. ASSUME NEW n \in Lives, NEW c \in Clients, NEW body \in SpanBodies,
               otlp_traces(c, n, body)
        PROVE  Inv'
    BY <1>6, RecordItems, ReceiveKeeps DEF otlp_traces
  <1>7. ASSUME NEW n \in Lives, NEW c \in Clients, NEW body \in MetricBodies,
               otlp_metrics(c, n, body)
        PROVE  Inv'
    BY <1>7, RecordItems, ReceiveKeeps DEF otlp_metrics
  <1>8. ASSUME NEW c \in Clients, Number(c) PROVE Inv'
    BY <1>8, NumberKeeps
  <1>9. ASSUME NEW c \in Clients, Push(c) PROVE Inv'
    BY <1>9, PushKeeps
  <1>10. CASE UNCHANGED vars
    <2>1. TypeOK'
      BY <1>0, <1>10 DEF vars, TypeOK
    <2> QED BY <1>0, <1>10, <2>1, SameStores DEF vars
  <1> QED
    BY <1>1, <1>2, <1>3, <1>4, <1>5, <1>6, <1>7, <1>8, <1>9, <1>10 DEF Next

\* Inv, and with it all that follows, in every state of every behaviour.
THEOREM SpecInv == Spec => []Inv
  BY InitInv, NextInv, PTL DEF Spec

-----------------------------------------------------------------------------
\* What the invariant says.

\* Every variable has its type, whatever is posted and in whatever order.
THEOREM SpecTypeOK == Spec => []TypeOK
  <1>1. Inv => TypeOK
    BY DEF Inv
  <1> QED BY <1>1, SpecInv, PTL

\* The store has its newest MAX_ITEMS items, for any number of requests and starts.
THEOREM SpecNewestKept == Spec => []NewestKept
  <1>1. Inv => NewestKept
    BY DEF Inv
  <1> QED BY <1>1, SpecInv, PTL

\* From the numbers of stores and requests: distinct ids.
LEMMA InvDistinctIds == Inv => DistinctIds
  <1> SUFFICES ASSUME Inv, NEW n \in Lives
               PROVE  LET mine  == {c \in Clients : request[c].life = n}
                          shown == {items[n][i] : i \in DOMAIN items[n]}
                          coming == UNION {{request[c].todo[i] : i \in 1..request[c].numbered}
                                             : c \in mine}
                      IN /\ \A i, j \in DOMAIN items[n] : items[n][i].id = items[n][j].id => i = j
                         /\ \A x, y \in shown \cup coming : x.id = y.id => x = y
    BY DEF DistinctIds
  <1> DEFINE mine == {c \in Clients : request[c].life = n}
             shown == {items[n][i] : i \in DOMAIN items[n]}
             coming == UNION {{request[c].todo[i] : i \in 1..request[c].numbered} : c \in mine}
  <1>1. TypeOK /\ Numbering
    BY DEF Inv
  <1>2. mine \subseteq Busy /\ \A c \in mine : request[c].life = n
    BY <1>1, BusyRequest
  <1>3. \A i, j \in DOMAIN items[n] : items[n][i].id = items[n][j].id => i = j
    BY <1>1 DEF Numbering, StoredApart
  <1>4. ASSUME NEW x \in shown, NEW y \in coming PROVE x.id # y.id
    <2>1. PICK i \in DOMAIN items[n] : x = items[n][i]
      OBVIOUS
    <2>2. PICK c \in mine : \E k \in 1..request[c].numbered : y = request[c].todo[k]
      OBVIOUS
    <2>3. PICK k \in 1..request[c].numbered : y = request[c].todo[k]
      BY <2>2
    <2> QED BY <1>1, <1>2, <2>1, <2>3 DEF Numbering, ComingNew
  <1>5. ASSUME NEW x \in coming, NEW y \in coming, x.id = y.id PROVE x = y
    <2>1. PICK c \in mine : \E i \in 1..request[c].numbered : x = request[c].todo[i]
      OBVIOUS
    <2>2. PICK i \in 1..request[c].numbered : x = request[c].todo[i]
      BY <2>1
    <2>3. PICK d \in mine : \E j \in 1..request[d].numbered : y = request[d].todo[j]
      OBVIOUS
    <2>4. PICK j \in 1..request[d].numbered : y = request[d].todo[j]
      BY <2>3
    <2>5. c = d
      BY <1>1, <1>2, <1>5, <2>2, <2>4 DEF Numbering, RequestsApart
    <2>6. i = j
      <3>1. RequestOK(request[c]) /\ request[c].todo \in Seq(Item) /\ request[c].numbered \in Nat
        BY <1>1, <1>2, BusyRequest DEF Numbering, RequestsOK
      <3>2. i \in DOMAIN request[c].todo /\ j \in DOMAIN request[c].todo
        BY <2>5, <3>1 DEF RequestOK
      <3>3. request[c].todo[i].id \in Nat /\ request[c].todo[j].id \in Nat
        BY <3>1, <3>2, Elements
      <3>4. i \in Nat /\ j \in Nat /\ ~(i < j) /\ ~(j < i)
        BY <1>5, <2>2, <2>4, <2>5, <3>1, <3>3 DEF RequestOK
      <3> QED BY <3>4
    <2> QED BY <2>2, <2>4, <2>5, <2>6
  <1>6. ASSUME NEW x \in shown, NEW y \in shown, x.id = y.id PROVE x = y
    BY <1>3, <1>6
  <1> QED BY <1>3, <1>4, <1>5, <1>6

\* Ids are distinct in a life, for any number of connections and whatever the order in
\* which their requests number and push.
THEOREM SpecDistinctIds == Spec => []DistinctIds
  BY SpecInv, InvDistinctIds, PTL

\* From the order of a store: the order of its list.
LEMMA InvListedInOrder == Inv => ListedInOrder
  <1> SUFFICES ASSUME Inv, NEW n \in Lives,
                      NEW i \in DOMAIN list(items[n]), NEW j \in DOMAIN list(items[n]), i < j
               PROVE  /\ list(items[n])[i].req = list(items[n])[j].req =>
                           list(items[n])[i].id > list(items[n])[j].id
                      /\ list(items[n])[i].req \notin before[list(items[n])[j].req]
    BY DEF ListedInOrder
  <1>1. PICK s \in Seq(Item) : s = items[n]
    BY DEF Inv, TypeOK
  <1>2. Len(s) \in Nat /\ DOMAIN s = 1..Len(s) /\ DOMAIN list(s) = 1..Len(s)
        /\ \A k \in 1..Len(s) : list(s)[k] = s[Len(s) - k + 1]
    BY DEF list, Reverse
  <1>3. PICK p \in 1..Len(s), q \in 1..Len(s) : p = Len(s) - j + 1 /\ q = Len(s) - i + 1 /\ p < q
    <2>1. i \in 1..Len(s) /\ j \in 1..Len(s)
      BY <1>1, <1>2
    <2> DEFINE p == Len(s) - j + 1
               q == Len(s) - i + 1
    <2>2. p \in 1..Len(s) /\ q \in 1..Len(s) /\ p < q
      BY <1>2, <2>1
    <2> QED BY <2>2
  <1>4. list(s)[i] = s[q] /\ list(s)[j] = s[p]
    BY <1>1, <1>2, <1>3
  <1>5. /\ s[p].req = s[q].req => s[p].id < s[q].id
        /\ s[q].req \notin before[s[p].req]
    BY <1>1, <1>2, <1>3 DEF Inv, Ordering, Ordered
  <1>6. s[p].id \in Nat /\ s[q].id \in Nat
    BY <1>2, Elements
  <1> QED BY <1>1, <1>4, <1>5, <1>6

\* The list is in order, for any number of requests at once.
THEOREM SpecListedInOrder == Spec => []ListedInOrder
  BY SpecInv, InvListedInOrder, PTL

-----------------------------------------------------------------------------
\* The keys of traces.

\* The items that ever became traces of their own have their numbers for themselves, in
\* their store and on the way there.
SinglesKept ==
  \A n \in Lives : \A x \in single[n] :
    /\ x.id < next_id[n]
    /\ \A i \in DOMAIN items[n] : items[n][i].id = x.id => items[n][i] = x
    /\ \A c \in Busy : request[c].life = n =>
         \A k \in 1..request[c].numbered : request[c].todo[k].id # x.id

\* A request that arrives has no number yet.
LEMMA ReceiveSingles ==
  ASSUME Inv, SinglesKept, NEW c \in Clients, NEW n \in Lives, NEW todo \in Seq(Item),
         NEW atOnce \in BOOLEAN, Receive(c, n, todo, atOnce)
  PROVE  SinglesKept'
  <1>1. /\ items' = items /\ next_id' = next_id /\ single' = single
        /\ Busy' = Busy \cup {c} /\ request'[c].numbered = 0
        /\ \A d \in Clients : d # c => request'[d] = request[d]
    BY ReceiveFacts DEF Inv
  <1>2. SUFFICES ASSUME NEW m \in Lives, NEW x \in single[m], NEW d \in Busy',
                        request'[d].life = m, NEW k \in 1..request'[d].numbered
                 PROVE  request'[d].todo[k].id # x.id
    BY <1>1 DEF SinglesKept
  <1>3. d # c /\ d \in Busy /\ request'[d] = request[d]
    BY <1>1, <1>2 DEF Busy
  <1> QED BY <1>2, <1>3 DEF SinglesKept

\* A number that is drawn is above theirs.
LEMMA NumberSingles ==
  ASSUME Inv, SinglesKept, NEW c \in Clients, Number(c)
  PROVE  SinglesKept'
  <1>1. TypeOK /\ RequestsOK /\ c \in Busy
    BY NumberFacts DEF Inv, Numbering
  <1>2. PICK n \in Lives : n = request[c].life
    BY <1>1, BusyRequest
  <1>3. PICK id \in Nat : id = next_id[n]
    BY <1>1, <1>2, BusyRequest
  <1>4. PICK k \in Nat : k = request[c].numbered + 1
    <2>1. request[c].numbered \in Nat
      BY <1>1, BusyRequest
    <2> QED BY <2>1
  <1>5. /\ items' = items /\ single' = single /\ Busy' = Busy
        /\ next_id' = [next_id EXCEPT ![n] = id + 1]
        /\ \A d \in Clients : d # c => request'[d] = request[d]
        /\ request'[c].life = n /\ request'[c].numbered = k
        /\ k <= Len(request[c].todo)
        /\ \A i \in DOMAIN request[c].todo :
             request'[c].todo[i].id = IF i = k THEN id ELSE request[c].todo[i].id
    BY <1>1, <1>2, <1>3, <1>4, NumberFacts
  <1>6. ASSUME NEW m \in Lives, NEW x \in single[m]
        PROVE  x.id \in Nat /\ x.id < next_id[m] /\ x.id < next_id'[m]
    <2>1. x \in Item
      BY <1>1 DEF TypeOK, Single, Traced
    <2>2. x.id \in Nat /\ x.id < next_id[m]
      BY <2>1 DEF Item, SinglesKept
    <2>3. next_id[m] \in Nat /\ next_id'[m] \in Nat /\ next_id[m] <= next_id'[m]
      BY <1>1, <1>3, <1>5, TelemetryAssumption DEF TypeOK
    <2> QED BY <2>2, <2>3
  <1>7. ASSUME NEW m \in Lives, NEW x \in single[m], NEW d \in Busy,
               request'[d].life = m, NEW j \in 1..request'[d].numbered
        PROVE  request'[d].todo[j].id # x.id
    <2>1. CASE d # c
      <3>1. request'[d] = request[d]
        BY <1>5, <2>1 DEF Busy
      <3> QED BY <1>7, <3>1 DEF SinglesKept
    <2>2. CASE d = c
      <3>1. m = n /\ j \in 1..k /\ x.id \in Nat /\ x.id < id
        BY <1>3, <1>5, <1>6, <1>7, <2>2
      <3>2. j \in DOMAIN request[c].todo
        <4>1. request[c].todo \in Seq(Item)
          BY <1>1, BusyRequest
        <4> QED BY <1>5, <3>1, <4>1
      <3>3. request'[c].todo[j].id = IF j = k THEN id ELSE request[c].todo[j].id
        BY <1>5, <3>2
      <3>4. CASE j = k
        BY <1>3, <2>2, <3>1, <3>3, <3>4
      <3>5. CASE j # k
        <4>1. j \in 1..request[c].numbered
          <5>1. request[c].numbered \in Nat
            BY <1>1, BusyRequest
          <5> QED BY <1>4, <3>1, <3>5, <5>1
        <4>2. request[c].todo[j].id # x.id
          BY <1>1, <1>2, <3>1, <4>1 DEF SinglesKept
        <4> QED BY <2>2, <3>3, <3>5, <4>2
      <3> QED BY <3>4, <3>5
    <2> QED BY <2>1, <2>2
  <1> QED BY <1>5, <1>6, <1>7 DEF SinglesKept

\* What is pushed is none of them, and its number is in no other item.
LEMMA PushSingles ==
  ASSUME Inv, SinglesKept, NEW c \in Clients, Push(c)
  PROVE  SinglesKept'
  <1>1. TypeOK /\ Numbering /\ RequestsOK /\ c \in Busy
    BY PushFacts DEF Inv, Numbering
  <1>2. PICK n \in Lives : n = request[c].life
    BY <1>1, BusyRequest
  <1>3. PICK item \in Item : item = request[c].todo[1]
    BY <1>1, PushFacts
  <1>4. PICK s \in Seq(Item) : s = items[n]
    BY <1>1 DEF TypeOK
  <1>5. PICK t \in Seq(Item) : t = Capped(Append(s, item))
    <2>1. Capped(Append(s, item)) \in Seq(Item)
      BY StorePush
    <2> QED BY <2>1
  <1>6. /\ next_id' = next_id /\ Busy' \subseteq Busy
        /\ items' = [items EXCEPT ![n] = t]
        /\ single' = [single EXCEPT ![n] = @ \cup ({item} \cap Single)]
        /\ \A d \in Clients : d # c => request'[d] = request[d]
        /\ request[c].numbered >= 1
        /\ c \in Busy' =>
             /\ request'[c].life = n /\ request'[c].numbered = request[c].numbered - 1
             /\ Len(request'[c].todo) = Len(request[c].todo) - 1
             /\ request'[c].todo \in Seq(Item)
             /\ \A i \in DOMAIN request'[c].todo :
                  request'[c].todo[i] = request[c].todo[i + 1]
    BY <1>1, <1>2, <1>3, <1>4, <1>5, PushFacts
  <1>7. /\ items'[n] = t /\ \A m \in Lives : m # n => items'[m] = items[m]
        /\ \A m \in Lives : m # n => single'[m] = single[m]
        /\ \A x \in single'[n] : x \in single[n] \/ x = item
    BY <1>1, <1>6 DEF TypeOK
  <1>8. /\ request[c].numbered \in Nat /\ request[c].todo \in Seq(Item)
        /\ request[c].numbered <= Len(request[c].todo) /\ RequestOK(request[c])
    BY <1>1, BusyRequest DEF RequestsOK, RequestOK
  <1>9. 1 \in 1..request[c].numbered /\ item.id < next_id[n]
    BY <1>2, <1>3, <1>6, <1>8 DEF RequestOK
  \* Every item of the store is the one that was pushed, or one it had.
  <1>10. \A i \in DOMAIN t : t[i] = item \/ \E j \in DOMAIN s : t[i] = s[j]
    <2>1. Pushed(s, item, t)
      BY <1>5, StorePush
    <2> QED BY <2>1 DEF Pushed
  \* Every numbered item of a request under way was one, and not the one that was pushed.
  <1>11. ASSUME NEW d \in Busy', NEW k \in 1..request'[d].numbered
         PROVE  /\ d \in Busy /\ request'[d].life = request[d].life
                /\ \E j \in 1..request[d].numbered :
                     request'[d].todo[k] = request[d].todo[j] /\ (d = c => j > 1)
    <2>1. d \in Busy /\ d \in Clients
      BY <1>6 DEF Busy
    <2>2. CASE d # c
      BY <1>6, <1>11, <2>1, <2>2
    <2>3. CASE d = c
      <3>1. k + 1 \in 1..request[c].numbered /\ k + 1 > 1 /\ k \in DOMAIN request'[c].todo
        BY <1>6, <1>8, <1>11, <2>3
      <3>2. request'[c].todo[k] = request[c].todo[k + 1] /\ request'[c].life = n
        BY <1>6, <1>11, <2>3, <3>1
      <3> QED BY <1>2, <2>1, <2>3, <3>1, <3>2
    <2> QED BY <2>2, <2>3
  <1>12. ASSUME NEW m \in Lives, NEW x \in single[m]
         PROVE  /\ x.id < next_id'[m]
                /\ \A i \in DOMAIN items'[m] : items'[m][i].id = x.id => items'[m][i] = x
                /\ \A d \in Busy' : request'[d].life = m =>
                     \A k \in 1..request'[d].numbered : request'[d].todo[k].id # x.id
    <2>1. x.id < next_id'[m]
      BY <1>6 DEF SinglesKept
    <2>2. ASSUME NEW i \in DOMAIN items'[m], items'[m][i].id = x.id PROVE items'[m][i] = x
      <3>1. CASE m # n
        BY <1>7, <2>2, <3>1 DEF SinglesKept
      <3>2. CASE m = n
        <4>1. i \in DOMAIN t /\ items'[m][i] = t[i]
          BY <1>7, <3>2
        <4>2. item.id # x.id
          BY <1>1, <1>2, <1>3, <1>9, <3>2 DEF SinglesKept
        <4>3. PICK j \in DOMAIN s : t[i] = s[j]
          BY <1>10, <2>2, <4>1, <4>2
        <4> QED BY <1>4, <2>2, <3>2, <4>1, <4>3 DEF SinglesKept
      <3> QED BY <3>1, <3>2
    <2>3. ASSUME NEW d \in Busy', request'[d].life = m, NEW k \in 1..request'[d].numbered
          PROVE  request'[d].todo[k].id # x.id
      <3>1. PICK j \in 1..request[d].numbered : request'[d].todo[k] = request[d].todo[j]
        BY <1>11
      <3> QED BY <1>11, <2>3, <3>1 DEF SinglesKept
    <2> QED BY <2>1, <2>2, <2>3
  <1>13. /\ item.id < next_id'[n]
         /\ \A i \in DOMAIN items'[n] : items'[n][i].id = item.id => items'[n][i] = item
         /\ \A d \in Busy' : request'[d].life = n =>
              \A k \in 1..request'[d].numbered : request'[d].todo[k].id # item.id
    <2>1. ASSUME NEW i \in DOMAIN items'[n], items'[n][i].id = item.id
          PROVE  items'[n][i] = item
      <3>1. i \in DOMAIN t /\ items'[n][i] = t[i]
        BY <1>7
      <3>2. \A j \in DOMAIN s : s[j].id # item.id
        BY <1>1, <1>2, <1>3, <1>4, <1>9 DEF Numbering, ComingNew
      <3> QED BY <1>10, <2>1, <3>1, <3>2
    <2>2. ASSUME NEW d \in Busy', request'[d].life = n, NEW k \in 1..request'[d].numbered
          PROVE  request'[d].todo[k].id # item.id
      <3>1. /\ d \in Busy /\ request[d].life = n
            /\ \E j \in 1..request[d].numbered :
                 request'[d].todo[k] = request[d].todo[j] /\ (d = c => j > 1)
        BY <1>11, <2>2
      <3>2. PICK j \in 1..request[d].numbered :
              request'[d].todo[k] = request[d].todo[j] /\ (d = c => j > 1)
        BY <3>1
      <3>3. CASE d # c
        <4>1. request[c].todo[1].id # request[d].todo[j].id
          BY <1>1, <1>2, <1>9, <3>1, <3>3 DEF Numbering, RequestsApart
        <4> QED BY <1>3, <3>2, <4>1
      <3>4. CASE d = c
        <4>1. j \in 1..request[c].numbered /\ 1 < j /\ j \in DOMAIN request[c].todo
          BY <1>8, <3>2, <3>4
        <4>2. item.id < request[c].todo[j].id
          BY <1>3, <1>8, <1>9, <4>1 DEF RequestOK
        <4>3. item.id \in Nat /\ request[c].todo[j].id \in Nat
          BY <1>8, <4>1, Elements DEF Item
        <4> QED BY <3>2, <3>4, <4>2, <4>3
      <3> QED BY <3>3, <3>4
    <2> QED BY <1>6, <1>9, <2>1, <2>2
  <1>14. ASSUME NEW m \in Lives, NEW x \in single'[m]
         PROVE  /\ x.id < next_id'[m]
                /\ \A i \in DOMAIN items'[m] : items'[m][i].id = x.id => items'[m][i] = x
                /\ \A d \in Busy' : request'[d].life = m =>
                     \A k \in 1..request'[d].numbered : request'[d].todo[k].id # x.id
    <2>1. x \in single[m] \/ (m = n /\ x = item)
      BY <1>7
    <2> QED BY <1>12, <1>13, <2>1
  <1> QED BY <1>14 DEF SinglesKept

\* Every step keeps it.
LEMMA NextSingles == Inv /\ SinglesKept /\ [Next]_vars => SinglesKept'
  <1> SUFFICES ASSUME Inv, SinglesKept, [Next]_vars PROVE SinglesKept'
    OBVIOUS
  <1>1. CASE UNCHANGED <<items, next_id, request, single>>
    BY <1>1 DEF SinglesKept, Busy
  <1>2. CASE Start \/ Stop \/ UNCHANGED vars
    BY <1>1, <1>2 DEF Start, Stop, vars
  <1>3. ASSUME NEW n \in Lives, clear_items(n) PROVE SinglesKept'
    <2>1. /\ next_id' = next_id /\ request' = request /\ single' = single /\ Busy' = Busy
          /\ items'[n] = <<>> /\ \A m \in Lives : m # n => items'[m] = items[m]
      BY <1>3 DEF clear_items, Inv, TypeOK, Busy
    <2>2. \A m \in Lives : DOMAIN items'[m] = {} \/ items'[m] = items[m]
      BY <2>1
    <2> QED BY <2>1, <2>2 DEF SinglesKept
  <1>4. ASSUME NEW n \in Lives, NEW c \in Clients, NEW body \in BreezeBodies, track(c, n, body)
        PROVE  SinglesKept'
    BY <1>4, AcceptedItems, ReceiveSingles DEF track
  <1>5. ASSUME NEW n \in Lives, NEW c \in Clients, NEW body \in LogBodies, otlp_logs(c, n, body)
        PROVE  SinglesKept'
    BY <1>5, RecordItems, ReceiveSingles DEF otlp_logs
  <1>6. ASSUME NEW n \in Lives, NEW c \in Clients, NEW body \in SpanBodies,
               otlp_traces(c, n, body)
        PROVE  SinglesKept'
    BY <1>6, RecordItems, ReceiveSingles DEF otlp_traces
  <1>7. ASSUME NEW n \in Lives, NEW c \in Clients, NEW body \in MetricBodies,
               otlp_metrics(c, n, body)
        PROVE  SinglesKept'
    BY <1>7, RecordItems, ReceiveSingles DEF otlp_metrics
  <1>8. ASSUME NEW c \in Clients, Number(c) PROVE SinglesKept'
    BY <1>8, NumberSingles
  <1>9. ASSUME NEW c \in Clients, Push(c) PROVE SinglesKept'
    BY <1>9, PushSingles
  <1> QED
    BY <1>2, <1>3, <1>4, <1>5, <1>6, <1>7, <1>8, <1>9 DEF Next

\* Of the items of a store, those of the key of x are x or none.
LEMMA OnlyOne ==
  ASSUME NEW s \in Seq(Item), NEW x \in Single, NEW S, S \subseteq Of(Key(x)),
         \A i, j \in DOMAIN s : s[i].id = s[j].id => i = j,
         \A i \in DOMAIN s : s[i].id = x.id => s[i] = x
  PROVE  Keep(s, S) \in {<<>>, <<x>>}
  <1>1. \A i \in DOMAIN s : s[i] \in S => s[i] = x
    <2>1. ASSUME NEW i \in DOMAIN s, s[i] \in S PROVE s[i] = x
      <3>1. s[i] \in Item /\ Key(s[i]) = Key(x)
        BY <2>1 DEF Of
      <3>2. Key(x) = <<"standalone", x.id>>
        BY DEF Single, Key, standalone_key
      <3>3. s[i].operation_id = NoOperation
        <4>1. <<s[i].operation_id>> # <<"standalone", x.id>>
          OBVIOUS
        <4> QED BY <3>1, <3>2, <4>1 DEF Key
      <3>4. <<"standalone", s[i].id>> = <<"standalone", x.id>>
        BY <3>1, <3>2, <3>3 DEF Key, standalone_key
      <3>5. s[i].id = x.id
        BY <3>4
      <3> QED BY <3>5
    <2> QED BY <2>1
  <1> DEFINE I == Places(s, S)
  <1>2. PICK t \in Seq(Item) : t = Keep(s, S)
    BY BucketKeep
  <1>3. /\ \A k \in DOMAIN t : /\ Nth(I, k) \in I /\ Rank(I, Nth(I, k)) = k
                               /\ t[k] = s[Nth(I, k)] /\ t[k] \in S
        /\ I \in SUBSET (1..Len(s))
    BY <1>2, KeepPlaces
  <1>4. \A k \in DOMAIN t : t[k] = x
    BY <1>1, <1>3
  <1>5. \A j, k \in DOMAIN t : j = k
    <2>1. ASSUME NEW j \in DOMAIN t, NEW k \in DOMAIN t PROVE j = k
      <3>1. Nth(I, j) \in DOMAIN s /\ Nth(I, k) \in DOMAIN s
        BY <1>3
      <3>2. s[Nth(I, j)] = s[Nth(I, k)]
        BY <1>3, <1>4
      <3>3. Nth(I, j) = Nth(I, k)
        BY <3>1, <3>2
      <3> QED BY <1>3, <3>3
    <2> QED BY <2>1
  <1> HIDE DEF I
  <1>6. CASE Len(t) = 0
    BY <1>2, <1>6
  <1>7. CASE Len(t) # 0
    <2>1. Len(t) \in Nat /\ DOMAIN t = 1..Len(t)
      OBVIOUS
    <2>2. 1 \in DOMAIN t /\ Len(t) \in DOMAIN t
      BY <1>7, <2>1
    <2>3. Len(t) = 1 /\ t[1] = x
      BY <1>4, <1>5, <2>2
    <2>4. t = [i \in 1..1 |-> x]
      BY <2>3
    <2>5. <<x>> = [i \in 1..1 |-> x]
      OBVIOUS
    <2> QED BY <1>2, <2>4, <2>5
  <1> QED BY <1>6, <1>7

\* From the numbers of these items: what their keys open and list.
LEMMA InvKeysStay == Inv /\ SinglesKept => KeysStay
  <1> SUFFICES ASSUME Inv, SinglesKept, NEW n \in Lives, NEW x \in single[n]
               PROVE  /\ get_trace(items[n], Key(x)) \in {<<>>, <<x>>}
                      /\ \A trace \in list_traces(items[n]) :
                           trace.key = Key(x) => trace = build_trace_summary(Key(x), <<x>>)
    BY DEF KeysStay
  <1>1. PICK s \in Seq(Item) : s = items[n]
    BY DEF Inv, TypeOK
  <1>2. x \in Single
    BY DEF Inv, TypeOK
  <1>3. /\ \A i, j \in DOMAIN s : s[i].id = s[j].id => i = j
        /\ \A i \in DOMAIN s : s[i].id = x.id => s[i] = x
    BY <1>1 DEF Inv, Numbering, StoredApart, SinglesKept
  <1>4. get_trace(s, Key(x)) \in {<<>>, <<x>>}
    BY <1>2, <1>3, OnlyOne DEF get_trace
  <1>5. ASSUME NEW trace \in list_traces(s), trace.key = Key(x)
        PROVE  trace = build_trace_summary(Key(x), <<x>>)
    <2>1. PICK traced \in Seq(Item) : traced = Keep(s, Traced)
      BY BucketKeep
    <2>2. PICK i \in DOMAIN traced :
            trace = build_trace_summary(Key(traced[i]), Keep(traced, Of(Key(traced[i]))))
      BY <2>1 DEF list_traces
    <2>3. Key(traced[i]) = Key(x)
      BY <1>5, <2>2 DEF build_trace_summary
    <2>4. PICK group \in Seq(Item) : group = Keep(traced, Of(Key(x)))
      BY BucketKeep
    <2>5. group = Keep(s, Traced \cap Of(Key(x)))
      BY <2>1, <2>4, KeepTwice
    <2>6. group \in {<<>>, <<x>>}
      <3>1. Traced \cap Of(Key(x)) \subseteq Of(Key(x))
        OBVIOUS
      <3> QED BY <1>2, <1>3, <2>5, <3>1, OnlyOne
    <2>7. group # <<>>
      <3>1. traced[i] \in Item /\ traced[i] \in Of(Key(x)) /\ traced[i] \in Range(traced)
        BY <2>3 DEF Of, Range
      <3>2. Range(group) = Range(traced) \cap Of(Key(x))
        BY <2>4, BucketKeep
      <3>3. Range(group) # {}
        BY <3>1, <3>2
      <3> QED BY <3>3 DEF Range
    <2> QED BY <2>2, <2>3, <2>4, <2>6, <2>7
  <1> QED BY <1>1, <1>4, <1>5

\* The key of an item without an operation opens that item or nothing for as long as its
\* store lives, whatever requests push, and whatever is dropped and cleared.
THEOREM SpecKeysStay == Spec => []KeysStay
  <1>1. Init => SinglesKept
    BY DEF Init, SinglesKept
  <1> QED BY <1>1, NextSingles, InvKeysStay, SpecInv, PTL DEF Spec
=============================================================================
