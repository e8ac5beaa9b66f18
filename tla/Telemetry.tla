------------------------------- MODULE Telemetry -------------------------------
(***************************************************************************)
(* An Application Insights engine (appinsights/engine) and its store of    *)
(* captured telemetry (appinsights/core).                                  *)
(*                                                                         *)
(* Requests of several connections number their items with one atomic      *)
(* counter, outside the store's lock, and push them one by one under it:   *)
(* a Breeze request numbers and pushes item by item, an OTLP request       *)
(* numbers all of its items first.  Each start of the engine makes a       *)
(* store, a life; a stop closes the listener, not the connections.         *)
(*                                                                         *)
(* An item keeps what traces are made of.  Its instant, at, is its own     *)
(* time or else the one of its parsing, which an input may give as it      *)
(* likes.  req is history: the number of its request.                      *)
(***************************************************************************)
EXTENDS Buckets

CONSTANTS
  Clients,
  Operations, NoOperation,    \* operation ids, and their absence
  BreezeBodies, LogBodies, SpanBodies, MetricBodies,  \* what clients post
  MAX_ITEMS,
  MaxItems,    \* bound: number of items accepted in a life
  MaxRequests, \* bound: number of requests
  MaxLives     \* bound: number of starts

VARIABLES
  running,     \* whether the engine's state is Some
  life,        \* number of the latest start
  items,       \* the store of each life, oldest first
  next_id,     \* its counter
  request,     \* what each client's request has yet to push, if it has one
  before,      \* history: the requests that were over when each one began
  pushed,      \* history: what each store was given since it was last cleared
  single       \* history: the items that ever became traces of their own, by store

vars == <<running, life, items, next_id, request, before, pushed, single>>

Lives == 1..MaxLives
Idle  == [req |-> 0, life |-> 0, atOnce |-> FALSE, todo |-> <<>>, numbered |-> 0]

-----------------------------------------------------------------------------
(***************************************************************************)
(* Parsing.  A Breeze body is a sequence of entries; one that is not JSON  *)
(* is not counted, and one that is no object is not accepted.  An OTLP     *)
(* body is the sequence of its records, whatever resource and scope they   *)
(* are listed under.                                                       *)
(***************************************************************************)
Envelope == [form : {"object"}, base_type : STRING, operation : Operations \cup {NoOperation},
             at : Nat, failed : BOOLEAN]
Entry    == Envelope \cup [form : {"unparsable", "scalar"}]
Record   == [traceId : Operations \cup STRING, at : Nat]
Span     == [traceId : Operations \cup STRING, kind : Nat, at : Nat, code : Nat]
Point    == [at : Nat]

ASSUME TelemetryAssumption ==
  /\ BreezeBodies \subseteq Seq(Entry) /\ LogBodies \subseteq Seq(Record)
  /\ SpanBodies \subseteq Seq(Span) /\ MetricBodies \subseteq Seq(Point)
  /\ MAX_ITEMS \in Nat /\ MaxItems \in Nat /\ MaxRequests \in Nat /\ MaxLives \in Nat

Types == {"request", "dependency", "exception", "trace", "event", "metric",
          "page_view", "availability", "other"}

from_base_type ==
  [RequestData      |-> "request",   RemoteDependencyData |-> "dependency",
   ExceptionData    |-> "exception", MessageData          |-> "trace",
   EventData        |-> "event",     MetricData           |-> "metric",
   PageViewData     |-> "page_view", AvailabilityData     |-> "availability"]

TypeOf(base_type) ==
  IF base_type \in DOMAIN from_base_type THEN from_base_type[base_type] ELSE "other"

Item == [id : Nat, req : Nat, item_type : Types, operation_id : Operations \cup {NoOperation},
         at : Nat, failed : BOOLEAN]

\* What traces are made of, and what becomes one of its own.
Traced == {i \in Item : i.item_type \in {"request", "dependency", "exception", "trace"}}
Single == {i \in Traced : i.operation_id = NoOperation}

NewItem(type, operation, at, failed) ==
  [id |-> 0, req |-> 0, item_type |-> type, operation_id |-> operation, at |-> at,
   failed |-> failed]

parse_batch(body) == Keep(body, {e \in Entry : e.form # "unparsable"})

parse_envelope(e) == NewItem(TypeOf(e.base_type), e.operation, e.at, e.failed)

\* The items that ingest_body takes from a body.
Accepted(body) ==
  LET objects == Keep(parse_batch(body), Envelope)
  IN [i \in DOMAIN objects |-> parse_envelope(objects[i])]

\* id_to_hex: an absent id, one that is no base64 and one of zeroes are the same.
id_to_hex(id) == IF id \in Operations THEN id ELSE NoOperation

parse_otlp_logs(body) ==
  [i \in DOMAIN body |-> NewItem("trace", id_to_hex(body[i].traceId), body[i].at, FALSE)]

\* SERVER and CONSUMER spans are requests; a status of ERROR is a failure.
parse_otlp_traces(body) ==
  [i \in DOMAIN body |->
     NewItem(IF body[i].kind \in {2, 5} THEN "request" ELSE "dependency",
             id_to_hex(body[i].traceId), body[i].at, body[i].code = 2)]

parse_otlp_metrics(body) ==
  [i \in DOMAIN body |-> NewItem("metric", NoOperation, body[i].at, FALSE)]

-----------------------------------------------------------------------------
(***************************************************************************)
(* The engine.                                                             *)
(***************************************************************************)
Init ==
  /\ running = FALSE
  /\ life = 0
  /\ items = [n \in Lives |-> <<>>]
  /\ next_id = [n \in Lives |-> 1]
  /\ request = [c \in Clients |-> Idle]
  /\ before = <<>>
  /\ pushed = [n \in Lives |-> <<>>]
  /\ single = [n \in Lives |-> {}]

\* start(); a port that is taken changes nothing.
Start ==
  /\ ~running /\ life < MaxLives
  /\ running' = TRUE
  /\ life' = life + 1
  /\ UNCHANGED <<items, next_id, request, before, pushed, single>>

\* stop() has awaited the listener's task.
Stop ==
  /\ running
  /\ running' = FALSE
  /\ UNCHANGED <<life, items, next_id, request, before, pushed, single>>

Over == {req \in 1..Len(before) : \A c \in Clients : request[c].req # req}

\* A request with these items arrives, on a connection opened in life n.
Receive(c, n, todo, atOnce) ==
  /\ n <= life /\ request[c] = Idle /\ todo # <<>>
  /\ Len(before) < MaxRequests /\ next_id[n] <= MaxItems
  /\ before' = Append(before, Over)
  /\ request' = [request EXCEPT ![c] =
       [req |-> Len(before) + 1, life |-> n, atOnce |-> atOnce, numbered |-> 0,
        todo |-> [i \in DOMAIN todo |-> [todo[i] EXCEPT !.req = Len(before) + 1]]]]
  /\ UNCHANGED <<running, life, items, next_id, pushed, single>>

\* track, and the OTLP handlers past require_otlp_json and from_str.  A body that is
\* refused before, or has no items, changes nothing.
track(c, n, body)        == Receive(c, n, Accepted(body), FALSE)
otlp_logs(c, n, body)    == Receive(c, n, parse_otlp_logs(body), TRUE)
otlp_traces(c, n, body)  == Receive(c, n, parse_otlp_traces(body), TRUE)
otlp_metrics(c, n, body) == Receive(c, n, parse_otlp_metrics(body), TRUE)

-----------------------------------------------------------------------------
(***************************************************************************)
(* Ingestion.                                                              *)
(***************************************************************************)
\* Counts the items there are.
Fresh_Mistake(n) == Len(items[n]) + 1
\* next_id.fetch_add
Fresh(n) == next_id[n]

\* ingest_body numbers the first of its items, ingest_otlp all of them, one by one.
Number(c) ==
  LET r == request[c]
  IN /\ r # Idle
     /\ r.numbered < IF r.atOnce THEN Len(r.todo) ELSE 1
     /\ next_id[r.life] <= MaxItems
     /\ request' = [request EXCEPT ![c].todo[r.numbered + 1].id = Fresh(r.life),
                                   ![c].numbered = @ + 1]
     /\ next_id' = [next_id EXCEPT ![r.life] = @ + 1]
  /\ UNCHANGED <<running, life, items, before, pushed, single>>

\* The item about to be pushed, or all of an OTLP request, is numbered.
Numbered(r) == r.numbered = IF r.atOnce THEN Len(r.todo) ELSE 1

\* Takes the items of an OTLP request from the end.
Taken_Mistake(r) == IF r.atOnce THEN Len(r.todo) ELSE 1
\* The item that is pushed is the first.
Taken(r) == 1

\* Makes room before the cap is exceeded.
Capped_Mistake(s) == IF Len(s) >= MAX_ITEMS THEN Tail(s) ELSE s
\* The oldest item goes when there are more than MAX_ITEMS.
Capped(s) == IF Len(s) > MAX_ITEMS THEN Tail(s) ELSE s

\* push; the request is answered after its last item.
Push(c) ==
  LET r == request[c]
      item == r.todo[Taken(r)]
  IN /\ r # Idle /\ Numbered(r)
     /\ items' = [items EXCEPT ![r.life] = Capped(Append(@, item))]
     /\ pushed' = [pushed EXCEPT ![r.life] = Append(@, item)]
     /\ single' = [single EXCEPT ![r.life] = @ \cup ({item} \cap Single)]
     /\ request' = [request EXCEPT ![c] =
          IF Len(r.todo) = 1 THEN Idle
          ELSE [r EXCEPT !.todo = RemoveAt(@, Taken(r)), !.numbered = @ - 1]]
  /\ UNCHANGED <<running, life, next_id, before>>

\* Sets the counter back as well.
clear_items_Mistake(n) ==
  /\ n <= life /\ items[n] # <<>>
  /\ items' = [items EXCEPT ![n] = <<>>]
  /\ next_id' = [next_id EXCEPT ![n] = 1]
  /\ pushed' = [pushed EXCEPT ![n] = <<>>]
  /\ UNCHANGED <<running, life, request, before, single>>
\* A route of the dashboard clears a store that it found in a running engine, which
\* may have been stopped meanwhile.
clear_items(n) ==
  /\ n <= life /\ items[n] # <<>>
  /\ items' = [items EXCEPT ![n] = <<>>]
  /\ pushed' = [pushed EXCEPT ![n] = <<>>]
  /\ UNCHANGED <<running, life, next_id, request, before, single>>

-----------------------------------------------------------------------------
(***************************************************************************)
(* Traces, as the dashboard's routes read them from a store s.             *)
(***************************************************************************)
\* list: newest first.
list(s) == Reverse(s)

\* A client could name an operation like this; here none does.
standalone_key(id) == <<"standalone", id>>

Key(item) ==
  IF item.operation_id = NoOperation THEN standalone_key(item.id) ELSE <<item.operation_id>>

Spans  == {i \in Item : i.item_type \in {"request", "dependency"}}

Of(key) == {i \in Item : Key(i) = key}

build_trace_summary(key, group) ==
  [key        |-> key,
   start_time |-> Min({group[i].at : i \in DOMAIN group}),
   span_count |-> Len(Keep(group, Spans)),
   has_error  |-> \E i \in DOMAIN group : group[i].item_type = "exception" \/ group[i].failed]

\* The summaries, without their order by start_time.
list_traces(s) ==
  LET traced == Keep(s, Traced)
  IN {build_trace_summary(key, Keep(traced, Of(key))) :
        key \in {Key(traced[i]) : i \in DOMAIN traced}}

\* The items of a trace, without their order by time.
get_trace(s, key) == Keep(s, Of(key))

-----------------------------------------------------------------------------
Next ==
  \/ Start \/ Stop
  \/ \E n \in Lives :
       \/ clear_items(n)
       \/ \E c \in Clients :
            \/ \E body \in BreezeBodies : track(c, n, body)
            \/ \E body \in LogBodies    : otlp_logs(c, n, body)
            \/ \E body \in SpanBodies   : otlp_traces(c, n, body)
            \/ \E body \in MetricBodies : otlp_metrics(c, n, body)
  \/ \E c \in Clients : Number(c) \/ Push(c)

Spec == Init /\ [][Next]_vars

-----------------------------------------------------------------------------
Request == [req : 1..MaxRequests, life : Lives, atOnce : BOOLEAN, todo : Seq(Item),
            numbered : Nat]

TypeOK ==
  /\ single \in [Lives -> SUBSET Single]
  /\ running \in BOOLEAN /\ life \in 0..MaxLives
  /\ items \in [Lives -> Seq(Item)] /\ pushed \in [Lives -> Seq(Item)]
  /\ next_id \in [Lives -> 1..MaxItems + 1]
  /\ request \in [Clients -> Request \cup {Idle}]
  /\ before \in Seq(SUBSET (1..MaxRequests)) /\ Len(before) <= MaxRequests

\* No two items of a life have the same id, in the store or about to go there, though
\* they are numbered outside the lock, dropped and cleared (TelemetryItem::id).
DistinctIds ==
  \A n \in Lives :
    LET mine  == {c \in Clients : request[c].life = n}
        shown == {items[n][i] : i \in DOMAIN items[n]}
        coming == UNION {{request[c].todo[i] : i \in 1..request[c].numbered} : c \in mine}
    IN /\ \A i, j \in DOMAIN items[n] : items[n][i].id = items[n][j].id => i = j
       /\ \A x, y \in shown \cup coming : x.id = y.id => x = y

\* Newest first: whatever is pushed in between, the items of one request are listed
\* in the opposite order of its body, and those of a request that was answered before
\* another one arrived come after all of that one's (list).
ListedInOrder ==
  \A n \in Lives :
    LET s == list(items[n])
    IN \A i, j \in DOMAIN s : i < j =>
         /\ s[i].req = s[j].req => s[i].id > s[j].id
         /\ s[i].req \notin before[s[j].req]

\* A store has the newest MAX_ITEMS items that requests gave it since it was made or
\* cleared, no fewer (push).
NewestKept ==
  \A n \in Lives :
    LET all == pushed[n]
        from == IF Len(all) > MAX_ITEMS THEN Len(all) - MAX_ITEMS + 1 ELSE 1
    IN items[n] = SubSeq(all, from, Len(all))

\* An item without an operation id is a trace of its own for good: whatever was pushed,
\* dropped or cleared since it was first listed, its key opens that item or nothing, and
\* the summary that is listed under the key is the one of that item (list_traces,
\* get_trace; "their own single-item trace").
KeysStay ==
  \A n \in Lives : \A item \in single[n] :
    /\ get_trace(items[n], Key(item)) \in {<<>>, <<item>>}
    /\ \A trace \in list_traces(items[n]) :
         trace.key = Key(item) => trace = build_trace_summary(Key(item), <<item>>)
=============================================================================
