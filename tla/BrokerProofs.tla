------------------------------ MODULE BrokerProofs ------------------------------
(* What exports and requests on the broker's queues leave each other, for any   *)
(* number of queues, shards, clients and worker threads.                        *)
EXTENDS Broker, FiniteSetTheorems, TLAPS

\* Whoever is about to insert a queue found none, so that what is there now is new.
SinceOK ==
  \A c \in Clients : call[c].op = "create" =>
    queues[call[c].name] = 0 \/ queues[call[c].name] > call[c].since

\* Where the queues of a dump are: in a shard that export is through with, or in the
\* present one and not among those left to ask.
Dumped(q) == \/ ShardOf[q] \in done
             \/ shard = ShardOf[q] /\ q \notin left
             \/ shard = NoShard /\ done = {}
DumpOK ==
  /\ shard \notin done
  /\ \A i \in DOMAIN dump : Dumped(dump[i])
  /\ \A i, j \in DOMAIN dump : dump[i] = dump[j] => i = j

\* A queue that was there throughout is registered, and was or will be asked.
Shown(q) == \E i \in DOMAIN dump : dump[i] = q
StableOK ==
  \A q \in stable :
    /\ queues[q] # 0
    /\ ShardOf[q] \in done => Shown(q)
    /\ shard = ShardOf[q] => q \in left \/ Shown(q)

\* The inductive invariant.
Inv == TypeOK /\ SinceOK /\ DumpOK /\ StableOK /\ AcceptedKept

-----------------------------------------------------------------------------
\* What the request of a client is.
LEMMA CallType ==
  ASSUME TypeOK, NEW c \in Clients
  PROVE  /\ call[c].op \in {"create", "delete"} =>
              call[c].name \in Names /\ call[c].parked \in BOOLEAN
         /\ call[c].op = "create" => call[c].since \in 0..spawned
         /\ call[c].op \in Ops => call[c].actor \in Actors /\ call[c].actor \in 1..spawned
         /\ call[c] \in Calls
<1>1. call[c] \in Calls /\ spawned \in 0..MaxActors
  BY DEF TypeOK
<1> QED
  BY <1>1, BrokerAssumption DEF Calls, Idle, Ops, Actors

\* What a request that writes the map meets: its name is in no shard that is locked.
LEMMA WriterType ==
  ASSUME TypeOK, NEW c \in Clients, NEW op \in {"create", "delete"}, Writes(c, op)
  PROVE  /\ call[c].name \in Names /\ call' = [call EXCEPT ![c] = Idle]
         /\ ~Locked(call[c].name)
         /\ op = "create" => call[c].since \in 0..spawned
BY CallType DEF Writes

\* The queues of a shard that is not written stay the same.
LEMMA ShardKept ==
  ASSUME TypeOK, NEW q \in Names, ~Locked(q), NEW a \in Nat, queues' = [queues EXCEPT ![q] = a],
         UNCHANGED <<shard, left>>
  PROVE  left' \subseteq InShard(shard)'
BY BrokerAssumption DEF TypeOK, Locked, InShard

\* A call that was well-typed is so for more actors.
LEMMA CallsGrow ==
  ASSUME TypeOK, spawned' = spawned + 1 \/ spawned' = spawned
  PROVE  Calls \subseteq Calls'
<1>1. 0..spawned \subseteq 0..spawned' /\ 1..spawned \subseteq 1..spawned'
  BY BrokerAssumption DEF TypeOK
<1> QED
  BY <1>1 DEF Calls

\* The request of client c that an actor has answers.
Answers(c) ==
  \/ SendMessage(c) \/ PurgeQueue(c)
  \/ \E m \in Messages : DeleteMessage(c, m) \/ ResubmitMessage(c, m)

\* What an actor answers takes messages away and adds at most the next one.
LEMMA AnswerType ==
  ASSUME TypeOK, NEW c \in Clients, Answers(c)
  PROVE  /\ \E out, new \in SUBSET Messages : Answered(c, out, new)
         /\ seq' \in 0..MaxSeq /\ call[c].op \in Ops
<1> USE BrokerAssumption
<1>1. /\ Cardinality({}) = 0 /\ Cardinality({seq + 1}) = 1
      /\ {} \in SUBSET Messages /\ seq \in 0..MaxSeq
      /\ seq < MaxSeq => {seq + 1} \in SUBSET Messages
  <2>1. Cardinality({}) = 0 /\ Cardinality({seq + 1}) = 1
    BY FS_EmptySet, FS_Singleton
  <2>2. {} \in SUBSET Messages /\ seq \in 0..MaxSeq
    BY DEF TypeOK
  <2>3. seq < MaxSeq => {seq + 1} \in SUBSET Messages
    BY <2>2 DEF Messages
  <2> QED
    BY <2>1, <2>2, <2>3
<1>2. call[c].op \in Ops => Holds(c) \in SUBSET Messages
  BY CallType DEF Holds, TypeOK
<1>3. CASE SendMessage(c)
  <2>1. /\ call[c].op \in Ops /\ seq < MaxSeq
        /\ Answered(c, {}, {seq + 1})
    BY <1>3 DEF SendMessage, Ops
  <2>2. seq' = seq + 1
    BY <2>1, <1>1 DEF Answered
  <2> QED
    BY <1>1, <2>1, <2>2
<1>4. CASE PurgeQueue(c)
  <2>1. call[c].op \in Ops /\ Answered(c, Holds(c), {})
    BY <1>4 DEF PurgeQueue, Ops
  <2>2. seq' = seq + 0
    BY <2>1, <1>1 DEF Answered
  <2> QED
    BY <1>1, <1>2, <2>1, <2>2
<1>5. ASSUME NEW m \in Messages, DeleteMessage(c, m)
      PROVE  /\ \E out, new \in SUBSET Messages : Answered(c, out, new)
             /\ seq' \in 0..MaxSeq /\ call[c].op \in Ops
  <2>1. /\ call[c].op \in Ops /\ {m} \cap Holds(c) \in SUBSET Messages
        /\ Answered(c, {m} \cap Holds(c), {})
    BY <1>5 DEF DeleteMessage, Ops
  <2>2. seq' = seq + 0
    BY <2>1, <1>1 DEF Answered
  <2> QED
    BY <1>1, <2>1, <2>2
<1>6. ASSUME NEW m \in Messages, ResubmitMessage(c, m)
      PROVE  /\ \E out, new \in SUBSET Messages : Answered(c, out, new)
             /\ seq' \in 0..MaxSeq /\ call[c].op \in Ops
  <2>1. /\ call[c].op \in Ops /\ seq < MaxSeq /\ {m} \in SUBSET Messages
        /\ Answered(c, {m}, {seq + 1})
    BY <1>6 DEF ResubmitMessage, Ops
  <2>2. seq' = seq + 1
    BY <2>1, <1>1 DEF Answered
  <2> QED
    BY <1>1, <2>1, <2>2
<1> QED
  BY <1>3, <1>4, <1>5, <1>6 DEF Answers

\* Every step keeps the types.
LEMMA TypeStep ==
  ASSUME TypeOK, [Next]_vars
  PROVE  TypeOK'
<1> USE BrokerAssumption
<1>1. ASSUME NEW c \in Clients, NEW q \in Names, CreateQueue(c, q) \/ DeleteQueue(c, q)
      PROVE  TypeOK'
  <2>1. /\ [op |-> "create", name |-> q, parked |-> FALSE, since |-> spawned] \in Calls
        /\ [op |-> "delete", name |-> q, parked |-> FALSE] \in Calls
    BY DEF TypeOK, Calls
  <2>2. CASE CreateQueue(c, q)
    BY <2>1, <2>2 DEF TypeOK, CreateQueue, exportVars, InShard, Calls
  <2>3. CASE DeleteQueue(c, q)
    BY <2>1, <2>3 DEF TypeOK, DeleteQueue, exportVars, InShard, Calls
  <2> QED
    BY <1>1, <2>2, <2>3
<1>2. ASSUME NEW c \in Clients, NEW q \in Names, NEW op \in Ops, Resolve(c, q, op)
      PROVE  TypeOK'
  <2>1. queues[q] \in 1..spawned
    BY <1>2 DEF TypeOK, Resolve
  <2>2. [op |-> op, actor |-> queues[q]] \in Calls
    BY <2>1 DEF Calls
  <2> QED
    BY <1>2, <2>2 DEF TypeOK, Resolve, exportVars, InShard, Calls
<1>3. ASSUME NEW c \in Clients, Park(c)
      PROVE  TypeOK'
  <2>1. call[c] \in Calls /\ call[c].op \in {"create", "delete"}
    BY <1>3, CallType DEF Park
  <2>2. [call[c] EXCEPT !.parked = TRUE] \in Calls
    BY <2>1 DEF Calls, Idle, Ops
  <2> QED
    BY <1>3, <2>2 DEF TypeOK, Park, exportVars, InShard, Calls
<1>4. ASSUME NEW c \in Clients, Insert(c)
      PROVE  TypeOK'
  <2>1. /\ call[c].name \in Names /\ call' = [call EXCEPT ![c] = Idle]
        /\ ~Locked(call[c].name)
    BY <1>4, WriterType DEF Insert
  <2>2. spawned + 1 \in Nat /\ queues' \in [Names -> 0..spawned + 1]
    BY <1>4, <2>1 DEF TypeOK, Insert
  <2>3. left' \subseteq InShard(shard)'
    BY <1>4, <2>1, <2>2, ShardKept DEF Insert
  <2>4. spawned' = spawned + 1 /\ spawned' \in 0..MaxActors
    BY <1>4 DEF TypeOK, Insert
  <2>5. call' \in [Clients -> Calls']
    <3>1. Calls \subseteq Calls' /\ Idle \in Calls'
      BY <2>4, CallsGrow DEF Calls
    <3> QED
      BY <2>1, <3>1 DEF TypeOK
  <2> QED
    BY <1>4, <2>2, <2>3, <2>4, <2>5 DEF TypeOK, Insert
<1>5. ASSUME NEW c \in Clients, Remove(c)
      PROVE  TypeOK'
  <2>1. /\ call[c].name \in Names /\ call' = [call EXCEPT ![c] = Idle]
        /\ ~Locked(call[c].name)
    BY <1>5, WriterType DEF Remove
  <2>2. left' \subseteq InShard(shard)'
    BY <1>5, <2>1, ShardKept DEF Remove
  <2>3. Calls' = Calls /\ Idle \in Calls
    BY <1>5 DEF Calls, Remove
  <2> QED
    BY <1>5, <2>1, <2>2, <2>3 DEF TypeOK, Remove
<1>6. ASSUME NEW c \in Clients, Answers(c)
      PROVE  TypeOK'
  <2>1. PICK out, new \in SUBSET Messages : Answered(c, out, new)
    BY <1>6, AnswerType
  <2>2. call[c].op \in Ops /\ seq' \in 0..MaxSeq
    BY <1>6, AnswerType
  <2>3. call[c].actor \in Actors
    BY <2>2, CallType
  <2>4. contents' \in [Actors -> SUBSET Messages] /\ kept' \subseteq Messages
    BY <2>1, <2>3 DEF TypeOK, Answered
  <2>5. call' = [call EXCEPT ![c] = Idle]
    BY <2>1 DEF Answered
  <2>6. Calls' = Calls /\ Idle \in Calls
    BY <2>1 DEF Calls, Answered
  <2> QED
    BY <2>1, <2>2, <2>4, <2>5, <2>6 DEF TypeOK, Answered, exportVars, InShard
<1>7. ASSUME NEW s \in Shards, Enter(s)
      PROVE  TypeOK'
  BY <1>7 DEF TypeOK, Enter, InShard, Calls
<1>8. ASSUME NEW q \in Names, Answer(q)
      PROVE  TypeOK'
  BY <1>8 DEF TypeOK, Answer, InShard, Calls
<1>9. CASE Leave
  BY <1>9 DEF TypeOK, Leave, InShard, Calls
<1>10. CASE UNCHANGED vars
  BY <1>10 DEF TypeOK, vars, exportVars, InShard, Calls
<1> QED
  BY <1>1, <1>2, <1>3, <1>4, <1>5, <1>6, <1>7, <1>8, <1>9, <1>10
  DEF Next, Finish, ExportStep, Answers
-----------------------------------------------------------------------------
\* An insertion makes the newest actor of its name, a removal leaves none.
LEMMA SinceStep ==
  ASSUME TypeOK, SinceOK, [Next]_vars
  PROVE  SinceOK'
<1> USE BrokerAssumption DEF TypeOK, SinceOK
<1>1. ASSUME NEW c \in Clients, NEW q \in Names, CreateQueue(c, q) \/ DeleteQueue(c, q)
      PROVE  SinceOK'
  <2>1. CASE CreateQueue(c, q)
    <3>1. /\ UNCHANGED queues /\ queues[q] = 0
          /\ call' = [call EXCEPT ![c] = [op |-> "create", name |-> q, parked |-> FALSE,
                                          since |-> spawned]]
      BY <2>1 DEF CreateQueue, Existing
    <3>2. call'[c].name = q /\ \A d \in Clients \ {c} : call'[d] = call[d]
      BY <3>1
    <3> QED
      BY <3>1, <3>2
  <2>2. CASE DeleteQueue(c, q)
    <3>1. /\ UNCHANGED queues
          /\ call' = [call EXCEPT ![c] = [op |-> "delete", name |-> q, parked |-> FALSE]]
      BY <2>2 DEF DeleteQueue
    <3>2. call'[c].op = "delete" /\ \A d \in Clients \ {c} : call'[d] = call[d]
      BY <3>1
    <3> QED
      BY <3>1, <3>2
  <2> QED
    BY <1>1, <2>1, <2>2
<1>2. ASSUME NEW c \in Clients, NEW q \in Names, NEW op \in Ops, Resolve(c, q, op)
      PROVE  SinceOK'
  BY <1>2 DEF Resolve, Ops
<1>3. ASSUME NEW c \in Clients, Park(c)
      PROVE  SinceOK'
  <2>1. UNCHANGED queues /\ call' = [call EXCEPT ![c].parked = TRUE]
        /\ call[c].op \in {"create", "delete"}
    BY <1>3 DEF Park
  <2>2. /\ call'[c].op = call[c].op /\ call'[c].name = call[c].name
        /\ call[c].op = "create" => call'[c].since = call[c].since
        /\ \A d \in Clients \ {c} : call'[d] = call[d]
    BY <2>1, CallType DEF Calls, Idle, Ops
  <2> QED
    BY <2>1, <2>2
<1>4. ASSUME NEW c \in Clients, Insert(c) \/ Remove(c)
      PROVE  SinceOK'
  <2>1. /\ call[c].name \in Names /\ call' = [call EXCEPT ![c] = Idle]
        /\ queues' = [queues EXCEPT ![call[c].name] = spawned + 1]
             \/ queues' = [queues EXCEPT ![call[c].name] = 0]
    BY <1>4, WriterType DEF Insert, Remove
  <2>2. ASSUME NEW d \in Clients, call'[d].op = "create"
        PROVE  /\ call'[d] = call[d] /\ call[d].name \in Names /\ call[d].since \in 0..spawned
    BY <2>1, <2>2, CallType DEF Idle
  <2>3. ASSUME NEW d \in Clients, call'[d].op = "create"
        PROVE  queues'[call'[d].name] = 0 \/ queues'[call'[d].name] > call'[d].since
    <3>1. /\ call'[d] = call[d] /\ call[d].name \in Names /\ call[d].since \in 0..spawned
          /\ queues[call[d].name] = 0 \/ queues[call[d].name] > call[d].since
      BY <2>2, <2>3
    <3> QED
      BY <2>1, <3>1
  <2> QED
    BY <2>3
<1>5. CASE UNCHANGED queues /\ \E c \in Clients : call' = [call EXCEPT ![c] = Idle]
  BY <1>5 DEF Idle
<1>6. CASE UNCHANGED <<queues, call>>
  BY <1>6
<1> QED
  BY <1>1, <1>2, <1>3, <1>4, <1>5, <1>6
  DEF Next, Finish, ExportStep, SendMessage, PurgeQueue, DeleteMessage, ResubmitMessage,
      Answered, Enter, Answer, Leave, vars

\* An export has every queue it has asked, and each of them once.
LEMMA ExportStepOK ==
  ASSUME TypeOK, DumpOK, StableOK, [Next]_vars
  PROVE  DumpOK' /\ StableOK'
<1> USE BrokerAssumption DEF TypeOK
<1>1. ASSUME NEW c \in Clients, Insert(c) \/ Remove(c)
      PROVE  DumpOK' /\ StableOK'
  <2>1. /\ call[c].name \in Names /\ stable' = stable \ {call[c].name}
        /\ \A q \in Names \ {call[c].name} : queues'[q] = queues[q]
        /\ UNCHANGED <<shard, left, done, dump>>
    BY <1>1, WriterType DEF Insert, Remove
  <2>2. DumpOK'
    BY <2>1 DEF DumpOK, Dumped
  <2>3. StableOK'
    BY <2>1 DEF StableOK, Shown
  <2> QED
    BY <2>2, <2>3
<1>2. ASSUME NEW s \in Shards, Enter(s)
      PROVE  DumpOK' /\ StableOK'
  <2>1. left' = InShard(s) /\ shard' = s /\ shard = NoShard /\ s \notin done
        /\ UNCHANGED <<queues, done>>
    BY <1>2 DEF Enter
  <2>2. CASE done = {}
    <3>1. dump' = <<>> /\ stable' = {q \in Names : queues[q] # 0}
      BY <1>2, <2>2 DEF Enter
    <3> QED
      BY <2>1, <2>2, <3>1 DEF DumpOK, StableOK, InShard
  <2>3. CASE done # {}
    <3>1. UNCHANGED <<dump, stable>>
      BY <1>2, <2>3 DEF Enter
    <3>2. DumpOK'
      BY <2>1, <2>3, <3>1 DEF DumpOK, Dumped
    <3>3. StableOK'
      BY <2>1, <3>1 DEF StableOK, Shown, InShard
    <3> QED
      BY <3>2, <3>3
  <2> QED
    BY <2>2, <2>3
<1>3. ASSUME NEW q \in Names, Answer(q)
      PROVE  DumpOK' /\ StableOK'
  <2>1. /\ q \in left /\ ShardOf[q] = shard /\ shard \in Shards
        /\ left' = left \ {q} /\ dump' = Append(dump, q)
        /\ UNCHANGED <<queues, shard, done, stable>>
    BY <1>3 DEF Answer, InShard
  <2>2. /\ DOMAIN dump' = 1..Len(dump) + 1 /\ dump'[Len(dump) + 1] = q
        /\ \A i \in 1..Len(dump) : dump'[i] = dump[i]
        /\ DOMAIN dump = 1..Len(dump) /\ Len(dump) \in Nat
    BY <2>1
  <2>3. \A i \in DOMAIN dump : dump[i] # q
    BY <2>1 DEF DumpOK, Dumped
  <2>4. DumpOK'
    BY <2>1, <2>2, <2>3 DEF DumpOK, Dumped
  <2>5. ASSUME NEW p \in Names, Shown(p) \/ p = q
        PROVE  Shown(p)'
    <3>1. CASE p = q
      <4>1. Len(dump) + 1 \in DOMAIN dump'
        BY <2>2
      <4> QED
        BY <2>2, <3>1, <4>1 DEF Shown
    <3>2. CASE Shown(p)
      <4>1. PICK i \in DOMAIN dump : dump[i] = p
        BY <3>2 DEF Shown
      <4>2. i \in DOMAIN dump' /\ dump'[i] = p
        BY <2>2, <4>1
      <4> QED
        BY <4>2 DEF Shown
    <3> QED
      BY <2>5, <3>1, <3>2
  <2>6. StableOK'
    BY <2>1, <2>5 DEF StableOK
  <2> QED
    BY <2>4, <2>6
<1>4. CASE Leave
  <2>1. /\ shard' = NoShard /\ left = {} /\ left' = {} /\ shard \in Shards
        /\ done' = {} \/ done' = done \cup {shard}
        /\ UNCHANGED <<queues, dump, stable>>
    BY <1>4 DEF Leave, Through
  <2>2. DumpOK'
    BY <2>1 DEF DumpOK, Dumped
  <2>3. StableOK'
    BY <2>1 DEF StableOK, Shown
  <2> QED
    BY <2>2, <2>3
<1>5. CASE UNCHANGED <<queues, exportVars>>
  BY <1>5 DEF DumpOK, StableOK, Dumped, Shown, exportVars
<1> QED
  BY <1>1, <1>2, <1>3, <1>4, <1>5
  DEF Next, Finish, ExportStep, CreateQueue, DeleteQueue, Resolve, Park, SendMessage, PurgeQueue,
      DeleteMessage, ResubmitMessage, Answered, vars
-----------------------------------------------------------------------------
\* A message that a queue keeps goes only with what the step may remove.
LEMMA AcceptedStep ==
  ASSUME TypeOK, SinceOK, AcceptedKept, [Next]_vars
  PROVE  AcceptedKept'
<1> USE BrokerAssumption DEF TypeOK, AcceptedKept, Held
<1>1. ASSUME NEW c \in Clients, Insert(c) \/ Remove(c)
      PROVE  AcceptedKept'
  <2>1. /\ call[c].name \in Names /\ UNCHANGED contents
        /\ \A q \in Names \ {call[c].name} : queues'[q] = queues[q]
    BY <1>1, WriterType DEF Insert, Remove
  <2>2. kept' \subseteq kept \ Held(call[c].name)
    <3>1. CASE Remove(c)
      BY <3>1 DEF Remove
    <3>2. CASE Insert(c)
      <4>1. call[c].op = "create"
        BY <3>2 DEF Insert, Writes
      <4>2. queues[call[c].name] = 0 \/ queues[call[c].name] > call[c].since
        BY <4>1 DEF SinceOK
      <4> QED
        BY <3>2, <4>2 DEF Insert
    <3> QED
      BY <1>1, <3>1, <3>2
  <2>3. ASSUME NEW m \in kept'
        PROVE  \E q \in Names : m \in Held(q)'
    <3>1. PICK q \in Names : m \in Held(q)
      BY <2>2
    <3>2. q # call[c].name
      BY <2>2, <3>1
    <3> QED
      BY <2>1, <3>1, <3>2
  <2> QED
    BY <2>3
<1>2. ASSUME NEW c \in Clients, Answers(c)
      PROVE  AcceptedKept'
  <2>1. PICK out, new \in SUBSET Messages : Answered(c, out, new)
    BY <1>2, AnswerType
  <2>2. call[c].op \in Ops /\ call[c].actor \in Actors /\ call[c].actor # 0
    BY <1>2, AnswerType, CallType DEF Actors
  <2>3. /\ contents'[call[c].actor] = (contents[call[c].actor] \ out) \cup new
        /\ \A a \in Actors \ {call[c].actor} : contents'[a] = contents[a]
        /\ UNCHANGED queues
    BY <2>1, <2>2 DEF Answered
  <2>4. ASSUME NEW q \in Names
        PROVE  Held(q) \ out \subseteq Held(q)'
    <3>1. queues[q] = 0 \/ queues[q] \in Actors
      BY DEF Actors
    <3> QED
      BY <2>3, <3>1
  <2>5. ASSUME NEW x \in kept'
        PROVE  \E q \in Names : x \in Held(q)'
    <3>1. CASE x \in kept \ out
      BY <2>4, <3>1
    <3>2. CASE x \in new /\ \E q \in Names : queues[q] = call[c].actor
      BY <2>2, <2>3, <3>2
    <3> QED
      BY <2>1, <2>5, <3>1, <3>2 DEF Answered
  <2> QED
    BY <2>5
<1>3. CASE UNCHANGED <<queues, contents, kept>>
  BY <1>3
<1> QED
  BY <1>1, <1>2, <1>3
  DEF Next, Finish, Answers, ExportStep, CreateQueue, DeleteQueue, Resolve, Park, Enter, Answer,
      Leave, vars, exportVars
-----------------------------------------------------------------------------
\* An engine begins with no queues.
LEMMA InitInv == Init => Inv
<1> SUFFICES ASSUME Init PROVE Inv
  OBVIOUS
<1> USE BrokerAssumption DEF Init
<1>1. TypeOK
  <2>1. Idle \in Calls /\ 0 \in 0..MaxSeq /\ 0 \in 0..MaxActors /\ <<>> \in Seq(Names)
    BY DEF Calls
  <2> QED
    BY <2>1 DEF TypeOK, InShard
<1>2. SinceOK /\ DumpOK /\ StableOK /\ AcceptedKept
  BY DEF SinceOK, Idle, DumpOK, StableOK, AcceptedKept
<1> QED
  BY <1>1, <1>2 DEF Inv

\* The inductive invariant: types, what a creator knows, what an export has asked and
\* what the queues hold (create_queue, delete_queue and export in core/src/lib.rs).
THEOREM SpecInv == Spec => []Inv
<1>1. Inv /\ [Next]_vars => Inv'
  BY TypeStep, SinceStep, ExportStepOK, AcceptedStep DEF Inv
<1> QED
  BY InitInv, <1>1, PTL DEF Spec

\* The broker, its requests and its export keep their types, and export asks only
\* queues that are registered.
THEOREM SpecTypeOK == Spec => []TypeOK
<1>1. Inv => TypeOK
  BY DEF Inv
<1> QED
  BY SpecInv, <1>1, PTL

\* A message that a registered queue accepted stays until it or its queue is asked to
\* go, or a creation that found no queue replaces it.
THEOREM SpecAcceptedKept == Spec => []AcceptedKept
<1>1. Inv => AcceptedKept
  BY DEF Inv
<1> QED
  BY SpecInv, <1>1, PTL

\* An export has no queue twice and every queue that was there throughout.
THEOREM SpecExportComplete == Spec => []ExportComplete
<1>1. ASSUME Inv PROVE ExportComplete
  BY <1>1 DEF Inv, DumpOK, StableOK, Shown, ExportComplete
<1> QED
  BY SpecInv, <1>1, PTL
=============================================================================
