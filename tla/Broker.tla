--------------------------------- MODULE Broker ---------------------------------
(***************************************************************************)
(* The broker of a Service Bus engine (servicebus/core): its queues, the   *)
(* requests of the dashboard (servicebus/engine) and of AMQP links on      *)
(* them, and the export that every autosave makes.                         *)
(*                                                                         *)
(* The queues are in a concurrent map of several shards.  export walks the *)
(* map with the read lock of a shard in its hands, and awaits the answer   *)
(* of each queue's actor meanwhile.  Whoever wants to write that shard     *)
(* blocks, not as a task but with the worker thread it runs on, and there  *)
(* are only so many of those to run everybody else, actors included.       *)
(***************************************************************************)
EXTENDS Naturals, Sequences, FiniteSets

CONSTANTS
  Names, Shards,
  ShardOf,     \* the shard a queue's name hashes to
  Clients,
  Workers,     \* number of worker threads of the runtime
  MaxActors,   \* bound: number of actors spawned
  MaxSeq       \* bound: number of messages accepted

VARIABLES
  queues,      \* the actor registered under each name, 0 for none
  spawned,     \* number of the latest actor
  contents,    \* the messages each actor holds
  seq,         \* the last message accepted
  kept,        \* history: accepted by a queue, and asked nobody to remove
  call,        \* what each client's request is about to do
  shard,       \* the shard export is in, if any
  left,        \* names it still has to ask there
  done,        \* shards it is through with
  dump,        \* the queues that answered, in order
  stable       \* history: queues registered all the time since it began

exportVars == <<shard, left, done, dump, stable>>
vars == <<queues, spawned, contents, seq, kept, call, exportVars>>

Actors   == 1..MaxActors
Messages == 1..MaxSeq
Idle     == [op |-> "idle"]
NoShard  == "none"

ASSUME BrokerAssumption ==
  /\ ShardOf \in [Names -> Shards] /\ NoShard \notin Shards
  /\ Workers \in Nat \ {0} /\ MaxActors \in Nat /\ MaxSeq \in Nat

Init ==
  /\ queues = [q \in Names |-> 0]
  /\ spawned = 0
  /\ contents = [a \in Actors |-> {}]
  /\ seq = 0
  /\ kept = {}
  /\ call = [c \in Clients |-> Idle]
  /\ shard = NoShard
  /\ left = {}
  /\ done = {}
  /\ dump = <<>>
  /\ stable = {}

-----------------------------------------------------------------------------
(***************************************************************************)
(* Threads.                                                                *)
(***************************************************************************)
Parked == {c \in Clients : call[c].op \in {"create", "delete"} /\ call[c].parked}

\* The last thread runs nobody else.
FreeThread_Mistake == Cardinality(Parked) + 1 < Workers
\* Somebody can be run.
FreeThread == Cardinality(Parked) < Workers

\* The shard of q is read-locked by export.
Locked(q) == shard = ShardOf[q]

\* A request that finds the shard locked keeps its thread.
Park(c) ==
  /\ FreeThread
  /\ call[c].op \in {"create", "delete"} /\ ~call[c].parked /\ Locked(call[c].name)
  /\ call' = [call EXCEPT ![c].parked = TRUE]
  /\ UNCHANGED <<queues, spawned, contents, seq, kept, exportVars>>

\* The messages of the actor that is registered as q.
Held(q) == IF queues[q] = 0 THEN {} ELSE contents[queues[q]]

\* The request of client c gets to write the map, on its own thread or on a free one.
Writes(c, op) ==
  /\ call[c].op = op /\ (call[c].parked \/ FreeThread)
  /\ ~Locked(call[c].name)
  /\ call' = [call EXCEPT ![c] = Idle]

-----------------------------------------------------------------------------
(***************************************************************************)
(* Queues.                                                                 *)
(***************************************************************************)
\* Does not look.
Existing_Mistake(q) == FALSE
\* The get of create_queue finds the queue.
Existing(q) == queues[q] # 0

\* create_queue of the dashboard up to the broker's get; an existing queue is fine.
CreateQueue(c, q) ==
  /\ FreeThread /\ call[c] = Idle /\ ~Existing(q)
  /\ call' = [call EXCEPT ![c] = [op |-> "create", name |-> q, parked |-> FALSE,
                                  since |-> spawned]]
  /\ UNCHANGED <<queues, spawned, contents, seq, kept, exportVars>>

\* The broker's create_queue from there on: a new actor replaces whatever is
\* registered by now.
Insert(c) ==
  /\ Writes(c, "create") /\ spawned < MaxActors
  /\ spawned' = spawned + 1
  /\ queues' = [queues EXCEPT ![call[c].name] = spawned + 1]
  /\ stable' = stable \ {call[c].name}
  /\ kept' = IF queues[call[c].name] > call[c].since THEN kept \ Held(call[c].name) ELSE kept
  /\ UNCHANGED <<contents, seq, shard, left, done, dump>>

\* delete_queue of the dashboard, up to the broker's remove ...
DeleteQueue(c, q) ==
  /\ FreeThread /\ call[c] = Idle
  /\ call' = [call EXCEPT ![c] = [op |-> "delete", name |-> q, parked |-> FALSE]]
  /\ UNCHANGED <<queues, spawned, contents, seq, kept, exportVars>>

\* ... which need not find anything.
Remove(c) ==
  /\ Writes(c, "delete")
  /\ queues' = [queues EXCEPT ![call[c].name] = 0]
  /\ stable' = stable \ {call[c].name}
  /\ kept' = kept \ Held(call[c].name)
  /\ UNCHANGED <<spawned, contents, seq, shard, left, done, dump>>

-----------------------------------------------------------------------------
(***************************************************************************)
(* Messages: a request resolves the queue to its actor, and the actor      *)
(* answers later, registered or not.  What it does in detail is in         *)
(* EntityState.                                                            *)
(***************************************************************************)
Ops == {"send", "purge", "delete_message", "resubmit"}

\* get_queue, by a route of the dashboard or by resolve_entity for an AMQP link.
Resolve(c, q, op) ==
  /\ FreeThread /\ call[c] = Idle /\ queues[q] # 0
  /\ call' = [call EXCEPT ![c] = [op |-> op, actor |-> queues[q]]]
  /\ UNCHANGED <<queues, spawned, contents, seq, kept, exportVars>>

Holds(c) == contents[call[c].actor]

\* The actor of client c's request answers: it has lost the messages out, and got new.
Answered(c, out, new) ==
  /\ FreeThread
  /\ contents' = [contents EXCEPT ![call[c].actor] = (@ \ out) \cup new]
  /\ seq' = seq + Cardinality(new)
  /\ kept' = (kept \ out) \cup
       IF \E q \in Names : queues[q] = call[c].actor THEN new ELSE {}
  /\ call' = [call EXCEPT ![c] = Idle]
  /\ UNCHANGED <<queues, spawned, exportVars>>

SendMessage(c) ==
  /\ call[c].op = "send" /\ seq < MaxSeq
  /\ Answered(c, {}, {seq + 1})

PurgeQueue(c) ==
  /\ call[c].op = "purge"
  /\ Answered(c, Holds(c), {})

\* A message that is not there is an error and changes nothing.
DeleteMessage(c, m) ==
  /\ call[c].op = "delete_message"
  /\ Answered(c, {m} \cap Holds(c), {})

\* A dead-lettered message goes back as a new one.
ResubmitMessage(c, m) ==
  /\ call[c].op = "resubmit" /\ m \in Holds(c) /\ seq < MaxSeq
  /\ Answered(c, {m}, {seq + 1})

-----------------------------------------------------------------------------
(***************************************************************************)
(* Broker::export.                                                         *)
(***************************************************************************)
InShard(s) == {q \in Names : queues[q] # 0 /\ ShardOf[q] = s}

\* The autosave or stop() begins an export with the first shard, or goes on with
\* the next one.
Enter(s) ==
  /\ FreeThread /\ shard = NoShard /\ s \notin done
  /\ shard' = s
  /\ left' = InShard(s)
  /\ dump' = IF done = {} THEN <<>> ELSE dump
  /\ stable' = IF done = {} THEN {q \in Names : queues[q] # 0} ELSE stable
  /\ UNCHANGED <<queues, spawned, contents, seq, kept, call, done>>

\* The actor of queue q answers.
Answer(q) ==
  /\ FreeThread /\ q \in left
  /\ dump' = Append(dump, q)
  /\ left' = left \ {q}
  /\ UNCHANGED <<queues, spawned, contents, seq, kept, call, shard, done, stable>>

\* One answer from each shard is enough.
Through_Mistake == left = {} \/ left # InShard(shard)
\* Every queue of the shard has answered.
Through == left = {}

\* The lock of the shard is dropped.
Leave ==
  /\ FreeThread /\ shard # NoShard /\ Through
  /\ shard' = NoShard
  /\ left' = {}
  /\ done' = IF done \cup {shard} = Shards THEN {} ELSE done \cup {shard}
  /\ UNCHANGED <<queues, spawned, contents, seq, kept, call, dump, stable>>

ExportStep == (\E q \in Names : Answer(q)) \/ Leave \/ (done # {} /\ \E s \in Shards : Enter(s))

Finish(c) ==
  \/ Park(c) \/ Insert(c) \/ Remove(c)
  \/ SendMessage(c) \/ PurgeQueue(c)
  \/ \E m \in Messages : DeleteMessage(c, m) \/ ResubmitMessage(c, m)

Next ==
  \/ \E c \in Clients, q \in Names :
       CreateQueue(c, q) \/ DeleteQueue(c, q) \/ \E op \in Ops : Resolve(c, q, op)
  \/ \E c \in Clients : Finish(c)
  \/ ExportStep \/ \E s \in Shards : Enter(s)

\* tokio runs the export's task and the actors as long as it has a thread to.
Spec == Init /\ [][Next]_vars /\ WF_vars(ExportStep)

-----------------------------------------------------------------------------
Calls ==
  {Idle} \cup [op : {"create"}, name : Names, parked : BOOLEAN, since : 0..spawned]
         \cup [op : {"delete"}, name : Names, parked : BOOLEAN]
         \cup [op : Ops, actor : 1..spawned]

\* Types; and the queues that export has yet to ask are registered.
TypeOK ==
  /\ queues \in [Names -> 0..spawned] /\ spawned \in 0..MaxActors
  /\ contents \in [Actors -> SUBSET Messages]
  /\ seq \in 0..MaxSeq
  /\ call \in [Clients -> Calls]
  /\ shard \in Shards \cup {NoShard} /\ done \in SUBSET Shards
  /\ left \subseteq InShard(shard) /\ stable \subseteq Names
  /\ dump \in Seq(Names) /\ kept \subseteq Messages

\* An export has no queue twice, and every queue that was there from its beginning
\* to its end, while others came and went (Broker::export).
ExportComplete ==
  /\ \A i, j \in DOMAIN dump : dump[i] = dump[j] => i = j
  /\ \A q \in stable :
       ShardOf[q] \in done \/ (shard = ShardOf[q] /\ left = {}) =>
         \E i \in DOMAIN dump : dump[i] = q

\* A message that a registered queue has accepted stays there until it or the queue
\* is asked to go, or a creation that found no such queue replaces it (create_queue).
AcceptedKept == kept \subseteq UNION {Held(q) : q \in Names}

\* With more worker threads than requests that write the map, an export that waits
\* for an actor gets through, whoever is parked behind it (export).
ExportGetsThrough == shard # NoShard ~> shard = NoShard
=============================================================================
