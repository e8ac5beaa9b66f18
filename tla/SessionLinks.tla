---------------------------- MODULE SessionLinks ----------------------------
(***************************************************************************)
(* Who owns a session lock.  A client attaches a receiver link with a      *)
(* session filter; a task polls the entity for the lock                    *)
(* (resolve_attach_session), reports to the accept loop of the AMQP        *)
(* session (handle_connection), which hands the granted session to a link  *)
(* task (handle_incoming_receiver_link) that serves it and releases it.    *)
(* The lock itself is in the entity, which knows nothing of these tasks.   *)
(*                                                                         *)
(* Phases of a link:                                                       *)
(*   none       nothing attached                                           *)
(*   polling    resolve_attach_session asks for a lock every 250 ms        *)
(*   resolved   it has its answer and sends it to ready_tx                 *)
(*   queued     the answer waits in ready_rx                               *)
(*   serving    the link's loop runs                                       *)
(*                                                                         *)
(* A queue can be deleted and created again: generations are its actors,   *)
(* the latest is the one resolve_entity finds.                             *)
(***************************************************************************)
EXTENDS Naturals

CONSTANTS
  Links, Connections,
  ConnectionOf,      \* the AMQP session whose accept loop a link belongs to
  SessionIds,
  Ungranted,         \* no session granted
  MaxGeneration      \* bound: times the queue is created

ASSUME SessionLinksAssumption ==
  /\ ConnectionOf \in [Links -> Connections]
  /\ Ungranted \notin SessionIds
  /\ MaxGeneration \in Nat \ {0}

VARIABLES
  loop,          \* accept loop of each AMQP session: "open" or "ended"
  stage,         \* phase of each link
  granted,       \* session granted to it
  on,            \* generation of the entity it polls or serves
  locked,        \* locked_sessions of each generation
  generation,    \* the latest generation
  exists         \* whether the broker still has it

slVars == <<loop, stage, granted, on, locked, generation, exists>>

Stages == {"none", "polling", "resolved", "queued", "serving"}
Generations == 1..MaxGeneration

SessionInit ==
  /\ loop = [c \in Connections |-> "open"]
  /\ stage = [l \in Links |-> "none"]
  /\ granted = [l \in Links |-> Ungranted]
  /\ on = [l \in Links |-> 1]
  /\ locked = [g \in Generations |-> {}]
  /\ generation = 1
  /\ exists = TRUE

Open(l) == loop[ConnectionOf[l]] = "open"

\* release_session at the entity the link works with.
Released_Mistake(l) == locked
Released(l) == [locked EXCEPT ![on[l]] = @ \ {granted[l]}]

\* Link l's task is over, and with it what it remembers.
Forget(l) ==
  /\ stage' = [stage EXCEPT ![l] = "none"]
  /\ granted' = [granted EXCEPT ![l] = Ungranted]

\* The loop of c ends: the answers queued in its ready_rx are dropped, and so is
\* whatever link l (one of c's) had.
EndLoop(c, gone) ==
  LET dropped == gone \cup {l \in Links : ConnectionOf[l] = c /\ stage[l] = "queued"}
  IN /\ loop' = [loop EXCEPT ![c] = "ended"]
     /\ stage' = [l \in Links |-> IF l \in dropped THEN "none" ELSE stage[l]]
     /\ granted' = [l \in Links |-> IF l \in dropped THEN Ungranted ELSE granted[l]]

-----------------------------------------------------------------------------
AttachSession(l) ==
  /\ Open(l) /\ stage[l] = "none" /\ exists
  /\ stage' = [stage EXCEPT ![l] = "polling"]
  /\ on' = [on EXCEPT ![l] = generation]
  /\ UNCHANGED <<loop, granted, locked, generation, exists>>

\* Asks, without noticing that somebody has the session.
Grant_Mistake(l) ==
  \E id \in SessionIds :
    /\ stage[l] = "polling"
    /\ stage' = [stage EXCEPT ![l] = "resolved"]
    /\ granted' = [granted EXCEPT ![l] = id]
    /\ locked' = [locked EXCEPT ![on[l]] = @ \cup {id}]
    /\ UNCHANGED <<loop, on, generation, exists>>

\* accept_session succeeds, for the id the client asked for or for the next one.
Grant(l) ==
  \E id \in SessionIds \ locked[on[l]] :
    /\ stage[l] = "polling"
    /\ stage' = [stage EXCEPT ![l] = "resolved"]
    /\ granted' = [granted EXCEPT ![l] = id]
    /\ locked' = [locked EXCEPT ![on[l]] = @ \cup {id}]
    /\ UNCHANGED <<loop, on, generation, exists>>

\* Polls for ever.
GiveUp_Mistake(l) == FALSE /\ UNCHANGED slVars
\* SESSION_POLL_MAX_ATTEMPTS are used up.
GiveUp(l) ==
  /\ stage[l] = "polling"
  /\ stage' = [stage EXCEPT ![l] = "resolved"]
  /\ UNCHANGED <<loop, granted, on, locked, generation, exists>>

\* ready_tx.send(resolved): the result of a failed send is ignored.
Report(l) ==
  /\ stage[l] = "resolved"
  /\ IF Open(l)
     THEN stage' = [stage EXCEPT ![l] = "queued"] /\ UNCHANGED granted
     ELSE Forget(l)
  /\ UNCHANGED <<loop, on, locked, generation, exists>>

\* The attach is accepted and the link's task starts.  It resolves the entity
\* again, and ends at once if there is none or no session was granted.
ServeSession(l) ==
  /\ stage[l] = "queued" /\ Open(l)
  /\ IF granted[l] # Ungranted /\ exists
     THEN /\ stage' = [stage EXCEPT ![l] = "serving"]
          /\ on' = [on EXCEPT ![l] = generation]
          /\ UNCHANGED granted
     ELSE Forget(l) /\ UNCHANGED on
  /\ UNCHANGED <<loop, locked, generation, exists>>

\* accept_incoming_attach fails: the session is released, the loop ends.
Fail(l) ==
  /\ stage[l] = "queued" /\ Open(l)
  /\ EndLoop(ConnectionOf[l], {l})
  /\ locked' = Released(l)
  /\ UNCHANGED <<on, generation, exists>>

\* The client ends the AMQP session or its connection.
Disconnect(c) ==
  /\ loop[c] = "open"
  /\ EndLoop(c, {})
  /\ UNCHANGED <<on, locked, generation, exists>>

\* The link's loop ends, for whatever reason, and releases its session.
Finish(l) ==
  /\ stage[l] = "serving"
  /\ Forget(l)
  /\ locked' = Released(l)
  /\ UNCHANGED <<loop, on, generation, exists>>

DeleteQueue ==
  /\ exists
  /\ exists' = FALSE
  /\ UNCHANGED <<loop, stage, granted, on, locked, generation>>

CreateQueue ==
  /\ ~exists /\ generation < MaxGeneration
  /\ exists' = TRUE
  /\ generation' = generation + 1
  /\ UNCHANGED <<loop, stage, granted, on, locked>>

SessionStep(l) ==
  AttachSession(l) \/ Grant(l) \/ GiveUp(l) \/ Report(l) \/ ServeSession(l) \/ Finish(l)

SessionNext ==
  \/ \E l \in Links : SessionStep(l) \/ Fail(l)
  \/ \E c \in Connections : Disconnect(c)
  \/ DeleteQueue \/ CreateQueue

\* tokio runs the tasks; the client decides about attaching and detaching.
SessionSpec ==
  /\ SessionInit /\ [][SessionNext]_slVars
  /\ \A l \in Links : WF_slVars(GiveUp(l)) /\ WF_slVars(Report(l)) /\ WF_slVars(ServeSession(l))

-----------------------------------------------------------------------------
SessionTypeOK ==
  /\ loop \in [Connections -> {"open", "ended"}]
  /\ stage \in [Links -> Stages]
  /\ granted \in [Links -> SessionIds \cup {Ungranted}]
  /\ on \in [Links -> Generations]
  /\ locked \in [Generations -> SUBSET SessionIds]
  /\ generation \in Generations
  /\ exists \in BOOLEAN
  /\ \A l \in Links : stage[l] \in {"none", "polling"} => granted[l] = Ungranted

\* While the queue is not replaced, no session belongs to two links, and a link
\* that was granted one still has it locked: nobody else released it.
OneReceiver ==
  generation = 1 =>
    \A k, l \in Links :
      granted[l] # Ungranted =>
        /\ granted[l] \in locked[1]
        /\ k # l => granted[k] # granted[l]

\* A session of the present entity is locked only while some link owns the lock
\* and is going to release it (session_filter.rs: "release the lock instead of
\* leaking it forever").
LocksOwned ==
  exists =>
    \A id \in locked[generation] :
      \E l \in Links : granted[l] = id /\ on[l] = generation

\* The lock is leaked in no other way: as long as no accept loop has ended, every
\* session lock of the present entity has a link that will release it.
LocksOwnedWhileOpen == (\A c \in Connections : loop[c] = "open") => LocksOwned

\* Every attach comes to an end of its polling: it is served or over.
AttachAnswered ==
  \A l \in Links : stage[l] = "polling" ~> stage[l] \in {"serving", "none"}
=============================================================================
