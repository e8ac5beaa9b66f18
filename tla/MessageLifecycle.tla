-------------------------- MODULE MessageLifecycle --------------------------
(***************************************************************************)
(* What an entity promises about the messages it accepted, without queues, *)
(* locks, timers or sessions: where each numbered message is, and the only *)
(* ways it moves.                                                          *)
(***************************************************************************)
EXTENDS Naturals

CONSTANT MaxSequence  \* messages ever numbered

VARIABLE place        \* place[s]: where message s is

Waiting == {"Active", "Scheduled"}
Parked  == {"Deferred", "DeadLettered"}
States7 == Waiting \cup Parked \cup {"Unsent", "Locked", "Gone"}
Seqs    == 1..MaxSequence

Move(s, to) == place' = [place EXCEPT ![s] = to]

\* Numbers are given out in order.
IsNext(s) == place[s] = "Unsent" /\ \A r \in 1..s-1 : place[r] # "Unsent"

Init == place = [s \in Seqs |-> "Unsent"]

Accept(s) == /\ IsNext(s)
             /\ \E to \in Waiting : Move(s, to)

\* One message at a time goes out, for good or on a lock.
Deliver(s) == /\ place[s] = "Active"
              /\ \E to \in {"Locked", "Gone"} : Move(s, to)

\* The holder of the lock decides.
Settle(s) == /\ place[s] = "Locked"
             /\ \E to \in {"Active", "Gone"} \cup Parked : Move(s, to)

\* Time, a purge or a restart may move many messages at once, but never takes
\* one back out of the deferred or dead-letter bucket, nor hands one out.
Swept(from) ==
  CASE from = "Scheduled" -> {"Scheduled", "Active", "DeadLettered", "Gone"}
    [] from = "Locked"    -> {"Locked", "Active", "DeadLettered", "Gone"}
    [] from = "Active"    -> {"Active", "DeadLettered", "Gone"}
    [] OTHER              -> {from}

Sweep == /\ place' \in [Seqs -> States7]
         /\ \A s \in Seqs : place'[s] \in Swept(place[s])

\* An administrator deletes one message, wherever it is.
Remove(s) == /\ place[s] \in Waiting \cup Parked \cup {"Locked"}
             /\ Move(s, "Gone")

\* A dead letter leaves only together with the message that replaces it.
Resubmit(s, r) ==
  /\ place[s] = "DeadLettered"
  /\ IsNext(r)
  /\ place' = [place EXCEPT ![s] = "Gone", ![r] = "Active"]

Next == \/ Sweep
        \/ \E s \in Seqs : Accept(s) \/ Deliver(s) \/ Settle(s) \/ Remove(s)
        \/ \E s, r \in Seqs : Resubmit(s, r)

Spec == Init /\ [][Next]_place
=============================================================================
