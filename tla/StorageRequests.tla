---------------------------- MODULE StorageRequests ----------------------------
(***************************************************************************)
(* What the blob, queue and table stores of one storage account share: the *)
(* requests under way, and the UUIDs that serve as message ids, receipts   *)
(* and etags.                                                              *)
(*                                                                         *)
(* The stores are concurrent maps.  An operation that asks one of them and *)
(* then changes it takes two steps, with those of other requests between   *)
(* them; what the first step found is in request until the second.         *)
(***************************************************************************)
EXTENDS Integers, Sequences, FiniteSets

CONSTANTS
  Clients,
  Absent,      \* no such queue, table, entity, container or blob
  MaxStamp     \* bound: number of UUIDs drawn

VARIABLES
  request,     \* what each client's request is about to do
  stamp,       \* the last UUID drawn
  confirmed    \* history: what clients were told is stored, but for what Confirm drops

requestVars == <<request, stamp, confirmed>>

Stamps == 1..MaxStamp
Idle   == [op |-> "idle"]

ASSUME StorageAssumption == MaxStamp \in Nat

RequestInit ==
  /\ request = [c \in Clients |-> Idle]
  /\ stamp = 0
  /\ confirmed = {}

\* The first step of client c's request leaves it with r to do.
Begin(c, r) ==
  /\ request[c] = Idle
  /\ request' = [request EXCEPT ![c] = r]

\* The second step of client c's request, which is one of the operation op.
End(c, op) ==
  /\ request[c].op = op
  /\ request' = [request EXCEPT ![c] = Idle]

\* Draws n UUIDs.
Draw(n) ==
  /\ stamp + n <= MaxStamp
  /\ stamp' = stamp + n

\* The client is told that new is stored; removed is what it asked to remove or replace,
\* or what its request, a creation, overtakes.
Confirm(new, removed) == confirmed' = (confirmed \ removed) \cup new

\* Of what is stored where client c's creation inserts, what came after it had looked: it
\* goes although nobody asked for that.
Overtaken(c, stored) == {x \in stored : x > request[c].since}
=============================================================================
