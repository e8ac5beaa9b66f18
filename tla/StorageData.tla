------------------------------ MODULE StorageData ------------------------------
(***************************************************************************)
(* The three stores of a storage account between its starts: the requests  *)
(* on them interleave, the clock advances, and the account restarts, which *)
(* drops the requests under way and reads every store back from what it    *)
(* dumped.  What starts, stops and saves do to one another is in           *)
(* StorageEngine.                                                          *)
(***************************************************************************)
EXTENDS QueueStore, TableStore, BlobStore

vars == <<requestVars, queueVars, tableVars, containers>>

Init == RequestInit /\ QueueInit /\ TableInit /\ BlobInit

Restart ==
  /\ request' = [c \in Clients |-> Idle]
  /\ QueueRestore /\ TableRestore /\ BlobRestore
  /\ UNCHANGED <<stamp, confirmed>>

Next ==
  \/ QueueNext /\ UNCHANGED <<tableVars, containers>>
  \/ TableNext /\ UNCHANGED <<queueVars, containers>>
  \/ BlobNext /\ UNCHANGED <<queueVars, tableVars>>
  \/ Restart

Spec == Init /\ [][Next]_vars

-----------------------------------------------------------------------------
TypeOK ==
  /\ request \in [Clients -> {Idle} \cup QueueRequest \cup TableRequest \cup BlobRequest]
  /\ stamp \in 0..MaxStamp
  /\ confirmed \subseteq Stamps
  /\ QueueTypeOK /\ TableTypeOK /\ BlobTypeOK

\* What a client was told is stored is there until somebody asks to remove or replace it,
\* or its time to live is over, or else a creation (insert_entity, or that of a queue, a
\* table or a container) overtakes it.  The last is a loss nobody asked for, and against
\* "fails if one already exists" (insert_entity); this bounds it to what was stored after
\* the creation had found nothing there, in that very place.
AcceptedKept ==
  \A x \in confirmed :
    \/ \E q \in Queues : x \in Ids(q)
    \/ \E t \in Tables : x \in Etags(t)
    \/ \E n \in Containers : x \in BlobEtags(n)
=============================================================================
