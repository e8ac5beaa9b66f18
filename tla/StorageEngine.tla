----------------------------- MODULE StorageEngine -----------------------------
(***************************************************************************)
(* Start, stop and crash of a storage account (storage/engine), its        *)
(* autosave task and its data file, and the requests on its stores: from   *)
(* network connections, which outlive the listeners, and from the          *)
(* dashboard's routes, which take a handle on a store of the running       *)
(* account and use it a moment later.  What the stores do with their       *)
(* contents is in StorageData; here a store is a set of items.             *)
(*                                                                         *)
(* Each start builds stores of its own, a life.  Savers write the data     *)
(* file: number n is the autosave task of life n, and 0 is stop().  A      *)
(* saver dumps the three stores one after the other while requests go on,  *)
(* then truncates the file and writes it.  It does not await anything in   *)
(* between, so that an abort never ends it halfway.                        *)
(***************************************************************************)
EXTENDS Integers, Sequences

CONSTANTS
  Clients,
  MaxItems,    \* bound: number of items put into the stores
  MaxLives     \* bound: number of starts

VARIABLES
  engine,      \* what holds the engine's mutex, if anything
  life,        \* number of the latest life
  log,         \* the store of each item accepted so far, and the life, in order
  stores,      \* the items in the stores of each life, by their place in log
  handle,      \* the life whose stores a client holds, if any, and for how long
  saver,       \* phase of each saver
  dumped,      \* how many stores it has dumped
  dump,        \* what it found in them
  file,        \* the data file
  taken,       \* history: items removed
  promise      \* history: what the last stop found when it began

vars == <<engine, life, stores, handle, saver, dumped, dump, file, log, taken, promise>>

Lives  == 1..MaxLives
Savers == 0..MaxLives
Items  == 1..MaxItems

ASSUME StorageEngineAssumption == MaxItems \in Nat /\ MaxLives \in Nat

NoHandle == [life |-> 0, once |-> FALSE]

Empty    == [state |-> "empty", holds |-> {}]
Garbled  == [state |-> "garbled", holds |-> {}]
Whole(I) == [state |-> "whole", holds |-> I]

\* load: what is not there or does not parse counts as nothing.
Loaded == IF file.state = "whole" THEN file.holds ELSE {}

Init ==
  /\ engine = "stopped"
  /\ life = 0
  /\ stores = [n \in Lives |-> {}]
  /\ handle = [c \in Clients |-> NoHandle]
  /\ saver = [w \in Savers |-> "off"]
  /\ dumped = [w \in Savers |-> 0]
  /\ dump = [w \in Savers |-> {}]
  /\ file = Empty
  /\ log = <<>>
  /\ taken = {}
  /\ promise = {}

-----------------------------------------------------------------------------
(***************************************************************************)
(* Savers.                                                                 *)
(***************************************************************************)
\* Dumps in the opposite order.
Order_Mistake == <<"table", "queue", "blob">>
\* The order in which the fields of a StorageDump are evaluated.
Order == <<"blob", "queue", "table">>

\* Saver w begins a save with nothing collected, or rests after one.
Reset(w, phase) ==
  /\ saver' = [saver EXCEPT ![w] = phase]
  /\ dumped' = [dumped EXCEPT ![w] = 0]
  /\ dump' = [dump EXCEPT ![w] = {}]

Wake(n) ==
  /\ saver[n] = "asleep" /\ engine = "running" /\ life = n
  /\ Reset(n, "dumping")
  /\ UNCHANGED <<engine, life, stores, handle, file, log, taken, promise>>

\* The dump of the next store, by the autosave task or by stop().
DumpStore(w) ==
  /\ saver[w] = "dumping" /\ dumped[w] < 3
  /\ LET source == stores[IF w = 0 THEN life ELSE w]
     IN dump' = [dump EXCEPT ![w] = @ \cup {i \in source : log[i].store = Order[dumped[w] + 1]}]
  /\ dumped' = [dumped EXCEPT ![w] = @ + 1]
  /\ UNCHANGED <<engine, life, stores, handle, saver, file, log, taken, promise>>

\* The StorageDump is built.
Complete(w) == dumped[w] = 3

\* save: fs::write truncates the file ...
Truncate(w) ==
  /\ saver[w] = "dumping" /\ Complete(w)
  /\ saver' = [saver EXCEPT ![w] = "writing"]
  /\ file' = Empty
  /\ UNCHANGED <<engine, life, stores, handle, dumped, dump, log, taken, promise>>

\* Another saver has written the file since saver w truncated it, or is about to.
Overlaps(w) == file # Empty \/ \E o \in Savers \ {w} : saver[o] = "writing"

\* ... and writes it, from the beginning: two savers at once may leave a mixture.
Write(w) ==
  /\ saver[w] = "writing"
  /\ file' = Whole(dump[w]) \/ (Overlaps(w) /\ file' = Garbled)
  /\ Reset(w, IF w = life /\ engine = "running" THEN "asleep" ELSE "off")
  /\ engine' = IF w = 0 THEN "closing" ELSE engine
  /\ UNCHANGED <<life, stores, handle, log, taken, promise>>

-----------------------------------------------------------------------------
(***************************************************************************)
(* The engine.                                                             *)
(***************************************************************************)
\* start() binds every listener before it spawns anything, so that a port that is
\* taken changes nothing; that outcome is left out.
Start ==
  /\ engine = "stopped" /\ life < MaxLives
  /\ engine' = "running"
  /\ life' = life + 1
  /\ stores' = [stores EXCEPT ![life + 1] = Loaded]
  /\ saver' = [saver EXCEPT ![life + 1] = "asleep"]
  /\ promise' = {}
  /\ UNCHANGED <<handle, dumped, dump, file, log, taken>>

\* Awaits the servers and forgets to save.
Stopping_Mistake ==
  /\ engine' = "closing"
  /\ saver' = [saver EXCEPT ![life] = IF @ = "asleep" THEN "off" ELSE @]
\* stop() goes on to a save, and aborts an autosave task that sleeps; one that is at
\* work goes on too.
Stopping ==
  /\ engine' = "saving"
  /\ saver' = [saver EXCEPT ![0] = "dumping",
                            ![life] = IF @ = "asleep" THEN "off" ELSE @]

Stop ==
  /\ engine = "running"
  /\ Stopping
  /\ promise' = IF \A n \in Lives : saver[n] \in {"off", "asleep"} THEN stores[life] ELSE {}
  /\ UNCHANGED <<life, stores, handle, dumped, dump, file, log, taken>>

\* The four server tasks have ended and the mutex is released.
Close ==
  /\ engine = "closing"
  /\ engine' = "stopped"
  /\ UNCHANGED <<life, stores, handle, saver, dumped, dump, file, log, taken, promise>>

\* The process dies: only the file is left.
Crash ==
  /\ engine' = "stopped"
  /\ stores' = [n \in Lives |-> {}]
  /\ handle' = [c \in Clients |-> NoHandle]
  /\ saver' = [w \in Savers |-> "off"]
  /\ dumped' = [w \in Savers |-> 0]
  /\ dump' = [w \in Savers |-> {}]
  /\ promise' = {}
  /\ UNCHANGED <<life, file, log, taken>>

-----------------------------------------------------------------------------
(***************************************************************************)
(* Requests.                                                               *)
(***************************************************************************)
\* The listeners accept until they are closed, and nothing ends a connection then.
Connect(c) ==
  /\ handle[c] = NoHandle /\ engine # "stopped"
  /\ handle' = [handle EXCEPT ![c] = [life |-> life, once |-> FALSE]]
  /\ UNCHANGED <<engine, life, stores, saver, dumped, dump, file, log, taken, promise>>

\* A dashboard route asks for a store under the mutex: a conflict unless it runs.
Resolve(c) ==
  /\ handle[c] = NoHandle /\ engine = "running"
  /\ handle' = [handle EXCEPT ![c] = [life |-> life, once |-> TRUE]]
  /\ UNCHANGED <<engine, life, stores, saver, dumped, dump, file, log, taken, promise>>

Disconnect(c) ==
  /\ handle[c] # NoHandle
  /\ handle' = [handle EXCEPT ![c] = NoHandle]
  /\ UNCHANGED <<engine, life, stores, saver, dumped, dump, file, log, taken, promise>>

\* Client c puts an item into a store of the life it holds, or removes one.
Put(c, store) ==
  /\ Len(log) < MaxItems
  /\ log' = Append(log, [store |-> store, life |-> handle[c].life])
  /\ stores' = [stores EXCEPT ![handle[c].life] = @ \cup {Len(log) + 1}]
  /\ UNCHANGED taken

Remove(c, store) ==
  /\ \E i \in stores[handle[c].life] :
       /\ log[i].store = store
       /\ stores' = [stores EXCEPT ![handle[c].life] = @ \ {i}]
       /\ taken' = taken \cup {i}
  /\ UNCHANGED log

Operate(c, store) ==
  /\ handle[c] # NoHandle
  /\ Put(c, store) \/ Remove(c, store)
  /\ handle' = [handle EXCEPT ![c] = IF @.once THEN NoHandle ELSE @]
  /\ UNCHANGED <<engine, life, saver, dumped, dump, file, promise>>

\* The rest of a route of the dashboard, and every handler of a connection.
BlobRoute(c)  == Operate(c, "blob")
QueueRoute(c) == Operate(c, "queue")
TableRoute(c) == Operate(c, "table")

SaverStep(w) == DumpStore(w) \/ Truncate(w) \/ Write(w)

Next ==
  \/ \E w \in Savers : SaverStep(w)
  \/ \E n \in Lives : Wake(n)
  \/ Start \/ Stop \/ Close \/ Crash
  \/ \E c \in Clients :
       \/ Connect(c) \/ Resolve(c) \/ Disconnect(c)
       \/ BlobRoute(c) \/ QueueRoute(c) \/ TableRoute(c)

Spec == Init /\ [][Next]_vars

-----------------------------------------------------------------------------
\* Types; stop() saves exactly while it holds the engine, and a saver at rest has
\* collected nothing.
TypeOK ==
  /\ engine \in {"stopped", "running", "saving", "closing"}
  /\ life \in 0..MaxLives
  /\ stores \in [Lives -> SUBSET Items]
  /\ handle \in [Clients -> [life : 0..MaxLives, once : BOOLEAN]]
  /\ saver \in [Savers -> {"off", "asleep", "dumping", "writing"}]
  /\ dumped \in [Savers -> 0..3]
  /\ dump \in [Savers -> SUBSET Items]
  /\ file \in {Empty, Garbled} \cup {Whole(I) : I \in SUBSET Items}
  /\ taken \cup promise \subseteq Items
  /\ log \in Seq([store : {"blob", "queue", "table"}, life : Lives]) /\ Len(log) <= MaxItems
  /\ engine = "saving" <=> saver[0] # "off"
  /\ \A w \in Savers : saver[w] \in {"off", "asleep"} => dumped[w] = 0 /\ dump[w] = {}

\* A stop that no autosave is in the middle of leaves a file with everything it
\* found in the stores and that nobody has removed since.
CalmStopSaves ==
  engine \in {"closing", "stopped"} /\ life > 0 => promise \cap stores[life] \subseteq Loaded

\* The dump of three stores is no snapshot, but it goes with the order of requests in
\* one direction: with an item of an earlier store it has every item that was put into
\* a later store of the same life before, unless that has been removed.  (A message
\* naming a blob can come back without the blob, never a blob without the message
\* that was posted before it was uploaded.)
CausalCut ==
  \A i, j \in DOMAIN log :
    /\ j < i /\ log[j].life = log[i].life
    /\ <<log[i].store, log[j].store>>
         \in {<<"blob", "queue">>, <<"blob", "table">>, <<"queue", "table">>}
    /\ i \in Loaded /\ j \notin taken
    => j \in Loaded
=============================================================================
