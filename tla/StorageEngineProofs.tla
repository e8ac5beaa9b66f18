--------------------------- MODULE StorageEngineProofs ---------------------------
(* What the three dumps of a save and a stop that no autosave disturbs leave in   *)
(* the data file, for any number of clients, items and starts.                    *)
EXTENDS StorageEngine, TLAPS

\* The place of a store in the order of the dumps.
Turn(store) == CASE store = "blob" -> 1 [] store = "queue" -> 2 [] store = "table" -> 3

\* The stores, and what the log has of an item.
Kinds == {"blob", "queue", "table"}
Entry == [store : Kinds, life : Lives]

\* In log L, item j was put into a later store of the same life before item i into an
\* earlier one.
Precedes(L, j, i) ==
  j < i /\ L[j].life = L[i].life /\ Turn(L[i].store) < Turn(L[j].store)

\* The set X has with every item what preceded it in log L and is not in T.
Closed(X, L, T) ==
  \A i, j \in DOMAIN L : Precedes(L, j, i) /\ i \in X /\ j \notin T => j \in X

\* The life whose stores saver w dumps.
Source(w) == IF w = 0 THEN life ELSE w

\* A save under way: with an item it has what preceded it in the stores it has dumped,
\* and finds the rest in those it has not.
Cut(w) ==
  \A i, j \in DOMAIN log : Precedes(log, j, i) /\ i \in dump[w] /\ j \notin taken =>
    IF Turn(log[j].store) <= dumped[w] THEN j \in dump[w] ELSE j \in stores[Source(w)]

\* Nothing was ever lost from the stores of life n but what was removed.
Present(n) == \A j \in DOMAIN log : log[j].life = n /\ j \notin taken => j \in stores[n]

\* Whoever may put something into a life's stores finds them as requests left them.
LivesPresent ==
  /\ engine # "stopped" => Present(life)
  /\ \A c \in Clients : handle[c] # NoHandle => Present(handle[c].life)

\* Items are in the log before they are anywhere else.
Logged ==
  /\ \A j \in DOMAIN log : log[j].life <= life
  /\ \A n \in Lives : stores[n] \subseteq DOMAIN log
  /\ \A w \in Savers : dump[w] \subseteq DOMAIN log
  /\ Loaded \subseteq DOMAIN log /\ promise \subseteq DOMAIN log

\* The autosave of a life sleeps only while that life runs, and begins with it; a
\* saver that writes has dumped every store.
PhasesOK ==
  /\ \A n \in Lives : saver[n] = "asleep" => engine = "running" /\ life = n
  /\ \A n \in Lives : n > life => saver[n] = "off"
  /\ \A w \in Savers : saver[w] = "writing" => dumped[w] = 3
  /\ engine # "stopped" => life > 0
  /\ \A c \in Clients : handle[c] = NoHandle \/ handle[c].life \in 1..life

\* What the stores, the saves under way and the file hold is closed.
AllClosed ==
  /\ \A n \in Lives : Closed(stores[n], log, taken)
  /\ \A w \in Savers : Cut(w)
  /\ Closed(Loaded, log, taken)

\* From the moment stop() found the autosaves at rest they stay so, and its dump
\* reaches the file.
Undisturbed ==
  promise # {} =>
    /\ engine # "running" /\ life > 0 /\ \A n \in Lives : saver[n] = "off"
    /\ engine = "saving" =>
         \A i \in promise \cap stores[life] : Turn(log[i].store) <= dumped[0] => i \in dump[0]
    /\ saver[0] = "writing" => file = Empty
    /\ engine # "saving" => promise \cap stores[life] \subseteq Loaded

\* The inductive invariant.
Inv == TypeOK /\ PhasesOK /\ Logged /\ LivesPresent /\ AllClosed /\ Undisturbed

-----------------------------------------------------------------------------
\* Turn is the place in Order, the order of the dumps.
LEMMA TurnOrder ==
  ASSUME NEW s \in Kinds
  PROVE  /\ Turn(s) \in 1..3
         /\ \A k \in 0..2 : s = Order[k + 1] <=> Turn(s) = k + 1
<1>1. Order[1] = "blob" /\ Order[2] = "queue" /\ Order[3] = "table"
  BY DEF Order
<1>2. Turn("blob") = 1 /\ Turn("queue") = 2 /\ Turn("table") = 3
  BY DEF Turn
<1>3. ASSUME NEW k \in 0..2
      PROVE  s = Order[k + 1] <=> Turn(s) = k + 1
  <2>1. k = 0 \/ k = 1 \/ k = 2
    OBVIOUS
  <2> QED
    BY <1>1, <1>2, <2>1 DEF Kinds
<1> QED
  BY <1>2, <1>3 DEF Kinds

\* The file holds items only.
LEMMA LoadedType ==
  ASSUME TypeOK
  PROVE  Loaded \in SUBSET Items
BY DEF TypeOK, Loaded, Empty, Garbled, Whole

\* What the log is.
LEMMA LogType ==
  ASSUME TypeOK
  PROVE  /\ log \in Seq(Entry) /\ Len(log) \in Nat /\ DOMAIN log = 1..Len(log)
         /\ \A j \in DOMAIN log :
              log[j].store \in Kinds /\ log[j].life \in Lives /\ Turn(log[j].store) \in 1..3
<1>1. log \in Seq(Entry)
  BY DEF TypeOK, Entry, Kinds
<1>2. ASSUME NEW j \in DOMAIN log
      PROVE  log[j].store \in Kinds /\ log[j].life \in Lives
  <2>1. log[j] \in Entry
    BY <1>1
  <2> QED
    BY <2>1 DEF Entry
<1> QED
  BY <1>1, <1>2, TurnOrder

\* What stop() does to the savers.
LEMMA StopSavers ==
  ASSUME TypeOK, PhasesOK, Stop
  PROVE  /\ saver' \in [Savers -> {"off", "asleep", "dumping", "writing"}]
         /\ saver'[0] = "dumping" /\ life \in Lives
         /\ saver'[life] = IF saver[life] = "asleep" THEN "off" ELSE saver[life]
         /\ \A v \in Savers \ {0, life} : saver'[v] = saver[v]
<1>1. 0 \in Savers /\ life \in Lives /\ life \in Savers /\ life # 0
  BY StorageEngineAssumption DEF TypeOK, PhasesOK, Stop, Savers, Lives
<1>2. saver' = [saver EXCEPT ![0] = "dumping", ![life] = IF @ = "asleep" THEN "off" ELSE @]
  BY DEF Stop, Stopping
<1>3. saver \in [Savers -> {"off", "asleep", "dumping", "writing"}]
  BY DEF TypeOK
<1> QED
  BY <1>1, <1>2, <1>3

\* A saver that is emptied has its types.
LEMMA ResetType ==
  ASSUME TypeOK, NEW w \in Savers, NEW p \in {"off", "asleep", "dumping", "writing"}, Reset(w, p)
  PROVE  /\ saver' \in [Savers -> {"off", "asleep", "dumping", "writing"}]
         /\ dumped' \in [Savers -> 0..3] /\ dump' \in [Savers -> SUBSET Items]
         /\ saver'[w] = p /\ dumped'[w] = 0 /\ dump'[w] = {}
         /\ \A v \in Savers \ {w} :
              saver'[v] = saver[v] /\ dumped'[v] = dumped[v] /\ dump'[v] = dump[v]
BY DEF TypeOK, Reset

\* A request that operates on a store has a handle on a life.
LEMMA OperatedLife ==
  ASSUME TypeOK, PhasesOK, NEW c \in Clients, NEW s \in Kinds, Operate(c, s)
  PROVE  /\ handle[c].life \in Lives /\ handle[c].life <= life /\ handle[c] # NoHandle
         /\ UNCHANGED <<engine, life, saver, dumped, dump, file, promise>>
         /\ handle' \in [Clients -> [life : 0..MaxLives, once : BOOLEAN]]
         /\ \A d \in Clients : handle'[d] = NoHandle \/ handle'[d] = handle[d]
<1> USE StorageEngineAssumption DEF TypeOK, PhasesOK, Operate
<1>1. handle[c].life \in 1..life
  OBVIOUS
<1>2. handle'[c] = NoHandle \/ handle'[c] = handle[c]
  OBVIOUS
<1> QED
  BY <1>1, <1>2 DEF Lives, NoHandle

\* It puts an item into the stores of that life, or removes one.
Puts(c, s) ==
  /\ Len(log) + 1 \in Items /\ taken' = taken
  /\ log' = Append(log, [store |-> s, life |-> handle[c].life])
  /\ stores' = [stores EXCEPT ![handle[c].life] = @ \cup {Len(log) + 1}]

Removes(c) ==
  /\ log' = log
  /\ \E i \in stores[handle[c].life] :
       /\ stores' = [stores EXCEPT ![handle[c].life] = @ \ {i}]
       /\ taken' = taken \cup {i}

\* An operation is one or the other.
LEMMA Operated ==
  ASSUME TypeOK, NEW c \in Clients, NEW s \in Kinds, Operate(c, s)
  PROVE  Puts(c, s) \/ Removes(c)
<1>1. CASE Put(c, s)
  BY <1>1, LogType, StorageEngineAssumption DEF Put, Puts, Items
<1>2. CASE Remove(c, s)
  BY <1>2 DEF Remove, Removes
<1> QED
  BY <1>1, <1>2 DEF Operate

\* What it leaves of the log and of the stores.
LEMMA StoresKept ==
  ASSUME TypeOK, PhasesOK, NEW c \in Clients, NEW s \in Kinds, Operate(c, s)
  PROVE  /\ DOMAIN log \subseteq DOMAIN log' /\ \A j \in DOMAIN log : log'[j] = log[j]
         /\ \A j \in DOMAIN log' \ DOMAIN log : log'[j].life <= life
         /\ taken \subseteq taken'
         /\ \A n \in Lives : /\ stores[n] \ stores'[n] \subseteq taken'
                             /\ \A i \in stores'[n] : i \in stores[n] \/ i = Len(log) + 1
         /\ log' = log => \A n \in Lives : stores'[n] \subseteq stores[n]
         /\ log' # log => Len(log) + 1 \in DOMAIN log'
<1>1. /\ handle[c].life \in Lives /\ handle[c].life <= life
      /\ stores \in [Lives -> SUBSET Items]
  BY OperatedLife DEF TypeOK
<1>2. CASE Puts(c, s)
  <2>1. /\ DOMAIN log = 1..Len(log) /\ DOMAIN log' = 1..Len(log) + 1 /\ Len(log) \in Nat
        /\ \A j \in DOMAIN log : log'[j] = log[j]
        /\ log'[Len(log) + 1].life = handle[c].life
        /\ log' # log
    <3> DEFINE e == [store |-> s, life |-> handle[c].life]
    <3>1. log' = Append(log, e) /\ log \in Seq(Entry) /\ e \in Entry /\ e.life = handle[c].life
      BY <1>1, <1>2, LogType DEF Puts, Entry
    <3> HIDE DEF e
    <3>2. /\ DOMAIN log = 1..Len(log) /\ DOMAIN log' = 1..Len(log) + 1 /\ Len(log) \in Nat
          /\ \A j \in DOMAIN log : log'[j] = log[j]
          /\ log'[Len(log) + 1] = e
      BY <3>1
    <3>3. Len(log) + 1 \in DOMAIN log' /\ Len(log) + 1 \notin DOMAIN log
      BY <3>2
    <3> QED
      BY <3>1, <3>2, <3>3
  <2>2. taken' = taken /\ \A n \in Lives : /\ stores[n] \subseteq stores'[n]
                                           /\ stores'[n] \subseteq stores[n] \cup {Len(log) + 1}
    BY <1>1, <1>2 DEF Puts
  <2> QED
    BY <1>1, <2>1, <2>2
<1>3. CASE Removes(c)
  <2>1. PICK i \in stores[handle[c].life] :
          /\ stores' = [stores EXCEPT ![handle[c].life] = @ \ {i}]
          /\ taken' = taken \cup {i}
    BY <1>3 DEF Removes
  <2>2. log' = log
    BY <1>3 DEF Removes
  <2>3. \A n \in Lives : stores'[n] \subseteq stores[n] /\ stores[n] \ stores'[n] \subseteq {i}
    BY <1>1, <2>1
  <2> QED
    BY <2>1, <2>2, <2>3
<1> QED
  BY <1>2, <1>3, Operated

\* The steps of Next, the requests on the three stores taken together.
LEMMA NextCases ==
  ASSUME [Next]_vars
  PROVE  \/ \E w \in Savers : DumpStore(w) \/ Truncate(w) \/ Write(w)
         \/ \E n \in Lives : Wake(n)
         \/ Start \/ Stop \/ Close \/ Crash
         \/ \E c \in Clients : Connect(c) \/ Resolve(c) \/ Disconnect(c)
         \/ \E c \in Clients, s \in Kinds : Operate(c, s)
         \/ UNCHANGED vars
BY DEF Next, SaverStep, BlobRoute, QueueRoute, TableRoute, Kinds

-----------------------------------------------------------------------------
\* Every step keeps the types.
LEMMA TypeStep ==
  ASSUME TypeOK, PhasesOK, [Next]_vars
  PROVE  TypeOK'
<1> USE StorageEngineAssumption DEF TypeOK
<1>0. 0 \in Savers /\ Lives \subseteq Savers
  BY DEF Savers, Lives
<1>1. ASSUME NEW w \in Savers, DumpStore(w)
      PROVE  TypeOK'
  <2>1. Source(w) \in Lives
    BY <1>1 DEF Source, DumpStore, PhasesOK, Savers, Lives
  <2>2. dump' \in [Savers -> SUBSET Items] /\ dumped' \in [Savers -> 0..3]
    BY <1>1, <2>1 DEF DumpStore, Source
  <2> QED
    BY <1>1, <2>2 DEF DumpStore
<1>2. ASSUME NEW w \in Savers, Truncate(w)
      PROVE  TypeOK'
  <2>1. /\ saver' \in [Savers -> {"off", "asleep", "dumping", "writing"}]
        /\ saver[w] = "dumping" /\ saver'[w] = "writing"
        /\ \A v \in Savers \ {w} : saver'[v] = saver[v]
    BY <1>2 DEF Truncate
  <2>2. /\ file' = Empty
        /\ UNCHANGED <<engine, life, stores, handle, dumped, dump, log, taken, promise>>
    BY <1>2 DEF Truncate
  <2> QED
    BY <1>0, <2>1, <2>2
<1>3. ASSUME NEW w \in Savers, Write(w)
      PROVE  TypeOK'
  <2> DEFINE p == IF w = life /\ engine = "running" THEN "asleep" ELSE "off"
  <2>1. Reset(w, p) /\ p \in {"off", "asleep"} /\ saver[w] = "writing"
    BY <1>3 DEF Write
  <2>2. /\ saver' \in [Savers -> {"off", "asleep", "dumping", "writing"}]
        /\ dumped' \in [Savers -> 0..3] /\ dump' \in [Savers -> SUBSET Items]
        /\ saver'[w] = p /\ dumped'[w] = 0 /\ dump'[w] = {}
        /\ \A v \in Savers \ {w} :
             saver'[v] = saver[v] /\ dumped'[v] = dumped[v] /\ dump'[v] = dump[v]
    BY <2>1, ResetType
  <2>3. w = 0 => p = "off"
    BY <2>1 DEF PhasesOK
  <2>4. file' \in {Empty, Garbled} \cup {Whole(I) : I \in SUBSET Items}
    BY <1>3 DEF Write
  <2>5. /\ engine' = IF w = 0 THEN "closing" ELSE engine
        /\ UNCHANGED <<life, stores, handle, log, taken, promise>>
    BY <1>3 DEF Write
  <2> HIDE DEF p
  <2>6. engine' = "saving" <=> saver'[0] # "off"
    BY <1>0, <2>2, <2>3, <2>5
  <2>7. \A v \in Savers : saver'[v] \in {"off", "asleep"} => dumped'[v] = 0 /\ dump'[v] = {}
    BY <2>2
  <2>8. engine' \in {"stopped", "running", "saving", "closing"}
    BY <2>5
  <2> QED
    BY <2>2, <2>4, <2>5, <2>6, <2>7, <2>8
<1>4. ASSUME NEW n \in Lives, Wake(n)
      PROVE  TypeOK'
  <2>1. n \in Savers /\ n # 0 /\ Reset(n, "dumping")
    BY <1>4 DEF Wake, Lives, Savers
  <2>2. /\ saver' \in [Savers -> {"off", "asleep", "dumping", "writing"}]
        /\ dumped' \in [Savers -> 0..3] /\ dump' \in [Savers -> SUBSET Items]
        /\ saver'[n] = "dumping"
        /\ \A v \in Savers \ {n} :
             saver'[v] = saver[v] /\ dumped'[v] = dumped[v] /\ dump'[v] = dump[v]
    BY <2>1, ResetType
  <2>3. UNCHANGED <<engine, life, stores, handle, file, log, taken, promise>>
    BY <1>4 DEF Wake
  <2> QED
    BY <1>0, <2>1, <2>2, <2>3
<1>5. CASE Start
  <2>1. life + 1 \in Lives /\ life + 1 \in Savers /\ life + 1 # 0
    BY <1>5 DEF Start, Lives, Savers
  <2>2. stores' \in [Lives -> SUBSET Items]
    BY <1>5, <2>1, LoadedType DEF Start
  <2>3. /\ saver' \in [Savers -> {"off", "asleep", "dumping", "writing"}]
        /\ \A v \in Savers \ {life + 1} : saver'[v] = saver[v]
        /\ saver[life + 1] = "off"
    BY <1>5, <2>1 DEF Start, PhasesOK
  <2>4. /\ engine = "stopped" /\ engine' = "running" /\ life' \in 0..MaxLives /\ promise' = {}
        /\ UNCHANGED <<handle, dumped, dump, file, log, taken>>
    BY <1>5 DEF Start
  <2> QED
    BY <1>0, <2>1, <2>2, <2>3, <2>4
<1>6. CASE Stop
  <2>1. /\ saver' = [saver EXCEPT ![0] = "dumping", ![life] = IF @ = "asleep" THEN "off" ELSE @]
        /\ engine' = "saving" /\ engine = "running" /\ life \in Lives
    BY <1>6 DEF Stop, Stopping, PhasesOK, Lives
  <2>2. /\ saver' \in [Savers -> {"off", "asleep", "dumping", "writing"}] /\ saver'[0] = "dumping"
        /\ \A v \in Savers \ {0} : saver'[v] \in {"off", "asleep"} => saver[v] \in {"off", "asleep"}
    BY <1>0, <1>6, <2>1, StopSavers DEF Lives
  <2>3. promise' \subseteq Items
    BY <1>6, <2>1 DEF Stop
  <2>4. UNCHANGED <<life, stores, handle, dumped, dump, file, log, taken>>
    BY <1>6 DEF Stop
  <2> QED
    BY <2>1, <2>2, <2>3, <2>4
<1>7. CASE Close
  BY <1>7 DEF Close
<1>8. CASE Crash
  BY <1>8 DEF Crash, NoHandle, Savers
<1>9. ASSUME NEW c \in Clients, Connect(c) \/ Resolve(c) \/ Disconnect(c)
      PROVE  TypeOK'
  <2>1. /\ [life |-> life, once |-> FALSE] \in [life : 0..MaxLives, once : BOOLEAN]
        /\ [life |-> life, once |-> TRUE] \in [life : 0..MaxLives, once : BOOLEAN]
        /\ NoHandle \in [life : 0..MaxLives, once : BOOLEAN]
    BY DEF NoHandle
  <2>2. handle' \in [Clients -> [life : 0..MaxLives, once : BOOLEAN]]
    BY <1>9, <2>1 DEF Connect, Resolve, Disconnect
  <2>3. UNCHANGED <<engine, life, stores, saver, dumped, dump, file, log, taken, promise>>
    BY <1>9 DEF Connect, Resolve, Disconnect
  <2> QED
    BY <2>2, <2>3
<1>10. ASSUME NEW c \in Clients, NEW s \in Kinds, Operate(c, s)
       PROVE  TypeOK'
  <2>1. /\ handle[c].life \in Lives
        /\ UNCHANGED <<engine, life, saver, dumped, dump, file, promise>>
        /\ handle' \in [Clients -> [life : 0..MaxLives, once : BOOLEAN]]
    BY <1>10, OperatedLife
  <2>2. CASE Puts(c, s)
    <3>1. [store |-> s, life |-> handle[c].life] \in [store : {"blob", "queue", "table"}, life : Lives]
      BY <2>1 DEF Kinds
    <3>2. log' \in Seq([store : {"blob", "queue", "table"}, life : Lives]) /\ Len(log') <= MaxItems
      BY <2>2, <3>1 DEF Puts, Items
    <3>3. stores' \in [Lives -> SUBSET Items]
      BY <2>1, <2>2 DEF Puts
    <3> QED
      BY <2>1, <2>2, <3>2, <3>3 DEF Puts
  <2>3. CASE Removes(c)
    BY <2>1, <2>3 DEF Removes
  <2> QED
    BY <1>10, <2>2, <2>3, Operated
<1>11. CASE UNCHANGED vars
  BY <1>11 DEF vars
<1> QED
  BY <1>1, <1>2, <1>3, <1>4, <1>5, <1>6, <1>7, <1>8, <1>9, <1>10, <1>11, NextCases

\* Every step keeps the phases of the savers.
LEMMA PhasesStep ==
  ASSUME TypeOK, PhasesOK, [Next]_vars
  PROVE  PhasesOK'
<1> USE StorageEngineAssumption DEF TypeOK, PhasesOK
<1>0. 0 \in Savers /\ Lives \subseteq Savers /\ 0 \notin Lives /\ \A n \in Lives : n \in Nat
  BY DEF Savers, Lives
<1>1. ASSUME NEW w \in Savers, DumpStore(w) \/ Truncate(w)
      PROVE  PhasesOK'
  BY <1>0, <1>1 DEF DumpStore, Truncate, Complete
<1>2. ASSUME NEW w \in Savers, Write(w)
      PROVE  PhasesOK'
  <2> DEFINE p == IF w = life /\ engine = "running" THEN "asleep" ELSE "off"
  <2>1. Reset(w, p) /\ p \in {"off", "asleep"} /\ saver[w] = "writing"
    BY <1>2 DEF Write
  <2>2. saver'[w] = p /\ \A v \in Savers \ {w} : saver'[v] = saver[v] /\ dumped'[v] = dumped[v]
    BY <2>1, ResetType
  <2>3. /\ engine' = IF w = 0 THEN "closing" ELSE engine
        /\ UNCHANGED <<life, handle>>
    BY <1>2 DEF Write
  <2>4. w = 0 => engine = "saving"
    BY <2>1
  <2> QED
    BY <1>0, <2>1, <2>2, <2>3, <2>4
<1>3. ASSUME NEW n \in Lives, Wake(n)
      PROVE  PhasesOK'
  <2>1. /\ saver'[n] = "dumping"
        /\ \A v \in Savers \ {n} : saver'[v] = saver[v] /\ dumped'[v] = dumped[v]
    BY <1>0, <1>3, ResetType DEF Wake
  <2> QED
    BY <1>0, <1>3, <2>1 DEF Wake
<1>4. CASE Start
  <2>1. life + 1 \in Lives /\ life' = life + 1 /\ engine' = "running" /\ engine = "stopped"
    BY <1>4 DEF Start, Lives
  <2>2. /\ saver'[life + 1] = "asleep" /\ \A v \in Savers \ {life + 1} : saver'[v] = saver[v]
        /\ UNCHANGED <<dumped, handle>>
    BY <1>0, <1>4, <2>1 DEF Start
  <2>3. \A n \in Lives : saver'[n] = "asleep" => engine' = "running" /\ life' = n
    BY <1>0, <2>1, <2>2
  <2>4. \A n \in Lives : n > life' => saver'[n] = "off"
    BY <1>0, <2>1, <2>2
  <2>5. \A w \in Savers : saver'[w] = "writing" => dumped'[w] = 3
    BY <1>0, <2>1, <2>2
  <2>6. life' > 0 /\ \A c \in Clients : handle'[c] = NoHandle \/ handle'[c].life \in 1..life'
    BY <2>1, <2>2
  <2> QED
    BY <2>3, <2>4, <2>5, <2>6
<1>5. CASE Stop
  <2>1. /\ saver' = [saver EXCEPT ![0] = "dumping", ![life] = IF @ = "asleep" THEN "off" ELSE @]
        /\ engine = "running" /\ life \in Lives /\ UNCHANGED <<life, dumped, handle>>
    BY <1>5 DEF Stop, Stopping, Lives
  <2>2. /\ saver'[0] = "dumping" /\ saver'[life] # "asleep"
        /\ \A v \in Savers \ {0} : saver'[v] = saver[v] \/ saver'[v] = "off"
        /\ \A v \in Savers \ {0, life} : saver'[v] = saver[v]
    BY <1>0, <1>5, <2>1, StopSavers
  <2>3. \A n \in Lives : saver'[n] # "asleep"
    BY <1>0, <2>1, <2>2
  <2>4. \A n \in Lives : n > life' => saver'[n] = "off"
    BY <1>0, <2>1, <2>2
  <2>5. \A w \in Savers : saver'[w] = "writing" => dumped'[w] = 3
    BY <1>0, <2>1, <2>2
  <2> QED
    BY <2>1, <2>3, <2>4, <2>5
<1>6. CASE Close
  BY <1>6 DEF Close
<1>7. CASE Crash
  BY <1>0, <1>7 DEF Crash
<1>8. ASSUME NEW c \in Clients, Connect(c) \/ Resolve(c) \/ Disconnect(c)
      PROVE  PhasesOK'
  <2>1. /\ \A d \in Clients : \/ handle'[d] = handle[d] \/ handle'[d] = NoHandle
                              \/ engine # "stopped" /\ handle'[d].life = life
        /\ UNCHANGED <<engine, life, saver, dumped>>
    BY <1>8 DEF Connect, Resolve, Disconnect
  <2> QED
    BY <2>1
<1>9. ASSUME NEW c \in Clients, NEW s \in Kinds, Operate(c, s)
      PROVE  PhasesOK'
  BY <1>9, OperatedLife
<1>10. CASE UNCHANGED vars
  BY <1>10 DEF vars
<1> QED
  BY <1>1, <1>2, <1>3, <1>4, <1>5, <1>6, <1>7, <1>8, <1>9, <1>10, NextCases
-----------------------------------------------------------------------------

\* What is anywhere has been in the log since.
LEMMA LoggedStep ==
  ASSUME TypeOK, PhasesOK, Logged, [Next]_vars
  PROVE  Logged'
<1> USE StorageEngineAssumption DEF TypeOK, Logged
<1>0. 0 \in Savers /\ Lives \subseteq Savers /\ \A n \in Lives : n \in Nat
  BY DEF Savers, Lives
<1>1. ASSUME NEW w \in Savers, DumpStore(w)
      PROVE  Logged'
  <2>1. Source(w) \in Lives
    BY <1>1 DEF Source, DumpStore, PhasesOK, Savers, Lives
  <2>2. \A v \in Savers : dump'[v] \subseteq dump[v] \cup stores[Source(w)]
    BY <1>1 DEF DumpStore, Source
  <2> QED
    BY <1>1, <2>1, <2>2 DEF DumpStore, Loaded
<1>2. ASSUME NEW w \in Savers, Truncate(w)
      PROVE  Logged'
  BY <1>2 DEF Truncate, Loaded, Empty
<1>3. ASSUME NEW w \in Savers, Write(w)
      PROVE  Logged'
  <2>1. Loaded' = dump[w] \/ Loaded' = {}
    BY <1>3 DEF Write, Loaded, Whole, Garbled
  <2>2. \A v \in Savers : dump'[v] \subseteq dump[v]
    BY <1>3 DEF Write, Reset
  <2> QED
    BY <1>3, <2>1, <2>2 DEF Write
<1>4. ASSUME NEW n \in Lives, Wake(n)
      PROVE  Logged'
  BY <1>4 DEF Wake, Reset, Loaded
<1>5. CASE Start
  <2>1. \A n \in Lives : stores'[n] \subseteq stores[n] \cup Loaded
    BY <1>5 DEF Start
  <2>2. life' = life + 1 /\ promise' = {} /\ UNCHANGED <<dump, file, log>>
    BY <1>5 DEF Start
  <2>3. \A j \in DOMAIN log : log[j].life <= life'
    BY <1>0, <2>2, LogType
  <2>4. Loaded' = Loaded
    BY <2>2 DEF Loaded
  <2> QED
    BY <2>1, <2>2, <2>3, <2>4
<1>6. CASE Stop
  <2>1. promise' \in {{}, stores[life]} /\ life \in Lives
    BY <1>6 DEF Stop, PhasesOK, Lives
  <2>2. UNCHANGED <<life, stores, dump, file, log>>
    BY <1>6 DEF Stop
  <2> QED
    BY <2>1, <2>2 DEF Loaded
<1>7. CASE Crash
  BY <1>7 DEF Crash, Loaded
<1>8. ASSUME NEW c \in Clients, NEW s \in Kinds, Operate(c, s)
      PROVE  Logged'
  <2>1. /\ handle[c].life \in Lives /\ handle[c].life <= life
        /\ UNCHANGED <<life, dump, file, promise>>
    BY <1>8, OperatedLife
  <2>2. \A n \in Lives : stores'[n] \subseteq DOMAIN log'
    BY <1>8, StoresKept
  <2>3. DOMAIN log \subseteq DOMAIN log' /\ \A j \in DOMAIN log' : log'[j].life <= life
    BY <1>8, StoresKept
  <2>4. Loaded' = Loaded
    BY <2>1 DEF Loaded
  <2> QED
    BY <2>1, <2>2, <2>3, <2>4
<1>9. CASE UNCHANGED <<life, stores, dump, file, log, promise>>
  BY <1>9 DEF Loaded
<1> QED
  BY <1>1, <1>2, <1>3, <1>4, <1>5, <1>6, <1>7, <1>8, <1>9, NextCases
  DEF Close, Connect, Resolve, Disconnect, vars

\* A live store has all that was put into it.
LEMMA PresentStep ==
  ASSUME TypeOK, PhasesOK, Logged, LivesPresent, [Next]_vars
  PROVE  LivesPresent'
<1> USE StorageEngineAssumption DEF LivesPresent
<1>1. ASSUME NEW c \in Clients, NEW s \in Kinds, Operate(c, s)
      PROVE  LivesPresent'
  <2>1. /\ handle[c].life \in Lives /\ handle[c] # NoHandle
        /\ \A d \in Clients : handle'[d] = NoHandle \/ handle'[d] = handle[d]
        /\ UNCHANGED <<engine, life>>
    BY <1>1, OperatedLife
  <2>2. ASSUME NEW n \in Lives, Present(n)
        PROVE  Present(n)'
    <3>1. CASE Puts(c, s)
      <4>1. /\ DOMAIN log = 1..Len(log) /\ DOMAIN log' = 1..Len(log) + 1 /\ Len(log) \in Nat
            /\ \A j \in DOMAIN log : log'[j] = log[j]
            /\ log'[Len(log) + 1].life = handle[c].life
        BY <3>1 DEF Puts, TypeOK
      <4>2. /\ stores[n] \subseteq stores'[n] /\ taken' = taken
            /\ n = handle[c].life => Len(log) + 1 \in stores'[n]
        BY <2>1, <3>1 DEF Puts, TypeOK
      <4> QED
        BY <2>2, <4>1, <4>2 DEF Present
    <3>2. CASE Removes(c)
      <4>1. log' = log /\ taken \subseteq taken' /\ stores[n] \ taken' \subseteq stores'[n]
        BY <2>1, <3>2 DEF Removes, TypeOK
      <4> QED
        BY <2>2, <4>1 DEF Present
    <3> QED
      BY <1>1, <3>1, <3>2, Operated
  <2>3. engine # "stopped" => life \in Lives
    BY DEF PhasesOK, TypeOK, Lives
  <2>4. \A d \in Clients : handle[d] # NoHandle => handle[d].life \in Lives
    BY DEF PhasesOK, TypeOK, Lives
  <2> QED
    BY <2>1, <2>2, <2>3, <2>4
<1>2. CASE Start
  <2>1. /\ life' = life + 1 /\ life + 1 \in Lives /\ UNCHANGED <<log, taken, handle>>
        /\ \A n \in Lives \ {life + 1} : stores'[n] = stores[n]
    BY <1>2 DEF Start, TypeOK, Lives
  <2>2. Present(life)'
    BY <2>1 DEF Present, Logged, TypeOK
  <2>3. ASSUME NEW d \in Clients, handle[d] # NoHandle
        PROVE  Present(handle[d].life)'
    <3>1. handle[d].life \in Lives \ {life + 1}
      BY <2>3 DEF PhasesOK, TypeOK, Lives
    <3> QED
      BY <2>1, <2>3, <3>1 DEF Present
  <2> QED
    BY <2>1, <2>2, <2>3
<1>3. CASE Crash
  BY <1>3 DEF Crash
<1>4. CASE Stop \/ Close
  BY <1>4 DEF Stop, Close, Present
<1>5. ASSUME NEW c \in Clients, Connect(c) \/ Resolve(c) \/ Disconnect(c)
      PROVE  LivesPresent'
  <2>1. UNCHANGED <<engine, life, stores, log, taken>>
        /\ \A d \in Clients : \/ handle'[d] = handle[d] \/ handle'[d] = NoHandle
                              \/ engine # "stopped" /\ handle'[d].life = life
    BY <1>5 DEF Connect, Resolve, Disconnect, TypeOK
  <2> QED
    BY <2>1 DEF Present
<1>6. ASSUME NEW w \in Savers, Write(w)
      PROVE  LivesPresent'
  <2>1. engine' = engine \/ (engine' = "closing" /\ engine = "saving")
    BY <1>6 DEF Write, TypeOK
  <2>2. UNCHANGED <<life, stores, handle, log, taken>>
    BY <1>6 DEF Write
  <2> QED
    BY <2>1, <2>2 DEF Present
<1>7. CASE UNCHANGED <<engine, life, stores, handle, log, taken>>
  BY <1>7 DEF Present
<1> QED
  BY <1>1, <1>2, <1>3, <1>4, <1>5, <1>6, <1>7, NextCases DEF DumpStore, Truncate, Wake, vars
-----------------------------------------------------------------------------
\* A closed set stays closed while the log grows and items are removed from it.
LEMMA ClosedGrows ==
  ASSUME NEW L \in Seq(Entry), NEW M \in Seq(Entry), Len(L) <= Len(M),
         \A j \in DOMAIN L : M[j] = L[j],
         NEW T, NEW U, T \subseteq U,
         NEW X, X \subseteq DOMAIN L, Closed(X, L, T),
         NEW Y, Y \subseteq X, X \ Y \subseteq U
  PROVE  Closed(Y, M, U)
<1> SUFFICES ASSUME NEW i \in DOMAIN M, NEW j \in DOMAIN M, Precedes(M, j, i), i \in Y, j \notin U
             PROVE  j \in Y
  BY DEF Closed
<1>1. i \in DOMAIN L /\ i \in X /\ j \notin T
  OBVIOUS
<1>2. j \in DOMAIN L
  BY <1>1 DEF Precedes
<1>3. Precedes(L, j, i)
  BY <1>1, <1>2 DEF Precedes
<1> QED
  BY <1>1, <1>2, <1>3 DEF Closed

\* So it does with the next item, if it has all of that item's life.
LEMMA ClosedPut ==
  ASSUME NEW L \in Seq(Entry), NEW e \in Entry,
         NEW T, NEW X, X \subseteq DOMAIN L, Closed(X, L, T),
         \A j \in DOMAIN L : L[j].life = e.life /\ j \notin T => j \in X
  PROVE  Closed(X \cup {Len(L) + 1}, Append(L, e), T)
<1> DEFINE M == Append(L, e)
           k == Len(L) + 1
<1>1. /\ DOMAIN L = 1..Len(L) /\ DOMAIN M = 1..k /\ Len(L) \in Nat
      /\ M[k] = e /\ \A j \in DOMAIN L : M[j] = L[j]
  OBVIOUS
<1> HIDE DEF M
<1> SUFFICES ASSUME NEW i \in DOMAIN M, NEW j \in DOMAIN M, Precedes(M, j, i),
                    i \in X \cup {k}, j \notin T
             PROVE  j \in X \cup {k}
  BY DEF Closed, M
<1>2. j \in DOMAIN L
  BY <1>1 DEF Precedes
<1>3. CASE i = k
  BY <1>1, <1>2, <1>3 DEF Precedes
<1>4. CASE i # k
  <2>1. i \in DOMAIN L /\ i \in X
    BY <1>1, <1>4
  <2>2. Precedes(L, j, i)
    BY <1>1, <1>2, <2>1 DEF Precedes
  <2> QED
    BY <1>2, <2>1, <2>2 DEF Closed
<1> QED
  BY <1>3, <1>4

\* What is closed in an empty or unchanged state.
LEMMA CutRest ==
  ASSUME NEW w \in Savers, dump'[w] = {}
  PROVE  Cut(w)'
BY DEF Cut

\* What is still a cut as nothing it speaks of changes.
LEMMA CutKept ==
  ASSUME NEW w \in Savers, Cut(w), dump'[w] = dump[w], dumped'[w] = dumped[w],
         UNCHANGED <<log, taken>>, Source(w)' = Source(w), stores'[Source(w)] = stores[Source(w)]
  PROVE  Cut(w)'
BY DEF Cut

\* The source of a save that has found something.
LEMMA SourceType ==
  ASSUME TypeOK, PhasesOK, NEW w \in Savers, saver[w] \notin {"off", "asleep"}
  PROVE  Source(w) \in Lives
BY StorageEngineAssumption DEF TypeOK, PhasesOK, Source, Savers, Lives

\* Every save keeps the order of requests in one direction.
LEMMA ClosedStep ==
  ASSUME TypeOK, PhasesOK, Logged, LivesPresent, AllClosed, [Next]_vars
  PROVE  AllClosed'
<1> USE StorageEngineAssumption DEF AllClosed
<1>0. 0 \in Savers /\ Lives \subseteq Savers /\ 0 \notin Lives /\ log \in Seq(Entry)
  BY DEF Savers, Lives, TypeOK, Entry, Kinds
<1>1. ASSUME NEW w \in Savers, DumpStore(w)
      PROVE  AllClosed'
  <2> DEFINE k == dumped[w]
             S == stores[Source(w)]
  <2>1. /\ k \in 0..2 /\ Source(w) \in Lives /\ Closed(S, log, taken)
        /\ UNCHANGED <<life, stores, file, log, taken>>
    BY <1>1, SourceType DEF DumpStore, TypeOK
  <2>2. /\ dumped'[w] = k + 1
        /\ dump'[w] = dump[w] \cup {i \in S : log[i].store = Order[k + 1]}
        /\ \A v \in Savers \ {w} : dump'[v] = dump[v] /\ dumped'[v] = dumped[v]
    BY <1>1 DEF DumpStore, TypeOK, Source
  <2>3. \A v \in Savers \ {w} : Cut(v)'
    BY <2>1, <2>2, CutKept DEF Source
  <2>4. ASSUME NEW i \in DOMAIN log, NEW j \in DOMAIN log, Precedes(log, j, i),
               i \in dump'[w], j \notin taken
        PROVE  IF Turn(log[j].store) <= k + 1 THEN j \in dump'[w] ELSE j \in S
    <3>1. /\ Turn(log[i].store) \in 1..3 /\ Turn(log[j].store) \in 1..3
          /\ log[i].store = Order[k + 1] <=> Turn(log[i].store) = k + 1
          /\ log[j].store = Order[k + 1] <=> Turn(log[j].store) = k + 1
      <4>1. log[i].store \in Kinds /\ log[j].store \in Kinds
        BY LogType
      <4> QED
        BY <2>1, <4>1, TurnOrder
    <3>2. CASE i \in dump[w]
      <4>1. IF Turn(log[j].store) <= k THEN j \in dump[w] ELSE j \in S
        BY <2>4, <3>2 DEF Cut
      <4> QED
        BY <2>1, <2>2, <3>1, <4>1
    <3>3. CASE i \in S /\ Turn(log[i].store) = k + 1
      <4>1. j \in S /\ Turn(log[j].store) > k + 1
        BY <2>1, <2>4, <3>1, <3>3 DEF Closed, Precedes
      <4> QED
        BY <2>1, <3>1, <4>1
    <3> QED
      BY <2>2, <2>4, <3>1, <3>2, <3>3
  <2>5. Cut(w)'
    BY <2>1, <2>2, <2>4 DEF Cut, Source
  <2> QED
    BY <2>1, <2>3, <2>5 DEF Loaded
<1>2. ASSUME NEW w \in Savers, Truncate(w)
      PROVE  AllClosed'
  <2>1. UNCHANGED <<life, stores, dumped, dump, log, taken>> /\ Loaded' = {}
    BY <1>2 DEF Truncate, Loaded, Empty
  <2>2. \A v \in Savers : Cut(v)'
    BY <2>1, CutKept DEF Source
  <2>3. Closed(Loaded', log, taken)
    BY <2>1 DEF Closed
  <2> QED
    BY <2>1, <2>2, <2>3
<1>3. ASSUME NEW w \in Savers, Write(w)
      PROVE  AllClosed'
  <2>1. /\ saver[w] = "writing" /\ dumped[w] = 3
        /\ UNCHANGED <<life, stores, log, taken>>
        /\ Loaded' = dump[w] \/ Loaded' = {}
    BY <1>3 DEF Write, Loaded, Whole, Garbled, PhasesOK
  <2>2. Closed(dump[w], log, taken)
    <3>1. \A j \in DOMAIN log : Turn(log[j].store) <= 3
      BY LogType
    <3> QED
      BY <2>1, <3>1 DEF Cut, Closed
  <2>3. Closed({}, log, taken)
    BY DEF Closed
  <2>4. dump'[w] = {} /\ \A v \in Savers \ {w} : dump'[v] = dump[v] /\ dumped'[v] = dumped[v]
    BY <1>3 DEF Write, Reset, TypeOK
  <2>5. \A v \in Savers : Cut(v)'
    BY <2>1, <2>4, CutKept, CutRest DEF Source
  <2> QED
    BY <2>1, <2>2, <2>3, <2>5
<1>4. ASSUME NEW n \in Lives, Wake(n)
      PROVE  AllClosed'
  <2>1. /\ n \in Savers /\ dump'[n] = {} /\ UNCHANGED <<life, stores, file, log, taken>>
        /\ \A v \in Savers \ {n} : dump'[v] = dump[v] /\ dumped'[v] = dumped[v]
    BY <1>0, <1>4 DEF Wake, Reset, TypeOK
  <2>2. \A v \in Savers : Cut(v)'
    BY <2>1, CutKept, CutRest DEF Source
  <2> QED
    BY <2>1, <2>2 DEF Loaded
<1>5. CASE Start
  <2>1. /\ life + 1 \in Lives /\ stores'[life + 1] = Loaded
        /\ \A n \in Lives \ {life + 1} : stores'[n] = stores[n]
        /\ UNCHANGED <<dumped, dump, file, log, taken>>
    BY <1>5 DEF Start, TypeOK, Lives
  <2>2. \A n \in Lives : Closed(stores'[n], log, taken)
    BY <2>1
  <2>3. /\ saver[0] = "off" /\ saver[life + 1] = "off"
        /\ dump[0] = {} /\ dump[life + 1] = {}
    BY <1>0, <1>5, <2>1 DEF Start, TypeOK, PhasesOK
  <2>4. ASSUME NEW v \in Savers
        PROVE  Cut(v)'
    <3>1. CASE v \in {0, life + 1}
      BY <2>1, <2>3, <3>1, CutRest
    <3>2. CASE v \notin {0, life + 1}
      <4>1. v \in Lives \ {life + 1} /\ Source(v) = v /\ Source(v)' = v
        BY <3>2 DEF Source, Savers, Lives
      <4> QED
        BY <2>1, <4>1, CutKept
    <3> QED
      BY <3>1, <3>2
  <2> QED
    BY <2>1, <2>2, <2>4 DEF Loaded
<1>6. CASE Crash
  <2>1. /\ \A n \in Lives : stores'[n] = {}
        /\ \A w \in Savers : dump'[w] = {}
        /\ UNCHANGED <<file, log, taken>>
    BY <1>6 DEF Crash
  <2>2. Closed({}, log, taken)
    BY DEF Closed
  <2>3. Loaded' = Loaded
    BY <2>1 DEF Loaded
  <2>4. ASSUME NEW w \in Savers
        PROVE  Cut(w)'
    BY <2>1, CutRest
  <2> QED
    BY <2>1, <2>2, <2>3, <2>4
<1>7. ASSUME NEW c \in Clients, NEW s \in Kinds, Operate(c, s)
      PROVE  AllClosed'
  <2>1. /\ handle[c].life \in Lives /\ Present(handle[c].life)
        /\ UNCHANGED <<engine, life, saver, dumped, dump, file, promise>>
    BY <1>7, OperatedLife DEF LivesPresent
  <2>2. /\ log' \in Seq(Entry) /\ Len(log) <= Len(log') /\ \A j \in DOMAIN log : log'[j] = log[j]
        /\ taken \subseteq taken'
    <3>1. [store |-> s, life |-> handle[c].life] \in Entry
      BY <2>1 DEF Entry
    <3> QED
      BY <1>0, <1>7, <3>1, Operated DEF Puts, Removes
  <2>3. \A n \in Lives : stores[n] \ stores'[n] \subseteq taken'
    BY <1>7, StoresKept
  <2>4. Closed(Loaded, log', taken')
    BY <1>0, <2>2, ClosedGrows DEF Logged
  <2>5. ASSUME NEW v \in Savers
        PROVE  Cut(v)'
    <3> SUFFICES ASSUME NEW i \in DOMAIN log', NEW j \in DOMAIN log', Precedes(log', j, i),
                        i \in dump[v], j \notin taken'
                 PROVE  IF Turn(log'[j].store) <= dumped[v] THEN j \in dump[v]
                                                           ELSE j \in stores'[Source(v)]
      BY <2>1 DEF Cut, Source
    <3>1. i \in DOMAIN log /\ j \in DOMAIN log /\ j \notin taken
      <4>1. i \in DOMAIN log
        BY DEF Logged
      <4> QED
        BY <1>0, <2>2, <4>1 DEF Precedes
    <3>2. Precedes(log, j, i) /\ log'[j].store = log[j].store
      BY <2>2, <3>1 DEF Precedes
    <3>3. Source(v) \in Lives
      BY SourceType DEF TypeOK
    <3> QED
      BY <2>3, <3>1, <3>2, <3>3 DEF Cut
  <2>6. ASSUME NEW n \in Lives
        PROVE  Closed(stores'[n], log', taken')
    <3>1. CASE Puts(c, s) /\ n = handle[c].life
      <4>1. [store |-> s, life |-> n] \in Entry
        BY DEF Entry
      <4>2. /\ stores'[n] = stores[n] \cup {Len(log) + 1} /\ taken' = taken
            /\ log' = Append(log, [store |-> s, life |-> n])
        BY <3>1 DEF Puts, TypeOK
      <4>3. Closed(stores[n] \cup {Len(log) + 1}, Append(log, [store |-> s, life |-> n]), taken)
        BY <1>0, <2>1, <3>1, <4>1, ClosedPut DEF Logged, Present
      <4> QED
        BY <4>2, <4>3
    <3>2. CASE stores'[n] \subseteq stores[n]
      BY <1>0, <2>2, <2>3, <3>2, ClosedGrows DEF Logged
    <3>3. stores'[n] \subseteq stores[n] \/ (Puts(c, s) /\ n = handle[c].life)
      BY <1>7, <2>1, Operated DEF Puts, Removes, TypeOK
    <3> QED
      BY <3>1, <3>2, <3>3
  <2> QED
    BY <2>1, <2>4, <2>5, <2>6 DEF Loaded
<1>8. CASE UNCHANGED <<life, stores, dumped, dump, file, log, taken>>
  <2>1. \A v \in Savers : Cut(v)'
    BY <1>8, CutKept DEF Source
  <2> QED
    BY <1>8, <2>1 DEF Loaded
<1> QED
  BY <1>1, <1>2, <1>3, <1>4, <1>5, <1>6, <1>7, <1>8, NextCases
  DEF Stop, Close, Connect, Resolve, Disconnect, vars
-----------------------------------------------------------------------------
\* Every step of a stop keeps what its dump and the file have of what it promised.
LEMMA UndisturbedStep ==
  ASSUME TypeOK, PhasesOK, Logged, Undisturbed, [Next]_vars
  PROVE  Undisturbed'
<1> USE StorageEngineAssumption DEF Undisturbed
<1>0. /\ 0 \in Savers /\ 0 \notin Lives /\ \A w \in Savers : w = 0 \/ w \in Lives
      /\ \A i \in DOMAIN log : log[i].store \in Kinds
      /\ promise # {} /\ engine # "saving" => saver[0] = "off"
  <2>1. 0 \in Savers /\ 0 \notin Lives /\ \A w \in Savers : w = 0 \/ w \in Lives
    BY DEF Savers, Lives
  <2> QED
    BY <2>1, LogType DEF TypeOK
<1>1. ASSUME NEW w \in Savers, DumpStore(w), promise # {}
      PROVE  Undisturbed'
  <2>1. w = 0 /\ life \in Lives /\ dumped[0] \in 0..2 /\ dumped'[0] = dumped[0] + 1
        /\ dump'[0] = dump[0] \cup {i \in stores[life] : log[i].store = Order[dumped[0] + 1]}
        /\ UNCHANGED <<engine, life, stores, saver, file, log, promise>>
        /\ saver[0] = "dumping" /\ engine = "saving"
    BY <1>0, <1>1 DEF DumpStore, TypeOK, Lives
  <2>2. ASSUME NEW i \in promise \cap stores[life], Turn(log[i].store) <= dumped[0] + 1
        PROVE  i \in dump'[0]
    <3>1. /\ Turn(log[i].store) \in 1..3
          /\ log[i].store = Order[dumped[0] + 1] <=> Turn(log[i].store) = dumped[0] + 1
      BY <1>0, <2>1, TurnOrder DEF Logged
    <3> QED
      BY <1>1, <2>1, <2>2, <3>1
  <2> QED
    BY <1>1, <2>1, <2>2
<1>2. ASSUME NEW w \in Savers, Truncate(w), promise # {}
      PROVE  Undisturbed'
  <2>1. /\ w = 0 /\ engine = "saving" /\ file' = Empty /\ \A n \in Lives : saver'[n] = saver[n]
        /\ UNCHANGED <<engine, life, stores, dumped, dump, log, promise>>
    BY <1>0, <1>2 DEF Truncate, TypeOK
  <2> QED
    BY <1>2, <2>1
<1>3. ASSUME NEW w \in Savers, Write(w), promise # {}
      PROVE  Undisturbed'
  <2>1. /\ w = 0 /\ saver[0] = "writing" /\ engine = "saving" /\ file = Empty /\ dumped[0] = 3
    BY <1>0, <1>3 DEF Write, TypeOK, PhasesOK
  <2>2. /\ engine' = "closing" /\ saver'[0] # "writing" /\ \A n \in Lives : saver'[n] = saver[n]
        /\ UNCHANGED <<life, stores, log, promise>>
    BY <1>0, <1>3, <2>1 DEF Write, Reset, TypeOK
  <2>3. ~Overlaps(0)
    BY <1>0, <1>3, <2>1 DEF Overlaps
  <2>4. Loaded' = dump[0]
    BY <1>3, <2>1, <2>3 DEF Write, Loaded, Whole
  <2>5. promise \cap stores[life] \subseteq dump[0]
    <3>1. \A i \in promise : Turn(log[i].store) <= 3
      BY <1>0, TurnOrder DEF Logged
    <3> QED
      BY <1>3, <2>1, <3>1
  <2> QED
    BY <1>3, <2>2, <2>4, <2>5
<1>4. ASSUME NEW n \in Lives, Wake(n)
      PROVE  Undisturbed'
  BY <1>4 DEF Wake
<1>5. CASE Start \/ Crash
  BY <1>5 DEF Start, Crash
<1>6. CASE Stop
  <2> SUFFICES ASSUME promise' # {}
               PROVE  Undisturbed'
    OBVIOUS
  <2>1. /\ engine = "running" /\ engine' = "saving" /\ life \in Lives /\ saver[0] = "off"
        /\ \A n \in Lives : saver[n] \in {"off", "asleep"}
        /\ UNCHANGED <<life, stores, dumped, dump, file, log>>
        /\ saver' = [saver EXCEPT ![0] = "dumping", ![life] = IF @ = "asleep" THEN "off" ELSE @]
    BY <1>6 DEF Stop, Stopping, PhasesOK, TypeOK, Lives
  <2>2. saver'[0] = "dumping" /\ \A n \in Lives : saver'[n] = "off"
    <3>1. \A n \in Lives : n # life => saver[n] = "off"
      BY <2>1 DEF PhasesOK
    <3>2. \A n \in Lives : n # life => saver'[n] = saver[n]
      BY <1>0, <1>6, StopSavers DEF Savers, Lives
    <3> QED
      BY <1>6, <2>1, <3>1, <3>2, StopSavers
  <2>3. dumped[0] = 0 /\ promise' = stores[life]
    BY <1>0, <1>6, <2>1 DEF Stop, TypeOK
  <2>4. \A i \in stores[life] : ~(Turn(log[i].store) <= 0)
    BY <2>1, LogType DEF Logged
  <2>5. life > 0
    BY <2>1 DEF Lives
  <2> QED
    BY <2>1, <2>2, <2>3, <2>4, <2>5
<1>7. CASE Close
  BY <1>7 DEF Close, Loaded
<1>8. ASSUME NEW c \in Clients, NEW s \in Kinds, Operate(c, s), promise # {}
      PROVE  Undisturbed'
  <2>1. /\ UNCHANGED <<engine, life, saver, dumped, dump, file, promise>> /\ life \in Lives
        /\ handle[c].life \in Lives
    BY <1>8, OperatedLife DEF TypeOK, Lives
  <2>2. promise \cap stores'[life] \subseteq promise \cap stores[life]
    <3>1. Len(log) + 1 \notin promise
      BY LogType DEF Logged
    <3> QED
      BY <1>8, <2>1, <3>1, StoresKept
  <2>3. \A i \in promise : log'[i] = log[i]
    BY <1>8, StoresKept DEF Logged
  <2> QED
    BY <1>8, <2>1, <2>2, <2>3 DEF Loaded
<1>9. CASE UNCHANGED <<engine, life, stores, saver, dumped, dump, file, log, promise>>
  BY <1>9 DEF Loaded
<1>10. CASE promise = {} /\ promise' = promise
  BY <1>10
<1> QED
  BY <1>1, <1>2, <1>3, <1>4, <1>5, <1>6, <1>7, <1>8, <1>9, <1>10, NextCases
  DEF DumpStore, Truncate, Write, Connect, Resolve, Disconnect, Operate, vars
-----------------------------------------------------------------------------
\* A new account has nothing, and promises nothing.
LEMMA InitInv == Init => Inv
<1> SUFFICES ASSUME Init PROVE Inv
  OBVIOUS
<1> USE StorageEngineAssumption DEF Init
<1>1. TypeOK /\ PhasesOK
  BY DEF TypeOK, PhasesOK, NoHandle, Savers, Lives
<1>2. Loaded = {}
  BY DEF Loaded, Empty
<1>3. Logged /\ LivesPresent /\ AllClosed /\ Undisturbed
  BY <1>2 DEF Logged, LivesPresent, AllClosed, Closed, Cut, Undisturbed
<1> QED
  BY <1>1, <1>3 DEF Inv

\* The inductive invariant: types, the phases of the savers, where items come from, and
\* what a dump under way has (start, stop and the autosave in storage/engine).
THEOREM SpecInv == Spec => []Inv
<1>1. Inv /\ [Next]_vars => Inv'
  BY TypeStep, PhasesStep, LoggedStep, PresentStep, ClosedStep, UndisturbedStep DEF Inv
<1> QED
  BY InitInv, <1>1, PTL DEF Spec

\* The account, its savers and its file keep their types.
THEOREM SpecTypeOK == Spec => []TypeOK
<1>1. Inv => TypeOK
  BY DEF Inv
<1> QED
  BY SpecInv, <1>1, PTL

\* A stop that no autosave is in the middle of saves what it finds in the stores.
THEOREM SpecCalmStopSaves == Spec => []CalmStopSaves
<1>1. ASSUME Inv PROVE CalmStopSaves
  BY <1>1 DEF Inv, Undisturbed, CalmStopSaves
<1> QED
  BY SpecInv, <1>1, PTL

\* The data file keeps the order of requests between the stores in one direction.
THEOREM SpecCausalCut == Spec => []CausalCut
<1>1. ASSUME Inv PROVE CausalCut
  <2>1. Turn("blob") = 1 /\ Turn("queue") = 2 /\ Turn("table") = 3
    BY DEF Turn
  <2>2. Closed(Loaded, log, taken)
    BY <1>1 DEF Inv, AllClosed
  <2>3. ASSUME NEW i \in DOMAIN log, NEW j \in DOMAIN log,
               j < i, log[j].life = log[i].life,
               <<log[i].store, log[j].store>>
                 \in {<<"blob", "queue">>, <<"blob", "table">>, <<"queue", "table">>}
        PROVE  Precedes(log, j, i)
    BY <2>1, <2>3 DEF Precedes
  <2> QED
    BY <2>2, <2>3 DEF Closed, CausalCut
<1> QED
  BY SpecInv, <1>1, PTL
=============================================================================
