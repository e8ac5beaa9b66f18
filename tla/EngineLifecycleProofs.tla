----------------------- MODULE EngineLifecycleProofs -----------------------
(* What a stop that is not disturbed by an autosave leaves in the data file. *)
EXTENDS EngineLifecycle, TLAPS

\* Nothing is anywhere that was not sent.
AllSent == /\ \A n \in Lives : broker[n] \subseteq sent
           /\ \A w \in Savers : dump[w] \subseteq sent
           /\ Loaded \subseteq sent

\* What was promised was sent, so nobody sends it again.
GoneStays == /\ promise.gone \subseteq sent /\ promise.kept \subseteq sent
             /\ life > 0 => promise.gone \cap broker[life] = {}

\* A dump of the queues Q has what was promised and is still there.
Covers(Q, D) ==
  /\ \A m \in promise.kept \cap broker[life] : QueueOf[m] \in Q => m \in D
  /\ D \cap promise.gone = {}

\* From the moment stop() found the savers at rest they stay at rest, so that its
\* dump reaches the file.
Undisturbed ==
  promise # NoPromise =>
    /\ engine # "running" /\ life > 0 /\ Calm
    /\ saver[0] = "exporting" => Covers(seen[0], dump[0])
    /\ saver[0] = "writing" => Covers(Queues, dump[0]) /\ file = Empty
    /\ engine # "saving" => Covers(Queues, Loaded)

\* The engine is not up before its first start, nor a life's autosave before it.
LifeOK == /\ engine # "stopped" => life > 0
          /\ \A n \in Lives : n > life => saver[n] = "off"

Inv == TypeOK /\ LifeOK /\ AllSent /\ GoneStays /\ Undisturbed

-----------------------------------------------------------------------------
\* The savers' part of TypeOK, apart from what it says of the engine.
SaversOK ==
  /\ saver \in [Savers -> Phases]
  /\ seen \in [Savers -> SUBSET Queues]
  /\ dump \in [Savers -> Contents]
  /\ \A v \in Savers : saver[v] \in {"off", "asleep"} => seen[v] = {} /\ dump[v] = {}

\* Emptying a saver keeps the types.
LEMMA ReleaseType ==
  ASSUME TypeOK, NEW w \in Savers, NEW to \in Phases, Release(w, to)
  PROVE  /\ SaversOK' /\ saver'[w] = to
         /\ \A v \in Savers \ {w} : saver'[v] = saver[v]
<1> USE DEF TypeOK, Release, Contents
<1>1. seen' \in [Savers -> SUBSET Queues] /\ dump' \in [Savers -> Contents]
  OBVIOUS
<1>2. saver' \in [Savers -> Phases]
  OBVIOUS
<1>3. ASSUME NEW v \in Savers, saver'[v] \in {"off", "asleep"}
      PROVE  seen'[v] = {} /\ dump'[v] = {}
  BY <1>3
<1> QED
  BY <1>1, <1>2, <1>3 DEF SaversOK

\* The file holds messages only, or nothing.
LEMMA LoadedType ==
  ASSUME TypeOK
  PROVE  Loaded \in Contents
BY DEF TypeOK, Loaded, Empty, Garbled, Whole, Contents

\* Every step keeps the types.
LEMMA TypeStep ==
  ASSUME TypeOK, LifeOK, [Next]_elVars
  PROVE  TypeOK' /\ LifeOK'
<1> USE EngineLifecycleAssumption DEF TypeOK, LifeOK
<1>1. ASSUME NEW w \in Savers, NEW q \in Queues, Visit(w, q)
      PROVE  TypeOK' /\ LifeOK'
  <2>1. Source(w) \in Lives
    BY <1>1 DEF Source, Lives, Savers, Visit
  <2>2. In(q, broker[Source(w)]) \in Contents
    BY <2>1 DEF In, Contents
  <2>3. dump' \in [Savers -> Contents] /\ seen' \in [Savers -> SUBSET Queues]
    BY <1>1, <2>2 DEF Visit, Contents
  <2> QED
    BY <1>1, <2>3 DEF Visit, Savers
<1>2. ASSUME NEW w \in Savers, Truncate(w) PROVE TypeOK' /\ LifeOK'
  BY <1>2 DEF Truncate, Phases, Savers, Lives
<1>3. ASSUME NEW w \in Savers, Write(w) PROVE TypeOK' /\ LifeOK'
  <2>1. /\ After(w) \in Phases /\ 0 \in Savers
        /\ Release(w, After(w)) /\ saver[w] = "writing"
    BY <1>3 DEF After, Phases, Write, Savers
  <2>2. /\ SaversOK' /\ saver'[w] = After(w)
        /\ \A v \in Savers \ {w} : saver'[v] = saver[v]
    BY <2>1, ReleaseType
  <2>3. file' \in {Empty, Garbled} \cup {Whole(M) : M \in Contents}
    BY <1>3 DEF Write
  <2>4. engine' = "saving" <=> saver'[0] # "off"
    BY <1>3, <2>1, <2>2 DEF After, Write
  <2>5. /\ engine' \in {"stopped", "running", "saving", "closing"}
        /\ engine' # "stopped" => life > 0
    BY <1>3, <2>1 DEF Write
  <2>6. \A n \in Lives : n > life => saver'[n] = "off"
    BY <2>1, <2>2 DEF Lives, Savers
  <2>7. UNCHANGED <<life, broker, client, sent, promise>>
    BY <1>3 DEF Write
  <2> QED
    BY <2>2, <2>3, <2>4, <2>5, <2>6, <2>7 DEF SaversOK
<1>4. ASSUME NEW n \in Lives, Wake(n) \/ Cancel(n) PROVE TypeOK' /\ LifeOK'
  <2>1. /\ n \in Savers /\ n # 0 /\ 0 \in Savers
        /\ saver[n] # "off"
        /\ Release(n, "exporting") \/ Release(n, "off")
    BY <1>4 DEF Wake, Cancel, Lives, Savers
  <2>2. "exporting" \in Phases /\ "off" \in Phases
    BY DEF Phases
  <2>3. SaversOK' /\ \A v \in Savers \ {n} : saver'[v] = saver[v]
    BY <2>1, <2>2, ReleaseType
  <2>4. \A k \in Lives : k > life => saver'[k] = "off"
    BY <2>1, <2>3 DEF Lives, Savers
  <2>5. UNCHANGED <<engine, life, broker, client, file, sent, promise>>
    BY <1>4 DEF Wake, Cancel
  <2> QED
    BY <2>1, <2>3, <2>4, <2>5 DEF SaversOK
<1>5. CASE Start
  <2>1. life + 1 \in Lives /\ life + 1 \in Savers /\ life + 1 # 0
    BY <1>5 DEF Start, Lives, Savers
  <2>2. broker' \in [Lives -> Contents]
    BY <1>5, <2>1, LoadedType DEF Start
  <2>3. saver' \in [Savers -> Phases]
    BY <1>5 DEF Start, Phases
  <2>4. ASSUME NEW w \in Savers, saver'[w] \in {"off", "asleep"}
        PROVE  seen'[w] = {} /\ dump'[w] = {}
    BY <1>5, <2>1, <2>4 DEF Start
  <2>5. promise' \in [kept : Contents, gone : Contents]
    BY <1>5 DEF Start, NoPromise, Contents
  <2>6. /\ saver'[0] = saver[0] /\ saver'[0] = "off"
        /\ \A n \in Lives : n > life' => saver'[n] = "off"
    BY <1>5, <2>1 DEF Start, Lives, Savers
  <2>7. /\ engine' = "running" /\ life' = life + 1 /\ life' \in 0..MaxLives /\ life' > 0
        /\ UNCHANGED <<client, seen, dump, file, sent>>
    BY <1>5, <2>1 DEF Start, Lives
  <2> QED
    BY <2>2, <2>3, <2>4, <2>5, <2>6, <2>7
<1>6. CASE Stop
  <2>1. 0 \in Savers /\ "exporting" \in Phases /\ Release(0, "exporting")
    BY <1>6 DEF Savers, Phases, Stop
  <2>2. Promise \in [kept : Contents, gone : Contents]
    BY <1>6 DEF Stop, Promise, NoPromise, Contents, Lives
  <2>3. SaversOK' /\ saver'[0] = "exporting" /\ \A v \in Savers \ {0} : saver'[v] = saver[v]
    BY <2>1, ReleaseType
  <2>4. \A n \in Lives : n > life => saver'[n] = "off"
    BY <2>3 DEF Lives, Savers
  <2>5. /\ engine = "running" /\ engine' = "saving" /\ promise' = Promise
        /\ UNCHANGED <<life, broker, client, file, sent>>
    BY <1>6 DEF Stop
  <2> QED
    BY <2>2, <2>3, <2>4, <2>5 DEF SaversOK
<1>7. CASE Close
  BY <1>7 DEF Close
<1>8. CASE Crash
  <2>1. SaversOK' /\ \A w \in Savers : saver'[w] = "off"
    BY <1>8 DEF Crash, Phases, Contents, SaversOK
  <2>2. broker' \in [Lives -> Contents] /\ client' \in [Clients -> 0..MaxLives]
    BY <1>8 DEF Crash, Contents
  <2>3. promise' \in [kept : Contents, gone : Contents]
    BY <1>8 DEF Crash, NoPromise, Contents
  <2>4. engine' = "stopped" /\ UNCHANGED <<life, file, sent>>
    BY <1>8 DEF Crash
  <2>5. 0 \in Savers /\ Lives \subseteq Savers
    BY DEF Savers, Lives
  <2> QED
    BY <2>1, <2>2, <2>3, <2>4, <2>5 DEF SaversOK
<1>9. ASSUME NEW c \in Clients, Connect(c) \/ Disconnect(c) PROVE TypeOK' /\ LifeOK'
  BY <1>9 DEF Connect, Disconnect
<1>10. ASSUME NEW c \in Clients, NEW m \in Messages, Send(c, m) \/ Take(c, m)
       PROVE  TypeOK' /\ LifeOK'
  <2>1. client[c] \in Lives
    BY <1>10 DEF Send, Take, Lives
  <2>2. broker' \in [Lives -> Contents]
    BY <1>10, <2>1 DEF Send, Take, Contents
  <2> QED
    BY <1>10, <2>2 DEF Send, Take
<1>11. CASE UNCHANGED elVars
  BY <1>11 DEF elVars
<1> QED
  BY <1>1, <1>2, <1>3, <1>4, <1>5, <1>6, <1>7, <1>8, <1>9, <1>10, <1>11 DEF Next, SaverStep
-----------------------------------------------------------------------------
\* No step makes a message out of nothing.
LEMMA AllSentStep ==
  ASSUME TypeOK, LifeOK, AllSent, [Next]_elVars
  PROVE  AllSent'
<1> USE EngineLifecycleAssumption DEF TypeOK, LifeOK, AllSent
<1>1. ASSUME NEW w \in Savers, NEW q \in Queues, Visit(w, q)
      PROVE  AllSent'
  <2>1. Source(w) \in Lives
    BY <1>1 DEF Source, Lives, Savers, Visit
  <2>2. \A v \in Savers : dump'[v] \subseteq sent
    BY <1>1, <2>1 DEF Visit, In
  <2> QED
    BY <1>1, <2>2 DEF Visit, Loaded
<1>2. ASSUME NEW w \in Savers, Truncate(w)
      PROVE  AllSent'
  BY <1>2 DEF Truncate, Loaded, Empty
<1>3. ASSUME NEW w \in Savers, Write(w)
      PROVE  AllSent'
  <2>1. Loaded' \subseteq sent
    BY <1>3 DEF Write, Loaded, Whole, Garbled
  <2>2. \A v \in Savers : dump'[v] \subseteq sent
    BY <1>3 DEF Write, Release
  <2> QED
    BY <1>3, <2>1, <2>2 DEF Write
<1>4. ASSUME NEW n \in Lives, Wake(n) \/ Cancel(n)
      PROVE  AllSent'
  BY <1>4 DEF Wake, Cancel, Release, Loaded
<1>5. CASE Start
  BY <1>5 DEF Start, Loaded
<1>6. CASE Stop
  BY <1>6 DEF Stop, Release, Loaded
<1>7. CASE Crash
  BY <1>7 DEF Crash, Loaded
<1>8. ASSUME NEW c \in Clients, NEW m \in Messages, Send(c, m) \/ Take(c, m)
      PROVE  AllSent'
  BY <1>8 DEF Send, Take, Loaded
<1>9. CASE UNCHANGED <<broker, dump, file, sent>>
  BY <1>9 DEF Loaded
<1> QED
  BY <1>1, <1>2, <1>3, <1>4, <1>5, <1>6, <1>7, <1>8, <1>9
  DEF Next, SaverStep, Close, Connect, Disconnect, elVars

\* The promise is never made good by what a client does later, nor spoilt.
LEMMA GoneStep ==
  ASSUME TypeOK, LifeOK, AllSent, GoneStays, [Next]_elVars
  PROVE  GoneStays'
<1> USE EngineLifecycleAssumption DEF TypeOK, LifeOK, GoneStays
<1>1. CASE Start \/ Crash
  BY <1>1 DEF Start, Crash, NoPromise
<1>2. CASE Stop
  <2>1. life \in Lives /\ broker[life] \subseteq sent
    BY <1>2 DEF Stop, Lives, AllSent
  <2>2. /\ Promise.kept \subseteq sent /\ Promise.gone \subseteq sent
        /\ Promise.gone \cap broker[life] = {}
    BY <2>1 DEF Promise, NoPromise
  <2> QED
    BY <1>2, <2>2 DEF Stop
<1>3. ASSUME NEW c \in Clients, NEW m \in Messages, Send(c, m)
      PROVE  GoneStays'
  <2>1. \A n \in Lives : broker'[n] \subseteq broker[n] \cup {m}
    BY <1>3 DEF Send, Contents
  <2>2. /\ m \notin promise.gone /\ sent' = sent \cup {m}
        /\ UNCHANGED <<life, promise>>
    BY <1>3 DEF Send
  <2> QED
    BY <2>1, <2>2 DEF Lives
<1>4. ASSUME NEW c \in Clients, NEW m \in Messages, Take(c, m)
      PROVE  GoneStays'
  <2>1. \A n \in Lives : broker'[n] \subseteq broker[n]
    BY <1>4 DEF Take, Contents
  <2>2. UNCHANGED <<life, promise, sent>>
    BY <1>4 DEF Take
  <2> QED
    BY <2>1, <2>2 DEF Lives
<1>5. CASE UNCHANGED <<life, broker, sent, promise>>
  BY <1>5
<1> QED
  BY <1>1, <1>2, <1>3, <1>4, <1>5
  DEF Next, SaverStep, Visit, Truncate, Write, Wake, Cancel, Close, Connect, Disconnect, elVars

\* A step that leaves the savers, the engine and the file alone, and adds nothing
\* promised to the broker, leaves Undisturbed alone.
LEMMA UndisturbedKept ==
  ASSUME TypeOK, LifeOK, Undisturbed,
         UNCHANGED <<engine, life, saver, seen, dump, file, promise>>,
         promise.kept \cap broker'[life] \subseteq promise.kept \cap broker[life]
  PROVE  Undisturbed'
BY DEF Undisturbed, Covers, Calm, Loaded

\* Every step of a stop keeps what its dump and the file cover.
LEMMA UndisturbedStep ==
  ASSUME Inv, [Next]_elVars
  PROVE  Undisturbed'
<1> USE EngineLifecycleAssumption DEF Inv, TypeOK, LifeOK
<1>1. ASSUME NEW w \in Savers, NEW q \in Queues, Visit(w, q)
      PROVE  Undisturbed'
  <2> SUFFICES ASSUME promise # NoPromise
               PROVE  Undisturbed'
    BY <1>1 DEF Visit, Undisturbed
  <2>1. w = 0 /\ engine = "saving" /\ Source(w) = life /\ life \in Lives
    BY <1>1 DEF Visit, Undisturbed, Calm, Savers, Lives, Source
  <2>2. Covers(seen[0], dump[0])
    BY <1>1, <2>1 DEF Visit, Undisturbed
  <2>3. /\ seen'[0] = seen[0] \cup {q}
        /\ dump'[0] = dump[0] \cup In(q, broker[life])
    BY <1>1, <2>1 DEF Visit
  <2>4. Covers(seen[0], dump[0])'
    BY <1>1, <2>1, <2>2, <2>3 DEF Visit, Covers, In, GoneStays, Contents
  <2> QED
    BY <1>1, <2>1, <2>4 DEF Visit, Undisturbed, Calm
<1>2. ASSUME NEW w \in Savers, Truncate(w)
      PROVE  Undisturbed'
  <2> SUFFICES ASSUME promise # NoPromise
               PROVE  Undisturbed'
    BY <1>2 DEF Truncate, Undisturbed
  <2>1. w = 0 /\ engine = "saving"
    BY <1>2 DEF Truncate, Undisturbed, Calm, Savers, Lives
  <2>2. Covers(Queues, dump[0])
    BY <1>2, <2>1 DEF Truncate, Undisturbed
  <2>3. saver'[0] = "writing" /\ \A n \in Lives : saver'[n] = saver[n]
    BY <1>2, <2>1 DEF Truncate, Savers, Lives
  <2> QED
    BY <1>2, <2>1, <2>2, <2>3 DEF Truncate, Undisturbed, Calm, Covers
<1>3. ASSUME NEW w \in Savers, Write(w)
      PROVE  Undisturbed'
  <2> SUFFICES ASSUME promise # NoPromise
               PROVE  Undisturbed'
    BY <1>3 DEF Write, Undisturbed
  <2>1. w = 0 /\ 0 \in Savers
    BY <1>3 DEF Write, Undisturbed, Calm, Savers, Lives
  <2>2. Covers(Queues, dump[0]) /\ ~Overlaps(0)
    BY <1>3, <2>1 DEF Write, Undisturbed, Overlaps, Calm, Savers, Lives
  <2>3. file' = Whole(dump[0])
    BY <1>3, <2>1, <2>2 DEF Write
  <2>4. Loaded' = dump[0]
    BY <2>3 DEF Loaded, Whole
  <2>5. Covers(Queues, Loaded)'
    BY <1>3, <2>2, <2>4 DEF Write, Covers
  <2>6. /\ engine' = "closing" /\ saver'[0] = "off"
        /\ \A n \in Lives : saver'[n] = saver[n]
    BY <1>3, <2>1 DEF Write, Release, After, Savers, Lives
  <2> QED
    BY <1>3, <2>5, <2>6 DEF Write, Undisturbed, Calm
<1>4. ASSUME NEW n \in Lives, Wake(n)
      PROVE  Undisturbed'
  BY <1>4 DEF Wake, Aborted, Undisturbed
<1>5. ASSUME NEW n \in Lives, Cancel(n)
      PROVE  Undisturbed'
  <2>1. /\ 0 \in Savers /\ n # 0 /\ n \in Savers
        /\ saver'[0] = saver[0] /\ seen'[0] = seen[0] /\ dump'[0] = dump[0]
        /\ saver'[n] = "off" /\ \A k \in Lives \ {n} : saver'[k] = saver[k]
    BY <1>5 DEF Cancel, Release, Savers, Lives
  <2> QED
    BY <1>5, <2>1 DEF Cancel, Undisturbed, Calm, Covers, Loaded
<1>6. CASE Start \/ Crash
  BY <1>6 DEF Start, Crash, Undisturbed
<1>7. CASE Stop
  <2> SUFFICES ASSUME promise' # NoPromise
               PROVE  Undisturbed'
    BY DEF Undisturbed, NoPromise
  <2>1. Calm /\ promise' = [kept |-> broker[life], gone |-> sent \ broker[life]]
    BY <1>7 DEF Stop, Promise
  <2>2. /\ saver'[0] = "exporting" /\ seen'[0] = {} /\ dump'[0] = {}
        /\ \A n \in Lives : saver'[n] = saver[n]
    BY <1>7 DEF Stop, Release, Savers, Lives
  <2> QED
    BY <1>7, <2>1, <2>2 DEF Stop, Undisturbed, Calm, Covers
<1>8. CASE Close
  BY <1>8 DEF Close, Undisturbed, Calm, Covers, Loaded
<1>9. ASSUME NEW c \in Clients, Connect(c) \/ Disconnect(c)
      PROVE  Undisturbed'
  BY <1>9, UndisturbedKept DEF Connect, Disconnect
<1>10. ASSUME NEW c \in Clients, NEW m \in Messages, Send(c, m)
       PROVE  Undisturbed'
  <2>1. promise.kept \cap broker'[life] \subseteq promise.kept \cap broker[life]
    BY <1>10 DEF Send, GoneStays
  <2> QED
    BY <1>10, <2>1, UndisturbedKept DEF Send
<1>11. ASSUME NEW c \in Clients, NEW m \in Messages, Take(c, m)
       PROVE  Undisturbed'
  BY <1>11, UndisturbedKept DEF Take
<1>12. CASE UNCHANGED elVars
  BY <1>12, UndisturbedKept DEF elVars
<1> QED
  BY <1>1, <1>2, <1>3, <1>4, <1>5, <1>6, <1>7, <1>8, <1>9, <1>10, <1>11, <1>12
  DEF Next, SaverStep
-----------------------------------------------------------------------------
\* A new engine has nothing, and promises nothing.
LEMMA InitInv == Init => Inv
<1> SUFFICES ASSUME Init PROVE Inv
  OBVIOUS
<1> USE EngineLifecycleAssumption DEF Init
<1>1. TypeOK
  BY DEF TypeOK, Contents, Phases, NoPromise, Savers
<1>2. LifeOK
  BY DEF LifeOK, Lives, Savers
<1>3. AllSent /\ GoneStays /\ Undisturbed
  BY DEF AllSent, Loaded, Empty, GoneStays, Undisturbed, NoPromise
<1> QED
  BY <1>1, <1>2, <1>3 DEF Inv

\* The inductive invariant: types, where messages come from, and the phases of a
\* stop (start and stop in engine/src/lib.rs, save in persistence/src/lib.rs).
THEOREM SpecInv == Spec => []Inv
<1>1. Inv /\ [Next]_elVars => Inv'
  BY TypeStep, AllSentStep, GoneStep, UndisturbedStep DEF Inv
<1> QED
  BY InitInv, <1>1, PTL DEF Spec

\* The variables of the engine keep their types; no saver that is at rest has
\* collected anything.
THEOREM SpecTypeOK == Spec => []TypeOK
<1>1. Inv => TypeOK
  BY DEF Inv
<1> QED
  BY SpecInv, <1>1, PTL

\* A stop that no autosave is in the middle of saves what it finds, and nothing
\* that had been taken.
THEOREM SpecCalmStopSaves == Spec => []CalmStopSaves
<1>1. ASSUME Inv PROVE CalmStopSaves
  <2> SUFFICES ASSUME engine \in {"closing", "stopped"}, life > 0
               PROVE  /\ promise.kept \cap broker[life] \subseteq Loaded
                      /\ Loaded \cap promise.gone = {}
    BY DEF CalmStopSaves
  <2>1. CASE promise = NoPromise
    BY <2>1 DEF NoPromise
  <2>2. CASE promise # NoPromise
    <3>1. Covers(Queues, Loaded)
      BY <1>1, <2>2 DEF Inv, Undisturbed
    <3>2. promise.kept \subseteq Messages
      BY <1>1 DEF Inv, TypeOK, Contents
    <3> QED
      BY <3>1, <3>2, EngineLifecycleAssumption DEF Covers
  <2> QED
    BY <2>1, <2>2
<1> QED
  BY SpecInv, <1>1, PTL
=============================================================================
