--------------------------- MODULE EngineLifecycle ---------------------------
(***************************************************************************)
(* Start, stop and crash of a Service Bus engine (servicebus/engine), its  *)
(* autosave task and its data file (services/persistence), and the client  *)
(* connections that outlive its listeners (amqp/listener).                 *)
(*                                                                         *)
(* Each start builds a broker of its own, a life.  An autosave task and    *)
(* the connections of a life hold on to its broker for as long as they     *)
(* run, whatever the engine does.  stop() holds the engine's mutex from    *)
(* beginning to end, start() too; everything else goes on meanwhile.       *)
(*                                                                         *)
(* Savers write the data file: number n is the autosave task of life n,    *)
(* and 0 is stop().  A saver asks one queue after the other for its        *)
(* messages (Broker::export), then truncates the file and writes it.       *)
(***************************************************************************)
EXTENDS Naturals

CONSTANTS
  Queues, Clients,
  Messages,
  QueueOf,     \* the queue a message is sent to
  MaxLives     \* bound: number of starts

VARIABLES
  engine,      \* what holds the engine's mutex, if anything
  life,        \* number of the latest life
  broker,      \* messages in the queues of each life
  client,      \* the life a client's connection belongs to, 0 for none
  saver,       \* phase of each saver
  seen,        \* queues it has asked
  dump,        \* what they answered
  file,        \* the data file
  sent,        \* messages accepted so far
  promise      \* history: what the last stop found when it began

elVars == <<engine, life, broker, client, saver, seen, dump, file, sent, promise>>

Lives    == 1..MaxLives
Savers   == 0..MaxLives
Contents == SUBSET Messages
Phases   == {"off", "asleep", "exporting", "writing"}

ASSUME EngineLifecycleAssumption ==
  /\ MaxLives \in Nat
  /\ QueueOf \in [Messages -> Queues]

\* The data file: absent, or truncated and not written yet; written by two savers
\* at once and no longer well-formed; or a whole dump.
Empty   == [state |-> "empty", holds |-> {}]
Garbled == [state |-> "garbled", holds |-> {}]
Whole(M) == [state |-> "whole", holds |-> M]

NoPromise == [kept |-> {}, gone |-> {}]

Init ==
  /\ engine = "stopped"
  /\ life = 0
  /\ broker = [n \in Lives |-> {}]
  /\ client = [c \in Clients |-> 0]
  /\ saver = [w \in Savers |-> "off"]
  /\ seen = [w \in Savers |-> {}]
  /\ dump = [w \in Savers |-> {}]
  /\ file = Empty
  /\ sent = {}
  /\ promise = NoPromise

\* load: a file that is not there or does not parse counts as nothing.  (The id
\* stamped in the file is this instance's: no other engine has the path.)
Loaded == IF file.state = "whole" THEN file.holds ELSE {}

-----------------------------------------------------------------------------
(***************************************************************************)
(* Savers.                                                                 *)
(***************************************************************************)
\* Those of messages M that are in queue q.
In(q, M) == {m \in M : QueueOf[m] = q}

\* Saver w forgets what it collected and goes over to the phase to.
Release(w, to) ==
  /\ saver' = [saver EXCEPT ![w] = to]
  /\ seen' = [seen EXCEPT ![w] = {}]
  /\ dump' = [dump EXCEPT ![w] = {}]

\* The broker saver w works with.
Source(w) == IF w = 0 THEN life ELSE w

\* stop() has asked for the end of autosave task n, or the process has.
Aborted(n) == n < life \/ engine # "running"

\* The autosave ticker fires.
Wake(n) ==
  /\ saver[n] = "asleep" /\ ~Aborted(n)
  /\ Release(n, "exporting")
  /\ UNCHANGED <<engine, life, broker, client, file, sent, promise>>

\* Broker::export: the actor of queue q answers.
Visit(w, q) ==
  /\ saver[w] = "exporting" /\ q \notin seen[w]
  /\ seen' = [seen EXCEPT ![w] = @ \cup {q}]
  /\ dump' = [dump EXCEPT ![w] = @ \cup In(q, broker[Source(w)])]
  /\ UNCHANGED <<engine, life, broker, client, saver, file, sent, promise>>

\* fs::write opens and truncates the file.
Truncate(w) ==
  /\ saver[w] = "exporting" /\ seen[w] = Queues
  /\ saver' = [saver EXCEPT ![w] = "writing"]
  /\ file' = Empty
  /\ UNCHANGED <<engine, life, broker, client, seen, dump, sent, promise>>

\* The autosave task is not a loop.
After_Mistake(w) == "off"
\* What comes after a save.
After(w) == IF w = 0 THEN "off" ELSE "asleep"

\* Another saver has written the file since saver w truncated it, or is about to.
Overlaps(w) == file # Empty \/ \E o \in Savers \ {w} : saver[o] = "writing"

\* ... and writes it from the beginning: with another saver at work, what the two
\* leave may be the one's text, or a mixture.
Write(w) ==
  /\ saver[w] = "writing"
  /\ file' = Whole(dump[w]) \/ (Overlaps(w) /\ file' = Garbled)
  /\ Release(w, After(w))
  /\ engine' = IF w = 0 THEN "closing" ELSE engine
  /\ UNCHANGED <<life, broker, client, sent, promise>>

\* An aborted autosave task ends at one of its awaits, never inside fs::write.
Cancel(n) ==
  /\ saver[n] \in {"asleep", "exporting"} /\ Aborted(n)
  /\ Release(n, "off")
  /\ UNCHANGED <<engine, life, broker, client, file, sent, promise>>

-----------------------------------------------------------------------------
(***************************************************************************)
(* The engine.  A start whose ports are taken changes nothing and is left  *)
(* out.                                                                    *)
(***************************************************************************)
Start ==
  /\ engine = "stopped" /\ life < MaxLives
  /\ engine' = "running"
  /\ life' = life + 1
  /\ broker' = [broker EXCEPT ![life + 1] = Loaded]
  /\ saver' = [saver EXCEPT ![life + 1] = "asleep"]
  /\ promise' = NoPromise
  /\ UNCHANGED <<client, seen, dump, file, sent>>

\* No autosave is under way when stop() begins: it owes what it finds.
Calm == \A n \in Lives : saver[n] \in {"off", "asleep"}

Promise == IF Calm
           THEN [kept |-> broker[life], gone |-> sent \ broker[life]]
           ELSE NoPromise

\* Saves what the last autosave had collected.
Stop_Mistake ==
  /\ engine = "running"
  /\ engine' = "saving"
  /\ saver' = [saver EXCEPT ![0] = "exporting"]
  /\ seen' = [seen EXCEPT ![0] = Queues]
  /\ dump' = [dump EXCEPT ![0] = dump[life]]
  /\ promise' = Promise
  /\ UNCHANGED <<life, broker, client, file, sent>>

Stop ==
  /\ engine = "running"
  /\ engine' = "saving"
  /\ Release(0, "exporting")
  /\ promise' = Promise
  /\ UNCHANGED <<life, broker, client, file, sent>>

\* The listeners are gone and the mutex is released.
Close ==
  /\ engine = "closing"
  /\ engine' = "stopped"
  /\ UNCHANGED <<life, broker, client, saver, seen, dump, file, sent, promise>>

\* The process dies: only the file is left.
Crash ==
  /\ engine' = "stopped"
  /\ broker' = [n \in Lives |-> {}]
  /\ client' = [c \in Clients |-> 0]
  /\ saver' = [w \in Savers |-> "off"]
  /\ seen' = [w \in Savers |-> {}]
  /\ dump' = [w \in Savers |-> {}]
  /\ promise' = NoPromise
  /\ UNCHANGED <<life, file, sent>>

-----------------------------------------------------------------------------
(***************************************************************************)
(* Clients.  The listeners accept until they are closed, and nothing ends  *)
(* a connection when they are.                                             *)
(***************************************************************************)
Connect(c) ==
  /\ client[c] = 0 /\ engine # "stopped"
  /\ client' = [client EXCEPT ![c] = life]
  /\ UNCHANGED <<engine, life, broker, saver, seen, dump, file, sent, promise>>

Disconnect(c) ==
  /\ client[c] # 0
  /\ client' = [client EXCEPT ![c] = 0]
  /\ UNCHANGED <<engine, life, broker, saver, seen, dump, file, sent, promise>>

\* The client sends m and is told that it was accepted.
Send(c, m) ==
  /\ client[c] # 0 /\ m \notin sent
  /\ broker' = [broker EXCEPT ![client[c]] = @ \cup {m}]
  /\ sent' = sent \cup {m}
  /\ UNCHANGED <<engine, life, client, saver, seen, dump, file, promise>>

\* The client receives m and completes it.
Take(c, m) ==
  /\ client[c] # 0 /\ m \in broker[client[c]]
  /\ broker' = [broker EXCEPT ![client[c]] = @ \ {m}]
  /\ UNCHANGED <<engine, life, client, saver, seen, dump, file, sent, promise>>

SaverStep(w) == (\E q \in Queues : Visit(w, q)) \/ Truncate(w) \/ Write(w)

Next ==
  \/ \E w \in Savers : SaverStep(w)
  \/ \E n \in Lives : Wake(n) \/ Cancel(n)
  \/ Start \/ Stop \/ Close \/ Crash
  \/ \E c \in Clients :
       \/ Connect(c) \/ Disconnect(c)
       \/ \E m \in Messages : Send(c, m) \/ Take(c, m)

\* tokio runs the savers (nothing else has to happen), and the autosave ticker fires every five seconds.
Spec ==
  /\ Init /\ [][Next]_elVars
  /\ \A w \in Savers : WF_elVars(SaverStep(w))
  /\ \A n \in Lives : WF_elVars(Wake(n))

-----------------------------------------------------------------------------
\* Types; and a saver that is not at work has collected nothing, since export
\* builds its dump anew, and stop() saves exactly while it holds the engine.
TypeOK ==
  /\ engine \in {"stopped", "running", "saving", "closing"}
  /\ life \in 0..MaxLives
  /\ broker \in [Lives -> Contents]
  /\ client \in [Clients -> 0..MaxLives]
  /\ saver \in [Savers -> Phases]
  /\ seen \in [Savers -> SUBSET Queues]
  /\ dump \in [Savers -> Contents]
  /\ file \in {Empty, Garbled} \cup {Whole(M) : M \in Contents}
  /\ sent \subseteq Messages
  /\ promise \in [kept : Contents, gone : Contents]
  /\ \A w \in Savers : saver[w] \in {"off", "asleep"} => seen[w] = {} /\ dump[w] = {}
  /\ engine = "saving" <=> saver[0] # "off"

\* A clean stop that no autosave is in the middle of leaves a file with every
\* message it found and that nobody has taken since, and none that had been taken
\* by then (stop in engine/src/lib.rs).
CalmStopSaves ==
  engine \in {"closing", "stopped"} /\ life > 0 =>
    /\ promise.kept \cap broker[life] \subseteq Loaded
    /\ Loaded \cap promise.gone = {}

\* The periodic flush: a message that stays in a running engine gets into the
\* data file ("so nothing is lost if the process exits abruptly", engine
\* lib.rs), also after an earlier save was cut short or overlapped another.
AutosaveCatchesUp ==
  \A n \in Lives, m \in Messages :
    LET waits == engine = "running" /\ life = n /\ m \in broker[n]
    IN waits ~> (~waits \/ m \in Loaded)
=============================================================================
