---------------------------- MODULE EntityState ----------------------------
(***************************************************************************)
(* One Service Bus queue or subscription: the state machine that           *)
(* actor/state.rs keeps behind an actor task.  The actor handles one       *)
(* command at a time, so each handler is one atomic action here.           *)
(*                                                                         *)
(* Buckets hold sequence numbers; msg[s] is the message with number s, or  *)
(* Gone once an operation has legitimately taken it out of the entity.     *)
(* Wall-clock instants are kept as the time left until them: 0 means the   *)
(* instant has passed, Never stands for None.                              *)
(*                                                                         *)
(* A definition Foo_Mistake that precedes Foo is Foo with a mistake a      *)
(* programmer could make; README.md names the property that notices it.    *)
(***************************************************************************)
EXTENDS Buckets

CONSTANTS
  Sessions,                \* session ids that messages and receivers use
  BlankSessions,           \* those of them that are empty or all spaces
  NoSession,               \* session_id = None
  Gone,                    \* marks the number of a message that left
  NoToken,                 \* lock_token = None
  RequiresSession,         \* options.requires_session
  MaxDeliveryCount,        \* options.max_delivery_count
  LockDuration,            \* options.lock_duration
  DefaultTTL,              \* options.default_ttl (Never for None)
  DeadLetterOnExpiration,  \* options.dead_letter_on_expiration
  Delays,                  \* times to scheduled_enqueue_time a sender may ask for
  TimesToLive,             \* effective times to live of sent messages
  MaxSequence,             \* bound: messages ever numbered
  DeliveryCap              \* bound: deliveries of one message

Never == -1

VARIABLES
  nextSequence,    \* next_sequence
  msg,             \* the messages, by sequence number
  active,          \* VecDeque: sequence of numbers, front first
  scheduled,       \* Vec
  deferred,        \* HashMap keyed by number
  deadLetter,      \* VecDeque
  locks,           \* lock token -> LockEntry
  lockedMessages,  \* HashMap keyed by number: out on a peek-lock
  lockedSessions   \* session ids held by session receivers

vars == <<nextSequence, msg, active, scheduled, deferred, deadLetter, locks,
          lockedMessages, lockedSessions>>

Modes  == {"PeekLock", "ReceiveAndDelete"}
States == {"Active", "Scheduled", "Deferred", "DeadLettered"}
Timer  == Nat \cup {Never}
\* A Uuid is fresh; so is the pair of a message and its delivery count, which
\* only grows: the n-th delivery of message s carries token <<s, n>>.
Token  == Nat \X Nat

Message == [session_id : Sessions \cup {NoSession},
            scheduled_enqueue_time : Timer,
            expires_at : Timer,
            delivery_count : Nat,
            state : States,
            lock_token : Token \cup {NoToken},
            locked_until : Timer]

LockEntry == [sequence_number : Nat, locked_until : Timer]

ASSUME EntityAssumption ==
  /\ NoSession \notin Sessions
  /\ BlankSessions \subseteq Sessions
  /\ Gone \notin Message
  /\ NoToken \notin Token
  /\ RequiresSession \in BOOLEAN
  /\ DeadLetterOnExpiration \in BOOLEAN
  /\ MaxDeliveryCount \in Nat
  /\ LockDuration \in Nat
  /\ DefaultTTL \in Nat \cup {Never}
  /\ Delays \subseteq Nat \cup {Never}
  /\ TimesToLive \subseteq Nat \cup {Never}
  /\ MaxSequence \in Nat
  /\ DeliveryCap \in Nat

-----------------------------------------------------------------------------
\* Leaves the lock token on the message.
Unlocked_Mistake(m, st) == [m EXCEPT !.locked_until = Never, !.state = st]
Unlocked(m, st) == [m EXCEPT !.lock_token = NoToken,
                             !.locked_until = Never,
                             !.state = st]

\* The messages some bucket holds.
Held == Range(active) \cup Range(scheduled) \cup deferred \cup Range(deadLetter)
          \cup lockedMessages

-----------------------------------------------------------------------------
Init ==
  /\ nextSequence = 1
  /\ msg = <<>>
  /\ active = <<>>
  /\ scheduled = <<>>
  /\ deferred = {}
  /\ deadLetter = <<>>
  /\ locks = <<>>
  /\ lockedMessages = {}
  /\ lockedSessions = {}

\* Forgets the SessionRequired check.
Accepts_Mistake(session) == TRUE

\* enqueue: the SessionRequired check.
Accepts(session) == RequiresSession => session \notin BlankSessions \cup {NoSession}

\* enqueue past its check, on the messages m (those left after a resubmit has
\* removed one).
Enqueue(m, session, delay, ttl) ==
  LET s == nextSequence
      later == delay > 0
  IN /\ s <= MaxSequence
     /\ nextSequence' = s + 1
     /\ msg' = Append(m, [session_id |-> session,
                          scheduled_enqueue_time |-> delay,
                          expires_at |-> ttl,
                          delivery_count |-> 0,
                          state |-> IF later THEN "Scheduled" ELSE "Active",
                          lock_token |-> NoToken,
                          locked_until |-> Never])
     /\ scheduled' = IF later THEN Append(scheduled, s) ELSE scheduled
     /\ active' = IF later THEN active ELSE Append(active, s)

\* Command::Send.  A rejected send changes nothing.
Send(session, delay, ttl) ==
  /\ Accepts(session)
  /\ Enqueue(msg, session, delay, ttl)
  /\ UNCHANGED <<deferred, deadLetter, locks, lockedMessages, lockedSessions>>

\* finish_receive, for message s already taken out of active.
FinishReceive(s, mode) ==
  LET n == msg[s].delivery_count + 1
      token == <<s, n>>
  IN /\ n <= DeliveryCap
     /\ \/ /\ mode = "ReceiveAndDelete"
           /\ msg' = [msg EXCEPT ![s] = Gone]
           /\ UNCHANGED <<locks, lockedMessages>>
        \/ /\ mode = "PeekLock"
           /\ msg' = [msg EXCEPT ![s] = [@ EXCEPT !.delivery_count = n,
                                                  !.lock_token = token,
                                                  !.locked_until = LockDuration]]
           /\ locks' = With(locks, token, [sequence_number |-> s,
                                           locked_until |-> LockDuration])
           /\ lockedMessages' = lockedMessages \cup {s}

\* Hands out the front message without popping it.
TryReceive_Mistake(mode) ==
  /\ active # <<>>
  /\ FinishReceive(Head(active), mode)
  /\ UNCHANGED <<nextSequence, active, scheduled, deferred, deadLetter, lockedSessions>>

TryReceive(mode) ==
  /\ active # <<>>
  /\ active' = Tail(active)
  /\ FinishReceive(Head(active), mode)
  /\ UNCHANGED <<nextSequence, scheduled, deferred, deadLetter, lockedSessions>>

\* The first of the places I of active, as position and find pick it.
First(I) == {i \in I : \A j \in I : i <= j}

TryReceiveSession(id, mode) ==
  \E i \in First({k \in DOMAIN active : msg[active[k]].session_id = id}) :
    /\ active' = RemoveAt(active, i)
    /\ FinishReceive(active[i], mode)
    /\ UNCHANGED <<nextSequence, scheduled, deferred, deadLetter, lockedSessions>>

\* accept_session(Some(id))
AcceptSession(id) ==
  /\ id \notin lockedSessions
  /\ lockedSessions' = lockedSessions \cup {id}
  /\ UNCHANGED <<nextSequence, msg, active, scheduled, deferred, deadLetter,
                 locks, lockedMessages>>

\* Takes a message without a session for one of a session.
AcceptNextSession_Mistake ==
  \E i \in First({k \in DOMAIN active : msg[active[k]].session_id \notin lockedSessions}) :
    AcceptSession(msg[active[i]].session_id)

\* accept_session(None): the first active message of a session nobody holds.
AcceptNextSession ==
  \E i \in First({k \in DOMAIN active :
                   msg[active[k]].session_id \notin lockedSessions \cup {NoSession}}) :
    AcceptSession(msg[active[i]].session_id)

ReleaseSession(id) ==
  /\ id \in lockedSessions
  /\ lockedSessions' = lockedSessions \ {id}
  /\ UNCHANGED <<nextSequence, msg, active, scheduled, deferred, deadLetter,
                 locks, lockedMessages>>

-----------------------------------------------------------------------------
(***************************************************************************)
(* Settling a peek-lock.  A token that is not in locks is refused with     *)
(* LockLost and changes nothing, so each action starts from a known token. *)
(***************************************************************************)
\* Forgets to take the message out of locked_messages.
TakeLocked_Mistake(t) ==
  /\ t \in DOMAIN locks
  /\ locks' = Drop(locks, {t})
  /\ UNCHANGED <<nextSequence, scheduled, lockedMessages, lockedSessions>>

TakeLocked(t) ==
  /\ t \in DOMAIN locks
  /\ locks' = Drop(locks, {t})
  /\ lockedMessages' = lockedMessages \ {locks[t].sequence_number}
  /\ UNCHANGED <<nextSequence, scheduled, lockedSessions>>

\* The message the lock entry names, if locked_messages still has it.
Holds(t) == locks[t].sequence_number \in lockedMessages

Resettle(t, m) ==
  msg' = IF Holds(t) THEN [msg EXCEPT ![locks[t].sequence_number] = m] ELSE msg

Complete(t) ==
  /\ TakeLocked(t)
  /\ Resettle(t, Gone)
  /\ UNCHANGED <<active, deferred, deadLetter>>

Abandon(t) ==
  LET s == locks[t].sequence_number
  IN /\ TakeLocked(t)
     /\ Resettle(t, Unlocked(msg[s], "Active"))
     /\ active' = IF Holds(t) THEN <<s>> \o active ELSE active
     /\ UNCHANGED <<deferred, deadLetter>>

DeadLetter(t) ==
  LET s == locks[t].sequence_number
  IN /\ TakeLocked(t)
     /\ Resettle(t, Unlocked(msg[s], "DeadLettered"))
     /\ deadLetter' = IF Holds(t) THEN Append(deadLetter, s) ELSE deadLetter
     /\ UNCHANGED <<active, deferred>>

Defer(t) ==
  LET s == locks[t].sequence_number
  IN /\ TakeLocked(t)
     /\ Resettle(t, Unlocked(msg[s], "Deferred"))
     /\ deferred' = IF Holds(t) THEN deferred \cup {s} ELSE deferred
     /\ UNCHANGED <<active, deadLetter>>

RenewLock(t) ==
  /\ t \in DOMAIN locks
  /\ locks' = [locks EXCEPT ![t].locked_until = LockDuration]
  /\ Resettle(t, [msg[locks[t].sequence_number] EXCEPT !.locked_until = LockDuration])
  /\ UNCHANGED <<nextSequence, active, scheduled, deferred, deadLetter,
                 lockedMessages, lockedSessions>>

-----------------------------------------------------------------------------
(***************************************************************************)
(* tick: promote due scheduled messages to the back of active, then take   *)
(* back expired locks (a HashMap gives them in any order), then drop or    *)
(* dead-letter the active messages whose time to live is over.             *)
(***************************************************************************)
\* Promotes only what has no time at all.
DueScheduled_Mistake == {s \in Range(scheduled) : msg[s].scheduled_enqueue_time = Never}
\* Looks at the locks only when nothing else waits.
ExpiredTokens_Mistake ==
  {t \in DOMAIN locks : locks[t].locked_until = 0 /\ active = <<>>}

DueScheduled  == {s \in Range(scheduled) : msg[s].scheduled_enqueue_time <= 0}
ExpiredTokens == {t \in DOMAIN locks : locks[t].locked_until = 0}
TakenBack     == {locks[t].sequence_number : t \in ExpiredTokens} \cap lockedMessages
\* Buries a message only on the exact count.
Exhausted_Mistake == {s \in TakenBack : msg[s].delivery_count + 1 = MaxDeliveryCount}
Exhausted     == {s \in TakenBack : msg[s].delivery_count + 1 >= MaxDeliveryCount}

\* Leaves the state of a promoted message alone.
Promoted_Mistake(m) == m
Promoted(m) == [m EXCEPT !.state = "Active"]

\* A message after the first two phases of tick.
AfterLocks(s) ==
  IF s \in TakenBack
  THEN [Unlocked(msg[s], IF s \in Exhausted THEN "DeadLettered" ELSE "Active")
          EXCEPT !.delivery_count = @ + 1]
  ELSE IF s \in DueScheduled THEN Promoted(msg[s]) ELSE msg[s]

\* ... and after the third, for a message found expired in active.
AfterExpiry(s) ==
  IF DeadLetterOnExpiration
  THEN [AfterLocks(s) EXCEPT !.state = "DeadLettered"]
  ELSE Gone

Tick ==
  \E returned \in SetToSeqs(TakenBack \ Exhausted),
     exhausted \in SetToSeqs(Exhausted) :
    LET queue   == returned \o active \o Keep(scheduled, DueScheduled)
        expired == {s \in Range(queue) : msg[s].expires_at = 0}
    IN /\ active' = Keep(queue, Range(queue) \ expired)
       /\ scheduled' = Keep(scheduled, Range(scheduled) \ DueScheduled)
       /\ deadLetter' = deadLetter \o exhausted
                          \o (IF DeadLetterOnExpiration THEN Keep(queue, expired)
                                                        ELSE <<>>)
       /\ locks' = Drop(locks, ExpiredTokens)
       /\ lockedMessages' = lockedMessages \ TakenBack
       /\ msg' = [s \in DOMAIN msg |-> IF s \in expired THEN AfterExpiry(s)
                                                        ELSE AfterLocks(s)]
       /\ UNCHANGED <<nextSequence, deferred, lockedSessions>>

-----------------------------------------------------------------------------
(***************************************************************************)
(* Management operations.                                                  *)
(***************************************************************************)
Purge ==
  /\ active' = <<>>
  /\ locks' = <<>>
  /\ lockedMessages' = {}
  /\ msg' = [s \in DOMAIN msg |->
               IF s \in Range(active) \cup lockedMessages THEN Gone ELSE msg[s]]
  /\ UNCHANGED <<nextSequence, scheduled, deferred, deadLetter, lockedSessions>>

\* delete_message: the first bucket, in this order, that holds s gives it up; a
\* locked message goes together with a lock that names it.
DeleteMessage(s) ==
  LET upTo1  == Range(active)
      upTo2  == upTo1 \cup Range(scheduled)
      upTo3  == upTo2 \cup deferred
      upTo4  == upTo3 \cup Range(deadLetter)
      naming == {t \in DOMAIN locks : locks[t].sequence_number = s}
  IN /\ s \in Held
     /\ active'     = Without(active, s)
     /\ scheduled'  = IF s \in upTo1 THEN scheduled ELSE Without(scheduled, s)
     /\ deferred'   = IF s \in upTo2 THEN deferred ELSE deferred \ {s}
     /\ deadLetter' = IF s \in upTo3 THEN deadLetter ELSE Without(deadLetter, s)
     /\ IF s \in upTo4 \/ naming = {}
        THEN locks' = locks
        ELSE \E t \in naming : locks' = Drop(locks, {t})
     /\ lockedMessages' = IF s \in upTo4 THEN lockedMessages ELSE lockedMessages \ {s}
     /\ msg' = [msg EXCEPT ![s] = Gone]
     /\ UNCHANGED <<nextSequence, lockedSessions>>

\* resubmit_dead_letter removes the message before enqueue may refuse it; a
\* refused one is in no bucket and was not meant to leave.
ResubmitDeadLetter(s) ==
  LET session == msg[s].session_id
  IN /\ \E i \in First({k \in DOMAIN deadLetter : deadLetter[k] = s}) :
          deadLetter' = RemoveAt(deadLetter, i)
     /\ IF Accepts(session)
        THEN Enqueue([msg EXCEPT ![s] = Gone], session, Never, DefaultTTL)
        ELSE UNCHANGED <<nextSequence, msg, active, scheduled>>
     /\ UNCHANGED <<deferred, locks, lockedMessages, lockedSessions>>

\* Forgets the locked messages; folds back the deferred ones too.
Exported_Mistake  == Range(active)
Exported_Mistake2 == Range(active) \cup lockedMessages \cup deferred
\* The messages a dump calls active.
Exported == Range(active) \cup lockedMessages

\* Sorts the wrong way round.
Sorted_Mistake(q) == \A i, j \in DOMAIN q : i < j => q[i] > q[j]
Sorted(q) == \A i, j \in DOMAIN q : i < j => q[i] < q[j]

\* export followed by restore into a fresh actor, as a stop and a start of the
\* engine do.
Restart ==
  /\ \E queue \in SetToSeqs(Exported) : Sorted(queue) /\ active' = queue
  /\ msg' = [s \in DOMAIN msg |->
               IF s \in lockedMessages THEN Unlocked(msg[s], "Active") ELSE msg[s]]
  /\ locks' = <<>>
  /\ lockedMessages' = {}
  /\ lockedSessions' = {}
  /\ UNCHANGED <<nextSequence, scheduled, deferred, deadLetter>>

-----------------------------------------------------------------------------
\* The clock advances by one unit: every instant still ahead comes closer.
Sooner(t) == IF t > 0 THEN t - 1 ELSE t

Elapse ==
  /\ msg' = [s \in DOMAIN msg |->
               IF msg[s] = Gone THEN Gone
               ELSE [msg[s] EXCEPT !.scheduled_enqueue_time = Sooner(@),
                                   !.expires_at = Sooner(@),
                                   !.locked_until = Sooner(@)]]
  /\ locks' = [t \in DOMAIN locks |->
                 [locks[t] EXCEPT !.locked_until = Sooner(@)]]
  /\ UNCHANGED <<nextSequence, active, scheduled, deferred, deadLetter,
                 lockedMessages, lockedSessions>>

Next ==
  \/ \E session \in Sessions \cup {NoSession}, delay \in Delays, ttl \in TimesToLive :
       Send(session, delay, ttl)
  \/ \E mode \in Modes : TryReceive(mode)
  \/ \E id \in Sessions, mode \in Modes : TryReceiveSession(id, mode)
  \/ \E id \in Sessions : AcceptSession(id) \/ ReleaseSession(id)
  \/ AcceptNextSession
  \/ \E t \in DOMAIN locks :
       Complete(t) \/ Abandon(t) \/ DeadLetter(t) \/ Defer(t) \/ RenewLock(t)
  \/ Tick
  \/ Purge
  \/ \E s \in DOMAIN msg : DeleteMessage(s) \/ ResubmitDeadLetter(s)
  \/ Restart
  \/ Elapse

Spec == Init /\ [][Next]_vars

-----------------------------------------------------------------------------
(***************************************************************************)
(* Properties                                                              *)
(***************************************************************************)
Numbers == DOMAIN msg

TypeOK ==
  /\ nextSequence \in Nat
  /\ msg \in Seq(Message \cup {Gone})
  /\ active \in Seq(Nat)
  /\ scheduled \in Seq(Nat)
  /\ deferred \subseteq Nat
  /\ deadLetter \in Seq(Nat)
  /\ DOMAIN locks \subseteq Token
  /\ locks \in [DOMAIN locks -> LockEntry]
  /\ lockedMessages \subseteq Nat
  /\ lockedSessions \subseteq Sessions

\* No message is in two buckets, or twice in one: a redelivered, deferred,
\* promoted or dead-lettered message has left the place it was in.
OnePlace ==
  /\ IsInjective(active) /\ IsInjective(scheduled) /\ IsInjective(deadLetter)
  /\ lockedMessages \cap (Range(active) \cup Range(scheduled) \cup deferred
                            \cup Range(deadLetter)) = {}
  /\ Range(active) \cap (Range(scheduled) \cup deferred \cup Range(deadLetter)) = {}
  /\ Range(scheduled) \cap (deferred \cup Range(deadLetter)) = {}
  /\ deferred \cap Range(deadLetter) = {}

\* Numbers are never reused, and a message is in some bucket until the moment an
\* operation that may remove it does: nothing is lost and nothing that left
\* comes back.
Accounted ==
  /\ nextSequence = Len(msg) + 1
  /\ Held \subseteq Numbers
  /\ \A s \in Numbers : msg[s] = Gone <=> s \notin Held

\* locks and locked_messages describe the same set of deliveries: every locked
\* message has exactly one live token, which is the one it shows to its
\* receiver, with the same expiry; and a message that is not out on a lock
\* shows none (model.rs: lock_token is "Present only while a PeekLock receiver
\* currently holds this message").
LocksMatch ==
  /\ \A t \in DOMAIN locks :
       LET s == locks[t].sequence_number
       IN /\ s \in lockedMessages
          /\ msg[s].lock_token = t
          /\ msg[s].locked_until = locks[t].locked_until
  /\ \A s \in lockedMessages :
       \E t \in DOMAIN locks : locks[t].sequence_number = s
  /\ \A s \in Held \ lockedMessages : msg[s].lock_token = NoToken

\* The state field of a message names the bucket that holds it; a message out on
\* a lock is still Active.
StateMatchesBucket ==
  \A s \in Held :
    msg[s].state = CASE s \in Range(scheduled)  -> "Scheduled"
                     [] s \in deferred          -> "Deferred"
                     [] s \in Range(deadLetter) -> "DeadLettered"
                     [] OTHER                   -> "Active"

\* Messages that were neither scheduled nor ever delivered wait in active in the
\* order they were sent, whatever was returned, promoted, purged or restored
\* around them.
Fresh(s) == msg[s].delivery_count = 0 /\ msg[s].scheduled_enqueue_time = Never
FreshInOrder ==
  \A i, j \in DOMAIN active :
    i < j /\ Fresh(active[i]) /\ Fresh(active[j]) => active[i] < active[j]

\* A session entity holds only messages of a named session, so a resubmitted dead
\* letter is never refused after it was taken out of its bucket.
SessionsCarried ==
  RequiresSession =>
    \A s \in Held : msg[s].session_id \notin BlankSessions \cup {NoSession}

\* A message out on a lock is handed to nobody else until that lock is given up
\* or taken back: while it stays locked, it stays with the same token.
OneHolder ==
  [][\A s \in lockedMessages \cap lockedMessages' :
       msg'[s].lock_token = msg[s].lock_token]_vars

\* No operation forgives a delivery, so a message that keeps failing gets closer
\* to max_delivery_count (and a lock token is never issued twice).
DeliveriesGrow ==
  [][\A s \in Held \cap Held' :
       msg'[s].delivery_count >= msg[s].delivery_count]_vars

\* The entity as MessageLifecycle sees it, read off the buckets.
PlaceOf(s) ==
  CASE s \in Range(active)     -> "Active"
    [] s \in Range(scheduled)  -> "Scheduled"
    [] s \in deferred          -> "Deferred"
    [] s \in Range(deadLetter) -> "DeadLettered"
    [] s \in lockedMessages    -> "Locked"
    [] OTHER -> IF s < nextSequence THEN "Gone" ELSE "Unsent"

Lifecycle == INSTANCE MessageLifecycle
               WITH place <- [s \in 1..MaxSequence |-> PlaceOf(s)]

\* Every operation of the entity moves messages only as MessageLifecycle allows.
LifecycleSpec == Lifecycle!Spec

-----------------------------------------------------------------------------
(***************************************************************************)
(* Liveness.  The actor's interval calls tick every 250 ms and the clock   *)
(* runs; nobody is obliged to receive, settle or administer.               *)
(***************************************************************************)
FairSpec == Spec /\ WF_vars(Tick) /\ WF_vars(Elapse)

\* A scheduled message does not stay scheduled.
ScheduledPromoted ==
  \A s \in 1..MaxSequence :
    s \in Range(scheduled) ~> s \notin Range(scheduled)

\* A receiver that went silent does not keep its message: only renewing the lock
\* for ever does.
LocksEnd ==
  \/ \A s \in 1..MaxSequence : s \in lockedMessages ~> s \notin lockedMessages
  \/ []<><<\E t \in DOMAIN locks : RenewLock(t)>>_vars
=============================================================================
