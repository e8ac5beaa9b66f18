---------------------------- MODULE EntityProofs ----------------------------
(***************************************************************************)
(* Proofs about one entity and the links on it, for any number of links,   *)
(* messages and sessions.  EntityState: where messages are, what locks     *)
(* them, in which order they wait, what no single step may do to one, and  *)
(* that all of it is a MessageLifecycle.  ReceiverLinks, which drives the  *)
(* entity only as EntityState allows, so that what is proved of the entity *)
(* holds with the links.  SessionLinks: who owns a session lock.           *)
(***************************************************************************)
EXTENDS ReceiverLinks, SessionLinks, BucketsProofs

\* A token names the message it was issued for, so a new token is not in locks.
TokensOwn == \A t \in DOMAIN locks : locks[t].sequence_number = t[1]

\* OnePlace, Accounted and LocksMatch need each other: a lock that outlived its
\* message would put a second copy of it, or one that has left, back in active.
\* SessionsCarried keeps a resubmitted dead letter from being refused, and lost.
Inv == TypeOK /\ OnePlace /\ Accounted /\ LocksMatch /\ TokensOwn /\ SessionsCarried

\* Every message in a bucket is a message, numbered below next_sequence.
LEMMA HeldMessages ==
  ASSUME Inv
  PROVE  /\ DOMAIN msg = 1..(nextSequence - 1)
         /\ \A s \in Held : s \in DOMAIN msg /\ msg[s] \in Message /\ msg[s] # Gone
         /\ \A s \in DOMAIN msg : msg[s] \in Message \cup {Gone}
         /\ nextSequence \in Nat \ {0}
         /\ nextSequence \notin Held
  <1>1. msg \in Seq(Message \cup {Gone}) /\ nextSequence = Len(msg) + 1
    BY DEF Inv, TypeOK, Accounted
  <1>2. DOMAIN msg = 1..Len(msg) /\ Len(msg) \in Nat
    BY <1>1
  <1>3. \A s \in DOMAIN msg : msg[s] \in Message \cup {Gone}
    BY <1>1
  <1>4. Held \subseteq DOMAIN msg /\ \A s \in DOMAIN msg : msg[s] = Gone <=> s \notin Held
    BY DEF Inv, Accounted, Numbers
  <1> QED BY <1>1, <1>2, <1>3, <1>4

LEMMA InitInv == Init => Inv
  <1> SUFFICES ASSUME Init PROVE Inv
    OBVIOUS
  <1>1. Range(<<>>) = {} /\ IsInjective(<<>>)
    BY DEF Range, IsInjective
  <1>2. TypeOK
    BY DEF Init, TypeOK
  <1>3. OnePlace
    BY <1>1 DEF Init, OnePlace
  <1>4. Accounted
    BY <1>1 DEF Init, Accounted, Numbers, Held
  <1>5. LocksMatch
    BY <1>1 DEF Init, LocksMatch, Held
  <1>6. TokensOwn
    BY DEF Init, TokensOwn
  <1>7. SessionsCarried
    BY <1>1 DEF Init, SessionsCarried, Held
  <1> QED BY <1>2, <1>3, <1>4, <1>5, <1>6, <1>7 DEF Inv

LEMMA SendInv ==
  ASSUME Inv, NEW session \in Sessions \cup {NoSession}, NEW delay \in Delays,
         NEW ttl \in TimesToLive, Send(session, delay, ttl)
  PROVE  Inv'
  <1> DEFINE s == nextSequence
             new == [session_id |-> session,
                     scheduled_enqueue_time |-> delay,
                     expires_at |-> ttl,
                     delivery_count |-> 0,
                     state |-> IF delay > 0 THEN "Scheduled" ELSE "Active",
                     lock_token |-> NoToken,
                     locked_until |-> Never]
  <1>0. USE EntityAssumption DEF Inv
  <1>1. s \in Nat /\ s \notin Held /\ DOMAIN msg = 1..(s - 1) /\ s \in Nat \ {0}
    BY HeldMessages
  <1>2. new \in Message
    BY DEF Message, Timer, States
  <1>3. /\ nextSequence' = s + 1 /\ msg' = Append(msg, new)
        /\ UNCHANGED <<deferred, deadLetter, locks, lockedMessages, lockedSessions>>
    BY DEF Send, Enqueue
  <1>4. \/ delay > 0 /\ scheduled' = Append(scheduled, s) /\ active' = active
        \/ ~(delay > 0) /\ active' = Append(active, s) /\ scheduled' = scheduled
    BY DEF Send, Enqueue
  <1>5. /\ active \in Seq(Nat) /\ scheduled \in Seq(Nat) /\ IsInjective(active)
        /\ IsInjective(scheduled) /\ s \notin Range(active) /\ s \notin Range(scheduled)
    BY <1>1 DEF TypeOK, OnePlace, Held
  <1>6. /\ active' \in Seq(Nat) /\ scheduled' \in Seq(Nat)
        /\ IsInjective(active') /\ IsInjective(scheduled')
        /\ \/ Range(active') = Range(active) \cup {s} /\ Range(scheduled') = Range(scheduled)
           \/ Range(active') = Range(active) /\ Range(scheduled') = Range(scheduled) \cup {s}
    <2>1. /\ Append(active, s) \in Seq(Nat) /\ IsInjective(Append(active, s))
          /\ Range(Append(active, s)) = Range(active) \cup {s}
      BY <1>1, <1>5, BucketPushBack
    <2>2. /\ Append(scheduled, s) \in Seq(Nat) /\ IsInjective(Append(scheduled, s))
          /\ Range(Append(scheduled, s)) = Range(scheduled) \cup {s}
      BY <1>1, <1>5, BucketPushBack
    <2> QED BY <1>4, <1>5, <2>1, <2>2
  <1>7. /\ msg' \in Seq(Message \cup {Gone}) /\ DOMAIN msg' = 1..s
        /\ msg'[s] = new
        /\ \A r \in 1..(s - 1) : msg'[r] = msg[r]
    BY <1>1, <1>2, <1>3 DEF TypeOK
  <1>8. Held' = Held \cup {s}
    BY <1>3, <1>6 DEF Held
  <1>9. TypeOK'
    BY <1>1, <1>3, <1>6, <1>7 DEF TypeOK
  <1>10. OnePlace'
    BY <1>1, <1>3, <1>6 DEF OnePlace, Held
  <1>11. Accounted'
    BY <1>1, <1>2, <1>3, <1>7, <1>8 DEF Accounted, Numbers, TypeOK
  <1>12. LocksMatch'
    BY <1>1, <1>3, <1>7, <1>8 DEF LocksMatch, Accounted, Numbers, Held
  <1>13. TokensOwn'
    BY <1>3 DEF TokensOwn
  <1>14. SessionsCarried'
    BY <1>1, <1>3, <1>7, <1>8
       DEF SessionsCarried, Accounted, Numbers, Send, Accepts
  <1> QED BY <1>9, <1>10, <1>11, <1>12, <1>13, <1>14

-----------------------------------------------------------------------------
\* What LocksMatch says of one lock.
LEMMA LockFacts ==
  ASSUME Inv, NEW t \in DOMAIN locks
  PROVE  /\ Holds(t) /\ locks[t].sequence_number \in DOMAIN msg
         /\ msg[locks[t].sequence_number] \in Message
         /\ locks[t].sequence_number \in Nat
         /\ t \in Token /\ locks[t] \in LockEntry
         /\ \A u \in DOMAIN locks :
              locks[u].sequence_number = locks[t].sequence_number => u = t
  <1>1. locks[t].sequence_number \in lockedMessages
    BY DEF Inv, LocksMatch
  <1>2. \A u \in DOMAIN locks : msg[locks[u].sequence_number].lock_token = u
    BY DEF Inv, LocksMatch
  <1> QED BY <1>1, <1>2, HeldMessages DEF Inv, TypeOK, Holds, Held

\* A set of held messages is a finite set of numbers.
LEMMA HeldFinite ==
  ASSUME Inv, NEW S \in SUBSET Held
  PROVE  S \in SUBSET Nat /\ IsFiniteSet(S)
  <1>1. S \in SUBSET (1..(nextSequence - 1)) /\ nextSequence \in Nat \ {0}
    BY HeldMessages
  <1>2. IsFiniteSet(1..(nextSequence - 1))
    BY <1>1, FS_Interval
  <1>3. S \in SUBSET (1..(nextSequence - 1))
    BY <1>1
  <1>4. IsFiniteSet(S)
    BY <1>2, <1>3, FS_Subset
  <1>5. S \in SUBSET Nat
    BY <1>1, <1>3
  <1> QED BY <1>4, <1>5

\* Handing out a message that has just been taken out of active.
LEMMA DeliverInv ==
  ASSUME Inv, NEW s \in Range(active), NEW mode \in Modes, FinishReceive(s, mode),
         active' \in Seq(Nat), IsInjective(active'),
         Range(active') = Range(active) \ {s},
         UNCHANGED <<nextSequence, scheduled, deferred, deadLetter, lockedSessions>>
  PROVE  Inv'
  <1> DEFINE n == msg[s].delivery_count + 1
             token == <<s, n>>
             out == [msg[s] EXCEPT !.delivery_count = n,
                                   !.lock_token = token,
                                   !.locked_until = LockDuration]
  <1>0. USE EntityAssumption
  <1>1. /\ TypeOK /\ OnePlace /\ Accounted /\ LocksMatch /\ TokensOwn /\ SessionsCarried
        /\ s \in Held /\ s \in DOMAIN msg /\ msg[s] \in Message /\ s \in Nat
        /\ DOMAIN msg = 1..(nextSequence - 1) /\ msg \in Seq(Message \cup {Gone})
    BY HeldMessages DEF Inv, Held, TypeOK
  <1>2. n \in Nat /\ token \in Token /\ out \in Message /\ out.lock_token = token
        /\ out.locked_until = LockDuration /\ out.session_id = msg[s].session_id
    <2>1. msg[s] \in Message /\ s \in Nat /\ LockDuration \in Nat
      BY <1>1
    <2>2. n \in Nat
      BY <2>1 DEF Message
    <2>3. token \in Token
      BY <2>1, <2>2 DEF Token
    <2> QED BY <2>1, <2>2, <2>3 DEF Message, Timer
  <1> HIDE DEF n, token, out
  <1>3. s \notin lockedMessages \cup Range(scheduled) \cup deferred \cup Range(deadLetter)
    BY <1>1 DEF OnePlace
  <1>4. \A t \in DOMAIN locks : locks[t].sequence_number # s /\ t # token
    <2>1. ASSUME NEW t \in DOMAIN locks PROVE locks[t].sequence_number # s
      BY <1>1, <1>3 DEF LocksMatch
    <2>2. ASSUME NEW t \in DOMAIN locks, t = token PROVE FALSE
      <3>1. t[1] = s
        BY <2>2 DEF token
      <3> QED BY <1>1, <2>1, <3>1 DEF TokensOwn
    <2> QED BY <2>1, <2>2
  <1>5. CASE mode = "ReceiveAndDelete"
    <2>1. msg' = [msg EXCEPT ![s] = Gone] /\ UNCHANGED <<locks, lockedMessages>>
      BY <1>5 DEF FinishReceive
    <2>2. /\ DOMAIN msg' = DOMAIN msg /\ msg'[s] = Gone
          /\ \A r \in DOMAIN msg : r # s => msg'[r] = msg[r]
          /\ msg' \in Seq(Message \cup {Gone}) /\ Len(msg') = Len(msg)
      <3>1. msg \in Seq(Message \cup {Gone}) /\ s \in DOMAIN msg
        BY <1>1
      <3> QED BY <2>1, <3>1, SlotUpdate
    <2>3. Held' = Held \ {s}
      BY <1>3, <2>1 DEF Held
    <2>4. TypeOK'
      BY <1>1, <2>1, <2>2 DEF TypeOK
    <2>5. OnePlace'
      BY <1>1, <2>1 DEF OnePlace
    <2>6. Accounted'
      BY <1>1, <2>2, <2>3 DEF Accounted, Numbers
    <2>7. LocksMatch' /\ TokensOwn'
      BY <1>1, <1>4, <2>1, <2>2, <2>3 DEF LocksMatch, TokensOwn, Accounted, Numbers, Held
    <2>8. SessionsCarried'
      BY <1>1, <2>2, <2>3 DEF SessionsCarried, Accounted, Numbers
    <2> QED BY <2>4, <2>5, <2>6, <2>7, <2>8 DEF Inv
  <1>6. CASE mode = "PeekLock"
    <2>1. /\ msg' = [msg EXCEPT ![s] = out]
          /\ locks' = With(locks, token, [sequence_number |-> s,
                                          locked_until |-> LockDuration])
          /\ lockedMessages' = lockedMessages \cup {s}
      BY <1>6 DEF FinishReceive, n, token, out
    <2>2. /\ DOMAIN msg' = DOMAIN msg /\ msg'[s] = out
          /\ \A r \in DOMAIN msg : r # s => msg'[r] = msg[r]
          /\ msg' \in Seq(Message \cup {Gone}) /\ Len(msg') = Len(msg)
      <3>1. msg \in Seq(Message \cup {Gone}) /\ s \in DOMAIN msg
        BY <1>1
      <3> QED BY <1>2, <2>1, <3>1, SlotUpdate
    <2>3. Held' = Held
      BY <1>3, <2>1 DEF Held
    <2>4. /\ DOMAIN locks' = DOMAIN locks \cup {token}
          /\ locks'[token] = [sequence_number |-> s, locked_until |-> LockDuration]
          /\ \A t \in DOMAIN locks : locks'[t] = locks[t]
          /\ locks' = [t \in DOMAIN locks' |-> locks'[t]]
      BY <1>4, <2>1 DEF With
    <2>5. TypeOK'
      <3>1. locks' \in [DOMAIN locks' -> LockEntry]
        <4>1. [sequence_number |-> s, locked_until |-> LockDuration] \in LockEntry
          BY <1>1 DEF LockEntry, Timer
        <4>2. \A t \in DOMAIN locks : locks[t] \in LockEntry
          BY <1>1 DEF TypeOK
        <4>3. \A t \in DOMAIN locks' : locks'[t] \in LockEntry
          BY <2>4, <4>1, <4>2
        <4> QED BY <2>4, <4>3
      <3> QED BY <1>1, <1>2, <2>1, <2>2, <2>4, <3>1 DEF TypeOK
    <2>6. OnePlace'
      BY <1>1, <1>3, <2>1 DEF OnePlace
    <2>7. Accounted'
      BY <1>1, <1>2, <2>2, <2>3 DEF Accounted, Numbers
    <2>8. LocksMatch'
      <3>1. ASSUME NEW t \in DOMAIN locks'
            PROVE  /\ locks'[t].sequence_number \in lockedMessages'
                   /\ msg'[locks'[t].sequence_number].lock_token = t
                   /\ msg'[locks'[t].sequence_number].locked_until = locks'[t].locked_until
        <4>1. CASE t = token
          <5>1. locks'[t].sequence_number = s /\ locks'[t].locked_until = LockDuration
            BY <2>4, <4>1
          <5> QED BY <1>2, <2>1, <2>2, <4>1, <5>1
        <4>2. CASE t \in DOMAIN locks
          <5> DEFINE r == locks[t].sequence_number
          <5>1. r \in lockedMessages /\ msg[r].lock_token = t
                /\ msg[r].locked_until = locks[t].locked_until
            BY <1>1, <4>2 DEF LocksMatch
          <5>2. locks'[t] = locks[t] /\ r # s /\ r \in DOMAIN msg
            BY <1>1, <1>4, <2>4, <4>2, <5>1 DEF Accounted, Numbers, Held
          <5>3. msg'[r] = msg[r]
            BY <2>2, <5>2
          <5> QED BY <2>1, <5>1, <5>2, <5>3
        <4> QED BY <2>4, <4>1, <4>2
      <3>2. ASSUME NEW r \in lockedMessages'
            PROVE  \E t \in DOMAIN locks' : locks'[t].sequence_number = r
        <4>1. CASE r = s
          BY <2>4, <4>1
        <4>2. CASE r \in lockedMessages
          <5>1. PICK t \in DOMAIN locks : locks[t].sequence_number = r
            BY <1>1, <4>2 DEF LocksMatch
          <5>2. t \in DOMAIN locks' /\ locks'[t] = locks[t]
            BY <2>4
          <5> QED BY <5>1, <5>2
        <4> QED BY <2>1, <4>1, <4>2
      <3>3. ASSUME NEW r \in Held' \ lockedMessages' PROVE msg'[r].lock_token = NoToken
        BY <1>1, <2>1, <2>2, <2>3 DEF LocksMatch, Accounted, Numbers
      <3> QED BY <3>1, <3>2, <3>3 DEF LocksMatch
    <2>9. TokensOwn'
      <3>1. ASSUME NEW t \in DOMAIN locks' PROVE locks'[t].sequence_number = t[1]
        <4>1. CASE t = token
          <5>1. locks'[t].sequence_number = s
            BY <2>4, <4>1
          <5>2. t[1] = s
            BY <4>1 DEF token
          <5> QED BY <5>1, <5>2
        <4>2. CASE t \in DOMAIN locks
          BY <1>1, <2>4, <4>2 DEF TokensOwn
        <4> QED BY <2>4, <4>1, <4>2
      <3> QED BY <3>1 DEF TokensOwn
    <2>10. SessionsCarried'
      BY <1>1, <1>2, <2>2, <2>3 DEF SessionsCarried, Accounted, Numbers
    <2> QED BY <2>5, <2>6, <2>7, <2>8, <2>9, <2>10 DEF Inv
  <1> QED BY <1>5, <1>6 DEF Modes

LEMMA TryReceiveInv ==
  ASSUME Inv, NEW mode \in Modes, TryReceive(mode)
  PROVE  Inv'
  <1>1. active \in Seq(Nat) /\ active # <<>> /\ IsInjective(active)
    BY DEF Inv, TypeOK, OnePlace, TryReceive
  <1>2. /\ Head(active) \in Range(active) /\ Tail(active) \in Seq(Nat)
        /\ IsInjective(Tail(active)) /\ Range(Tail(active)) = Range(active) \ {Head(active)}
    BY <1>1, BucketPopFront
  <1> QED BY <1>2, DeliverInv DEF TryReceive

LEMMA TryReceiveSessionInv ==
  ASSUME Inv, NEW id \in Sessions, NEW mode \in Modes, TryReceiveSession(id, mode)
  PROVE  Inv'
  <1>1. active \in Seq(Nat) /\ IsInjective(active)
    BY DEF Inv, TypeOK, OnePlace
  <1>2. PICK i \in DOMAIN active :
          /\ active' = RemoveAt(active, i)
          /\ FinishReceive(active[i], mode)
          /\ UNCHANGED <<nextSequence, scheduled, deferred, deadLetter, lockedSessions>>
    BY DEF TryReceiveSession, First
  <1>3. /\ RemoveAt(active, i) \in Seq(Nat) /\ IsInjective(RemoveAt(active, i))
        /\ Range(RemoveAt(active, i)) = Range(active) \ {active[i]}
    BY <1>1, BucketRemoveAt
  <1>4. active[i] \in Range(active)
    BY DEF Range
  <1> QED BY <1>2, <1>3, <1>4, DeliverInv

-----------------------------------------------------------------------------
\* The lock of one message ends: the message leaves (m = Gone) or moves, without
\* its token, to one of the buckets.
LEMMA SettleInv ==
  ASSUME Inv, NEW t \in DOMAIN locks, TakeLocked(t), NEW m \in Message \cup {Gone},
         NEW s, s = locks[t].sequence_number, msg' = [msg EXCEPT ![s] = m],
         active' \in Seq(Nat), IsInjective(active'),
         deadLetter' \in Seq(Nat), IsInjective(deadLetter'), deferred' \subseteq Nat,
         \/ /\ m = Gone
            /\ Range(active') = Range(active)
            /\ Range(deadLetter') = Range(deadLetter)
            /\ deferred' = deferred
         \/ /\ m # Gone /\ m.lock_token = NoToken /\ m.session_id = msg[s].session_id
            /\ \/ /\ Range(active') = Range(active) \cup {s}
                  /\ Range(deadLetter') = Range(deadLetter)
                  /\ deferred' = deferred
               \/ /\ Range(active') = Range(active)
                  /\ Range(deadLetter') = Range(deadLetter) \cup {s}
                  /\ deferred' = deferred
               \/ /\ Range(active') = Range(active)
                  /\ Range(deadLetter') = Range(deadLetter)
                  /\ deferred' = deferred \cup {s}
  PROVE  Inv'
  <1>1. /\ TypeOK /\ OnePlace /\ Accounted /\ LocksMatch /\ TokensOwn /\ SessionsCarried
        /\ s \in DOMAIN msg /\ s \in lockedMessages /\ s \in Nat /\ msg[s] \in Message
    BY LockFacts DEF Inv, Holds
  <1>2. /\ DOMAIN locks' = DOMAIN locks \ {t}
        /\ \A u \in DOMAIN locks' : locks'[u] = locks[u]
        /\ locks' = [u \in DOMAIN locks' |-> locks'[u]]
        /\ lockedMessages' = lockedMessages \ {s}
        /\ UNCHANGED <<nextSequence, scheduled, lockedSessions>>
    BY DEF TakeLocked, Drop, Restrict
  <1>3. /\ DOMAIN msg' = DOMAIN msg /\ msg'[s] = m
        /\ \A r \in DOMAIN msg : r # s => msg'[r] = msg[r]
        /\ msg' \in Seq(Message \cup {Gone}) /\ Len(msg') = Len(msg)
    <2>1. msg \in Seq(Message \cup {Gone}) /\ s \in DOMAIN msg
      BY <1>1 DEF TypeOK
    <2> QED BY <2>1, SlotUpdate
  <1>4. s \notin Range(active) \cup Range(scheduled) \cup deferred \cup Range(deadLetter)
    BY <1>1 DEF OnePlace
  <1>5. Held' = IF m = Gone THEN Held \ {s} ELSE Held
    <2>1. CASE m = Gone
      BY <1>2, <1>4, <2>1 DEF Held
    <2>2. CASE m # Gone
      BY <1>1, <1>2, <2>2 DEF Held
    <2> QED BY <2>1, <2>2
  <1>6. \A u \in DOMAIN locks' : u \in DOMAIN locks /\ locks[u].sequence_number # s
    BY <1>2, LockFacts
  <1>7. TypeOK'
    <2>1. \A u \in DOMAIN locks' : locks'[u] \in LockEntry
      BY <1>1, <1>2 DEF TypeOK
    <2>2. locks' \in [DOMAIN locks' -> LockEntry] /\ DOMAIN locks' \subseteq Token
      BY <1>1, <1>2, <2>1 DEF TypeOK
    <2> QED BY <1>1, <1>2, <1>3, <2>2 DEF TypeOK
  <1>8. OnePlace'
    BY <1>1, <1>2, <1>4 DEF OnePlace
  <1>9. Accounted'
    <2>1. nextSequence' = Len(msg') + 1
      BY <1>1, <1>2, <1>3 DEF Accounted
    <2>2. Held \subseteq DOMAIN msg /\ \A r \in DOMAIN msg : msg[r] = Gone <=> r \notin Held
      BY <1>1 DEF Accounted, Numbers
    <2>3. s \in Held
      BY <1>1 DEF Held
    <2>4. Held' \subseteq DOMAIN msg'
      BY <1>3, <1>5, <2>2
    <2>5. ASSUME NEW r \in DOMAIN msg' PROVE msg'[r] = Gone <=> r \notin Held'
      BY <1>3, <1>5, <2>2, <2>3
    <2> QED BY <2>1, <2>4, <2>5 DEF Accounted, Numbers
  <1>10. LocksMatch'
    <2>1. ASSUME NEW u \in DOMAIN locks'
          PROVE  /\ locks'[u].sequence_number \in lockedMessages'
                 /\ msg'[locks'[u].sequence_number].lock_token = u
                 /\ msg'[locks'[u].sequence_number].locked_until = locks'[u].locked_until
      <3> DEFINE r == locks[u].sequence_number
      <3>1. /\ r \in lockedMessages /\ r # s /\ locks'[u] = locks[u]
            /\ msg[r].lock_token = u /\ msg[r].locked_until = locks[u].locked_until
        BY <1>1, <1>2, <1>6 DEF LocksMatch
      <3>2. msg'[r] = msg[r]
        BY <1>1, <1>3, <3>1 DEF Accounted, Numbers, Held
      <3> QED BY <1>2, <3>1, <3>2
    <2>2. ASSUME NEW r \in lockedMessages'
          PROVE  \E u \in DOMAIN locks' : locks'[u].sequence_number = r
      <3>1. PICK u \in DOMAIN locks : locks[u].sequence_number = r
        BY <1>1, <1>2 DEF LocksMatch
      <3>2. u # t
        BY <1>2, <3>1
      <3> QED BY <1>2, <3>1, <3>2
    <2>3. ASSUME NEW r \in Held' \ lockedMessages' PROVE msg'[r].lock_token = NoToken
      <3>1. CASE r = s
        BY <1>3, <1>5, <3>1
      <3>2. CASE r # s
        BY <1>1, <1>2, <1>3, <1>5, <3>2 DEF LocksMatch, Accounted, Numbers
      <3> QED BY <3>1, <3>2
    <2> QED BY <2>1, <2>2, <2>3 DEF LocksMatch
  <1>11. TokensOwn'
    BY <1>1, <1>2 DEF TokensOwn
  <1>12. SessionsCarried'
    <2>1. ASSUME RequiresSession, NEW r \in Held'
         PROVE msg'[r].session_id \notin BlankSessions \cup {NoSession}
      <3>1. CASE r = s
        BY <1>1, <1>3, <1>5, <2>1, <3>1 DEF SessionsCarried, Held
      <3>2. CASE r # s
        BY <1>1, <1>3, <1>5, <2>1, <3>2 DEF SessionsCarried, Accounted, Numbers
      <3> QED BY <3>1, <3>2
    <2> QED BY <2>1 DEF SessionsCarried
  <1> QED BY <1>7, <1>8, <1>9, <1>10, <1>11, <1>12 DEF Inv

\* What Unlocked returns.
LEMMA UnlockedFacts ==
  ASSUME NEW m \in Message, NEW st \in States
  PROVE  /\ Unlocked(m, st) \in Message /\ Unlocked(m, st) # Gone
         /\ Unlocked(m, st).lock_token = NoToken
         /\ Unlocked(m, st).session_id = m.session_id
  BY EntityAssumption DEF Unlocked, Message, Timer

LEMMA SettlingInv ==
  ASSUME Inv, NEW t \in DOMAIN locks,
         Complete(t) \/ Abandon(t) \/ DeadLetter(t) \/ Defer(t)
  PROVE  Inv'
  <1> DEFINE s == locks[t].sequence_number
  <1>1. /\ Holds(t) /\ s \in Nat /\ msg[s] \in Message
        /\ active \in Seq(Nat) /\ IsInjective(active) /\ s \notin Range(active)
        /\ deadLetter \in Seq(Nat) /\ IsInjective(deadLetter) /\ s \notin Range(deadLetter)
        /\ deferred \subseteq Nat
    BY LockFacts DEF Inv, TypeOK, OnePlace, Holds
  <1>2. CASE Complete(t)
    <2>1. /\ TakeLocked(t) /\ msg' = [msg EXCEPT ![s] = Gone]
          /\ active' = active /\ deadLetter' = deadLetter /\ deferred' = deferred
      BY <1>1, <1>2 DEF Complete, Resettle
    <2> HIDE DEF s
    <2> QED BY <1>1, <2>1, SettleInv DEF s
  <1>3. CASE Abandon(t)
    <2> DEFINE m == Unlocked(msg[s], "Active")
    <2>1. /\ TakeLocked(t) /\ msg' = [msg EXCEPT ![s] = m]
          /\ active' = <<s>> \o active /\ deadLetter' = deadLetter /\ deferred' = deferred
      BY <1>1, <1>3 DEF Abandon, Resettle
    <2>2. <<s>> \in Seq(Nat) /\ Range(<<s>>) = {s} /\ IsInjective(<<s>>)
      BY <1>1 DEF Range, IsInjective
    <2>3. /\ active' \in Seq(Nat) /\ IsInjective(active')
          /\ Range(active') = Range(active) \cup {s}
      <3> DEFINE front == <<s>>
      <3>1. /\ front \in Seq(Nat) /\ IsInjective(front) /\ Range(front) = {s}
            /\ Range(front) \cap Range(active) = {} /\ active' = front \o active
        BY <1>1, <2>1, <2>2
      <3> HIDE DEF front, s
      <3>2. /\ front \o active \in Seq(Nat) /\ IsInjective(front \o active)
            /\ Range(front \o active) = Range(front) \cup Range(active)
        BY <1>1, <3>1, BucketConcat
      <3> QED BY <3>1, <3>2
    <2>4. m \in Message /\ m # Gone /\ m.lock_token = NoToken /\ m.session_id = msg[s].session_id
      BY <1>1, UnlockedFacts DEF States
    <2> HIDE DEF s, m
    <2> QED BY <1>1, <2>1, <2>3, <2>4, SettleInv DEF s
  <1>4. CASE DeadLetter(t)
    <2> DEFINE m == Unlocked(msg[s], "DeadLettered")
    <2>1. /\ TakeLocked(t) /\ msg' = [msg EXCEPT ![s] = m]
          /\ deadLetter' = Append(deadLetter, s) /\ active' = active /\ deferred' = deferred
      BY <1>1, <1>4 DEF DeadLetter, Resettle
    <2>2. /\ deadLetter' \in Seq(Nat) /\ IsInjective(deadLetter')
          /\ Range(deadLetter') = Range(deadLetter) \cup {s}
      BY <1>1, <2>1, BucketPushBack
    <2>3. m \in Message /\ m # Gone /\ m.lock_token = NoToken /\ m.session_id = msg[s].session_id
      BY <1>1, UnlockedFacts DEF States
    <2> HIDE DEF s, m
    <2> QED BY <1>1, <2>1, <2>2, <2>3, SettleInv DEF s
  <1>5. CASE Defer(t)
    <2> DEFINE m == Unlocked(msg[s], "Deferred")
    <2>1. /\ TakeLocked(t) /\ msg' = [msg EXCEPT ![s] = m]
          /\ deferred' = deferred \cup {s} /\ active' = active /\ deadLetter' = deadLetter
      BY <1>1, <1>5 DEF Defer, Resettle
    <2>2. m \in Message /\ m # Gone /\ m.lock_token = NoToken /\ m.session_id = msg[s].session_id
      BY <1>1, UnlockedFacts DEF States
    <2> HIDE DEF s, m
    <2> QED BY <1>1, <2>1, <2>2, SettleInv DEF s
  <1> QED BY <1>2, <1>3, <1>4, <1>5

-----------------------------------------------------------------------------
LEMMA RenewLockInv ==
  ASSUME Inv, NEW t \in DOMAIN locks, RenewLock(t)
  PROVE  Inv'
  <1> DEFINE s == locks[t].sequence_number
             m == [msg[s] EXCEPT !.locked_until = LockDuration]
  <1>1. /\ TypeOK /\ OnePlace /\ Accounted /\ LocksMatch /\ TokensOwn /\ SessionsCarried
        /\ s \in DOMAIN msg /\ s \in lockedMessages /\ s \in Nat /\ msg[s] \in Message
        /\ Holds(t) /\ s \in Held /\ locks[t] \in LockEntry
    BY LockFacts DEF Inv, Holds, Held
  <1>2. /\ msg' = [msg EXCEPT ![s] = m]
        /\ UNCHANGED <<nextSequence, active, scheduled, deferred, deadLetter,
                       lockedMessages, lockedSessions>>
    BY <1>1 DEF RenewLock, Resettle
  <1>3. /\ DOMAIN locks' = DOMAIN locks
        /\ locks'[t].sequence_number = s /\ locks'[t].locked_until = LockDuration
        /\ locks'[t] \in LockEntry
        /\ \A u \in DOMAIN locks : u # t => locks'[u] = locks[u]
        /\ locks' = [u \in DOMAIN locks' |-> locks'[u]]
    BY <1>1, EntityAssumption DEF RenewLock, LockEntry, Timer, TypeOK
  <1>4. /\ m \in Message /\ m # Gone /\ m.lock_token = msg[s].lock_token
        /\ m.session_id = msg[s].session_id /\ m.locked_until = LockDuration
    BY <1>1, EntityAssumption DEF Message, Timer
  <1> HIDE DEF m
  <1>5. /\ DOMAIN msg' = DOMAIN msg /\ msg'[s] = m
        /\ \A r \in DOMAIN msg : r # s => msg'[r] = msg[r]
        /\ msg' \in Seq(Message \cup {Gone}) /\ Len(msg') = Len(msg)
    <2>1. msg \in Seq(Message \cup {Gone}) /\ s \in DOMAIN msg
      BY <1>1 DEF TypeOK
    <2> QED BY <1>2, <1>4, <2>1, SlotUpdate
  <1> HIDE DEF s
  <1>6. Held' = Held
    BY <1>2 DEF Held
  <1>7. TypeOK'
    <2>1. \A u \in DOMAIN locks' : locks'[u] \in LockEntry
      BY <1>1, <1>3 DEF TypeOK
    <2>2. locks' \in [DOMAIN locks' -> LockEntry] /\ DOMAIN locks' \subseteq Token
      BY <1>1, <1>3, <2>1 DEF TypeOK
    <2> QED BY <1>1, <1>2, <1>5, <2>2 DEF TypeOK
  <1>8. OnePlace'
    BY <1>1, <1>2 DEF OnePlace
  <1>9. Accounted'
    BY <1>1, <1>2, <1>4, <1>5, <1>6 DEF Accounted, Numbers
  <1>10. LocksMatch'
    <2>1. ASSUME NEW u \in DOMAIN locks'
          PROVE  /\ locks'[u].sequence_number \in lockedMessages'
                 /\ msg'[locks'[u].sequence_number].lock_token = u
                 /\ msg'[locks'[u].sequence_number].locked_until = locks'[u].locked_until
      <3> DEFINE r == locks[u].sequence_number
      <3>1. /\ r \in lockedMessages /\ r \in DOMAIN msg
            /\ msg[r].lock_token = u /\ msg[r].locked_until = locks[u].locked_until
        BY <1>1, <1>3 DEF LocksMatch, Accounted, Numbers, Held
      <3>2. CASE u = t
        BY <1>2, <1>3, <1>4, <1>5, <3>1, <3>2 DEF s
      <3>3. CASE u # t
        <4>1. r # s
          BY <1>3, <3>3, LockFacts DEF s
        <4> QED BY <1>2, <1>3, <1>5, <3>1, <3>3, <4>1
      <3> QED BY <3>2, <3>3
    <2>2. ASSUME NEW r \in lockedMessages'
          PROVE  \E u \in DOMAIN locks' : locks'[u].sequence_number = r
      <3>1. PICK u \in DOMAIN locks : locks[u].sequence_number = r
        BY <1>1, <1>2 DEF LocksMatch
      <3>2. locks'[u].sequence_number = r
        BY <1>3, <3>1 DEF s
      <3> QED BY <1>3, <3>2
    <2>3. ASSUME NEW r \in Held' \ lockedMessages' PROVE msg'[r].lock_token = NoToken
      BY <1>1, <1>2, <1>5, <1>6 DEF LocksMatch, Accounted, Numbers
    <2> QED BY <2>1, <2>2, <2>3 DEF LocksMatch
  <1>11. TokensOwn'
    BY <1>1, <1>3 DEF TokensOwn, s
  <1>12. SessionsCarried'
    BY <1>1, <1>4, <1>5, <1>6 DEF SessionsCarried, Accounted, Numbers
  <1> QED BY <1>7, <1>8, <1>9, <1>10, <1>11, <1>12 DEF Inv

\* Nothing but the sessions a receiver holds changes.
LEMMA SessionsInv ==
  ASSUME Inv, lockedSessions' \subseteq Sessions,
         UNCHANGED <<nextSequence, msg, active, scheduled, deferred, deadLetter,
                     locks, lockedMessages>>
  PROVE  Inv'
  <1>1. Held' = Held
    BY DEF Held
  <1>2. TypeOK' /\ OnePlace'
    BY DEF Inv, TypeOK, OnePlace
  <1>3. Accounted' /\ LocksMatch' /\ TokensOwn' /\ SessionsCarried'
    BY <1>1 DEF Inv, Accounted, Numbers, LocksMatch, TokensOwn, SessionsCarried
  <1> QED BY <1>2, <1>3 DEF Inv

LEMMA SessionActionsInv ==
  ASSUME Inv,
         \/ \E id \in Sessions : AcceptSession(id) \/ ReleaseSession(id)
         \/ AcceptNextSession
  PROVE  Inv'
  <1>0. lockedSessions \subseteq Sessions
    BY DEF Inv, TypeOK
  <1>1. ASSUME NEW id \in Sessions, AcceptSession(id) \/ ReleaseSession(id) PROVE Inv'
    BY <1>0, <1>1, SessionsInv DEF AcceptSession, ReleaseSession
  <1>2. ASSUME AcceptNextSession PROVE Inv'
    <2>1. PICK i \in DOMAIN active :
            /\ msg[active[i]].session_id \notin lockedSessions \cup {NoSession}
            /\ AcceptSession(msg[active[i]].session_id)
      BY <1>2 DEF AcceptNextSession, First
    <2>2. active[i] \in Held
      BY DEF Held, Range
    <2>3. msg[active[i]] \in Message
      BY <2>2, HeldMessages
    <2>4. msg[active[i]].session_id \in Sessions
      BY <2>1, <2>3 DEF Message
    <2> QED BY <1>1, <2>1, <2>4
  <1> QED BY <1>1, <1>2

-----------------------------------------------------------------------------
\* Operations that drop or move messages, and perhaps end locks, but issue none:
\* it is enough that the buckets stay apart and that each lock that remains still
\* finds its message untouched.
LEMMA RetainInv ==
  ASSUME Inv, nextSequence' = nextSequence, lockedSessions' \subseteq Sessions,
         active' \in Seq(Nat), scheduled' \in Seq(Nat), deadLetter' \in Seq(Nat),
         OnePlace', Held' \subseteq Held, lockedMessages' \subseteq lockedMessages,
         msg' = [r \in DOMAIN msg |-> msg'[r]],
         \A r \in Held' : msg'[r] \in Message /\ msg'[r].session_id = msg[r].session_id,
         \A r \in DOMAIN msg : r \notin Held' => msg'[r] = Gone,
         \A r \in Held' : r \notin lockedMessages' => msg'[r].lock_token = NoToken,
         DOMAIN locks' \subseteq DOMAIN locks,
         locks' = [u \in DOMAIN locks' |-> locks[u]],
         \A u \in DOMAIN locks' :
           /\ locks[u].sequence_number \in lockedMessages'
           /\ msg'[locks[u].sequence_number] = msg[locks[u].sequence_number],
         \A u \in DOMAIN locks :
           locks[u].sequence_number \in lockedMessages' => u \in DOMAIN locks'
  PROVE  Inv'
  <1>1. /\ TypeOK /\ Accounted /\ LocksMatch /\ TokensOwn /\ SessionsCarried
        /\ Gone \notin Message
    BY EntityAssumption DEF Inv
  <1>2. DOMAIN msg = 1..(nextSequence - 1) /\ nextSequence - 1 \in Nat
        /\ nextSequence = Len(msg) + 1 /\ Held \subseteq DOMAIN msg
    BY HeldMessages
       DEF Inv, Accounted, Numbers
  <1>3. \A r \in DOMAIN msg : msg'[r] \in Message \cup {Gone}
    OBVIOUS
  <1>4. msg' \in Seq(Message \cup {Gone}) /\ Len(msg') = nextSequence - 1
        /\ DOMAIN msg' = DOMAIN msg
    <2> DEFINE k == nextSequence - 1
    <2>1. msg' \in [1..k -> Message \cup {Gone}]
      BY <1>2, <1>3
    <2>2. k \in Nat
      BY <1>2
    <2> HIDE DEF k
    <2>3. msg' \in Seq(Message \cup {Gone}) /\ Len(msg') = k /\ DOMAIN msg' = 1..k
      BY <2>1, <2>2, SlotMap
    <2> QED BY <1>2, <2>3 DEF k
  <1>5. TypeOK'
    <2>1. \A u \in DOMAIN locks' : u \in Token /\ locks'[u] \in LockEntry
      BY <1>1 DEF TypeOK
    <2>2. locks' \in [DOMAIN locks' -> LockEntry] /\ DOMAIN locks' \subseteq Token
      BY <2>1
    <2>3. Held' \subseteq Nat /\ deferred' \subseteq Held' /\ lockedMessages' \subseteq Held'
      BY <1>2 DEF Held
    <2> QED BY <1>1, <1>4, <2>2, <2>3 DEF TypeOK
  <1>6. Accounted'
    <2>1. nextSequence' = Len(msg') + 1
      BY <1>2, <1>4
    <2>2. \A r \in Held' : msg'[r] # Gone
      BY <1>1
    <2> QED BY <1>2, <1>4, <2>1, <2>2 DEF Accounted, Numbers
  <1>7. LocksMatch'
    <2>1. ASSUME NEW u \in DOMAIN locks'
          PROVE  /\ locks'[u].sequence_number \in lockedMessages'
                 /\ msg'[locks'[u].sequence_number].lock_token = u
                 /\ msg'[locks'[u].sequence_number].locked_until = locks'[u].locked_until
      <3>1. locks'[u] = locks[u]
        OBVIOUS
      <3> QED BY <1>1, <3>1 DEF LocksMatch
    <2>2. ASSUME NEW r \in lockedMessages'
          PROVE  \E u \in DOMAIN locks' : locks'[u].sequence_number = r
      <3>1. PICK u \in DOMAIN locks : locks[u].sequence_number = r
        BY <1>1 DEF LocksMatch
      <3>2. u \in DOMAIN locks' /\ locks'[u] = locks[u]
        BY <3>1
      <3> QED BY <3>1, <3>2
    <2> QED BY <2>1, <2>2 DEF LocksMatch
  <1>8. TokensOwn'
    BY <1>1 DEF TokensOwn
  <1>9. SessionsCarried'
    BY <1>1 DEF SessionsCarried
  <1> QED BY <1>5, <1>6, <1>7, <1>8, <1>9 DEF Inv

LEMMA PurgeInv ==
  ASSUME Inv, Purge
  PROVE  Inv'
  <1>1. /\ TypeOK /\ OnePlace /\ Accounted /\ LocksMatch
        /\ active' = <<>> /\ locks' = <<>> /\ lockedMessages' = {}
        /\ UNCHANGED <<nextSequence, scheduled, deferred, deadLetter, lockedSessions>>
    BY DEF Purge, Inv
  <1>2. /\ msg' = [r \in DOMAIN msg |->
                     IF r \in Range(active) \cup lockedMessages THEN Gone ELSE msg[r]]
        /\ DOMAIN msg' = DOMAIN msg
    BY DEF Purge
  <1>3. Range(<<>>) = {} /\ IsInjective(<<>>) /\ <<>> \in Seq(Nat) /\ DOMAIN <<>> = {}
    BY DEF Range, IsInjective
  <1>4. Held' = Held \ (Range(active) \cup lockedMessages)
    BY <1>1, <1>3 DEF Held, OnePlace
  <1>5. OnePlace'
    BY <1>1, <1>3 DEF OnePlace
  <1>6. /\ \A r \in Held' : msg'[r] = msg[r] /\ msg[r] \in Message /\ r \in Held
                            /\ r \notin lockedMessages
        /\ \A r \in DOMAIN msg : r \notin Held' => msg'[r] = Gone
    <2>1. \A r \in Held : r \in DOMAIN msg /\ msg[r] \in Message
      BY HeldMessages
    <2>2. \A r \in DOMAIN msg : r \notin Held => msg[r] = Gone
      BY <1>1 DEF Accounted, Numbers
    <2> QED BY <1>2, <1>4, <2>1, <2>2
  <1>7. \A r \in Held' : msg'[r].lock_token = NoToken
    BY <1>1, <1>6 DEF LocksMatch
  <1>8. DOMAIN locks' = {} /\ locks' = [u \in DOMAIN locks' |-> locks[u]]
    BY <1>1, <1>3
  <1>9. msg' = [r \in DOMAIN msg |-> msg'[r]]
    BY <1>2
  <1>10. /\ active' \in Seq(Nat) /\ scheduled' \in Seq(Nat) /\ deadLetter' \in Seq(Nat)
         /\ lockedSessions' \subseteq Sessions
    BY <1>1, <1>3 DEF TypeOK
  <1> QED BY <1>1, <1>4, <1>5, <1>6, <1>7, <1>8, <1>9, <1>10, RetainInv

\* delete_message takes s out of its bucket and leaves the others in order.
LEMMA DeleteBuckets ==
  ASSUME Inv, NEW s \in DOMAIN msg, DeleteMessage(s)
  PROVE  /\ active' \in Seq(Nat) /\ IsInjective(active') /\ Range(active') = Range(active) \ {s}
         /\ scheduled' \in Seq(Nat) /\ IsInjective(scheduled')
         /\ Range(scheduled') = Range(scheduled) \ {s}
         /\ deadLetter' \in Seq(Nat) /\ IsInjective(deadLetter')
         /\ Range(deadLetter') = Range(deadLetter) \ {s}
         /\ deferred' = deferred \ {s} /\ lockedMessages' = lockedMessages \ {s}
         /\ \A x, y : Before(active', x, y) => Before(active, x, y)
  <1>1. TypeOK /\ OnePlace /\ s \in Held
    BY DEF DeleteMessage, Inv
  <1>2. /\ active' \in Seq(Nat) /\ IsInjective(active') /\ Range(active') = Range(active) \ {s}
    <2>1. active \in Seq(Nat) /\ IsInjective(active) /\ active' = Keep(active, Range(active) \ {s})
      BY <1>1 DEF DeleteMessage, Without, TypeOK, OnePlace
    <2> QED BY <2>1, BucketKeep
  <1>3. /\ scheduled' \in Seq(Nat) /\ IsInjective(scheduled')
        /\ Range(scheduled') = Range(scheduled) \ {s}
    <2>1. /\ scheduled \in Seq(Nat) /\ IsInjective(scheduled)
          /\ \/ scheduled' = scheduled /\ s \notin Range(scheduled)
             \/ scheduled' = Keep(scheduled, Range(scheduled) \ {s})
      BY <1>1 DEF DeleteMessage, Without, TypeOK, OnePlace
    <2>2. scheduled' = Keep(scheduled, Range(scheduled) \ {s}) =>
             /\ scheduled' \in Seq(Nat) /\ IsInjective(scheduled')
             /\ Range(scheduled') = Range(scheduled) \ {s}
      BY <2>1, BucketKeep
    <2> QED BY <2>1, <2>2
  <1>4. /\ deadLetter' \in Seq(Nat) /\ IsInjective(deadLetter')
        /\ Range(deadLetter') = Range(deadLetter) \ {s}
    <2>1. /\ deadLetter \in Seq(Nat) /\ IsInjective(deadLetter)
          /\ \/ deadLetter' = deadLetter /\ s \notin Range(deadLetter)
             \/ deadLetter' = Keep(deadLetter, Range(deadLetter) \ {s})
      BY <1>1 DEF DeleteMessage, Without, TypeOK, OnePlace
    <2>2. deadLetter' = Keep(deadLetter, Range(deadLetter) \ {s}) =>
             /\ deadLetter' \in Seq(Nat) /\ IsInjective(deadLetter')
             /\ Range(deadLetter') = Range(deadLetter) \ {s}
      BY <2>1, BucketKeep
    <2> QED BY <2>1, <2>2
  <1>5. deferred' = deferred \ {s} /\ lockedMessages' = lockedMessages \ {s}
    BY <1>1 DEF DeleteMessage, OnePlace
  <1>6. ASSUME NEW x, NEW y, Before(active', x, y) PROVE Before(active, x, y)
    <2> DEFINE rest == Range(active) \ {s}
    <2>1. active \in Seq(Nat) /\ Before(Keep(active, rest), x, y)
      BY <1>1, <1>6 DEF DeleteMessage, Without, TypeOK
    <2> HIDE DEF rest
    <2> QED BY <2>1, BeforeKeep
  <1> QED BY <1>2, <1>3, <1>4, <1>5, <1>6

LEMMA DeleteMessageInv ==
  ASSUME Inv, NEW s \in DOMAIN msg, DeleteMessage(s)
  PROVE  Inv'
  <1> DEFINE naming == {t \in DOMAIN locks : locks[t].sequence_number = s}
             bucketed == Range(active) \cup Range(scheduled) \cup deferred \cup Range(deadLetter)
  <1>1. /\ TypeOK /\ OnePlace /\ Accounted /\ LocksMatch /\ s \in Held
        /\ UNCHANGED <<nextSequence, lockedSessions>>
        /\ msg' = [msg EXCEPT ![s] = Gone]
    BY DEF DeleteMessage, Inv
  <1>2. /\ active' \in Seq(Nat) /\ IsInjective(active') /\ Range(active') = Range(active) \ {s}
        /\ scheduled' \in Seq(Nat) /\ IsInjective(scheduled')
        /\ Range(scheduled') = Range(scheduled) \ {s}
        /\ deadLetter' \in Seq(Nat) /\ IsInjective(deadLetter')
        /\ Range(deadLetter') = Range(deadLetter) \ {s}
    BY DeleteBuckets
  <1>3. deferred' = deferred \ {s} /\ lockedMessages' = lockedMessages \ {s}
    BY DeleteBuckets
  <1>4. OnePlace' /\ Held' = Held \ {s}
    BY <1>1, <1>2, <1>3 DEF OnePlace, Held
  <1>5. /\ DOMAIN msg' = DOMAIN msg /\ msg'[s] = Gone /\ msg' = [r \in DOMAIN msg |-> msg'[r]]
        /\ \A r \in DOMAIN msg : r # s => msg'[r] = msg[r]
    <2>1. msg = [r \in DOMAIN msg |-> msg[r]]
      BY <1>1 DEF TypeOK
    <2> QED BY <1>1, <2>1
  <1>6. /\ DOMAIN locks' = DOMAIN locks \ naming
        /\ locks' = [u \in DOMAIN locks' |-> locks[u]]
    <2>0. locks = [u \in DOMAIN locks |-> locks[u]]
      BY <1>1 DEF TypeOK
    <2>1. CASE s \in bucketed
      <3>1. s \notin lockedMessages
        BY <1>1, <2>1 DEF OnePlace
      <3>2. locks' = locks
        BY <2>1 DEF DeleteMessage
      <3>3. naming = {}
        BY <1>1, <3>1 DEF LocksMatch
      <3> QED BY <2>0, <3>2, <3>3
    <2>2. CASE s \notin bucketed
      <3>1. s \in lockedMessages
        BY <1>1, <2>2 DEF Held
      <3>2. PICK t \in naming : TRUE
        BY <1>1, <3>1 DEF LocksMatch
      <3>3. naming = {t}
        BY <3>2, LockFacts
      <3>4. \E u \in naming : locks' = Drop(locks, {u})
        BY <2>2, <3>2 DEF DeleteMessage
      <3>5. locks' = Drop(locks, naming)
        BY <3>3, <3>4
      <3> HIDE DEF naming
      <3> QED BY <3>5 DEF Drop, Restrict
    <2> QED BY <2>1, <2>2
  <1>7. \A r \in Held' : /\ msg'[r] = msg[r] /\ msg[r] \in Message
                         /\ r \notin lockedMessages' => msg'[r].lock_token = NoToken
    <2>1. \A r \in Held : r \in DOMAIN msg /\ msg[r] \in Message
      BY HeldMessages
    <2> QED BY <1>1, <1>3, <1>4, <1>5, <2>1 DEF LocksMatch
  <1>8. \A r \in DOMAIN msg : r \notin Held' => msg'[r] = Gone
    BY <1>1, <1>4, <1>5 DEF Accounted, Numbers
  <1>9. \A u \in DOMAIN locks' :
           /\ locks[u].sequence_number \in lockedMessages'
           /\ msg'[locks[u].sequence_number] = msg[locks[u].sequence_number]
    BY <1>1, <1>3, <1>5, <1>6, LockFacts DEF LocksMatch
  <1>10. \A u \in DOMAIN locks :
           locks[u].sequence_number \in lockedMessages' => u \in DOMAIN locks'
    BY <1>3, <1>6
  <1>11. lockedSessions' \subseteq Sessions /\ nextSequence' = nextSequence
         /\ Held' \subseteq Held /\ lockedMessages' \subseteq lockedMessages
         /\ DOMAIN locks' \subseteq DOMAIN locks
    BY <1>1, <1>3, <1>4, <1>6 DEF TypeOK
  <1> QED BY <1>2, <1>4, <1>5, <1>6, <1>7, <1>8, <1>9, <1>10, <1>11, RetainInv

LEMMA ResubmitDeadLetterInv ==
  ASSUME Inv, NEW s \in DOMAIN msg, ResubmitDeadLetter(s)
  PROVE  Inv'
  <1> DEFINE new == [session_id |-> msg[s].session_id,
                     scheduled_enqueue_time |-> Never,
                     expires_at |-> DefaultTTL,
                     delivery_count |-> 0,
                     state |-> "Active",
                     lock_token |-> NoToken,
                     locked_until |-> Never]
             left == [msg EXCEPT ![s] = Gone]
             n == nextSequence
  <1>1. /\ TypeOK /\ OnePlace /\ Accounted /\ LocksMatch /\ TokensOwn /\ SessionsCarried
        /\ n \in Nat \ {0} /\ n \notin Held /\ DOMAIN msg = 1..(n - 1)
        /\ UNCHANGED <<deferred, locks, lockedMessages, lockedSessions>>
    BY HeldMessages DEF Inv, ResubmitDeadLetter
  <1>2. PICK i \in DOMAIN deadLetter :
          deadLetter[i] = s /\ deadLetter' = RemoveAt(deadLetter, i)
    BY DEF ResubmitDeadLetter, First
  <1>3. /\ deadLetter' \in Seq(Nat) /\ IsInjective(deadLetter')
        /\ Range(deadLetter') = Range(deadLetter) \ {s}
    <2>1. deadLetter \in Seq(Nat) /\ IsInjective(deadLetter)
      BY <1>1 DEF TypeOK, OnePlace
    <2>2. /\ RemoveAt(deadLetter, i) \in Seq(Nat) /\ IsInjective(RemoveAt(deadLetter, i))
          /\ Range(RemoveAt(deadLetter, i)) = Range(deadLetter) \ {deadLetter[i]}
      BY <2>1, BucketRemoveAt
    <2> QED BY <1>2, <2>2
  <1>4. s \in Range(deadLetter)
    BY <1>2 DEF Range
  <1>5. /\ s \in Held /\ msg[s] \in Message
        /\ s \notin Range(active) \cup Range(scheduled) \cup deferred \cup lockedMessages
    BY <1>1, <1>4, HeldMessages DEF Held, OnePlace
  <1>6. Accepts(msg[s].session_id)
    BY <1>1, <1>5 DEF SessionsCarried, Accepts
  <1>7. /\ n' = n + 1 /\ msg' = Append(left, new)
        /\ active' = Append(active, n) /\ scheduled' = scheduled
    <2>1. ~(Never > 0)
      BY DEF Never
    <2> QED BY <1>6, <2>1 DEF ResubmitDeadLetter, Enqueue
  <1>8. new \in Message /\ new # Gone
    BY <1>5, EntityAssumption DEF Message, Timer, States
  <1>9. /\ left \in Seq(Message \cup {Gone}) /\ DOMAIN left = DOMAIN msg
        /\ Len(left) = Len(msg) /\ left[s] = Gone
        /\ \A r \in DOMAIN msg : r # s => left[r] = msg[r]
    <2>1. msg \in Seq(Message \cup {Gone}) /\ Gone \in Message \cup {Gone}
      BY <1>1 DEF TypeOK
    <2> QED BY <2>1, SlotUpdate
  <1> HIDE DEF left
  <1>10. /\ msg' \in Seq(Message \cup {Gone}) /\ DOMAIN msg' = 1..n
         /\ msg'[n] = new /\ msg'[s] = Gone /\ Len(msg') = n
         /\ \A r \in DOMAIN msg : r # s => msg'[r] = msg[r]
    <2>1. Len(left) = n - 1 /\ DOMAIN left = 1..(n - 1)
      BY <1>1, <1>9 DEF Accounted
    <2> HIDE DEF new
    <2>2. /\ Append(left, new) \in Seq(Message \cup {Gone})
          /\ Len(Append(left, new)) = (n - 1) + 1
          /\ Append(left, new)[n] = new
          /\ \A r \in 1..(n - 1) : Append(left, new)[r] = left[r]
      BY <1>1, <1>8, <1>9, <2>1
    <2> QED BY <1>1, <1>7, <1>9, <2>1, <2>2
  <1> HIDE DEF new
  <1>11. /\ active' \in Seq(Nat) /\ IsInjective(active') /\ Range(active') = Range(active) \cup {n}
    <2>1. active \in Seq(Nat) /\ IsInjective(active) /\ n \notin Range(active) /\ n \in Nat
      BY <1>1 DEF TypeOK, OnePlace, Held
    <2> QED BY <1>7, <2>1, BucketPushBack
  <1>12. Held' = (Held \ {s}) \cup {n}
    BY <1>1, <1>3, <1>5, <1>7, <1>11 DEF Held
  <1>13. new.lock_token = NoToken /\ new.session_id = msg[s].session_id
    BY DEF new
  <1>14. TypeOK'
    <2>1. n' \in Nat
      BY <1>1, <1>7
    <2>2. /\ scheduled' \in Seq(Nat) /\ deferred' \subseteq Nat
          /\ DOMAIN locks' \subseteq Token /\ locks' \in [DOMAIN locks' -> LockEntry]
          /\ lockedMessages' \subseteq Nat /\ lockedSessions' \subseteq Sessions
      BY <1>1, <1>7 DEF TypeOK
    <2> QED BY <1>3, <1>10, <1>11, <2>1, <2>2 DEF TypeOK
  <1>15. OnePlace'
    BY <1>1, <1>3, <1>7, <1>11 DEF OnePlace, Held
  <1>16. Accounted'
    <2>1. n' = Len(msg') + 1
      BY <1>7, <1>10
    <2>2. Held \subseteq DOMAIN msg /\ \A r \in DOMAIN msg : msg[r] = Gone <=> r \notin Held
      BY <1>1 DEF Accounted, Numbers
    <2>3. Held' \subseteq DOMAIN msg'
      BY <1>1, <1>10, <1>12, <2>2
    <2>4. ASSUME NEW r \in DOMAIN msg' PROVE msg'[r] = Gone <=> r \notin Held'
      <3>1. r = n \/ (r \in DOMAIN msg /\ r # n)
        BY <1>1, <1>10
      <3> QED BY <1>1, <1>8, <1>10, <1>12, <2>2, <3>1
    <2> QED BY <2>1, <2>3, <2>4 DEF Accounted, Numbers
  <1>17. \A r \in Held : r # s => r \in DOMAIN msg /\ r # n /\ msg'[r] = msg[r]
    BY <1>1, <1>10 DEF Accounted, Numbers
  <1>18. LocksMatch'
    <2>1. ASSUME NEW u \in DOMAIN locks
          PROVE  /\ locks[u].sequence_number \in lockedMessages
                 /\ msg'[locks[u].sequence_number].lock_token = u
                 /\ msg'[locks[u].sequence_number].locked_until = locks[u].locked_until
      <3> DEFINE r == locks[u].sequence_number
      <3>1. /\ r \in lockedMessages /\ msg[r].lock_token = u
            /\ msg[r].locked_until = locks[u].locked_until
        BY <1>1 DEF LocksMatch
      <3>2. msg'[r] = msg[r]
        BY <1>5, <1>17, <3>1 DEF Held
      <3> QED BY <3>1, <3>2
    <2>2. ASSUME NEW r \in Held' \ lockedMessages' PROVE msg'[r].lock_token = NoToken
      BY <1>1, <1>10, <1>12, <1>13, <1>17 DEF LocksMatch
    <2>3. \A r \in lockedMessages' : \E u \in DOMAIN locks' : locks'[u].sequence_number = r
      BY <1>1 DEF LocksMatch
    <2> QED BY <1>1, <2>1, <2>2, <2>3 DEF LocksMatch
  <1>19. TokensOwn'
    BY <1>1 DEF TokensOwn
  <1>20. SessionsCarried'
    BY <1>1, <1>5, <1>10, <1>12, <1>13, <1>17 DEF SessionsCarried
  <1> QED BY <1>14, <1>15, <1>16, <1>18, <1>19, <1>20 DEF Inv

LEMMA RestartInv ==
  ASSUME Inv, Restart
  PROVE  Inv'
  <1>1. /\ TypeOK /\ OnePlace /\ Accounted /\ LocksMatch
        /\ locks' = <<>> /\ lockedMessages' = {} /\ lockedSessions' = {}
        /\ UNCHANGED <<nextSequence, scheduled, deferred, deadLetter>>
    BY DEF Restart, Inv
  <1>2. /\ msg' = [r \in DOMAIN msg |->
                     IF r \in lockedMessages THEN Unlocked(msg[r], "Active") ELSE msg[r]]
        /\ DOMAIN msg' = DOMAIN msg /\ msg' = [r \in DOMAIN msg |-> msg'[r]]
    BY DEF Restart
  <1>3. active' \in SetToSeqs(Exported) /\ Exported \in SUBSET Held
    BY DEF Restart, Exported, Held
  <1>4. active' \in Seq(Nat) /\ Range(active') = Exported /\ IsInjective(active')
    <2>1. Exported \in SUBSET Nat /\ IsFiniteSet(Exported)
      BY <1>3, HeldFinite
    <2> QED BY <1>3, <2>1, BucketOrder
  <1>5. OnePlace' /\ Held' = Held
    BY <1>1, <1>4 DEF OnePlace, Held, Exported
  <1>6. \A r \in Held : r \in DOMAIN msg /\ msg[r] \in Message
    BY HeldMessages
  <1>7. \A r \in Held' : /\ msg'[r] \in Message /\ msg'[r].session_id = msg[r].session_id
                         /\ msg'[r].lock_token = NoToken
    <2> SUFFICES ASSUME NEW r \in Held
                 PROVE  /\ msg'[r] \in Message /\ msg'[r].session_id = msg[r].session_id
                        /\ msg'[r].lock_token = NoToken
      BY <1>5
    <2>1. r \in DOMAIN msg /\ msg[r] \in Message /\ "Active" \in States
      BY <1>6 DEF States
    <2>2. CASE r \in lockedMessages
      <3>1. msg'[r] = Unlocked(msg[r], "Active")
        BY <1>2, <2>1, <2>2
      <3> QED BY <2>1, <3>1, UnlockedFacts
    <2>3. CASE r \notin lockedMessages
      BY <1>1, <1>2, <2>1, <2>3 DEF LocksMatch
    <2> QED BY <2>2, <2>3
  <1>8. \A r \in DOMAIN msg : r \notin Held' => msg'[r] = Gone
    BY <1>1, <1>2, <1>5 DEF Accounted, Numbers, Held
  <1>9. /\ DOMAIN locks' = {} /\ locks' = [u \in DOMAIN locks' |-> locks[u]]
    <2>1. DOMAIN <<>> = {}
      OBVIOUS
    <2> QED BY <1>1, <2>1
  <1>10. scheduled' \in Seq(Nat) /\ deadLetter' \in Seq(Nat) /\ lockedSessions' \subseteq Sessions
         /\ Held' \subseteq Held
    BY <1>1, <1>5 DEF TypeOK
  <1> QED BY <1>1, <1>2, <1>4, <1>5, <1>7, <1>8, <1>9, <1>10, RetainInv

-----------------------------------------------------------------------------
LEMMA ElapseInv ==
  ASSUME Inv, Elapse
  PROVE  Inv'
  <1> DEFINE older(m) == [m EXCEPT !.scheduled_enqueue_time = Sooner(@),
                                   !.expires_at = Sooner(@),
                                   !.locked_until = Sooner(@)]
  <1>1. /\ TypeOK /\ OnePlace /\ Accounted /\ LocksMatch /\ TokensOwn /\ SessionsCarried
        /\ UNCHANGED <<nextSequence, active, scheduled, deferred, deadLetter,
                       lockedMessages, lockedSessions>>
    BY DEF Inv, Elapse
  <1>2. \A x \in Timer : Sooner(x) \in Timer
    BY DEF Sooner, Timer, Never
  <1>3. \A m \in Message :
          /\ older(m) \in Message /\ older(m) # Gone /\ older(m).lock_token = m.lock_token
          /\ older(m).session_id = m.session_id
          /\ older(m).locked_until = Sooner(m.locked_until)
    BY <1>2, EntityAssumption DEF Message
  <1>4. msg' = [r \in DOMAIN msg |-> IF msg[r] = Gone THEN Gone ELSE older(msg[r])]
    BY DEF Elapse
  <1> HIDE DEF older
  <1>5. /\ \A r \in DOMAIN msg : msg[r] \in Message \cup {Gone}
        /\ \A r \in Held : r \in DOMAIN msg /\ msg[r] \in Message /\ msg[r] # Gone
    BY HeldMessages
  <1>6. \A r \in DOMAIN msg : /\ msg'[r] \in Message \cup {Gone}
                              /\ msg'[r] = Gone <=> msg[r] = Gone
    BY <1>3, <1>4, <1>5
  <1>7. msg' \in Seq(Message \cup {Gone}) /\ Len(msg') = Len(msg) /\ DOMAIN msg' = DOMAIN msg
    <2> DEFINE k == Len(msg)
    <2>1. k \in Nat /\ DOMAIN msg = 1..k
      BY <1>1 DEF TypeOK
    <2> HIDE DEF k
    <2>2. msg' \in [1..k -> Message \cup {Gone}]
      BY <1>4, <1>6, <2>1
    <2>3. msg' \in Seq(Message \cup {Gone}) /\ Len(msg') = k /\ DOMAIN msg' = 1..k
      BY <2>1, <2>2, SlotMap
    <2> QED BY <2>1, <2>3 DEF k
  <1>8. Held' = Held
    BY <1>1 DEF Held
  <1>9. \A r \in Held : msg'[r] = older(msg[r])
    BY <1>4, <1>5
  <1>10. /\ DOMAIN locks' = DOMAIN locks
         /\ locks' = [t \in DOMAIN locks |-> locks'[t]]
         /\ \A t \in DOMAIN locks :
              /\ locks'[t] \in LockEntry
              /\ locks'[t].sequence_number = locks[t].sequence_number
              /\ locks'[t].locked_until = Sooner(locks[t].locked_until)
    BY <1>1, <1>2 DEF Elapse, TypeOK, LockEntry
  <1>11. TypeOK'
    <2>1. DOMAIN locks' \subseteq Token /\ locks' \in [DOMAIN locks' -> LockEntry]
      BY <1>1, <1>10 DEF TypeOK
    <2> QED BY <1>1, <1>7, <2>1 DEF TypeOK
  <1>12. OnePlace'
    BY <1>1 DEF OnePlace
  <1>13. Accounted'
    BY <1>1, <1>6, <1>7, <1>8 DEF Accounted, Numbers
  <1>14. LocksMatch'
    <2>1. ASSUME NEW u \in DOMAIN locks
          PROVE  /\ locks'[u].sequence_number \in lockedMessages
                 /\ msg'[locks'[u].sequence_number].lock_token = u
                 /\ msg'[locks'[u].sequence_number].locked_until = locks'[u].locked_until
      <3> DEFINE r == locks[u].sequence_number
      <3>1. /\ r \in lockedMessages /\ r \in Held /\ msg[r].lock_token = u
            /\ msg[r].locked_until = locks[u].locked_until
        BY <1>1 DEF LocksMatch, Held
      <3>2. msg'[r] = older(msg[r]) /\ msg[r] \in Message
        BY <1>5, <1>9, <3>1
      <3> QED BY <1>3, <1>10, <3>1, <3>2
    <2>2. \A r \in lockedMessages : \E u \in DOMAIN locks : locks'[u].sequence_number = r
      BY <1>1, <1>10 DEF LocksMatch
    <2>3. \A r \in Held \ lockedMessages : msg'[r].lock_token = NoToken
      BY <1>1, <1>3, <1>5, <1>9 DEF LocksMatch
    <2> QED BY <1>1, <1>8, <1>10, <2>1, <2>2, <2>3 DEF LocksMatch
  <1>15. TokensOwn'
    BY <1>1, <1>10 DEF TokensOwn
  <1>16. SessionsCarried'
    BY <1>1, <1>3, <1>5, <1>8, <1>9 DEF SessionsCarried
  <1> QED BY <1>11, <1>12, <1>13, <1>14, <1>15, <1>16 DEF Inv

\* What tick has put in active before it looks at times to live, and what of that
\* it finds expired.
Queued  == (TakenBack \ Exhausted) \cup Range(active) \cup DueScheduled
Expired == {s \in Queued : msg[s].expires_at = 0}

\* The buckets after a tick, as sets, and the order of what was in active.
LEMMA TickBuckets ==
  ASSUME Inv, Tick
  PROVE  /\ active' \in Seq(Nat) /\ IsInjective(active')
         /\ Range(active') = Queued \ Expired
         /\ scheduled' \in Seq(Nat) /\ IsInjective(scheduled')
         /\ Range(scheduled') = Range(scheduled) \ DueScheduled
         /\ deadLetter' \in Seq(Nat) /\ IsInjective(deadLetter')
         /\ Range(deadLetter') = Range(deadLetter) \cup Exhausted
                                   \cup (IF DeadLetterOnExpiration THEN Expired ELSE {})
         /\ lockedMessages' = lockedMessages \ TakenBack
         /\ TakenBack \subseteq lockedMessages /\ Exhausted \subseteq TakenBack
         /\ DueScheduled \subseteq Range(scheduled) /\ Expired \subseteq Queued
         /\ UNCHANGED <<nextSequence, deferred, lockedSessions>>
         /\ msg' = [s \in DOMAIN msg |-> IF s \in Expired THEN AfterExpiry(s)
                                                          ELSE AfterLocks(s)]
         /\ \A x, y : Before(active', x, y) => \/ Before(active, x, y)
                                               \/ x \notin Range(active)
                                               \/ y \notin Range(active)
  <1>1. /\ TypeOK /\ OnePlace
        /\ UNCHANGED <<nextSequence, deferred, lockedSessions>>
        /\ lockedMessages' = lockedMessages \ TakenBack
    BY DEF Inv, Tick
  <1>2. PICK returned \in SetToSeqs(TakenBack \ Exhausted),
             exhausted \in SetToSeqs(Exhausted) :
          LET queue   == returned \o active \o Keep(scheduled, DueScheduled)
              expired == {s \in Range(queue) : msg[s].expires_at = 0}
          IN /\ active' = Keep(queue, Range(queue) \ expired)
             /\ scheduled' = Keep(scheduled, Range(scheduled) \ DueScheduled)
             /\ deadLetter' = deadLetter \o exhausted
                                \o (IF DeadLetterOnExpiration THEN Keep(queue, expired)
                                                              ELSE <<>>)
             /\ msg' = [s \in DOMAIN msg |-> IF s \in expired THEN AfterExpiry(s)
                                                              ELSE AfterLocks(s)]
    BY DEF Tick
  <1> DEFINE due     == Keep(scheduled, DueScheduled)
             queue   == returned \o active \o due
             expired == {s \in Range(queue) : msg[s].expires_at = 0}
             buried  == IF DeadLetterOnExpiration THEN Keep(queue, expired) ELSE <<>>
  <1>3. /\ active' = Keep(queue, Range(queue) \ expired)
        /\ deadLetter' = deadLetter \o exhausted \o buried
        /\ scheduled' = Keep(scheduled, Range(scheduled) \ DueScheduled)
        /\ msg' = [s \in DOMAIN msg |-> IF s \in expired THEN AfterExpiry(s)
                                                         ELSE AfterLocks(s)]
    BY <1>2
  <1>4. /\ TakenBack \subseteq lockedMessages /\ Exhausted \subseteq TakenBack
        /\ DueScheduled \subseteq Range(scheduled) /\ expired \subseteq Range(queue)
    BY DEF TakenBack, Exhausted, DueScheduled
  <1>5. /\ returned \in Seq(Nat) /\ IsInjective(returned)
        /\ Range(returned) = TakenBack \ Exhausted
        /\ exhausted \in Seq(Nat) /\ IsInjective(exhausted) /\ Range(exhausted) = Exhausted
    <2>1. (TakenBack \ Exhausted) \in SUBSET Held /\ Exhausted \in SUBSET Held
      BY <1>4 DEF Held
    <2>2. /\ (TakenBack \ Exhausted) \in SUBSET Nat /\ IsFiniteSet(TakenBack \ Exhausted)
          /\ Exhausted \in SUBSET Nat /\ IsFiniteSet(Exhausted)
      BY <2>1, HeldFinite
    <2>3. returned \in Seq(Nat) /\ IsInjective(returned)
          /\ Range(returned) = TakenBack \ Exhausted
      BY <1>2, <2>2, BucketOrder
    <2>4. exhausted \in Seq(Nat) /\ IsInjective(exhausted) /\ Range(exhausted) = Exhausted
      BY <1>2, <2>2, BucketOrder
    <2> QED BY <2>3, <2>4
  <1>6. /\ active \in Seq(Nat) /\ IsInjective(active)
        /\ scheduled \in Seq(Nat) /\ IsInjective(scheduled)
        /\ deadLetter \in Seq(Nat) /\ IsInjective(deadLetter)
    BY <1>1 DEF TypeOK, OnePlace
  <1>7. due \in Seq(Nat) /\ IsInjective(due) /\ Range(due) = DueScheduled
    <2>1. /\ Keep(scheduled, DueScheduled) \in Seq(Nat)
          /\ IsInjective(Keep(scheduled, DueScheduled))
          /\ Range(Keep(scheduled, DueScheduled)) = Range(scheduled) \cap DueScheduled
      BY <1>6, BucketKeep
    <2> QED BY <1>4, <2>1
  <1> HIDE DEF due
  <1>8. /\ queue \in Seq(Nat) /\ IsInjective(queue)
        /\ Range(queue) = (TakenBack \ Exhausted) \cup Range(active) \cup DueScheduled
    <2> DEFINE front == returned \o active
    <2>1. Range(returned) \cap Range(active) = {}
      BY <1>1, <1>4, <1>5 DEF OnePlace
    <2>2. /\ front \in Seq(Nat) /\ IsInjective(front)
          /\ Range(front) = Range(returned) \cup Range(active)
      BY <1>5, <1>6, <2>1, BucketConcat
    <2>3. Range(front) \cap Range(due) = {}
      BY <1>1, <1>4, <1>5, <1>7, <2>2 DEF OnePlace
    <2> HIDE DEF front
    <2>4. /\ front \o due \in Seq(Nat) /\ IsInjective(front \o due)
          /\ Range(front \o due) = Range(front) \cup Range(due)
      BY <1>7, <2>2, <2>3, BucketConcat
    <2> QED BY <1>5, <1>7, <2>2, <2>4 DEF front
  <1> HIDE DEF queue
  <1>9. /\ active' \in Seq(Nat) /\ IsInjective(active')
        /\ Range(active') = Range(queue) \ expired
    <2> HIDE DEF expired
    <2>1. /\ Keep(queue, Range(queue) \ expired) \in Seq(Nat)
          /\ IsInjective(Keep(queue, Range(queue) \ expired))
          /\ Range(Keep(queue, Range(queue) \ expired))
               = Range(queue) \cap (Range(queue) \ expired)
      BY <1>8, BucketKeep
    <2> QED BY <1>3, <2>1
  <1>10. /\ scheduled' \in Seq(Nat) /\ IsInjective(scheduled')
         /\ Range(scheduled') = Range(scheduled) \ DueScheduled
    <2>1. /\ Keep(scheduled, Range(scheduled) \ DueScheduled) \in Seq(Nat)
          /\ IsInjective(Keep(scheduled, Range(scheduled) \ DueScheduled))
          /\ Range(Keep(scheduled, Range(scheduled) \ DueScheduled))
               = Range(scheduled) \cap (Range(scheduled) \ DueScheduled)
      BY <1>6, BucketKeep
    <2> QED BY <1>3, <2>1
  <1>11. /\ buried \in Seq(Nat) /\ IsInjective(buried) /\ Range(buried) \subseteq expired
         /\ DeadLetterOnExpiration => Range(buried) = expired
         /\ ~DeadLetterOnExpiration => Range(buried) = {}
    <2> HIDE DEF expired
    <2>1. /\ Keep(queue, expired) \in Seq(Nat) /\ IsInjective(Keep(queue, expired))
          /\ Range(Keep(queue, expired)) = Range(queue) \cap expired
      BY <1>8, BucketKeep
    <2>2. <<>> \in Seq(Nat) /\ IsInjective(<<>>) /\ Range(<<>>) = {}
      BY DEF IsInjective, Range
    <2> QED BY <1>4, <2>1, <2>2
  <1> HIDE DEF buried, expired
  <1>12. /\ deadLetter' \in Seq(Nat) /\ IsInjective(deadLetter')
         /\ Range(deadLetter') = Range(deadLetter) \cup Exhausted \cup Range(buried)
    <2> DEFINE front == deadLetter \o exhausted
    <2>1. Range(deadLetter) \cap Range(exhausted) = {}
      BY <1>1, <1>4, <1>5 DEF OnePlace
    <2>2. /\ front \in Seq(Nat) /\ IsInjective(front)
          /\ Range(front) = Range(deadLetter) \cup Range(exhausted)
      BY <1>5, <1>6, <2>1, BucketConcat
    <2>3. Range(front) \cap Range(buried) = {}
      <3>1. Range(buried) \subseteq (TakenBack \ Exhausted) \cup Range(active) \cup DueScheduled
        BY <1>4, <1>8, <1>11
      <3>2. Range(front) = Range(deadLetter) \cup Exhausted
        BY <1>5, <2>2
      <3> QED BY <1>1, <1>4, <3>1, <3>2 DEF OnePlace
    <2> HIDE DEF front
    <2>4. /\ front \o buried \in Seq(Nat) /\ IsInjective(front \o buried)
          /\ Range(front \o buried) = Range(front) \cup Range(buried)
      BY <1>11, <2>2, <2>3, BucketConcat
    <2> QED BY <1>3, <1>5, <2>2, <2>4 DEF front
  <1>13. Range(queue) = Queued
    BY <1>8 DEF Queued
  <1>14. expired = Expired
    BY <1>13 DEF expired, Expired
  <1>15. ASSUME NEW x, NEW y, Before(active', x, y), x \in Range(active), y \in Range(active)
         PROVE  Before(active, x, y)
    <2> DEFINE front == returned \o active
               rest  == Range(queue) \ expired
    <2>1. Before(Keep(queue, rest), x, y)
      BY <1>3, <1>15
    <2> HIDE DEF rest
    <2>2. Before(queue, x, y)
      BY <1>8, <2>1, BeforeKeep
    <2>3. front \in Seq(Nat)
      BY <1>5, <1>6
    <2>4. queue = front \o due
      BY DEF queue
    <2> HIDE DEF front
    <2>5. y \notin Range(due) /\ x \notin Range(returned) /\ x \notin Range(due)
      BY <1>1, <1>4, <1>5, <1>7, <1>15 DEF OnePlace
    <2>6. ~Before(due, x, y)
      BY <2>5 DEF Before, Range
    <2>7. Before(front, x, y)
      BY <1>7, <2>2, <2>3, <2>4, <2>5, <2>6, BeforeConcat
    <2>8. ~Before(returned, x, y)
      BY <2>5 DEF Before, Range
    <2>9. Before(returned \o active, x, y)
      BY <2>7 DEF front
    <2> QED BY <1>5, <1>6, <2>5, <2>8, <2>9, BeforeConcat
  <1>16. Range(deadLetter') = Range(deadLetter) \cup Exhausted
                                \cup (IF DeadLetterOnExpiration THEN Expired ELSE {})
    BY <1>11, <1>12, <1>14
  <1>17. msg' = [s \in DOMAIN msg |-> IF s \in Expired THEN AfterExpiry(s) ELSE AfterLocks(s)]
    BY <1>3, <1>14
  <1>18. Expired \subseteq Queued
    BY DEF Expired
  <1> QED BY <1>1, <1>4, <1>9, <1>10, <1>12, <1>13, <1>14, <1>15, <1>16, <1>17, <1>18

LEMMA TickInv ==
  ASSUME Inv, Tick
  PROVE  Inv'
  <1> DEFINE buried == IF DeadLetterOnExpiration THEN Expired ELSE {}
  <1>1. /\ TypeOK /\ OnePlace /\ Accounted /\ LocksMatch /\ TokensOwn
        /\ locks' = Drop(locks, ExpiredTokens)
    BY DEF Inv, Tick
  <1>2. /\ active' \in Seq(Nat) /\ IsInjective(active')
        /\ Range(active') = Queued \ Expired
        /\ scheduled' \in Seq(Nat) /\ IsInjective(scheduled')
        /\ Range(scheduled') = Range(scheduled) \ DueScheduled
        /\ deadLetter' \in Seq(Nat) /\ IsInjective(deadLetter')
        /\ Range(deadLetter') = Range(deadLetter) \cup Exhausted \cup buried
        /\ lockedMessages' = lockedMessages \ TakenBack
        /\ UNCHANGED <<nextSequence, deferred, lockedSessions>>
    BY TickBuckets
  <1>3. msg' = [s \in DOMAIN msg |-> IF s \in Expired THEN AfterExpiry(s) ELSE AfterLocks(s)]
    BY TickBuckets
  <1>4. /\ TakenBack \subseteq lockedMessages /\ Exhausted \subseteq TakenBack
        /\ DueScheduled \subseteq Range(scheduled) /\ Expired \subseteq Queued
        /\ Queued = (TakenBack \ Exhausted) \cup Range(active) \cup DueScheduled
    BY TickBuckets DEF Queued
  <1>5. OnePlace'
    <2> DEFINE A == Range(active)
               S == Range(scheduled)
               X == Range(deadLetter)
    <2>1. /\ lockedMessages \cap (A \cup S \cup deferred \cup X) = {}
          /\ A \cap (S \cup deferred \cup X) = {}
          /\ S \cap (deferred \cup X) = {} /\ deferred \cap X = {}
      BY <1>1 DEF OnePlace
    <2>2. /\ Range(active') = ((TakenBack \ Exhausted) \cup A \cup DueScheduled) \ Expired
          /\ Range(scheduled') = S \ DueScheduled /\ deferred' = deferred
          /\ Range(deadLetter') = X \cup Exhausted \cup buried
          /\ buried \subseteq Expired
          /\ buried \subseteq (TakenBack \ Exhausted) \cup A \cup DueScheduled
          /\ lockedMessages' = lockedMessages \ TakenBack
      BY <1>2, <1>4
    <2> HIDE DEF A, S, X
    <2>3. /\ lockedMessages' \cap (Range(active') \cup Range(scheduled') \cup deferred'
                                      \cup Range(deadLetter')) = {}
          /\ Range(active') \cap (Range(scheduled') \cup deferred' \cup Range(deadLetter')) = {}
          /\ Range(scheduled') \cap (deferred' \cup Range(deadLetter')) = {}
          /\ deferred' \cap Range(deadLetter') = {}
      BY <1>4, <2>1, <2>2 DEF S
    <2> QED BY <1>2, <2>3 DEF OnePlace
  <1>6. Held' = IF DeadLetterOnExpiration THEN Held ELSE Held \ Expired
    <2> DEFINE A == Range(active)
               S == Range(scheduled)
               X == Range(deadLetter)
    <2>1. /\ Range(active') = ((TakenBack \ Exhausted) \cup A \cup DueScheduled) \ Expired
          /\ Range(scheduled') = S \ DueScheduled /\ deferred' = deferred
          /\ Range(deadLetter') = X \cup Exhausted \cup buried
          /\ lockedMessages' = lockedMessages \ TakenBack
          /\ Expired \subseteq (TakenBack \ Exhausted) \cup A \cup DueScheduled
      BY <1>2, <1>4
    <2>2. Held = A \cup S \cup deferred \cup X \cup lockedMessages
      BY DEF Held
    <2>3. Held' = Range(active') \cup Range(scheduled') \cup deferred' \cup Range(deadLetter')
                    \cup lockedMessages'
      BY DEF Held
    <2>4. /\ lockedMessages \cap (A \cup S \cup deferred \cup X) = {}
          /\ A \cap (S \cup deferred \cup X) = {}
          /\ S \cap (deferred \cup X) = {} /\ DueScheduled \subseteq S
      BY <1>1, <1>4 DEF OnePlace
    <2> HIDE DEF A, S, X
    <2>5. CASE DeadLetterOnExpiration
      <3>1. buried = Expired
        BY <2>5
      <3> QED BY <1>4, <2>1, <2>2, <2>3, <2>4, <2>5, <3>1
    <2>6. CASE ~DeadLetterOnExpiration
      <3>1. buried = {}
        BY <2>6
      <3> QED BY <1>4, <2>1, <2>2, <2>3, <2>4, <2>6, <3>1
    <2> QED BY <2>5, <2>6
  <1>7. \A r \in Held : r \in DOMAIN msg /\ msg[r] \in Message
    BY HeldMessages
  <1>8. ASSUME NEW r \in Held
         PROVE  /\ AfterLocks(r) \in Message /\ AfterLocks(r).session_id = msg[r].session_id
                /\ r \notin lockedMessages' => AfterLocks(r).lock_token = NoToken
                /\ r \notin TakenBack \cup DueScheduled => AfterLocks(r) = msg[r]
    <2>1. msg[r] \in Message
      BY <1>7
    <2>2. CASE r \in TakenBack
      <3> DEFINE m == Unlocked(msg[r], IF r \in Exhausted THEN "DeadLettered" ELSE "Active")
      <3>1. m \in Message /\ m.lock_token = NoToken /\ m.session_id = msg[r].session_id
        BY <2>1, UnlockedFacts DEF States
      <3>2. AfterLocks(r) = [m EXCEPT !.delivery_count = @ + 1]
        BY <2>2 DEF AfterLocks
      <3> HIDE DEF m
      <3> QED BY <2>2, <3>1, <3>2 DEF Message
    <2>3. CASE r \notin TakenBack
      <3>1. r \notin lockedMessages' => msg[r].lock_token = NoToken
        BY <1>1, <1>2, <2>3 DEF LocksMatch
      <3>2. CASE r \in DueScheduled
        <4>1. AfterLocks(r) = [msg[r] EXCEPT !.state = "Active"]
          BY <2>3, <3>2 DEF AfterLocks, Promoted
        <4> QED BY <2>1, <3>1, <3>2, <4>1 DEF Message, States
      <3>3. CASE r \notin DueScheduled
        BY <2>1, <2>3, <3>1, <3>3 DEF AfterLocks
      <3> QED BY <3>2, <3>3
    <2> QED BY <2>2, <2>3
  <1>9. ASSUME NEW r \in Held'
         PROVE  /\ msg'[r] \in Message /\ msg'[r].session_id = msg[r].session_id
                /\ r \notin lockedMessages' => msg'[r].lock_token = NoToken
    <2>1. r \in Held /\ r \in DOMAIN msg
      BY <1>6, <1>7
    <2>2. CASE r \in Expired
      <3>1. DeadLetterOnExpiration
        BY <1>6, <2>2
      <3>2. msg'[r] = [AfterLocks(r) EXCEPT !.state = "DeadLettered"]
        BY <1>3, <2>1, <2>2, <3>1 DEF AfterExpiry
      <3> QED BY <1>8, <2>1, <3>2 DEF Message, States
    <2>3. CASE r \notin Expired
      BY <1>3, <1>8, <2>1, <2>3
    <2> QED BY <2>2, <2>3
  <1>10. \A r \in DOMAIN msg : r \notin Held' => msg'[r] = Gone
    <2> SUFFICES ASSUME NEW r \in DOMAIN msg, r \notin Held' PROVE msg'[r] = Gone
      OBVIOUS
    <2>1. CASE r \in Expired
      <3>1. r \in Held
        BY <1>4, <2>1 DEF Held
      <3>2. ~DeadLetterOnExpiration
        BY <1>6, <3>1
      <3> QED BY <1>3, <2>1, <3>2 DEF AfterExpiry
    <2>2. CASE r \notin Expired
      <3>1. r \notin Held /\ msg[r] = Gone
        BY <1>1, <1>6, <2>2 DEF Accounted, Numbers
      <3>2. r \notin TakenBack \cup DueScheduled
        BY <1>4, <3>1 DEF Held
      <3> QED BY <1>3, <2>2, <3>1, <3>2 DEF AfterLocks
    <2> QED BY <2>1, <2>2
  <1>11. DOMAIN locks' = DOMAIN locks \ ExpiredTokens
         /\ locks' = [u \in DOMAIN locks' |-> locks[u]]
    BY <1>1 DEF Drop, Restrict
  <1>12. \A u \in DOMAIN locks' :
           /\ locks[u].sequence_number \in lockedMessages'
           /\ msg'[locks[u].sequence_number] = msg[locks[u].sequence_number]
    <2> SUFFICES ASSUME NEW u \in DOMAIN locks, u \notin ExpiredTokens
                 PROVE  /\ locks[u].sequence_number \in lockedMessages'
                        /\ msg'[locks[u].sequence_number] = msg[locks[u].sequence_number]
      BY <1>11
    <2> DEFINE r == locks[u].sequence_number
    <2>1. r \in lockedMessages /\ r \in Held
      BY <1>1 DEF LocksMatch, Held
    <2>2. \A t \in ExpiredTokens : locks[t].sequence_number # r
      BY LockFacts DEF ExpiredTokens
    <2>3. r \notin TakenBack
      BY <2>2 DEF TakenBack
    <2>4. r \notin Range(active) \cup Range(scheduled)
      BY <1>1, <2>1 DEF OnePlace
    <2>5. r \notin DueScheduled /\ r \notin Expired
      BY <1>4, <2>3, <2>4
    <2> QED BY <1>1, <1>2, <1>3, <1>7, <1>8, <2>1, <2>3, <2>5
  <1>13. \A u \in DOMAIN locks :
           locks[u].sequence_number \in lockedMessages' => u \in DOMAIN locks'
    <2> SUFFICES ASSUME NEW u \in ExpiredTokens
                 PROVE  locks[u].sequence_number \notin lockedMessages'
      BY <1>11
    <2>1. u \in DOMAIN locks
      BY DEF ExpiredTokens
    <2> QED BY <1>1, <1>2, <2>1 DEF LocksMatch, TakenBack
  <1>14. /\ Held' \subseteq Held /\ lockedMessages' \subseteq lockedMessages
         /\ msg' = [r \in DOMAIN msg |-> msg'[r]] /\ DOMAIN locks' \subseteq DOMAIN locks
         /\ nextSequence' = nextSequence /\ lockedSessions' \subseteq Sessions
    BY <1>1, <1>2, <1>3, <1>6, <1>11 DEF TypeOK
  <1> QED BY <1>2, <1>5, <1>9, <1>10, <1>11, <1>12, <1>13, <1>14, RetainInv

-----------------------------------------------------------------------------
LEMMA NextInv ==
  ASSUME Inv, [Next]_vars
  PROVE  Inv'
  <1>1. CASE UNCHANGED vars
    <2>1. Held' = Held
      BY <1>1 DEF vars, Held
    <2> QED BY <1>1, <2>1
           DEF vars, Inv, TypeOK, OnePlace, Accounted, Numbers, LocksMatch, TokensOwn,
               SessionsCarried
  <1>2. ASSUME NEW session \in Sessions \cup {NoSession}, NEW delay \in Delays,
               NEW ttl \in TimesToLive, Send(session, delay, ttl)
        PROVE  Inv'
    BY <1>2, SendInv
  <1>3. ASSUME NEW mode \in Modes, TryReceive(mode) PROVE Inv'
    BY <1>3, TryReceiveInv
  <1>4. ASSUME NEW id \in Sessions, NEW mode \in Modes, TryReceiveSession(id, mode)
        PROVE  Inv'
    BY <1>4, TryReceiveSessionInv
  <1>5. CASE (\E id \in Sessions : AcceptSession(id) \/ ReleaseSession(id)) \/ AcceptNextSession
    BY <1>5, SessionActionsInv
  <1>6. ASSUME NEW t \in DOMAIN locks,
               Complete(t) \/ Abandon(t) \/ DeadLetter(t) \/ Defer(t)
        PROVE  Inv'
    BY <1>6, SettlingInv
  <1>7. ASSUME NEW t \in DOMAIN locks, RenewLock(t) PROVE Inv'
    BY <1>7, RenewLockInv
  <1>8. ASSUME NEW s \in DOMAIN msg, DeleteMessage(s) PROVE Inv'
    BY <1>8, DeleteMessageInv
  <1>9. ASSUME NEW s \in DOMAIN msg, ResubmitDeadLetter(s) PROVE Inv'
    BY <1>9, ResubmitDeadLetterInv
  <1>10. CASE Tick \/ Purge \/ Restart \/ Elapse
    BY <1>10, TickInv, PurgeInv, RestartInv, ElapseInv
  <1> QED BY <1>1, <1>2, <1>3, <1>4, <1>5, <1>6, <1>7, <1>8, <1>9, <1>10 DEF Next

\* The inductive invariant of state.rs: types, places, accounts, locks and
\* sessions together.
THEOREM SpecInv == Spec => []Inv
  <1>1. Inv /\ [Next]_vars => Inv'
    BY NextInv
  <1> QED BY InitInv, <1>1, PTL DEF Spec

\* Every variable of state.rs keeps its type through every sequence of commands.
THEOREM SpecTypeOK == Spec => []TypeOK
  <1>1. Inv => TypeOK
    BY DEF Inv
  <1> QED BY SpecInv, <1>1, PTL

\* However commands, ticks and restarts alternate, no message is ever in two
\* buckets of an entity, or twice in one.
THEOREM SpecOnePlace == Spec => []OnePlace
  <1>1. Inv => OnePlace
    BY DEF Inv
  <1> QED BY SpecInv, <1>1, PTL

\* No operation of state.rs loses a message it does not mean to remove.
THEOREM SpecAccounted == Spec => []Accounted
  <1>1. Inv => Accounted
    BY DEF Inv
  <1> QED BY SpecInv, <1>1, PTL

\* locks and locked_messages stay in one-to-one correspondence.
THEOREM SpecLocksMatch == Spec => []LocksMatch
  <1>1. Inv => LocksMatch
    BY DEF Inv
  <1> QED BY SpecInv, <1>1, PTL

\* Nothing without a session id is ever in an entity that requires one, so
\* resubmit_dead_letter never drops the message it has taken out.
THEOREM SpecSessionsCarried == Spec => []SessionsCarried
  <1>1. Inv => SessionsCarried
    BY DEF Inv
  <1> QED BY SpecInv, <1>1, PTL

-----------------------------------------------------------------------------
\* What no single step may do to a message: forgive a delivery, or put another lock
\* on a message that is still locked.

\* A message that stays neither loses deliveries nor, while locked, its token.
Steady(s) ==
  \/ msg'[s] = Gone
  \/ /\ msg[s] # Gone
     /\ msg'[s].delivery_count >= msg[s].delivery_count
     /\ s \in lockedMessages /\ s \in lockedMessages'
          => msg'[s].lock_token = msg[s].lock_token

AllSteady == \A s \in DOMAIN msg : s \in DOMAIN msg' /\ Steady(s)

\* A message that is not touched is steady.
LEMMA Untouched ==
  ASSUME Inv, NEW s \in DOMAIN msg, msg'[s] = msg[s]
  PROVE  Steady(s)
  <1>1. msg[s] = Gone \/ msg[s] \in Message
    BY HeldMessages
  <1>2. CASE msg[s] \in Message
    <2>1. msg[s].delivery_count \in Nat /\ msg[s] # Gone
      BY <1>2, EntityAssumption DEF Message
    <2> QED BY <2>1 DEF Steady
  <1> QED BY <1>1, <1>2 DEF Steady

\* Numbering a message leaves the others as they are.
LEMMA EnqueueSteady ==
  ASSUME Inv, NEW session, NEW delay, NEW ttl, NEW s \in DOMAIN msg,
         Enqueue([msg EXCEPT ![s] = Gone], session, delay, ttl)
           \/ Enqueue(msg, session, delay, ttl)
  PROVE  AllSteady
  <1>1. msg \in Seq(Message \cup {Gone})
    BY DEF Inv, TypeOK
  <1>2. PICK m, new : /\ m = msg \/ m = [msg EXCEPT ![s] = Gone]
                      /\ msg' = Append(m, new)
    BY DEF Enqueue
  <1>3. /\ m \in Seq(Message \cup {Gone}) /\ Len(m) = Len(msg) /\ DOMAIN m = DOMAIN msg
        /\ \A r \in DOMAIN msg : m[r] = msg[r] \/ m[r] = Gone
    BY <1>1, <1>2
  <1>4. /\ DOMAIN msg = 1..Len(msg) /\ Len(msg) \in Nat
        /\ \A r \in 1..Len(m) : Append(m, new)[r] = m[r]
        /\ DOMAIN Append(m, new) = 1..(Len(m) + 1)
    BY <1>1, <1>3
  <1>5. \A r \in DOMAIN msg : r \in DOMAIN msg' /\ (msg'[r] = msg[r] \/ msg'[r] = Gone)
    BY <1>2, <1>3, <1>4
  <1> QED BY <1>5, Untouched DEF AllSteady, Steady

\* Handing out s, which was not locked.
LEMMA FinishReceiveSteady ==
  ASSUME Inv, NEW s \in Range(active), NEW mode \in Modes, FinishReceive(s, mode)
  PROVE  AllSteady
  <1>1. /\ s \in DOMAIN msg /\ msg[s] \in Message /\ msg[s] # Gone /\ s \notin lockedMessages
        /\ msg \in Seq(Message \cup {Gone})
    BY HeldMessages DEF Held, Inv, OnePlace, TypeOK
  <1>2. PICK m : /\ msg' = [msg EXCEPT ![s] = m]
                 /\ m = Gone \/ m.delivery_count = msg[s].delivery_count + 1
    <2>1. CASE mode = "ReceiveAndDelete"
      BY <2>1 DEF FinishReceive
    <2>2. CASE mode = "PeekLock"
      <3> DEFINE m == [msg[s] EXCEPT !.delivery_count = msg[s].delivery_count + 1,
                                     !.lock_token = <<s, msg[s].delivery_count + 1>>,
                                     !.locked_until = LockDuration]
      <3>1. msg' = [msg EXCEPT ![s] = m]
        BY <2>2 DEF FinishReceive
      <3>2. m.delivery_count = msg[s].delivery_count + 1
        BY <1>1 DEF Message
      <3> QED BY <3>1, <3>2
    <2> QED BY <2>1, <2>2 DEF Modes
  <1>3. /\ DOMAIN msg' = DOMAIN msg /\ msg'[s] = m
        /\ \A r \in DOMAIN msg : r # s => msg'[r] = msg[r]
    BY <1>1, <1>2
  <1>4. msg[s].delivery_count \in Nat
    BY <1>1 DEF Message
  <1>5. Steady(s)
    BY <1>1, <1>2, <1>3, <1>4 DEF Steady
  <1> QED BY <1>3, <1>5, Untouched DEF AllSteady

\* One message replaced by m.
LEMMA ReplacedSteady ==
  ASSUME Inv, NEW s \in DOMAIN msg, NEW m, msg' = [msg EXCEPT ![s] = m],
         \/ m = Gone
         \/ /\ msg[s] \in Message /\ m.delivery_count = msg[s].delivery_count
            /\ m.lock_token = msg[s].lock_token \/ s \notin lockedMessages'
  PROVE  AllSteady
  <1>1. msg \in Seq(Message \cup {Gone})
    BY DEF Inv, TypeOK
  <1>2. /\ DOMAIN msg' = DOMAIN msg /\ msg'[s] = m
        /\ \A r \in DOMAIN msg : r # s => msg'[r] = msg[r]
    BY <1>1
  <1>3. Steady(s)
    <2>1. CASE m = Gone
      BY <1>2, <2>1 DEF Steady
    <2>2. CASE msg[s] \in Message /\ m.delivery_count = msg[s].delivery_count
               /\ (m.lock_token = msg[s].lock_token \/ s \notin lockedMessages')
      <3>1. msg[s].delivery_count \in Nat /\ msg[s] # Gone
        BY <2>2, EntityAssumption DEF Message
      <3> QED BY <1>2, <2>2, <3>1 DEF Steady
    <2> QED BY <2>1, <2>2
  <1> QED BY <1>2, <1>3, Untouched DEF AllSteady

LEMMA SendSteady ==
  ASSUME Inv, NEW session, NEW delay, NEW ttl, Send(session, delay, ttl)
  PROVE  AllSteady
  <1>1. CASE DOMAIN msg = {}
    BY <1>1 DEF AllSteady
  <1>2. ASSUME NEW s \in DOMAIN msg PROVE AllSteady
    <2>1. Enqueue(msg, session, delay, ttl)
      BY DEF Send
    <2> QED BY <2>1, EnqueueSteady
  <1> QED BY <1>1, <1>2

LEMMA ReceiveSteady ==
  ASSUME Inv, NEW mode \in Modes,
         TryReceive(mode) \/ \E id \in Sessions : TryReceiveSession(id, mode)
  PROVE  AllSteady
  <1>1. active \in Seq(Nat) /\ IsInjective(active)
    BY DEF Inv, TypeOK, OnePlace
  <1>2. PICK s \in Range(active) : FinishReceive(s, mode)
    <2>1. CASE TryReceive(mode)
      <3>1. active # <<>> /\ FinishReceive(Head(active), mode)
        BY <2>1 DEF TryReceive
      <3> QED BY <1>1, <3>1, BucketPopFront
    <2>2. ASSUME NEW id \in Sessions, TryReceiveSession(id, mode)
          PROVE  \E s \in Range(active) : FinishReceive(s, mode)
      <3>1. PICK i \in DOMAIN active : FinishReceive(active[i], mode)
        BY <2>2 DEF TryReceiveSession, First
      <3>2. active[i] \in Range(active)
        BY DEF Range
      <3> QED BY <3>1, <3>2
    <2> QED BY <2>1, <2>2
  <1> QED BY <1>2, FinishReceiveSteady

LEMMA SettlingSteady ==
  ASSUME Inv, NEW t \in DOMAIN locks,
         Complete(t) \/ Abandon(t) \/ DeadLetter(t) \/ Defer(t)
  PROVE  AllSteady
  <1> DEFINE s == locks[t].sequence_number
  <1>1. Holds(t) /\ s \in DOMAIN msg /\ msg[s] \in Message
    BY LockFacts
  <1>2. s \notin lockedMessages'
    BY DEF Complete, Abandon, DeadLetter, Defer, TakeLocked
  <1>3. PICK m : /\ msg' = [msg EXCEPT ![s] = m]
                 /\ m = Gone \/ \E st \in States : m = Unlocked(msg[s], st)
    BY <1>1 DEF Complete, Abandon, DeadLetter, Defer, Resettle, States
  <1>4. m = Gone \/ m.delivery_count = msg[s].delivery_count
    BY <1>1, <1>3 DEF Unlocked, Message
  <1> QED BY <1>1, <1>2, <1>3, <1>4, ReplacedSteady

LEMMA RenewLockSteady ==
  ASSUME Inv, NEW t \in DOMAIN locks, RenewLock(t)
  PROVE  AllSteady
  <1> DEFINE s == locks[t].sequence_number
             m == [msg[s] EXCEPT !.locked_until = LockDuration]
  <1>1. Holds(t) /\ s \in DOMAIN msg /\ msg[s] \in Message
    BY LockFacts
  <1>2. msg' = [msg EXCEPT ![s] = m]
    BY <1>1 DEF RenewLock, Resettle
  <1>3. m.delivery_count = msg[s].delivery_count /\ m.lock_token = msg[s].lock_token
    BY <1>1 DEF Message
  <1> HIDE DEF m
  <1> QED BY <1>1, <1>2, <1>3, ReplacedSteady

LEMMA ResubmitSteady ==
  ASSUME Inv, NEW s \in DOMAIN msg, DeleteMessage(s) \/ ResubmitDeadLetter(s)
  PROVE  AllSteady
  <1>1. CASE msg' = [msg EXCEPT ![s] = Gone]
    BY <1>1, ReplacedSteady
  <1>2. CASE msg' = msg
    BY <1>2, Untouched DEF AllSteady
  <1>3. CASE Enqueue([msg EXCEPT ![s] = Gone], msg[s].session_id, Never, DefaultTTL)
    BY <1>3, EnqueueSteady
  <1> QED BY <1>1, <1>2, <1>3 DEF DeleteMessage, ResubmitDeadLetter

LEMMA BulkSteady ==
  ASSUME Inv, Purge \/ Restart \/ Elapse
  PROVE  AllSteady
  <1>1. \A s \in DOMAIN msg : msg[s] = Gone \/ msg[s] \in Message
    BY HeldMessages
  <1>2. DOMAIN msg' = DOMAIN msg
    BY DEF Purge, Restart, Elapse
  <1>3. ASSUME NEW s \in DOMAIN msg PROVE Steady(s)
    <2>1. CASE Purge
      <3>1. msg'[s] = msg[s] \/ msg'[s] = Gone
        BY <2>1 DEF Purge
      <3> QED BY <3>1, Untouched DEF Steady
    <2>2. CASE Restart
      <3>1. lockedMessages' = {}
        BY <2>2 DEF Restart
      <3>2. CASE s \in lockedMessages
        <4>1. msg[s] \in Message /\ msg'[s] = Unlocked(msg[s], "Active")
          BY <2>2, <3>2, HeldMessages DEF Restart, Held
        <4>2. msg'[s].delivery_count = msg[s].delivery_count /\ msg[s].delivery_count \in Nat
              /\ msg[s] # Gone
          BY <4>1, EntityAssumption DEF Unlocked, Message
        <4> QED BY <3>1, <4>2 DEF Steady
      <3>3. CASE s \notin lockedMessages
        <4>1. msg'[s] = msg[s]
          BY <2>2, <3>3 DEF Restart
        <4> QED BY <4>1, Untouched
      <3> QED BY <3>2, <3>3
    <2>3. CASE Elapse
      <3>1. CASE msg[s] = Gone
        BY <2>3, <3>1 DEF Elapse, Steady
      <3>2. CASE msg[s] # Gone
        <4> DEFINE m == [msg[s] EXCEPT !.scheduled_enqueue_time = Sooner(@),
                                       !.expires_at = Sooner(@),
                                       !.locked_until = Sooner(@)]
        <4>1. msg'[s] = m /\ msg[s] \in Message
          BY <1>1, <2>3, <3>2 DEF Elapse
        <4>2. m.delivery_count = msg[s].delivery_count /\ m.lock_token = msg[s].lock_token
              /\ msg[s].delivery_count \in Nat
          BY <4>1 DEF Message
        <4> HIDE DEF m
        <4> QED BY <3>2, <4>1, <4>2 DEF Steady
      <3> QED BY <3>1, <3>2
    <2> QED BY <2>1, <2>2, <2>3
  <1> QED BY <1>2, <1>3 DEF AllSteady

\* tick finds expired messages only among those it holds.
LEMMA TickGone ==
  ASSUME Inv, Tick, NEW s \in DOMAIN msg, msg[s] = Gone
  PROVE  msg'[s] = Gone
  <1>1. s \notin Held
    BY HeldMessages
  <1>2. s \notin Expired /\ s \notin TakenBack /\ s \notin DueScheduled
    BY <1>1 DEF Expired, Queued, TakenBack, DueScheduled, Held
  <1>3. msg'[s] = IF s \in Expired THEN AfterExpiry(s) ELSE AfterLocks(s)
    BY TickBuckets
  <1> QED BY <1>2, <1>3 DEF AfterLocks

\* tick takes back only messages whose lock it removes, and counts a delivery.
LEMMA TickSteady ==
  ASSUME Inv, Tick
  PROVE  AllSteady
  <1>1. /\ DOMAIN msg' = DOMAIN msg
        /\ lockedMessages' = lockedMessages \ TakenBack
        /\ \A s \in DOMAIN msg :
             msg'[s] = AfterLocks(s) \/ msg'[s] = AfterExpiry(s)
    BY DEF Tick
  <1>2. ASSUME NEW s \in DOMAIN msg PROVE Steady(s)
    <2>1. CASE s \in TakenBack
      <3>1. msg[s] \in Message /\ s \notin lockedMessages'
        BY <1>1, <2>1, HeldMessages DEF TakenBack, Held
      <3>2. msg[s].delivery_count \in Nat /\ msg[s] # Gone
        BY <3>1, EntityAssumption DEF Message
      <3>3. AfterLocks(s).delivery_count = msg[s].delivery_count + 1
            /\ [AfterLocks(s) EXCEPT !.state = "DeadLettered"].delivery_count
                 = msg[s].delivery_count + 1
        BY <2>1, <3>1 DEF AfterLocks, Unlocked, Message
      <3>4. msg'[s] = Gone \/ msg'[s].delivery_count = msg[s].delivery_count + 1
        BY <1>1, <3>3 DEF AfterExpiry
      <3> QED BY <3>1, <3>2, <3>4 DEF Steady
    <2>2. CASE s \notin TakenBack
      <3>1. msg[s] = Gone \/ msg[s] \in Message
        BY HeldMessages
      <3>2. CASE msg[s] \in Message
        <4>1. msg[s].delivery_count \in Nat /\ msg[s] # Gone
          BY <3>2, EntityAssumption DEF Message
        <4>2. AfterLocks(s).delivery_count = msg[s].delivery_count
              /\ AfterLocks(s).lock_token = msg[s].lock_token
              /\ [AfterLocks(s) EXCEPT !.state = "DeadLettered"].delivery_count
                   = msg[s].delivery_count
              /\ [AfterLocks(s) EXCEPT !.state = "DeadLettered"].lock_token
                   = msg[s].lock_token
          BY <2>2, <3>2 DEF AfterLocks, Promoted, Message
        <4>3. \/ msg'[s] = Gone
              \/ msg'[s].delivery_count = msg[s].delivery_count
                 /\ msg'[s].lock_token = msg[s].lock_token
          BY <1>1, <4>2 DEF AfterExpiry
        <4> QED BY <4>1, <4>3 DEF Steady
      <3>3. CASE msg[s] = Gone
        <4>1. msg'[s] = Gone
          BY <3>3, TickGone
        <4> QED BY <4>1 DEF Steady
      <3> QED BY <3>1, <3>2, <3>3
    <2> QED BY <2>1, <2>2
  <1> QED BY <1>1, <1>2 DEF AllSteady

LEMMA NextSteady ==
  ASSUME Inv, [Next]_vars
  PROVE  AllSteady
  <1>1. CASE msg' = msg
    BY <1>1, Untouched DEF AllSteady
  <1>2. ASSUME NEW session \in Sessions \cup {NoSession}, NEW delay \in Delays,
               NEW ttl \in TimesToLive, Send(session, delay, ttl)
        PROVE  AllSteady
    BY <1>2, SendSteady
  <1>3. ASSUME NEW mode \in Modes,
               TryReceive(mode) \/ \E id \in Sessions : TryReceiveSession(id, mode)
        PROVE  AllSteady
    BY <1>3, ReceiveSteady
  <1>4. ASSUME NEW t \in DOMAIN locks,
               Complete(t) \/ Abandon(t) \/ DeadLetter(t) \/ Defer(t)
        PROVE  AllSteady
    BY <1>4, SettlingSteady
  <1>5. ASSUME NEW t \in DOMAIN locks, RenewLock(t) PROVE AllSteady
    BY <1>5, RenewLockSteady
  <1>6. ASSUME NEW s \in DOMAIN msg, DeleteMessage(s) \/ ResubmitDeadLetter(s)
        PROVE  AllSteady
    BY <1>6, ResubmitSteady
  <1>7. CASE Tick \/ Purge \/ Restart \/ Elapse
    BY <1>7, TickSteady, BulkSteady
  <1> QED BY <1>1, <1>2, <1>3, <1>4, <1>5, <1>6, <1>7
          DEF Next, vars, AcceptSession, ReleaseSession, AcceptNextSession

-----------------------------------------------------------------------------
\* No operation of state.rs forgives a delivery: the count of a message that
\* stays in the entity never falls.
THEOREM SpecDeliveriesGrow == Spec => DeliveriesGrow
  <1>1. Inv /\ [Next]_vars
          => [\A s \in Held \cap Held' :
                msg'[s].delivery_count >= msg[s].delivery_count]_vars
    <2> SUFFICES ASSUME Inv, [Next]_vars, NEW s \in Held \cap Held'
        PROVE  msg'[s].delivery_count >= msg[s].delivery_count
      OBVIOUS
    <2>1. s \in DOMAIN msg /\ Steady(s)
      BY NextSteady, HeldMessages DEF AllSteady
    <2>2. msg'[s] # Gone
      BY NextInv, NextSteady, <2>1 DEF Inv, Accounted, Numbers, AllSteady
    <2> QED BY <2>1, <2>2 DEF Steady
  <1> QED BY SpecInv, <1>1, PTL DEF Spec, DeliveriesGrow

\* A message out on a lock is handed to nobody else: as long as it stays locked it
\* stays with the token it was delivered with.
THEOREM SpecOneHolder == Spec => OneHolder
  <1>1. Inv /\ [Next]_vars
          => [\A s \in lockedMessages \cap lockedMessages' :
                msg'[s].lock_token = msg[s].lock_token]_vars
    <2> SUFFICES ASSUME Inv, [Next]_vars, NEW s \in lockedMessages \cap lockedMessages'
        PROVE  msg'[s].lock_token = msg[s].lock_token
      OBVIOUS
    <2>1. s \in DOMAIN msg /\ Steady(s)
      BY NextSteady, HeldMessages DEF AllSteady, Held
    <2>2. s \in Held'
      BY DEF Held
    <2>3. msg'[s] # Gone
      BY NextInv, NextSteady, <2>1, <2>2 DEF Inv, Accounted, Numbers, AllSteady
    <2> QED BY <2>1, <2>3 DEF Steady
  <1> QED BY SpecInv, <1>1, PTL DEF Spec, OneHolder

-----------------------------------------------------------------------------
\* Where each operation takes a message: the state field follows the bucket, the
\* messages never handed out keep their order, and nothing moves in a way that
\* MessageLifecycle does not allow.

\* Message r stays where it is, with its state and its deliveries.
Same(r) ==
  /\ r \in Range(active') <=> r \in Range(active)
  /\ r \in Range(scheduled') <=> r \in Range(scheduled)
  /\ r \in deferred' <=> r \in deferred
  /\ r \in Range(deadLetter') <=> r \in Range(deadLetter)
  /\ r \in lockedMessages' <=> r \in lockedMessages
  /\ r \in Held =>
       /\ msg'[r].state = msg[r].state
       /\ msg'[r].delivery_count = msg[r].delivery_count
       /\ msg'[r].scheduled_enqueue_time = Never <=> msg[r].scheduled_enqueue_time = Never

SameBut(S) == \A r \in Nat \ S : Same(r)

\* Message s is in the one bucket p, or in none.
OnlyIn(p, s) ==
  /\ s \in Range(active)     <=> p = "Active"
  /\ s \in Range(scheduled)  <=> p = "Scheduled"
  /\ s \in deferred          <=> p = "Deferred"
  /\ s \in Range(deadLetter) <=> p = "DeadLettered"
  /\ s \in lockedMessages    <=> p = "Locked"

\* Operations that move no message.
LEMMA StillMoves ==
  ASSUME Inv,
         \/ UNCHANGED vars
         \/ \E id \in Sessions : AcceptSession(id) \/ ReleaseSession(id)
         \/ AcceptNextSession
         \/ \E t \in DOMAIN locks : RenewLock(t)
         \/ Elapse
  PROVE  SameBut({}) /\ nextSequence' = nextSequence /\ active' = active
  <1>1. UNCHANGED <<nextSequence, active, scheduled, deferred, deadLetter, lockedMessages>>
    BY DEF vars, AcceptSession, ReleaseSession, AcceptNextSession, RenewLock, Elapse
  <1>2. ASSUME NEW r \in Held
        PROVE  /\ msg'[r].state = msg[r].state
               /\ msg'[r].delivery_count = msg[r].delivery_count
               /\ msg'[r].scheduled_enqueue_time = Never
                    <=> msg[r].scheduled_enqueue_time = Never
    <2>1. r \in DOMAIN msg /\ msg[r] \in Message /\ msg[r] # Gone
      BY HeldMessages
    <2>2. CASE msg' = msg
      BY <2>2
    <2>3. ASSUME NEW t \in DOMAIN locks, RenewLock(t)
          PROVE  msg'[r] = msg[r] \/ msg'[r] = [msg[r] EXCEPT !.locked_until = LockDuration]
      <3> DEFINE m == [msg[locks[t].sequence_number] EXCEPT !.locked_until = LockDuration]
      <3>1. msg' = [msg EXCEPT ![locks[t].sequence_number] = m]
        BY <2>3, LockFacts DEF RenewLock, Resettle
      <3> QED BY <2>1, <3>1
    <2>4. CASE Elapse
      <3>1. msg'[r] = [msg[r] EXCEPT !.scheduled_enqueue_time = Sooner(@),
                                     !.expires_at = Sooner(@),
                                     !.locked_until = Sooner(@)]
        BY <2>1, <2>4 DEF Elapse
      <3>2. \A x \in Timer : Sooner(x) = Never <=> x = Never
        BY DEF Sooner, Timer, Never
      <3> QED BY <2>1, <3>1, <3>2 DEF Message
    <2>5. CASE msg'[r] = [msg[r] EXCEPT !.locked_until = LockDuration]
      BY <2>1, <2>5 DEF Message
    <2> QED BY <2>2, <2>3, <2>4, <2>5
           DEF vars, AcceptSession, ReleaseSession, AcceptNextSession
  <1> QED BY <1>1, <1>2 DEF SameBut, Same

\* A message that is appended has the next number.
LEMMA NewNumber ==
  ASSUME Inv, NEW left, left \in Seq(Message \cup {Gone}), Len(left) = Len(msg),
         NEW new, msg' = Append(left, new), NEW n, n = nextSequence
  PROVE  n \in Nat /\ n \notin Held /\ msg'[n] = new /\ \A r \in Held : msg'[r] = left[r]
  <1>1. /\ n \in Nat \ {0} /\ n \notin Held /\ DOMAIN msg = 1..(n - 1)
        /\ \A r \in Held : r \in DOMAIN msg
    BY HeldMessages
  <1>2. Len(left) = n - 1 /\ DOMAIN left = DOMAIN msg
    BY DEF Inv, TypeOK, Accounted
  <1>3. (\A r \in DOMAIN msg : msg'[r] = left[r]) /\ msg'[n] = new
    BY <1>1, <1>2
  <1> QED BY <1>1, <1>3

\* send: a new message goes behind the others, in active or in scheduled.
LEMMA SendMoves ==
  ASSUME Inv, NEW session \in Sessions \cup {NoSession}, NEW delay \in Delays,
         NEW ttl \in TimesToLive, Send(session, delay, ttl), NEW n, n = nextSequence
  PROVE  /\ n \in Nat /\ n \notin Held /\ SameBut({n}) /\ nextSequence' = n + 1
         /\ n <= MaxSequence
         /\ \/ OnlyIn("Active", n)' /\ msg'[n].state = "Active"
            \/ /\ OnlyIn("Scheduled", n)' /\ msg'[n].state = "Scheduled"
               /\ msg'[n].scheduled_enqueue_time # Never
         /\ \A x, y : Before(active', x, y) =>
                        Before(active, x, y) \/ (x \in Range(active) /\ y = n)
  <1> DEFINE m == [session_id |-> session,
                   scheduled_enqueue_time |-> delay,
                   expires_at |-> ttl,
                   delivery_count |-> 0,
                   state |-> IF delay > 0 THEN "Scheduled" ELSE "Active",
                   lock_token |-> NoToken,
                   locked_until |-> Never]
  <1>1. msg \in Seq(Message \cup {Gone})
    BY DEF Inv, TypeOK
  <1>2. nextSequence' = n + 1 /\ msg' = Append(msg, m) /\ n <= MaxSequence
    BY DEF Send, Enqueue
  <1>3. /\ n \in Nat /\ n \notin Held /\ nextSequence' = n + 1 /\ n <= MaxSequence
        /\ \A r \in Held : msg'[r] = msg[r]
        /\ \/ /\ active' = Append(active, n) /\ scheduled' = scheduled
              /\ msg'[n].state = "Active"
           \/ /\ active' = active /\ scheduled' = Append(scheduled, n)
              /\ msg'[n].state = "Scheduled" /\ msg'[n].scheduled_enqueue_time # Never
    <2>1. PICK left, new : left = msg /\ new = m
      OBVIOUS
    <2>2. n \in Nat /\ n \notin Held /\ msg'[n] = new /\ \A r \in Held : msg'[r] = left[r]
      <3>1. left \in Seq(Message \cup {Gone}) /\ Len(left) = Len(msg) /\ msg' = Append(left, new)
        BY <1>1, <1>2, <2>1
      <3> HIDE DEF m
      <3> QED BY <3>1, NewNumber
    <2>3. \/ ~(delay > 0) /\ active' = Append(active, n) /\ scheduled' = scheduled
          \/ delay > 0 /\ active' = active /\ scheduled' = Append(scheduled, n)
      BY DEF Send, Enqueue
    <2>4. delay > 0 => delay # Never
      BY EntityAssumption DEF Never
    <2>5. msg'[n].scheduled_enqueue_time = delay
          /\ msg'[n].state = IF delay > 0 THEN "Scheduled" ELSE "Active"
      BY <2>1, <2>2
    <2>6. \A r \in Held : msg'[r] = msg[r]
      BY <2>1, <2>2
    <2> HIDE DEF m
    <2> QED BY <1>2, <2>2, <2>3, <2>4, <2>5, <2>6
  <1>4. UNCHANGED <<deferred, deadLetter, lockedMessages>>
    BY DEF Send
  <1>5. active \in Seq(Nat) /\ scheduled \in Seq(Nat)
    BY DEF Inv, TypeOK
  <1>6. /\ Range(Append(active, n)) = Range(active) \cup {n}
        /\ Range(Append(scheduled, n)) = Range(scheduled) \cup {n}
    <2>1. n \in Nat
      BY <1>3
    <2> QED BY <1>5, <2>1, BucketPushBack
  <1>7. \/ /\ Range(active') = Range(active) \cup {n} /\ Range(scheduled') = Range(scheduled)
           /\ msg'[n].state = "Active"
        \/ /\ Range(active') = Range(active) /\ Range(scheduled') = Range(scheduled) \cup {n}
           /\ msg'[n].state = "Scheduled" /\ msg'[n].scheduled_enqueue_time # Never
    BY <1>3, <1>6
  <1>8. SameBut({n})
    BY <1>3, <1>4, <1>7 DEF SameBut, Same
  <1>9. \/ OnlyIn("Active", n)' /\ msg'[n].state = "Active"
        \/ /\ OnlyIn("Scheduled", n)' /\ msg'[n].state = "Scheduled"
           /\ msg'[n].scheduled_enqueue_time # Never
    BY <1>3, <1>4, <1>7 DEF OnlyIn, Held
  <1>10. ASSUME NEW x, NEW y, Before(active', x, y)
         PROVE  Before(active, x, y) \/ (x \in Range(active) /\ y = n)
    <2>1. CASE active' = Append(active, n)
      <3>1. Before(Append(active, n), x, y) /\ n \in Nat
        BY <1>3, <1>10, <2>1
      <3> QED BY <1>5, <3>1, BeforePushBack
    <2>2. CASE active' = active
      BY <1>10, <2>2
    <2> QED BY <1>3, <2>1, <2>2
  <1> QED BY <1>3, <1>8, <1>9, <1>10

\* finish_receive, on a message just taken out of active.
LEMMA DeliverMoves ==
  ASSUME Inv, NEW s \in Range(active), NEW mode \in Modes, FinishReceive(s, mode),
         Range(active') = Range(active) \ {s},
         UNCHANGED <<nextSequence, scheduled, deferred, deadLetter>>
  PROVE  /\ s \in Nat /\ OnlyIn("Active", s) /\ SameBut({s})
         /\ \/ OnlyIn("Gone", s)'
            \/ /\ OnlyIn("Locked", s)' /\ msg'[s].state = msg[s].state
               /\ msg'[s].delivery_count > 0
  <1>1. /\ s \in Held /\ s \in DOMAIN msg /\ msg[s] \in Message /\ s \in Nat
        /\ msg \in Seq(Message \cup {Gone}) /\ OnePlace
        /\ \A r \in Held : r \in DOMAIN msg
    BY HeldMessages DEF Inv, Held, TypeOK
  <1>2. OnlyIn("Active", s)
    BY <1>1 DEF OnlyIn, OnePlace
  <1>3. \A r \in Held : r # s => msg'[r] = msg[r]
    BY <1>1 DEF FinishReceive, Modes
  <1>4. CASE mode = "ReceiveAndDelete"
    <2>1. lockedMessages' = lockedMessages
      BY <1>4 DEF FinishReceive
    <2> QED BY <1>1, <1>2, <1>3, <2>1 DEF OnlyIn, SameBut, Same
  <1>5. CASE mode = "PeekLock"
    <2> DEFINE out == [msg[s] EXCEPT !.delivery_count = msg[s].delivery_count + 1,
                                     !.lock_token = <<s, msg[s].delivery_count + 1>>,
                                     !.locked_until = LockDuration]
    <2>1. lockedMessages' = lockedMessages \cup {s} /\ msg' = [msg EXCEPT ![s] = out]
      BY <1>5 DEF FinishReceive
    <2>2. out.delivery_count > 0 /\ out.state = msg[s].state
      BY <1>1 DEF Message
    <2>3. msg'[s] = out
      BY <1>1, <2>1
    <2> HIDE DEF out
    <2> QED BY <1>1, <1>2, <1>3, <2>1, <2>2, <2>3 DEF OnlyIn, SameBut, Same
  <1> QED BY <1>4, <1>5 DEF Modes

\* Receiving takes one message out of active.
LEMMA ReceiveMoves ==
  ASSUME Inv, NEW mode \in Modes,
         TryReceive(mode) \/ \E id \in Sessions : TryReceiveSession(id, mode)
  PROVE  /\ nextSequence' = nextSequence
         /\ \A x, y : Before(active', x, y) => Before(active, x, y)
         /\ \E s \in Nat :
              /\ OnlyIn("Active", s) /\ SameBut({s})
              /\ \/ OnlyIn("Gone", s)'
                 \/ /\ OnlyIn("Locked", s)' /\ msg'[s].state = msg[s].state
                    /\ msg'[s].delivery_count > 0
  <1>1. active \in Seq(Nat) /\ IsInjective(active)
    BY DEF Inv, TypeOK, OnePlace
  <1>2. CASE TryReceive(mode)
    <2>1. /\ active # <<>> /\ active' = Tail(active) /\ FinishReceive(Head(active), mode)
          /\ UNCHANGED <<nextSequence, scheduled, deferred, deadLetter>>
      BY <1>2 DEF TryReceive
    <2>2. Head(active) \in Range(active) /\ Range(Tail(active)) = Range(active) \ {Head(active)}
      BY <1>1, <2>1, BucketPopFront
    <2>3. PICK s \in Range(active) : s = Head(active)
      BY <2>2
    <2>4. \A x, y : Before(active', x, y) => Before(active, x, y)
      BY <1>1, <2>1, BeforePopFront
    <2>5. FinishReceive(s, mode) /\ Range(active') = Range(active) \ {s}
      BY <2>1, <2>2, <2>3
    <2> QED BY <2>1, <2>4, <2>5, DeliverMoves
  <1>3. ASSUME NEW id \in Sessions, TryReceiveSession(id, mode)
        PROVE  /\ nextSequence' = nextSequence
               /\ \A x, y : Before(active', x, y) => Before(active, x, y)
               /\ \E s \in Nat :
                    /\ OnlyIn("Active", s) /\ SameBut({s})
                    /\ \/ OnlyIn("Gone", s)'
                       \/ /\ OnlyIn("Locked", s)' /\ msg'[s].state = msg[s].state
                          /\ msg'[s].delivery_count > 0
    <2>1. PICK i \in DOMAIN active :
            /\ active' = RemoveAt(active, i)
            /\ FinishReceive(active[i], mode)
            /\ UNCHANGED <<nextSequence, scheduled, deferred, deadLetter, lockedSessions>>
      BY <1>3 DEF TryReceiveSession, First
    <2>2. PICK s \in Range(active) : s = active[i]
      BY DEF Range
    <2>3. Range(active') = Range(active) \ {s}
      BY <1>1, <2>1, <2>2, BucketRemoveAt
    <2>4. \A x, y : Before(active', x, y) => Before(active, x, y)
      BY <1>1, <2>1, BeforeRemoveAt
    <2>5. FinishReceive(s, mode)
      BY <2>1, <2>2
    <2> QED BY <2>1, <2>3, <2>4, <2>5, DeliverMoves
  <1> QED BY <1>2, <1>3


\* A message out on a lock goes back, into another bucket or away.
LEMMA SettlingMoves ==
  ASSUME Inv, NEW t \in DOMAIN locks,
         Complete(t) \/ Abandon(t) \/ DeadLetter(t) \/ Defer(t)
  PROVE  /\ nextSequence' = nextSequence
         /\ \E s \in Nat :
              /\ OnlyIn("Locked", s) /\ SameBut({s})
              /\ \/ OnlyIn("Gone", s)'
                 \/ /\ \E p \in {"Active", "Deferred", "DeadLettered"} :
                         OnlyIn(p, s)' /\ msg'[s].state = p
                    /\ msg'[s].delivery_count = msg[s].delivery_count
              /\ \A x, y : Before(active', x, y) => Before(active, x, y) \/ x = s
  <1>1. PICK s : s = locks[t].sequence_number
    OBVIOUS
  <1>2. /\ Holds(t) /\ s \in lockedMessages /\ s \in Nat /\ s \in DOMAIN msg
        /\ msg[s] \in Message
    BY <1>1, LockFacts DEF Holds
  <1>3. /\ active \in Seq(Nat) /\ deadLetter \in Seq(Nat) /\ msg \in Seq(Message \cup {Gone})
        /\ OnlyIn("Locked", s)
    BY <1>2 DEF Inv, TypeOK, OnePlace, OnlyIn
  <1>4. /\ nextSequence' = nextSequence /\ scheduled' = scheduled
        /\ lockedMessages' = lockedMessages \ {s}
    BY <1>1 DEF Complete, Abandon, DeadLetter, Defer, TakeLocked
  <1>5. ASSUME NEW m, msg' = [msg EXCEPT ![s] = m]
        PROVE  (\A r \in Held : r # s => msg'[r] = msg[r]) /\ msg'[s] = m
    BY <1>2, <1>3, <1>5, HeldMessages
  <1>6. ASSUME NEW p \in {"Active", "Deferred", "DeadLettered"}, NEW m,
               m = Unlocked(msg[s], p), msg' = [msg EXCEPT ![s] = m]
        PROVE  /\ \A r \in Held : r # s => msg'[r] = msg[r]
               /\ msg'[s].state = p /\ msg'[s].delivery_count = msg[s].delivery_count
    <2>1. m.state = p /\ m.delivery_count = msg[s].delivery_count
      BY <1>2, <1>6 DEF Unlocked, Message
    <2> QED BY <1>5, <1>6, <2>1
  <1>7. CASE Complete(t)
    <2>1. /\ active' = active /\ deadLetter' = deadLetter /\ deferred' = deferred
          /\ msg' = [msg EXCEPT ![s] = Gone]
      BY <1>1, <1>2, <1>7 DEF Complete, Resettle
    <2>2. \A r \in Held : r # s => msg'[r] = msg[r]
      BY <1>5, <2>1
    <2>3. SameBut({s}) /\ OnlyIn("Gone", s)'
      BY <1>3, <1>4, <2>1, <2>2 DEF SameBut, Same, OnlyIn
    <2> QED BY <1>2, <1>3, <1>4, <2>1, <2>3
  <1>8. CASE Abandon(t)
    <2>1. /\ active' = <<s>> \o active /\ deadLetter' = deadLetter /\ deferred' = deferred
          /\ msg' = [msg EXCEPT ![s] = Unlocked(msg[s], "Active")]
      BY <1>1, <1>2, <1>8 DEF Abandon, Resettle
    <2>2. /\ \A r \in Held : r # s => msg'[r] = msg[r]
          /\ msg'[s].state = "Active" /\ msg'[s].delivery_count = msg[s].delivery_count
      BY <1>6, <2>1
    <2>3. PICK front : front = <<s>>
      OBVIOUS
    <2>4. front \in Seq(Nat) /\ Range(front) = {s} /\ DOMAIN front = {1}
      BY <1>2, <2>3 DEF Range
    <2>5. Range(active') = {s} \cup Range(active)
      <3>1. active \in Seq(Nat) /\ front \in Seq(Nat) /\ active' = front \o active
        BY <1>3, <2>1, <2>3, <2>4
      <3>2. Range(front \o active) = Range(front) \cup Range(active)
        BY <3>1, BucketConcat
      <3> QED BY <2>4, <3>1, <3>2
    <2>6. SameBut({s}) /\ OnlyIn("Active", s)'
      BY <1>3, <1>4, <2>1, <2>2, <2>5 DEF SameBut, Same, OnlyIn
    <2>7. ASSUME NEW x, NEW y, Before(active', x, y), x # s PROVE Before(active, x, y)
      <3>1. Before(front \o active, x, y)
        BY <2>1, <2>3, <2>7
      <3>2. ~Before(front, x, y) /\ x \notin Range(front)
        BY <2>4, <2>7 DEF Before
      <3> QED BY <1>3, <2>4, <3>1, <3>2, BeforeConcat
    <2> QED BY <1>2, <1>3, <1>4, <2>2, <2>6, <2>7
  <1>9. CASE DeadLetter(t)
    <2>1. /\ active' = active /\ deadLetter' = Append(deadLetter, s) /\ deferred' = deferred
          /\ msg' = [msg EXCEPT ![s] = Unlocked(msg[s], "DeadLettered")]
      BY <1>1, <1>2, <1>9 DEF DeadLetter, Resettle
    <2>2. /\ \A r \in Held : r # s => msg'[r] = msg[r]
          /\ msg'[s].state = "DeadLettered"
          /\ msg'[s].delivery_count = msg[s].delivery_count
      BY <1>6, <2>1
    <2>3. Range(deadLetter') = Range(deadLetter) \cup {s}
      <3>1. deadLetter \in Seq(Nat) /\ s \in Nat /\ deadLetter' = Append(deadLetter, s)
        BY <1>2, <1>3, <2>1
      <3> QED BY <3>1, BucketPushBack
    <2>4. SameBut({s}) /\ OnlyIn("DeadLettered", s)'
      BY <1>3, <1>4, <2>1, <2>2, <2>3 DEF SameBut, Same, OnlyIn
    <2> QED BY <1>2, <1>3, <1>4, <2>1, <2>2, <2>4
  <1>10. CASE Defer(t)
    <2>1. /\ active' = active /\ deadLetter' = deadLetter /\ deferred' = deferred \cup {s}
          /\ msg' = [msg EXCEPT ![s] = Unlocked(msg[s], "Deferred")]
      BY <1>1, <1>2, <1>10 DEF Defer, Resettle
    <2>2. /\ \A r \in Held : r # s => msg'[r] = msg[r]
          /\ msg'[s].state = "Deferred" /\ msg'[s].delivery_count = msg[s].delivery_count
      BY <1>6, <2>1
    <2>3. SameBut({s}) /\ OnlyIn("Deferred", s)'
      BY <1>3, <1>4, <2>1, <2>2 DEF SameBut, Same, OnlyIn
    <2> QED BY <1>2, <1>3, <1>4, <2>1, <2>2, <2>3
  <1> QED BY <1>7, <1>8, <1>9, <1>10

\* delete_message
LEMMA DeleteMoves ==
  ASSUME Inv, NEW s \in DOMAIN msg, DeleteMessage(s)
  PROVE  /\ nextSequence' = nextSequence /\ s \in Held /\ s \in Nat
         /\ SameBut({s}) /\ OnlyIn("Gone", s)'
         /\ \A x, y : Before(active', x, y) => Before(active, x, y)
  <1>1. /\ nextSequence' = nextSequence /\ s \in Held /\ s \in Nat
        /\ msg' = [msg EXCEPT ![s] = Gone]
    BY HeldMessages DEF DeleteMessage
  <1>2. \A r \in Held : r # s => msg'[r] = msg[r]
    BY <1>1, HeldMessages DEF Inv, TypeOK
  <1> QED BY <1>1, <1>2, DeleteBuckets DEF SameBut, Same, OnlyIn

\* resubmit_dead_letter: the dead letter leaves as its copy arrives.
LEMMA ResubmitMoves ==
  ASSUME Inv, NEW s \in DOMAIN msg, ResubmitDeadLetter(s), NEW n, n = nextSequence
  PROVE  /\ n \in Nat /\ n \notin Held /\ nextSequence' = n + 1 /\ n <= MaxSequence
         /\ s \in Nat /\ s # n /\ OnlyIn("DeadLettered", s) /\ OnlyIn("Gone", s)'
         /\ SameBut({s, n}) /\ OnlyIn("Active", n)' /\ msg'[n].state = "Active"
         /\ \A x, y : Before(active', x, y) =>
                        Before(active, x, y) \/ (x \in Range(active) /\ y = n)
  <1> DEFINE m == [session_id |-> msg[s].session_id,
                   scheduled_enqueue_time |-> Never,
                   expires_at |-> DefaultTTL,
                   delivery_count |-> 0,
                   state |-> "Active",
                   lock_token |-> NoToken,
                   locked_until |-> Never]
  <1>1. PICK i \in DOMAIN deadLetter :
          deadLetter[i] = s /\ deadLetter' = RemoveAt(deadLetter, i)
    BY DEF ResubmitDeadLetter, First
  <1>2. Range(deadLetter') = Range(deadLetter) \ {s}
    <2>1. deadLetter \in Seq(Nat) /\ IsInjective(deadLetter)
      BY DEF Inv, TypeOK, OnePlace
    <2>2. Range(RemoveAt(deadLetter, i)) = Range(deadLetter) \ {deadLetter[i]}
      BY <2>1, BucketRemoveAt
    <2> QED BY <1>1, <2>2
  <1>3. s \in Range(deadLetter) /\ s \in Held
    BY <1>1 DEF Range, Held
  <1>4. OnlyIn("DeadLettered", s) /\ s \in Nat /\ s # n
    BY <1>3, HeldMessages DEF OnlyIn, Inv, OnePlace
  <1>5. Accepts(msg[s].session_id)
    BY <1>3 DEF Inv, SessionsCarried, Accepts
  <1>6. /\ nextSequence' = n + 1 /\ msg' = Append([msg EXCEPT ![s] = Gone], m)
        /\ n <= MaxSequence /\ active' = Append(active, n) /\ scheduled' = scheduled
        /\ UNCHANGED <<deferred, lockedMessages>>
    <2>1. ~(Never > 0)
      BY DEF Never
    <2> QED BY <1>5, <2>1 DEF ResubmitDeadLetter, Enqueue
  <1>7. PICK left, new : left = [msg EXCEPT ![s] = Gone] /\ new = m
    OBVIOUS
  <1>8. /\ left \in Seq(Message \cup {Gone}) /\ Len(left) = Len(msg)
        /\ \A r \in Held : r # s => left[r] = msg[r]
    <2>1. msg \in Seq(Message \cup {Gone}) /\ \A r \in Held : r \in DOMAIN msg
      BY HeldMessages DEF Inv, TypeOK
    <2>2. Gone \in Message \cup {Gone}
      OBVIOUS
    <2>3. /\ [msg EXCEPT ![s] = Gone] \in Seq(Message \cup {Gone})
          /\ Len([msg EXCEPT ![s] = Gone]) = Len(msg)
      BY <2>1, <2>2, SlotUpdate
    <2> QED BY <1>7, <2>1, <2>3
  <1>9. n \in Nat /\ n \notin Held /\ msg'[n] = new /\ \A r \in Held : msg'[r] = left[r]
    <2>1. msg' = Append(left, new)
      BY <1>6, <1>7
    <2> HIDE DEF m
    <2> QED BY <1>8, <2>1, NewNumber
  <1>10. msg'[n].state = "Active"
    BY <1>7, <1>9
  <1> HIDE DEF m
  <1>11. \A r \in Held : r # s => msg'[r] = msg[r]
    BY <1>8, <1>9
  <1>12. active \in Seq(Nat)
    BY DEF Inv, TypeOK
  <1>13. Range(active') = Range(active) \cup {n}
    BY <1>6, <1>9, <1>12, BucketPushBack
  <1>14. SameBut({s, n}) /\ OnlyIn("Active", n)' /\ OnlyIn("Gone", s)'
    BY <1>2, <1>4, <1>6, <1>9, <1>11, <1>13 DEF SameBut, Same, OnlyIn, Held
  <1>15. ASSUME NEW x, NEW y, Before(active', x, y)
         PROVE  Before(active, x, y) \/ (x \in Range(active) /\ y = n)
    <2>1. Before(Append(active, n), x, y) /\ n \in Nat
      BY <1>6, <1>9, <1>15
    <2> QED BY <1>12, <2>1, BeforePushBack
  <1> QED BY <1>4, <1>6, <1>9, <1>10, <1>14, <1>15


-----------------------------------------------------------------------------
\* The state field and the order of active.

\* Message s has the state of the bucket it is in.
Named(s) ==
  /\ s \in Range(active) \cup lockedMessages => msg[s].state = "Active"
  /\ s \in Range(scheduled) => msg[s].state = "Scheduled"
  /\ s \in deferred => msg[s].state = "Deferred"
  /\ s \in Range(deadLetter) => msg[s].state = "DeadLettered"

\* A message out on a lock has been delivered, and one that is scheduled has a time:
\* neither is taken for a fresh one when it is put in active.
Delivered == \A s \in lockedMessages : msg[s].delivery_count > 0
Timed     == \A s \in Range(scheduled) : msg[s].scheduled_enqueue_time # Never

OrderInv == Inv /\ StateMatchesBucket /\ FreshInOrder /\ Delivered /\ Timed

\* StateMatchesBucket, bucket by bucket.
LEMMA StatesNamed ==
  /\ OnePlace => (StateMatchesBucket <=> \A s \in Held : Named(s))
  /\ OnePlace' => (StateMatchesBucket' <=> \A s \in Held' : Named(s)')
  <1>1. ASSUME OnePlace PROVE StateMatchesBucket <=> \A s \in Held : Named(s)
    <2>1. ASSUME NEW s \in Held
          PROVE  Named(s) <=>
                   msg[s].state = CASE s \in Range(scheduled)  -> "Scheduled"
                                    [] s \in deferred          -> "Deferred"
                                    [] s \in Range(deadLetter) -> "DeadLettered"
                                    [] OTHER                   -> "Active"
      BY <1>1 DEF Named, OnePlace, Held
    <2> QED BY <2>1 DEF StateMatchesBucket
  <1>2. ASSUME OnePlace' PROVE StateMatchesBucket' <=> \A s \in Held' : Named(s)'
    <2>1. ASSUME NEW s \in Held'
          PROVE  Named(s)' <=>
                   msg'[s].state = CASE s \in Range(scheduled')  -> "Scheduled"
                                     [] s \in deferred'          -> "Deferred"
                                     [] s \in Range(deadLetter') -> "DeadLettered"
                                     [] OTHER                    -> "Active"
      BY <1>2 DEF Named, OnePlace, Held
    <2> QED BY <2>1 DEF StateMatchesBucket
  <1> QED BY <1>1, <1>2

\* FreshInOrder, in terms of Before.
LEMMA FreshBefore ==
  /\ FreshInOrder <=>
       \A x, y : Before(active, x, y) /\ Fresh(x) /\ Fresh(y) => x < y
  /\ FreshInOrder' <=>
       \A x, y : Before(active', x, y) /\ Fresh(x)' /\ Fresh(y)' => x < y
  <1>1. FreshInOrder <=>
          \A x, y : Before(active, x, y) /\ Fresh(x) /\ Fresh(y) => x < y
    BY DEF FreshInOrder, Before
  <1>2. FreshInOrder' <=>
          \A x, y : Before(active', x, y) /\ Fresh(x)' /\ Fresh(y)' => x < y
    BY DEF FreshInOrder, Before, Fresh
  <1> QED BY <1>1, <1>2

\* It is enough to look at the messages that move.
LEMMA OrderStep ==
  ASSUME OrderInv, Inv', NEW S \in SUBSET Nat, SameBut(S),
         \A s \in S : s \notin Range(active) \/ s \notin Range(active'),
         \A s \in S : s \in Held' =>
           /\ Named(s)'
           /\ s \in lockedMessages' => msg'[s].delivery_count > 0
           /\ s \in Range(scheduled') => msg'[s].scheduled_enqueue_time # Never,
         \A x, y : Before(active', x, y) =>
           Before(active, x, y) \/ x < y \/ ~Fresh(x)' \/ ~Fresh(y)'
  PROVE  OrderInv'
  <1>1. /\ OnePlace /\ OnePlace' /\ \A s \in Held : Named(s)
        /\ Held' \subseteq Nat
    BY StatesNamed DEF OrderInv, Inv, TypeOK, Held, Accounted, Numbers
  <1>2. \A r \in Nat \ S : Same(r)
    BY DEF SameBut
  <1>3. ASSUME NEW s \in Held', s \notin S
        PROVE  /\ Named(s)'
               /\ s \in lockedMessages' => msg'[s].delivery_count > 0
               /\ s \in Range(scheduled') => msg'[s].scheduled_enqueue_time # Never
    <2>1. Same(s) /\ s \in Nat
      BY <1>1, <1>2, <1>3
    <2>2. s \in Held /\ Named(s)
      BY <1>1, <2>1 DEF Same, Held
    <2>3. /\ s \in lockedMessages => msg[s].delivery_count > 0
          /\ s \in Range(scheduled) => msg[s].scheduled_enqueue_time # Never
      BY DEF OrderInv, Delivered, Timed
    <2> QED BY <2>1, <2>2, <2>3 DEF Same, Named
  <1>4. StateMatchesBucket'
    BY <1>1, <1>3, StatesNamed
  <1>5. Delivered' /\ Timed'
    BY <1>3 DEF Delivered, Timed, Held
  <1>6. ASSUME NEW x, NEW y, Before(active', x, y), Fresh(x)', Fresh(y)' PROVE x < y
    <2>1. CASE Before(active, x, y)
      <3>1. /\ x \in Range(active) /\ y \in Range(active)
            /\ x \in Range(active') /\ y \in Range(active')
        BY <1>6, <2>1 DEF Before, Range
      <3>2. x \in Held /\ y \in Held /\ x \in Held' /\ y \in Held' /\ x \notin S /\ y \notin S
        BY <3>1 DEF Held
      <3>3. Same(x) /\ Same(y)
        BY <1>1, <1>2, <3>2
      <3>4. Fresh(x) /\ Fresh(y)
        BY <1>6, <3>2, <3>3 DEF Fresh, Same
      <3> QED BY <2>1, <3>4, FreshBefore DEF OrderInv
    <2> QED BY <1>6, <2>1
  <1>7. FreshInOrder'
    BY <1>6, FreshBefore
  <1> QED BY <1>4, <1>5, <1>7 DEF OrderInv


LEMMA StillOrder ==
  ASSUME OrderInv,
         \/ UNCHANGED vars
         \/ \E id \in Sessions : AcceptSession(id) \/ ReleaseSession(id)
         \/ AcceptNextSession
         \/ \E t \in DOMAIN locks : RenewLock(t)
         \/ Elapse
  PROVE  OrderInv'
  <1>1. Inv /\ Inv'
    BY NextInv DEF OrderInv, Next
  <1>2. SameBut({}) /\ active' = active
    BY <1>1, StillMoves
  <1>3. \A x, y : Before(active', x, y) => Before(active, x, y)
    BY <1>2
  <1>4. PICK S \in SUBSET Nat : S = {}
    OBVIOUS
  <1>5. SameBut(S)
    BY <1>2, <1>4 DEF SameBut, Same
  <1> QED BY <1>1, <1>3, <1>4, <1>5, OrderStep

LEMMA SendOrder ==
  ASSUME OrderInv, NEW session \in Sessions \cup {NoSession}, NEW delay \in Delays,
         NEW ttl \in TimesToLive, Send(session, delay, ttl)
  PROVE  OrderInv'
  <1>1. Inv /\ Inv'
    BY SendInv DEF OrderInv
  <1>2. PICK n : n = nextSequence
    OBVIOUS
  <1>3. /\ n \in Nat /\ n \notin Held /\ SameBut({n})
        /\ \/ OnlyIn("Active", n)' /\ msg'[n].state = "Active"
           \/ /\ OnlyIn("Scheduled", n)' /\ msg'[n].state = "Scheduled"
              /\ msg'[n].scheduled_enqueue_time # Never
        /\ \A x, y : Before(active', x, y) =>
                       Before(active, x, y) \/ (x \in Range(active) /\ y = n)
    BY <1>1, <1>2, SendMoves
  <1>4. \A x \in Range(active) : x < n
    BY <1>1, <1>2, HeldMessages DEF Held
  <1>5. n \notin Range(active)
    BY <1>3 DEF Held
  <1>6. /\ Named(n)' /\ n \notin lockedMessages'
        /\ n \in Range(scheduled') => msg'[n].scheduled_enqueue_time # Never
    BY <1>3 DEF Named, OnlyIn
  <1>7. \A x, y : Before(active', x, y) => Before(active, x, y) \/ x < y
    BY <1>3, <1>4
  <1>8. PICK S \in SUBSET Nat : S = {n}
    BY <1>3
  <1>9. SameBut(S)
    BY <1>3, <1>8 DEF SameBut, Same
  <1> QED BY <1>1, <1>5, <1>6, <1>7, <1>8, <1>9, OrderStep

LEMMA ReceiveOrder ==
  ASSUME OrderInv, NEW mode \in Modes,
         TryReceive(mode) \/ \E id \in Sessions : TryReceiveSession(id, mode)
  PROVE  OrderInv'
  <1>1. Inv /\ Inv'
    BY TryReceiveInv, TryReceiveSessionInv DEF OrderInv
  <1>2. PICK s \in Nat :
          /\ OnlyIn("Active", s) /\ SameBut({s})
          /\ \/ OnlyIn("Gone", s)'
             \/ /\ OnlyIn("Locked", s)' /\ msg'[s].state = msg[s].state
                /\ msg'[s].delivery_count > 0
    BY <1>1, ReceiveMoves
  <1>3. \A x, y : Before(active', x, y) => Before(active, x, y)
    BY <1>1, ReceiveMoves
  <1>4. msg[s].state = "Active"
    BY <1>2, StatesNamed DEF OrderInv, Inv, Named, OnlyIn, Held
  <1>5. s \in Held' => /\ Named(s)' /\ s \notin Range(scheduled')
                       /\ s \in lockedMessages' => msg'[s].delivery_count > 0
    BY <1>2, <1>4 DEF Named, OnlyIn, Held
  <1>6. s \notin Range(active')
    BY <1>2 DEF OnlyIn
  <1>7. PICK S \in SUBSET Nat : S = {s}
    OBVIOUS
  <1>8. SameBut(S)
    BY <1>2, <1>7 DEF SameBut, Same
  <1> QED BY <1>1, <1>3, <1>5, <1>6, <1>7, <1>8, OrderStep

LEMMA SettlingOrder ==
  ASSUME OrderInv, NEW t \in DOMAIN locks,
         Complete(t) \/ Abandon(t) \/ DeadLetter(t) \/ Defer(t)
  PROVE  OrderInv'
  <1>1. Inv /\ Inv'
    BY SettlingInv DEF OrderInv
  <1>2. PICK s \in Nat :
          /\ OnlyIn("Locked", s) /\ SameBut({s})
          /\ \/ OnlyIn("Gone", s)'
             \/ /\ \E p \in {"Active", "Deferred", "DeadLettered"} :
                     OnlyIn(p, s)' /\ msg'[s].state = p
                /\ msg'[s].delivery_count = msg[s].delivery_count
          /\ \A x, y : Before(active', x, y) => Before(active, x, y) \/ x = s
    BY <1>1, SettlingMoves
  <1>3. msg[s].delivery_count > 0 /\ s \notin Range(active) /\ s \in DOMAIN msg
        /\ msg[s] \in Message
    BY <1>1, <1>2, HeldMessages DEF OrderInv, Delivered, OnlyIn, Held
  <1>4. s \in Held' => /\ Named(s)' /\ s \notin Range(scheduled') /\ s \notin lockedMessages'
                       /\ ~Fresh(s)'
    <2>1. msg[s].delivery_count # 0
      BY <1>3 DEF Message
    <2> QED BY <1>2, <2>1 DEF Named, OnlyIn, Held, Fresh
  <1>5. ASSUME NEW x, NEW y, Before(active', x, y)
        PROVE  Before(active, x, y) \/ ~Fresh(x)'
    <2>1. x \in Held'
      BY <1>5 DEF Before, Range, Held
    <2> QED BY <1>2, <1>4, <1>5, <2>1
  <1>6. PICK S \in SUBSET Nat : S = {s}
    OBVIOUS
  <1>7. SameBut(S)
    BY <1>2, <1>6 DEF SameBut, Same
  <1> QED BY <1>1, <1>3, <1>4, <1>5, <1>6, <1>7, OrderStep

LEMMA DeleteOrder ==
  ASSUME OrderInv, NEW s \in DOMAIN msg, DeleteMessage(s)
  PROVE  OrderInv'
  <1>1. Inv /\ Inv'
    BY DeleteMessageInv DEF OrderInv
  <1>2. /\ s \in Nat /\ SameBut({s}) /\ OnlyIn("Gone", s)'
        /\ \A x, y : Before(active', x, y) => Before(active, x, y)
    BY <1>1, DeleteMoves
  <1>3. s \notin Held'
    BY <1>2 DEF OnlyIn, Held
  <1>4. s \notin Range(active')
    BY <1>3 DEF Held
  <1>5. PICK S \in SUBSET Nat : S = {s}
    BY <1>2
  <1>6. SameBut(S)
    BY <1>2, <1>5 DEF SameBut, Same
  <1> QED BY <1>1, <1>2, <1>3, <1>4, <1>5, <1>6, OrderStep

LEMMA ResubmitOrder ==
  ASSUME OrderInv, NEW s \in DOMAIN msg, ResubmitDeadLetter(s)
  PROVE  OrderInv'
  <1>1. Inv /\ Inv'
    BY ResubmitDeadLetterInv DEF OrderInv
  <1>2. PICK n : n = nextSequence
    OBVIOUS
  <1>3. /\ n \in Nat /\ n \notin Held /\ s \in Nat /\ OnlyIn("Gone", s)'
        /\ SameBut({s, n}) /\ OnlyIn("Active", n)' /\ msg'[n].state = "Active"
        /\ \A x, y : Before(active', x, y) =>
                       Before(active, x, y) \/ (x \in Range(active) /\ y = n)
    BY <1>1, <1>2, ResubmitMoves
  <1>4. \A x \in Range(active) : x < n
    BY <1>1, <1>2, HeldMessages DEF Held
  <1>5. s \notin Held' /\ n \notin Range(active) /\ s \notin Range(active')
    BY <1>3 DEF Held, OnlyIn
  <1>6. Named(n)' /\ n \notin lockedMessages' /\ n \notin Range(scheduled')
    BY <1>3 DEF Named, OnlyIn
  <1>7. \A x, y : Before(active', x, y) => Before(active, x, y) \/ x < y
    BY <1>3, <1>4
  <1>8. PICK S \in SUBSET Nat : S = {s, n}
    BY <1>3
  <1>9. SameBut(S)
    BY <1>3, <1>8 DEF SameBut, Same
  <1> QED BY <1>1, <1>5, <1>6, <1>7, <1>8, <1>9, OrderStep

\* Purge empties active; a restart sorts it.
LEMMA BulkOrder ==
  ASSUME OrderInv, Purge \/ Restart
  PROVE  OrderInv'
  <1>1. /\ Inv /\ Inv' /\ \A s \in Held : Named(s)
        /\ UNCHANGED <<scheduled, deferred, deadLetter>> /\ lockedMessages' = {}
    BY PurgeInv, RestartInv, StatesNamed DEF OrderInv, Inv, Purge, Restart
  <1>2. \A s \in Held : s \in DOMAIN msg /\ msg[s] \in Message
    BY <1>1, HeldMessages
  <1>3. CASE Purge
    <2>1. active' = <<>> /\ Range(<<>>) = {} /\ DOMAIN <<>> = {}
      BY <1>3 DEF Purge, Range
    <2>2. ASSUME NEW s \in Held' PROVE s \in Held /\ msg'[s] = msg[s]
      <3>1. s \in Range(scheduled) \cup deferred \cup Range(deadLetter)
        BY <1>1, <2>1 DEF Held
      <3>2. s \in Held /\ s \notin Range(active) \cup lockedMessages
        BY <1>1, <3>1 DEF Held, Inv, OnePlace
      <3>3. msg' = [r \in DOMAIN msg |->
                      IF r \in Range(active) \cup lockedMessages THEN Gone ELSE msg[r]]
        BY <1>3 DEF Purge
      <3> QED BY <1>2, <3>2, <3>3
    <2>3. \A s \in Held' : Named(s)'
      <3> SUFFICES ASSUME NEW s \in Held' PROVE Named(s)'
        OBVIOUS
      <3>1. Named(s) /\ msg'[s] = msg[s]
        BY <1>1, <2>2
      <3> QED BY <1>1, <2>1, <3>1 DEF Named
    <2>4. FreshInOrder' /\ Delivered'
      BY <1>1, <2>1 DEF FreshInOrder, Delivered
    <2>5. Timed'
      BY <1>1, <2>2 DEF Timed, Held, OrderInv
    <2> QED BY <1>1, <2>3, <2>4, <2>5, StatesNamed DEF OrderInv, Inv
  <1>4. CASE Restart
    <2>1. /\ active' \in SetToSeqs(Exported) /\ Sorted(active')
          /\ msg' = [s \in DOMAIN msg |->
                       IF s \in lockedMessages THEN Unlocked(msg[s], "Active") ELSE msg[s]]
      BY <1>4 DEF Restart
    <2>2. Range(active') = Range(active) \cup lockedMessages
      <3>1. Exported \in SUBSET Held
        BY DEF Exported, Held
      <3>2. Exported \in SUBSET Nat /\ IsFiniteSet(Exported)
        BY <1>1, <3>1, HeldFinite
      <3>3. Range(active') = Exported
        BY <2>1, <3>2, BucketOrder
      <3> QED BY <3>3 DEF Exported
    <2>3. ASSUME NEW s \in Held'
          PROVE  /\ s \in Held
                 /\ s \in lockedMessages => msg'[s].state = "Active"
                 /\ s \notin lockedMessages => msg'[s] = msg[s]
      <3>1. s \in Held
        BY <1>1, <2>2 DEF Held
      <3>2. CASE s \in lockedMessages
        <4>1. msg'[s] = Unlocked(msg[s], "Active") /\ msg[s] \in Message
          BY <1>2, <2>1, <3>1, <3>2
        <4> QED BY <3>1, <3>2, <4>1 DEF Unlocked, Message
      <3>3. CASE s \notin lockedMessages
        BY <1>2, <2>1, <3>1, <3>3
      <3> QED BY <3>2, <3>3
    <2>4. \A s \in Held' : Named(s)'
      <3> SUFFICES ASSUME NEW s \in Held' PROVE Named(s)'
        OBVIOUS
      <3>1. /\ Named(s)
            /\ s \in lockedMessages => msg'[s].state = "Active"
            /\ s \notin lockedMessages => msg'[s] = msg[s]
        BY <1>1, <2>3
      <3>2. s \in lockedMessages =>
              s \notin Range(scheduled) \cup deferred \cup Range(deadLetter)
        BY <1>1 DEF Inv, OnePlace
      <3> QED BY <1>1, <2>2, <3>1, <3>2 DEF Named
    <2>5. FreshInOrder' /\ Delivered'
      BY <1>1, <2>1 DEF FreshInOrder, Delivered, Sorted
    <2>6. Timed'
      <3>1. ASSUME NEW s \in Range(scheduled) PROVE msg'[s].scheduled_enqueue_time # Never
        <4>1. s \notin lockedMessages /\ s \in Held /\ s \in DOMAIN msg
          BY <1>1, <1>2 DEF Inv, OnePlace, Held
        <4>2. msg'[s] = msg[s]
          BY <2>1, <4>1
        <4> QED BY <4>2 DEF Timed, OrderInv
      <3> QED BY <1>1, <3>1 DEF Timed
    <2> QED BY <1>1, <2>4, <2>5, <2>6, StatesNamed DEF OrderInv, Inv
  <1> QED BY <1>3, <1>4


LEMMA TickOrder ==
  ASSUME OrderInv, Tick
  PROVE  OrderInv'
  <1>1. Inv /\ Inv' /\ OnePlace /\ \A s \in Held : Named(s)
    BY TickInv, StatesNamed DEF OrderInv, Inv
  <1>2. /\ Range(active') = Queued \ Expired
        /\ Range(scheduled') = Range(scheduled) \ DueScheduled
        /\ Range(deadLetter') = Range(deadLetter) \cup Exhausted
                                  \cup (IF DeadLetterOnExpiration THEN Expired ELSE {})
        /\ lockedMessages' = lockedMessages \ TakenBack /\ deferred' = deferred
        /\ TakenBack \subseteq lockedMessages /\ Exhausted \subseteq TakenBack
        /\ DueScheduled \subseteq Range(scheduled) /\ Expired \subseteq Queued
        /\ Queued = (TakenBack \ Exhausted) \cup Range(active) \cup DueScheduled
    BY <1>1, TickBuckets DEF Queued
  <1>3. msg' = [s \in DOMAIN msg |-> IF s \in Expired THEN AfterExpiry(s) ELSE AfterLocks(s)]
    BY <1>1, TickBuckets
  <1>4. \A s \in Held : s \in DOMAIN msg /\ msg[s] \in Message
    BY <1>1, HeldMessages
  <1>5. ASSUME NEW s \in TakenBack
        PROVE  /\ s \in Held /\ AfterLocks(s).delivery_count > 0
               /\ s \notin Exhausted => AfterLocks(s).state = "Active"
               /\ s \in Exhausted => AfterLocks(s).state = "DeadLettered"
               /\ [AfterLocks(s) EXCEPT !.state = "DeadLettered"].state = "DeadLettered"
    <2>1. s \in Held /\ msg[s] \in Message
      BY <1>2, <1>4 DEF Held
    <2> QED BY <2>1 DEF AfterLocks, Unlocked, Message
  <1>6. ASSUME NEW s \in DueScheduled
        PROVE  /\ s \in Held /\ AfterLocks(s).state = "Active"
               /\ AfterLocks(s).scheduled_enqueue_time # Never
               /\ [AfterLocks(s) EXCEPT !.state = "DeadLettered"].state = "DeadLettered"
    <2>1. s \in Held /\ msg[s] \in Message /\ s \notin TakenBack
      BY <1>1, <1>2, <1>4 DEF Held, OnePlace
    <2>2. msg[s].scheduled_enqueue_time # Never
      BY <1>2 DEF OrderInv, Timed
    <2> QED BY <2>1, <2>2 DEF AfterLocks, Promoted, Message
  <1>7. ASSUME NEW s \in Held, s \notin TakenBack, s \notin DueScheduled
        PROVE  /\ AfterLocks(s) = msg[s]
               /\ [AfterLocks(s) EXCEPT !.state = "DeadLettered"].state = "DeadLettered"
    BY <1>4, <1>7 DEF AfterLocks, Message
  <1>8. ASSUME NEW s \in Held
        PROVE  /\ s \notin Expired => msg'[s] = AfterLocks(s)
               /\ s \in Expired /\ DeadLetterOnExpiration => msg'[s].state = "DeadLettered"
    BY <1>3, <1>4, <1>5, <1>6, <1>7 DEF AfterExpiry
  <1>9. Held' \subseteq Held
    BY <1>2 DEF Held
  <1>10. ASSUME NEW s \in Held' PROVE Named(s)'
    <2>0. s \in Held /\ Named(s)
      BY <1>1, <1>9
    <2>1. ASSUME s \in Range(active') \cup lockedMessages' PROVE msg'[s].state = "Active"
      <3>1. CASE s \in Range(active')
        <4>1. s \in Queued /\ s \notin Expired /\ msg'[s] = AfterLocks(s)
          BY <1>2, <1>8, <2>0, <3>1
        <4>2. CASE s \in Range(active)
          <5>1. s \notin TakenBack /\ s \notin DueScheduled
            BY <1>1, <1>2, <4>2 DEF OnePlace
          <5> QED BY <1>7, <2>0, <4>1, <4>2, <5>1 DEF Named
        <4> QED BY <1>2, <1>5, <1>6, <4>1, <4>2
      <3>2. CASE s \in lockedMessages'
        <4>1. s \notin TakenBack /\ s \notin DueScheduled /\ s \notin Expired
              /\ s \in lockedMessages
          BY <1>1, <1>2, <3>2 DEF OnePlace
        <4> QED BY <1>7, <1>8, <2>0, <4>1 DEF Named
      <3> QED BY <2>1, <3>1, <3>2
    <2>2. ASSUME s \in Range(scheduled') \cup deferred'
          PROVE  msg'[s] = msg[s] /\ s \in Range(scheduled) \cup deferred
                 /\ (s \in Range(scheduled') => s \in Range(scheduled))
                 /\ (s \in deferred' => s \in deferred)
      <3>1. s \notin TakenBack /\ s \notin DueScheduled /\ s \notin Expired
        BY <1>1, <1>2, <2>2 DEF OnePlace
      <3> QED BY <1>2, <1>7, <1>8, <2>0, <2>2, <3>1
    <2>3. ASSUME s \in Range(deadLetter') PROVE msg'[s].state = "DeadLettered"
      <3>1. CASE s \in Range(deadLetter)
        <4>1. s \notin TakenBack /\ s \notin DueScheduled /\ s \notin Expired
          BY <1>1, <1>2, <3>1 DEF OnePlace
        <4> QED BY <1>7, <1>8, <2>0, <3>1, <4>1 DEF Named
      <3>2. CASE s \in Exhausted
        <4>1. s \notin Expired /\ s \in TakenBack
          BY <1>1, <1>2, <3>2 DEF OnePlace
        <4> QED BY <1>5, <1>8, <2>0, <3>2, <4>1
      <3>3. CASE s \in Expired /\ DeadLetterOnExpiration
        BY <1>8, <2>0, <3>3
      <3> QED BY <1>2, <2>3, <3>1, <3>2, <3>3
    <2> QED BY <2>0, <2>1, <2>2, <2>3 DEF Named
  <1>11. Delivered' /\ Timed'
    <2>1. ASSUME NEW s \in lockedMessages' PROVE msg'[s].delivery_count > 0
      <3>1. s \notin TakenBack /\ s \notin DueScheduled /\ s \notin Expired
            /\ s \in lockedMessages /\ s \in Held
        BY <1>1, <1>2 DEF OnePlace, Held
      <3> QED BY <1>7, <1>8, <3>1 DEF OrderInv, Delivered
    <2>2. ASSUME NEW s \in Range(scheduled') PROVE msg'[s].scheduled_enqueue_time # Never
      <3>1. s \notin TakenBack /\ s \notin DueScheduled /\ s \notin Expired
            /\ s \in Range(scheduled) /\ s \in Held
        BY <1>1, <1>2 DEF OnePlace, Held
      <3> QED BY <1>7, <1>8, <3>1 DEF OrderInv, Timed
    <2> QED BY <2>1, <2>2 DEF Delivered, Timed
  <1>12. ASSUME NEW s \in Range(active'), Fresh(s)'
         PROVE  s \in Range(active) /\ msg'[s] = msg[s]
    <2>1. s \in Held /\ s \in Queued /\ s \notin Expired /\ msg'[s] = AfterLocks(s)
      BY <1>2, <1>8, <1>9 DEF Held
    <2>2. s \notin TakenBack
      BY <1>5, <1>12, <2>1 DEF Fresh
    <2>3. s \notin DueScheduled
      BY <1>6, <1>12, <2>1 DEF Fresh
    <2> QED BY <1>2, <1>7, <2>1, <2>2, <2>3
  <1>13. ASSUME NEW x, NEW y, Before(active', x, y), Fresh(x)', Fresh(y)' PROVE x < y
    <2>1. x \in Range(active') /\ y \in Range(active')
      BY <1>13 DEF Before, Range
    <2>2. x \in Range(active) /\ y \in Range(active) /\ msg'[x] = msg[x] /\ msg'[y] = msg[y]
      BY <1>12, <1>13, <2>1
    <2>3. Before(active, x, y)
      BY <1>1, <1>13, <2>2, TickBuckets
    <2>4. Fresh(x) /\ Fresh(y)
      BY <1>13, <2>2 DEF Fresh
    <2> QED BY <2>3, <2>4, FreshBefore DEF OrderInv
  <1>14. FreshInOrder'
    BY <1>13, FreshBefore
  <1>15. StateMatchesBucket'
    BY <1>1, <1>10, StatesNamed DEF Inv
  <1> QED BY <1>1, <1>11, <1>14, <1>15 DEF OrderInv

LEMMA NextOrder ==
  ASSUME OrderInv, [Next]_vars
  PROVE  OrderInv'
  <1>1. ASSUME NEW session \in Sessions \cup {NoSession}, NEW delay \in Delays,
               NEW ttl \in TimesToLive, Send(session, delay, ttl)
        PROVE  OrderInv'
    BY <1>1, SendOrder
  <1>2. ASSUME NEW mode \in Modes,
               TryReceive(mode) \/ \E id \in Sessions : TryReceiveSession(id, mode)
        PROVE  OrderInv'
    BY <1>2, ReceiveOrder
  <1>3. CASE \/ UNCHANGED vars
             \/ \E id \in Sessions : AcceptSession(id) \/ ReleaseSession(id)
             \/ AcceptNextSession
             \/ \E t \in DOMAIN locks : RenewLock(t)
             \/ Elapse
    BY <1>3, StillOrder
  <1>4. ASSUME NEW t \in DOMAIN locks,
               Complete(t) \/ Abandon(t) \/ DeadLetter(t) \/ Defer(t)
        PROVE  OrderInv'
    BY <1>4, SettlingOrder
  <1>5. ASSUME NEW s \in DOMAIN msg, DeleteMessage(s) PROVE OrderInv'
    BY <1>5, DeleteOrder
  <1>6. ASSUME NEW s \in DOMAIN msg, ResubmitDeadLetter(s) PROVE OrderInv'
    BY <1>6, ResubmitOrder
  <1>7. CASE Tick \/ Purge \/ Restart
    BY <1>7, TickOrder, BulkOrder
  <1> QED BY <1>1, <1>2, <1>3, <1>4, <1>5, <1>6, <1>7 DEF Next

LEMMA InitOrder == Init => OrderInv
  <1> SUFFICES ASSUME Init PROVE OrderInv
    OBVIOUS
  <1>1. Inv
    BY InitInv
  <1>2. active = <<>> /\ Range(scheduled) = {} /\ lockedMessages = {} /\ Held = {}
    BY DEF Init, Held, Range
  <1>3. StateMatchesBucket /\ Delivered /\ Timed
    BY <1>2 DEF StateMatchesBucket, Delivered, Timed
  <1>4. FreshInOrder
    BY <1>2 DEF FreshInOrder
  <1> QED BY <1>1, <1>3, <1>4 DEF OrderInv

\* The inductive invariant of the states and of the order.
THEOREM SpecOrderInv == Spec => []OrderInv
  <1>1. OrderInv /\ [Next]_vars => OrderInv'
    BY NextOrder
  <1> QED BY InitOrder, <1>1, PTL DEF Spec

\* The state field of a message always names the bucket that holds it.
THEOREM SpecStateMatchesBucket == Spec => []StateMatchesBucket
  <1>1. OrderInv => StateMatchesBucket
    BY DEF OrderInv
  <1> QED BY SpecOrderInv, <1>1, PTL

\* Messages that were never scheduled nor handed out wait in the order they were
\* sent, whatever is returned, promoted, deleted or restored around them.
THEOREM SpecFreshInOrder == Spec => []FreshInOrder
  <1>1. OrderInv => FreshInOrder
    BY DEF OrderInv
  <1> QED BY SpecOrderInv, <1>1, PTL


-----------------------------------------------------------------------------
\* The refinement of MessageLifecycle.

\* No number beyond the last is ever given out.
Bounded == nextSequence <= MaxSequence + 1

\* PlaceOf reads the bucket off the buckets.
LEMMA PlaceOnly ==
  ASSUME NEW s
  PROVE  /\ \A p \in {"Active", "Scheduled", "Deferred", "DeadLettered", "Locked"} :
              /\ OnlyIn(p, s) => PlaceOf(s) = p
              /\ OnlyIn(p, s)' => PlaceOf(s)' = p
         /\ OnlyIn("Gone", s) /\ s < nextSequence => PlaceOf(s) = "Gone"
         /\ OnlyIn("Gone", s)' /\ s < nextSequence' => PlaceOf(s)' = "Gone"
         /\ OnlyIn("Gone", s) /\ ~(s < nextSequence) => PlaceOf(s) = "Unsent"
  BY DEF OnlyIn, PlaceOf

\* A message that stays where it is has the same place.
LEMMA PlaceSame ==
  ASSUME NEW s, Same(s), s < nextSequence <=> s < nextSequence'
  PROVE  PlaceOf(s)' = PlaceOf(s)
  BY DEF PlaceOf, Same

\* The places, as MessageLifecycle names them.
LEMMA PlaceType ==
  ASSUME NEW s
  PROVE  PlaceOf(s) \in Lifecycle!States7 /\ PlaceOf(s)' \in Lifecycle!States7
  BY DEF PlaceOf, Lifecycle!States7, Lifecycle!Waiting, Lifecycle!Parked

\* One message moves, and the others stay.
LEMMA PlaceMove ==
  ASSUME NEW s, NEW to, PlaceOf(s)' = to,
         \A r \in 1..MaxSequence : r # s => PlaceOf(r)' = PlaceOf(r)
  PROVE  Lifecycle!Move(s, to)
  BY DEF Lifecycle!Move


\* Held messages are among those MessageLifecycle follows.
LEMMA HeldSeqs ==
  ASSUME Inv, Bounded, NEW s \in Held
  PROVE  s \in 1..MaxSequence /\ s < nextSequence /\ s \in Nat
  BY HeldMessages, EntityAssumption DEF Bounded

\* Operations that move no message are stutters of MessageLifecycle.
LEMMA PlaceStill ==
  ASSUME SameBut({}), nextSequence' = nextSequence
  PROVE  UNCHANGED [s \in 1..MaxSequence |-> PlaceOf(s)]
  <1>1. ASSUME NEW r \in 1..MaxSequence PROVE PlaceOf(r)' = PlaceOf(r)
    <2>1. Same(r) /\ (r < nextSequence <=> r < nextSequence')
      BY DEF SameBut
    <2> QED BY <2>1, PlaceSame
  <1> QED BY <1>1

\* One message moves, no number is given out.
LEMMA PlaceOthers ==
  ASSUME NEW s, SameBut({s}), nextSequence' = nextSequence
  PROVE  \A r \in 1..MaxSequence : r # s => PlaceOf(r)' = PlaceOf(r)
  <1> SUFFICES ASSUME NEW r \in 1..MaxSequence, r # s PROVE PlaceOf(r)' = PlaceOf(r)
    OBVIOUS
  <1>1. Same(r) /\ (r < nextSequence <=> r < nextSequence')
    BY DEF SameBut
  <1> QED BY <1>1, PlaceSame

\* send gives out the next number.
LEMMA SendAccepts ==
  ASSUME Inv, Bounded, NEW session \in Sessions \cup {NoSession}, NEW delay \in Delays,
         NEW ttl \in TimesToLive, Send(session, delay, ttl)
  PROVE  \E s \in Lifecycle!Seqs : Lifecycle!Accept(s)
  <1>1. PICK n : n = nextSequence
    OBVIOUS
  <1>2. /\ n \in Nat /\ n \notin Held /\ SameBut({n}) /\ nextSequence' = n + 1
        /\ n <= MaxSequence /\ (OnlyIn("Active", n)' \/ OnlyIn("Scheduled", n)')
    BY <1>1, SendMoves
  <1>3. n \in 1..MaxSequence /\ MaxSequence \in Nat
    BY <1>1, <1>2, HeldMessages, EntityAssumption
  <1>4. PlaceOf(n) = "Unsent"
    <2>1. OnlyIn("Gone", n) /\ ~(n < nextSequence)
      BY <1>1, <1>2 DEF OnlyIn, Held
    <2> QED BY <2>1, PlaceOnly
  <1>5. ASSUME NEW r \in 1..(n - 1) PROVE PlaceOf(r) # "Unsent"
    <2>1. r < nextSequence
      BY <1>1, <1>2
    <2> QED BY <2>1 DEF PlaceOf
  <1>6. ASSUME NEW r \in 1..MaxSequence, r # n PROVE PlaceOf(r)' = PlaceOf(r)
    <2>1. Same(r) /\ (r < nextSequence <=> r < nextSequence')
      BY <1>1, <1>2, <1>6 DEF SameBut
    <2> QED BY <2>1, PlaceSame
  <1>7. PlaceOf(n)' = "Active" \/ PlaceOf(n)' = "Scheduled"
    BY <1>2, PlaceOnly
  <1>8. Lifecycle!Move(n, "Active") \/ Lifecycle!Move(n, "Scheduled")
    BY <1>6, <1>7, PlaceMove
  <1>9. Lifecycle!IsNext(n)
    BY <1>3, <1>4, <1>5 DEF Lifecycle!IsNext
  <1>10. n \in Lifecycle!Seqs /\ Lifecycle!Accept(n)
    BY <1>3, <1>8, <1>9 DEF Lifecycle!Accept, Lifecycle!Seqs, Lifecycle!Waiting
  <1> QED BY <1>10

LEMMA ReceiveDelivers ==
  ASSUME Inv, Bounded, NEW mode \in Modes,
         TryReceive(mode) \/ \E id \in Sessions : TryReceiveSession(id, mode)
  PROVE  \E s \in Lifecycle!Seqs : Lifecycle!Deliver(s)
  <1>1. PICK s \in Nat : /\ OnlyIn("Active", s) /\ SameBut({s})
                         /\ OnlyIn("Gone", s)' \/ OnlyIn("Locked", s)'
    BY ReceiveMoves
  <1>2. nextSequence' = nextSequence
    BY ReceiveMoves
  <1>3. s \in 1..MaxSequence /\ s < nextSequence
    BY <1>1, HeldSeqs DEF OnlyIn, Held
  <1>4. PlaceOf(s) = "Active"
    BY <1>1, PlaceOnly
  <1>5. PlaceOf(s)' = "Gone" \/ PlaceOf(s)' = "Locked"
    BY <1>1, <1>2, <1>3, PlaceOnly
  <1>6. \A r \in 1..MaxSequence : r # s => PlaceOf(r)' = PlaceOf(r)
    BY <1>1, <1>2, PlaceOthers
  <1>7. Lifecycle!Move(s, "Gone") \/ Lifecycle!Move(s, "Locked")
    BY <1>5, <1>6, PlaceMove
  <1>8. s \in Lifecycle!Seqs /\ Lifecycle!Deliver(s)
    BY <1>3, <1>4, <1>7 DEF Lifecycle!Deliver, Lifecycle!Seqs
  <1> QED BY <1>8

LEMMA SettlingSettles ==
  ASSUME Inv, Bounded, NEW t \in DOMAIN locks,
         Complete(t) \/ Abandon(t) \/ DeadLetter(t) \/ Defer(t)
  PROVE  \E s \in Lifecycle!Seqs : Lifecycle!Settle(s)
  <1>1. PICK s \in Nat : /\ OnlyIn("Locked", s) /\ SameBut({s})
                         /\ \/ OnlyIn("Gone", s)'
                            \/ \E p \in {"Active", "Deferred", "DeadLettered"} : OnlyIn(p, s)'
    BY SettlingMoves
  <1>2. nextSequence' = nextSequence
    BY SettlingMoves
  <1>3. s \in 1..MaxSequence /\ s < nextSequence
    BY <1>1, HeldSeqs DEF OnlyIn, Held
  <1>4. PlaceOf(s) = "Locked"
    BY <1>1, PlaceOnly
  <1>5. PICK to \in {"Active", "Gone", "Deferred", "DeadLettered"} : PlaceOf(s)' = to
    BY <1>1, <1>2, <1>3, PlaceOnly
  <1>6. \A r \in 1..MaxSequence : r # s => PlaceOf(r)' = PlaceOf(r)
    BY <1>1, <1>2, PlaceOthers
  <1>7. Lifecycle!Move(s, to)
    BY <1>5, <1>6, PlaceMove
  <1>8. s \in Lifecycle!Seqs /\ Lifecycle!Settle(s)
    BY <1>3, <1>4, <1>7 DEF Lifecycle!Settle, Lifecycle!Seqs, Lifecycle!Parked
  <1> QED BY <1>8

LEMMA DeleteRemoves ==
  ASSUME Inv, Bounded, NEW s \in DOMAIN msg, DeleteMessage(s)
  PROVE  \E r \in Lifecycle!Seqs : Lifecycle!Remove(r)
  <1>1. /\ nextSequence' = nextSequence /\ s \in Held
        /\ SameBut({s}) /\ OnlyIn("Gone", s)'
    BY DeleteMoves
  <1>2. s \in 1..MaxSequence /\ s < nextSequence
    BY <1>1, HeldSeqs
  <1>3. PlaceOf(s) \in {"Active", "Scheduled", "Deferred", "DeadLettered", "Locked"}
    BY <1>1 DEF PlaceOf, Held
  <1>4. PlaceOf(s)' = "Gone"
    BY <1>1, <1>2, PlaceOnly
  <1>5. \A r \in 1..MaxSequence : r # s => PlaceOf(r)' = PlaceOf(r)
    BY <1>1, PlaceOthers
  <1>6. Lifecycle!Move(s, "Gone")
    BY <1>4, <1>5, PlaceMove
  <1>7. s \in Lifecycle!Seqs /\ Lifecycle!Remove(s)
    BY <1>2, <1>3, <1>6
       DEF Lifecycle!Remove, Lifecycle!Seqs, Lifecycle!Parked, Lifecycle!Waiting
  <1> QED BY <1>7

LEMMA ResubmitResubmits ==
  ASSUME Inv, Bounded, NEW s \in DOMAIN msg, ResubmitDeadLetter(s)
  PROVE  \E q, r \in Lifecycle!Seqs : Lifecycle!Resubmit(q, r)
  <1>1. PICK n : n = nextSequence
    OBVIOUS
  <1>2. /\ n \in Nat /\ n \notin Held /\ nextSequence' = n + 1 /\ n <= MaxSequence
        /\ s \in Nat /\ s # n /\ OnlyIn("DeadLettered", s) /\ OnlyIn("Gone", s)'
        /\ SameBut({s, n}) /\ OnlyIn("Active", n)'
    BY <1>1, ResubmitMoves
  <1>3. n \in 1..MaxSequence /\ MaxSequence \in Nat
    BY <1>1, <1>2, HeldMessages, EntityAssumption
  <1>4. s \in 1..MaxSequence /\ s < n
    BY <1>1, <1>2, HeldSeqs DEF OnlyIn, Held
  <1>5. PlaceOf(n) = "Unsent"
    <2>1. OnlyIn("Gone", n) /\ ~(n < nextSequence)
      BY <1>1, <1>2 DEF OnlyIn, Held
    <2> QED BY <2>1, PlaceOnly
  <1>6. ASSUME NEW r \in 1..(n - 1) PROVE PlaceOf(r) # "Unsent"
    <2>1. r < nextSequence
      BY <1>1, <1>2
    <2> QED BY <2>1 DEF PlaceOf
  <1>7. ASSUME NEW r \in 1..MaxSequence, r # n, r # s PROVE PlaceOf(r)' = PlaceOf(r)
    <2>1. Same(r) /\ (r < nextSequence <=> r < nextSequence')
      BY <1>1, <1>2, <1>7 DEF SameBut
    <2> QED BY <2>1, PlaceSame
  <1>8. PlaceOf(s) = "DeadLettered" /\ PlaceOf(n)' = "Active"
    BY <1>2, PlaceOnly
  <1>9. PlaceOf(s)' = "Gone"
    <2>1. s < nextSequence'
      BY <1>2, <1>4
    <2> QED BY <1>2, <2>1, PlaceOnly
  <1>10. [r \in 1..MaxSequence |-> PlaceOf(r)]'
           = [[r \in 1..MaxSequence |-> PlaceOf(r)] EXCEPT ![s] = "Gone", ![n] = "Active"]
    BY <1>2, <1>3, <1>4, <1>7, <1>8, <1>9
  <1>11. Lifecycle!IsNext(n)
    BY <1>3, <1>5, <1>6 DEF Lifecycle!IsNext
  <1>12. Lifecycle!Resubmit(s, n) /\ s \in Lifecycle!Seqs /\ n \in Lifecycle!Seqs
    BY <1>3, <1>4, <1>8, <1>10, <1>11 DEF Lifecycle!Resubmit, Lifecycle!Seqs
  <1> QED BY <1>12

\* Time, a purge or a restart sweeps messages along.
LEMMA PlaceSweep ==
  ASSUME \A r \in 1..MaxSequence : PlaceOf(r)' \in Lifecycle!Swept(PlaceOf(r))
  PROVE  Lifecycle!Sweep
  BY PlaceType DEF Lifecycle!Sweep, Lifecycle!Seqs

LEMMA BulkSweeps ==
  ASSUME Inv, Tick \/ Purge \/ Restart
  PROVE  Lifecycle!Sweep
  <1>1. Inv /\ Inv' /\ OnePlace /\ OnePlace' /\ nextSequence' = nextSequence
    BY TickInv, PurgeInv, RestartInv, TickBuckets DEF Inv, Purge, Restart
  <1>2. ASSUME NEW r \in 1..MaxSequence
        PROVE  PlaceOf(r)' \in Lifecycle!Swept(PlaceOf(r))
    <2>1. CASE Tick
      <3>1. /\ Range(active') = Queued \ Expired
            /\ Range(scheduled') = Range(scheduled) \ DueScheduled
            /\ Range(deadLetter') = Range(deadLetter) \cup Exhausted
                                      \cup (IF DeadLetterOnExpiration THEN Expired ELSE {})
            /\ lockedMessages' = lockedMessages \ TakenBack /\ deferred' = deferred
            /\ TakenBack \subseteq lockedMessages /\ Exhausted \subseteq TakenBack
            /\ DueScheduled \subseteq Range(scheduled) /\ Expired \subseteq Queued
            /\ Queued = (TakenBack \ Exhausted) \cup Range(active) \cup DueScheduled
        BY <2>1, TickBuckets DEF Queued
      <3>2. CASE r \in Range(active)
        <4>1. r \in Range(active)
          BY <1>1, <3>2 DEF OnePlace
        <4>2. r \notin Range(scheduled') \cup deferred' \cup lockedMessages'
          BY <1>1, <3>1, <3>2 DEF OnePlace
        <4>3. r < nextSequence'
          BY <1>1, <3>2, HeldMessages DEF Held
        <4>4. PlaceOf(r) = "Active"
          BY <1>1, <4>1 DEF PlaceOf, OnePlace
        <4>5. PlaceOf(r)' \in {"Active", "DeadLettered", "Gone"}
          BY <1>1, <4>2, <4>3 DEF PlaceOf, OnePlace
        <4> QED BY <4>4, <4>5 DEF Lifecycle!Swept
      <3>3. CASE r \in Range(scheduled)
        <4>1. r \notin Range(active) /\ r \in Range(scheduled)
          BY <1>1, <3>3 DEF OnePlace
        <4>2. r \notin deferred' \cup lockedMessages'
          BY <1>1, <3>1, <3>3 DEF OnePlace
        <4>3. r < nextSequence'
          BY <1>1, <3>3, HeldMessages DEF Held
        <4>4. PlaceOf(r) = "Scheduled"
          BY <1>1, <4>1 DEF PlaceOf, OnePlace
        <4>5. PlaceOf(r)' \in {"Scheduled", "Active", "DeadLettered", "Gone"}
          BY <1>1, <4>2, <4>3 DEF PlaceOf, OnePlace
        <4> QED BY <4>4, <4>5 DEF Lifecycle!Swept
      <3>4. CASE r \in deferred
        BY <1>1, <3>1, <3>4 DEF PlaceOf, OnePlace, Lifecycle!Swept
      <3>5. CASE r \in Range(deadLetter)
        BY <1>1, <3>1, <3>5 DEF PlaceOf, OnePlace, Lifecycle!Swept
      <3>6. CASE r \in lockedMessages
        <4>1. r \notin Range(active) \cup Range(scheduled) \cup deferred \cup Range(deadLetter)
               /\ r \in lockedMessages
          BY <1>1, <3>6 DEF OnePlace
        <4>2. r \notin Range(scheduled') \cup deferred'
          BY <1>1, <3>1, <3>6 DEF OnePlace
        <4>3. r < nextSequence'
          BY <1>1, <3>6, HeldMessages DEF Held
        <4>4. PlaceOf(r) = "Locked"
          BY <1>1, <4>1 DEF PlaceOf, OnePlace
        <4>5. PlaceOf(r)' \in {"Locked", "Active", "DeadLettered", "Gone"}
          BY <1>1, <4>2, <4>3 DEF PlaceOf, OnePlace
        <4> QED BY <4>4, <4>5 DEF Lifecycle!Swept
      <3>7. CASE r \notin Held
        BY <1>1, <3>1, <3>7 DEF PlaceOf, Held, Lifecycle!Swept
      <3> QED BY <3>2, <3>3, <3>4, <3>5, <3>6, <3>7 DEF Held
    <2>2. CASE Purge
      <3>1. Range(active') = {} /\ lockedMessages' = {}
            /\ UNCHANGED <<scheduled, deferred, deadLetter>>
        BY <2>2 DEF Purge, Range
      <3>2. CASE r \in Range(active) \cup lockedMessages
        <4>1. PlaceOf(r) \in {"Active", "Locked"}
          BY <1>1, <3>2 DEF PlaceOf, OnePlace
        <4>2. r < nextSequence'
          BY <1>1, <3>2, HeldMessages DEF Held
        <4>3. PlaceOf(r)' = "Gone"
          BY <1>1, <3>1, <3>2, <4>2 DEF PlaceOf, OnePlace
        <4> QED BY <4>1, <4>3 DEF Lifecycle!Swept
      <3>3. CASE r \notin Range(active) \cup lockedMessages
        <4>1. PlaceOf(r)' = PlaceOf(r)
          BY <1>1, <3>1, <3>3 DEF PlaceOf
        <4> QED BY <4>1, PlaceType DEF Lifecycle!Swept
      <3> QED BY <3>2, <3>3
    <2>3. CASE Restart
      <3>1. active' \in SetToSeqs(Exported) /\ lockedMessages' = {}
            /\ UNCHANGED <<scheduled, deferred, deadLetter>>
        BY <2>3 DEF Restart
      <3>2. Exported \in SUBSET Held
        BY DEF Exported, Held
      <3>3. Exported \in SUBSET Nat /\ IsFiniteSet(Exported)
        BY <3>2, HeldFinite
      <3>4. Range(active') = Range(active) \cup lockedMessages
        BY <3>1, <3>3, BucketOrder DEF Exported
      <3>5. CASE r \in Range(active) \cup lockedMessages
        <4>1. PlaceOf(r) \in {"Active", "Locked"}
          BY <1>1, <3>5 DEF PlaceOf, OnePlace
        <4>2. PlaceOf(r)' = "Active"
          BY <1>1, <3>4, <3>5 DEF PlaceOf, OnePlace
        <4> QED BY <4>1, <4>2 DEF Lifecycle!Swept
      <3>6. CASE r \notin Range(active) \cup lockedMessages
        <4>1. r \notin Range(active') \cup lockedMessages'
          BY <3>1, <3>4, <3>6
        <4>2. PlaceOf(r)' = PlaceOf(r)
          BY <1>1, <3>1, <3>6, <4>1 DEF PlaceOf
        <4> QED BY <4>2, PlaceType DEF Lifecycle!Swept
      <3> QED BY <3>5, <3>6
    <2> QED BY <2>1, <2>2, <2>3
  <1> QED BY <1>2, PlaceSweep

\* Every operation is a step of MessageLifecycle or a stutter.
LEMMA NextLifecycle ==
  ASSUME Inv, Bounded, [Next]_vars
  PROVE  [Lifecycle!Next]_[s \in 1..MaxSequence |-> PlaceOf(s)]
  <1> DEFINE P == [s \in 1..MaxSequence |-> PlaceOf(s)]
  <1>1. ASSUME NEW session \in Sessions \cup {NoSession}, NEW delay \in Delays,
               NEW ttl \in TimesToLive, Send(session, delay, ttl)
        PROVE  Lifecycle!Next
    BY <1>1, SendAccepts DEF Lifecycle!Next
  <1>2. ASSUME NEW mode \in Modes,
               TryReceive(mode) \/ \E id \in Sessions : TryReceiveSession(id, mode)
        PROVE  Lifecycle!Next
    BY <1>2, ReceiveDelivers DEF Lifecycle!Next
  <1>3. CASE \/ UNCHANGED vars
             \/ \E id \in Sessions : AcceptSession(id) \/ ReleaseSession(id)
             \/ AcceptNextSession
             \/ \E t \in DOMAIN locks : RenewLock(t)
             \/ Elapse
    <2>1. SameBut({}) /\ nextSequence' = nextSequence
      BY <1>3, StillMoves
    <2> QED BY <2>1, PlaceStill
  <1>4. ASSUME NEW t \in DOMAIN locks,
               Complete(t) \/ Abandon(t) \/ DeadLetter(t) \/ Defer(t)
        PROVE  Lifecycle!Next
    BY <1>4, SettlingSettles DEF Lifecycle!Next
  <1>5. ASSUME NEW s \in DOMAIN msg, DeleteMessage(s) PROVE Lifecycle!Next
    BY <1>5, DeleteRemoves DEF Lifecycle!Next
  <1>6. ASSUME NEW s \in DOMAIN msg, ResubmitDeadLetter(s) PROVE Lifecycle!Next
    BY <1>6, ResubmitResubmits DEF Lifecycle!Next
  <1>7. CASE Tick \/ Purge \/ Restart
    BY <1>7, BulkSweeps DEF Lifecycle!Next
  <1> QED BY <1>1, <1>2, <1>3, <1>4, <1>5, <1>6, <1>7 DEF Next

LEMMA BoundedStep ==
  ASSUME Inv, Bounded, [Next]_vars
  PROVE  Bounded'
  <1>1. nextSequence \in Nat /\ MaxSequence \in Nat
    BY EntityAssumption DEF Inv, TypeOK
  <1>2. \/ nextSequence' = nextSequence
        \/ nextSequence' = nextSequence + 1 /\ nextSequence <= MaxSequence
    BY DEF Next, vars, Send, Enqueue, TryReceive, TryReceiveSession, AcceptSession,
           ReleaseSession, AcceptNextSession, Complete, Abandon, DeadLetter, Defer,
           TakeLocked, RenewLock, Tick, Purge, DeleteMessage, ResubmitDeadLetter,
           Restart, Elapse
  <1> QED BY <1>1, <1>2 DEF Bounded

\* Every operation of the entity moves messages only as MessageLifecycle allows:
\* state.rs implements it, whatever the sessions, the times and the order of calls.
THEOREM SpecImplementsLifecycle == Spec => LifecycleSpec
  <1>1. Init => Lifecycle!Init
    <2> SUFFICES ASSUME Init PROVE Lifecycle!Init
      OBVIOUS
    <2>1. /\ Range(active) = {} /\ Range(scheduled) = {} /\ deferred = {}
          /\ Range(deadLetter) = {} /\ lockedMessages = {} /\ nextSequence = 1
      BY DEF Init, Range
    <2>2. \A s \in 1..MaxSequence : PlaceOf(s) = "Unsent"
      BY <2>1, EntityAssumption DEF PlaceOf
    <2> QED BY <2>2 DEF Lifecycle!Init, Lifecycle!Seqs
  <1>2. Init => Bounded
    BY EntityAssumption DEF Init, Bounded
  <1>3. Inv /\ Bounded /\ [Next]_vars => Bounded'
    BY BoundedStep
  <1>4. Inv /\ Bounded /\ [Next]_vars
          => [Lifecycle!Next]_[s \in 1..MaxSequence |-> PlaceOf(s)]
    BY NextLifecycle
  <1> QED BY SpecInv, <1>1, <1>2, <1>3, <1>4, PTL
         DEF Spec, LifecycleSpec, Lifecycle!Spec

-----------------------------------------------------------------------------
\* The links: a late outcome never reaches another link's delivery.

\* A delivery's token was issued for a message that exists or has left, and is not
\* ahead of the deliveries that message has had.
Issued ==
  \A r \in Receivers :
    delivery[r] # NoToken =>
      LET s == delivery[r][1]
      IN s \in DOMAIN msg /\ (msg[s] = Gone \/ delivery[r][2] <= msg[s].delivery_count)

\* No two links hold the same token.
Differ ==
  \A q, r \in Receivers : q # r /\ delivery[q] # NoToken => delivery[q] # delivery[r]

LinkInv == Inv /\ LinkTypeOK /\ Issued /\ Differ

LEMMA LinkInitInv == LinkInit => LinkInv
  <1> SUFFICES ASSUME LinkInit PROVE LinkInv
    OBVIOUS
  <1>1. Inv
    BY InitInv DEF LinkInit
  <1>2. LinkTypeOK /\ Issued /\ Differ
    BY DEF LinkInit, LinkTypeOK, Issued, Differ, Phases
  <1> QED BY <1>1, <1>2 DEF LinkInv

\* Every step of the links and the actor is a step of the entity, or none.
LEMMA LinkNextIsNext ==
  ASSUME [LinkNext]_allVars
  PROVE  [Next]_vars
  <1>1. ASSUME NEW r \in Receivers, Serve(r) PROVE [Next]_vars
    <2>1. Wants[r] \in Sessions \cup {NoSession} /\ "PeekLock" \in Modes
      BY ReceiverAssumption DEF Modes
    <2> QED BY <1>1, <2>1 DEF Serve, Next
  <1>2. ASSUME NEW r \in Receivers, Settle(r) \/ GiveBack(r) PROVE [Next]_vars
    BY <1>2 DEF Settle, GiveBack, Next, Complete, DeadLetter, Abandon, TakeLocked
  <1>3. ASSUME NEW r \in Receivers,
               Attach(r) \/ Ask(r) \/ Register(r) \/ Retry(r) \/ Deadline(r)
                 \/ Detach(r) \/ Close(r)
        PROVE  [Next]_vars
    BY <1>3 DEF Attach, Ask, Register, Retry, Deadline, Detach, Close, Step
  <1>4. CASE Arrive
    BY <1>4 DEF Arrive, Next
  <1>5. CASE Ticker \/ Quiet \/ Reopen
    BY <1>5 DEF Ticker, Quiet, Reopen, Next
  <1>6. CASE UNCHANGED allVars
    BY <1>6 DEF allVars
  <1> QED BY <1>1, <1>2, <1>3, <1>4, <1>5, <1>6 DEF LinkNext, LinkStep

\* Deliveries that stay with their links stay issued.
LEMMA IssuedKept ==
  ASSUME LinkInv, [Next]_vars, NEW r \in Receivers, delivery[r] # NoToken
  PROVE  LET s == delivery[r][1]
         IN s \in DOMAIN msg' /\ (msg'[s] = Gone \/ delivery[r][2] <= msg'[s].delivery_count)
  <1> DEFINE s == delivery[r][1]
             n == delivery[r][2]
  <1>1. s \in DOMAIN msg /\ (msg[s] = Gone \/ n <= msg[s].delivery_count)
    BY DEF LinkInv, Issued
  <1>2. delivery[r] \in Token /\ n \in Nat
    BY DEF LinkInv, LinkTypeOK, Token
  <1>3. s \in DOMAIN msg' /\ Steady(s)
    BY <1>1, NextSteady DEF LinkInv, AllSteady
  <1>4. CASE msg'[s] # Gone
    <2>1. msg[s] # Gone /\ msg'[s].delivery_count >= msg[s].delivery_count
      BY <1>3, <1>4 DEF Steady
    <2>2. msg[s] \in Message
      BY <1>1, <2>1, HeldMessages DEF LinkInv
    <2>3. msg'[s] \in Message
      BY <1>3, <1>4, NextInv DEF LinkInv, Inv, TypeOK
    <2>4. msg[s].delivery_count \in Nat /\ msg'[s].delivery_count \in Nat
      BY <2>2, <2>3 DEF Message
    <2> QED BY <1>1, <1>2, <1>3, <2>1, <2>4
  <1> QED BY <1>3, <1>4

\* A delivery carries a token nobody else has.
LEMMA ServeToken ==
  ASSUME LinkInv, NEW r \in Receivers, Serve(r), NEW t \in DOMAIN locks' \ DOMAIN locks
  PROVE  /\ t \in Token /\ t[1] \in DOMAIN msg'
         /\ t[2] <= msg'[t[1]].delivery_count
         /\ \A q \in Receivers : delivery[q] # NoToken => delivery[q] # t
  <1>0. Inv /\ active \in Seq(Nat) /\ IsInjective(active)
    BY DEF LinkInv, Inv, TypeOK, OnePlace
  <1>1. PICK s \in Range(active) : FinishReceive(s, "PeekLock")
    <2>1. CASE UNCHANGED vars
      BY <2>1 DEF vars
    <2>2. CASE TryReceive("PeekLock")
      <3>1. active # <<>> /\ FinishReceive(Head(active), "PeekLock")
        BY <2>2 DEF TryReceive
      <3> QED BY <1>0, <3>1, BucketPopFront
    <2>3. CASE TryReceiveSession(Wants[r], "PeekLock")
      <3>1. PICK i \in DOMAIN active : FinishReceive(active[i], "PeekLock")
        BY <2>3 DEF TryReceiveSession, First
      <3>2. active[i] \in Range(active)
        BY DEF Range
      <3> QED BY <3>1, <3>2
    <2> QED BY <2>1, <2>2, <2>3 DEF Serve
  <1> DEFINE n == msg[s].delivery_count + 1
             m == [msg[s] EXCEPT !.delivery_count = n,
                                 !.lock_token = <<s, n>>,
                                 !.locked_until = LockDuration]
  <1>2. s \in DOMAIN msg /\ msg[s] \in Message /\ msg[s] # Gone /\ s \in Nat
        /\ msg \in Seq(Message \cup {Gone})
    BY <1>0, <1>1, HeldMessages DEF Held, Inv, TypeOK
  <1>3. msg[s].delivery_count \in Nat
    BY <1>2 DEF Message
  <1>4. msg' = [msg EXCEPT ![s] = m] /\ m.delivery_count = n
    BY <1>1, <1>2 DEF FinishReceive, Message
  <1>5. t = <<s, n>>
    BY <1>1 DEF FinishReceive, With
  <1> HIDE DEF m
  <1>6. s \in DOMAIN msg' /\ msg'[s] = m
    BY <1>2, <1>4
  <1>7. ASSUME NEW q \in Receivers, delivery[q] # NoToken, delivery[q] = t PROVE FALSE
    <2>1. msg[s] = Gone \/ n <= msg[s].delivery_count
      BY <1>5, <1>7 DEF LinkInv, Issued
    <2> QED BY <1>2, <1>3, <2>1
  <1> QED BY <1>2, <1>3, <1>4, <1>5, <1>6, <1>7 DEF Token

\* Steps in which no link gets a new delivery.
LEMMA NoNewDelivery ==
  ASSUME LinkInv, [Next]_vars, \A r \in Receivers : delivery'[r] \in {delivery[r], NoToken}
  PROVE  Issued' /\ Differ'
  <1>1. ASSUME NEW r \in Receivers, delivery'[r] # NoToken
        PROVE  LET s == delivery'[r][1]
               IN s \in DOMAIN msg' /\ (msg'[s] = Gone
                                          \/ delivery'[r][2] <= msg'[s].delivery_count)
    <2>1. delivery'[r] = delivery[r] /\ delivery[r] # NoToken
      BY <1>1
    <2> QED BY <2>1, IssuedKept
  <1>2. ASSUME NEW q \in Receivers, NEW r \in Receivers, q # r, delivery'[q] # NoToken
        PROVE  delivery'[q] # delivery'[r]
    BY <1>2 DEF LinkInv, Differ
  <1> QED BY <1>1, <1>2 DEF Issued, Differ

LEMMA LinkNextInv ==
  ASSUME LinkInv, [LinkNext]_allVars
  PROVE  LinkInv'
  <1>1. [Next]_vars /\ Inv'
    BY LinkNextIsNext, NextInv DEF LinkInv
  <1>2. /\ link \in [Receivers -> Phases]
        /\ delivery \in [Receivers -> Token \cup {NoToken}]
        /\ \A r \in Receivers : delivery[r] # NoToken <=> link[r] = "sending"
        /\ NoToken \notin Token
    BY EntityAssumption DEF LinkInv, LinkTypeOK
  <1>3. /\ Woken \in [Receivers -> Phases]
        /\ \A r \in Receivers : Woken[r] = "sending" <=> link[r] = "sending"
    BY <1>2 DEF Woken, Phases
  <1>4. ASSUME NEW r \in Receivers, Serve(r) PROVE LinkTypeOK' /\ Issued' /\ Differ'
    <2>1. CASE delivery' = delivery
      <3>1. link' \in [Receivers -> Phases] /\ link' = [link EXCEPT ![r] = link'[r]]
            /\ link'[r] # "sending" /\ link[r] # "sending"
        <4>1. CASE link[r] = "asked" /\ link' = [link EXCEPT ![r] = "sending"]
          <5>1. PICK t \in DOMAIN locks' \ DOMAIN locks : delivery' = [delivery EXCEPT ![r] = t]
            BY <1>2, <1>4, <4>1 DEF Serve
          <5>2. delivery[r] = t /\ t \in Token
            BY <1>2, <1>4, <2>1, <5>1, ServeToken
          <5> QED BY <1>2, <4>1, <5>2
        <4>2. CASE link' = [link EXCEPT ![r] = "empty"] \/ link' = [link EXCEPT ![r] = "closed"]
          BY <1>2, <1>4, <4>2 DEF Serve, Phases
        <4> QED BY <1>4, <4>1, <4>2 DEF Serve
      <3>2. LinkTypeOK'
        BY <1>2, <2>1, <3>1 DEF LinkTypeOK
      <3>3. Issued' /\ Differ'
        BY <1>1, <2>1, NoNewDelivery
      <3> QED BY <3>2, <3>3
    <2>2. CASE delivery' # delivery
      <3>1. PICK t \in DOMAIN locks' \ DOMAIN locks :
              delivery' = [delivery EXCEPT ![r] = t] /\ link' = [link EXCEPT ![r] = "sending"]
        BY <1>4, <2>2 DEF Serve
      <3>2. /\ t \in Token /\ t # NoToken /\ t[1] \in DOMAIN msg'
            /\ t[2] <= msg'[t[1]].delivery_count
            /\ \A q \in Receivers : delivery[q] # NoToken => delivery[q] # t
        BY <1>2, <1>4, <3>1, ServeToken
      <3>3. delivery'[r] = t /\ \A q \in Receivers : q # r => delivery'[q] = delivery[q]
        BY <1>2, <3>1
      <3>4. LinkTypeOK'
        BY <1>2, <3>1, <3>2 DEF LinkTypeOK, Phases
      <3>5. Issued'
        <4>1. ASSUME NEW q \in Receivers, q # r, delivery'[q] # NoToken
              PROVE  LET s == delivery'[q][1]
                     IN s \in DOMAIN msg' /\ (msg'[s] = Gone
                                                \/ delivery'[q][2] <= msg'[s].delivery_count)
          BY <1>1, <3>3, <4>1, IssuedKept
        <4> QED BY <3>2, <3>3, <4>1 DEF Issued
      <3>6. Differ'
        BY <3>2, <3>3 DEF Differ, LinkInv
      <3> QED BY <3>4, <3>5, <3>6
    <2> QED BY <2>1, <2>2
  <1>5. ASSUME NEW r \in Receivers,
               Attach(r) \/ Ask(r) \/ Register(r) \/ Retry(r) \/ Deadline(r) \/ Detach(r)
        PROVE  LinkTypeOK' /\ Issued' /\ Differ'
    <2>1. /\ delivery' = delivery /\ link[r] # "sending"
          /\ link' \in [Receivers -> Phases]
          /\ link'[r] # "sending" /\ \A q \in Receivers : q # r => link'[q] = link[q]
      BY <1>2, <1>5 DEF Attach, Ask, Register, Retry, Deadline, Detach, Step, Phases
    <2> QED BY <1>1, <1>2, <2>1, NoNewDelivery DEF LinkTypeOK
  <1>6. ASSUME NEW r \in Receivers, Close(r) \/ Settle(r) \/ GiveBack(r)
        PROVE  LinkTypeOK' /\ Issued' /\ Differ'
    <2>1. /\ delivery' = [delivery EXCEPT ![r] = NoToken]
          /\ link' \in [Receivers -> Phases]
          /\ link'[r] # "sending"
          /\ \A q \in Receivers : q # r => (link'[q] = "sending" <=> link[q] = "sending")
      BY <1>2, <1>3, <1>6 DEF Close, Settle, GiveBack, Phases
    <2>2. delivery'[r] = NoToken /\ \A q \in Receivers : q # r => delivery'[q] = delivery[q]
      BY <1>2, <2>1
    <2>3. LinkTypeOK'
      BY <1>2, <2>1, <2>2 DEF LinkTypeOK
    <2> QED BY <1>1, <2>2, <2>3, NoNewDelivery
  <1>7. CASE Arrive \/ Ticker \/ Quiet
    <2>1. delivery' = delivery /\ (link' = Woken \/ link' = link)
      BY <1>7 DEF Arrive, Ticker, Quiet, linkVars
    <2>2. LinkTypeOK'
      BY <1>2, <1>3, <2>1 DEF LinkTypeOK
    <2>3. Issued' /\ Differ'
      BY <1>1, <2>1, NoNewDelivery
    <2> QED BY <1>1, <2>2, <2>3 DEF LinkInv
  <1>8. CASE Reopen
    <2>1. /\ link' = [r \in Receivers |-> "closed"]
          /\ delivery' = [r \in Receivers |-> NoToken]
      BY <1>8 DEF Reopen
    <2>2. LinkTypeOK'
      BY <1>2, <2>1 DEF LinkTypeOK, Phases
    <2>3. Issued' /\ Differ'
      BY <1>1, <2>1, NoNewDelivery
    <2> QED BY <1>1, <2>2, <2>3 DEF LinkInv
  <1>9. CASE UNCHANGED allVars
    <2>1. delivery' = delivery /\ link' = link
      BY <1>9 DEF allVars, linkVars
    <2>2. LinkTypeOK'
      BY <1>2, <2>1 DEF LinkTypeOK
    <2>3. Issued' /\ Differ'
      BY <1>1, <2>1, NoNewDelivery
    <2> QED BY <1>1, <2>2, <2>3 DEF LinkInv
  <1> QED BY <1>1, <1>4, <1>5, <1>6, <1>7, <1>8, <1>9 DEF LinkNext, LinkStep, LinkInv

\* A link that settles keeps its hands off the locks of the others.
LEMMA SettleAlone ==
  ASSUME LinkInv, [LinkNext]_allVars, NEW q \in Receivers, NEW r \in Receivers, q # r,
         delivery[q] \in DOMAIN locks, link[r] = "sending", link'[r] = "idle"
  PROVE  /\ delivery[q] \in DOMAIN locks'
         /\ locks[delivery[q]].sequence_number \in lockedMessages'
  <1> DEFINE t == delivery[r]
             u == delivery[q]
  <1>1. /\ Inv /\ u # NoToken /\ u # t
        /\ link \in [Receivers -> Phases]
    BY EntityAssumption DEF LinkInv, LinkTypeOK, Differ, Inv, TypeOK
  <1>2. Settle(r) \/ GiveBack(r)
    <2>1. ASSUME NEW p \in Receivers,
                 Attach(p) \/ Ask(p) \/ Serve(p) \/ Register(p) \/ Retry(p) \/ Deadline(p)
                   \/ Detach(p) \/ Close(p)
          PROVE  FALSE
      BY <1>1, <2>1 DEF Attach, Ask, Serve, Register, Retry, Deadline, Detach, Close, Step
    <2>2. ASSUME NEW p \in Receivers, Settle(p) \/ GiveBack(p), p # r PROVE FALSE
      BY <1>1, <2>2 DEF Settle, GiveBack, Woken
    <2>3. CASE Arrive \/ Ticker \/ Quiet
      BY <1>1, <2>3 DEF Arrive, Ticker, Quiet, linkVars, Woken
    <2>4. CASE Reopen
      BY <2>4 DEF Reopen
    <2>5. CASE UNCHANGED allVars
      BY <2>5 DEF allVars, linkVars
    <2> QED BY <2>1, <2>2, <2>3, <2>4, <2>5 DEF LinkNext, LinkStep
  <1>3. CASE UNCHANGED vars
    BY <1>1, <1>3, LockFacts DEF vars, Holds
  <1>4. CASE TakeLocked(t)
    <2>1. /\ t \in DOMAIN locks /\ locks' = Drop(locks, {t})
          /\ lockedMessages' = lockedMessages \ {locks[t].sequence_number}
      BY <1>4 DEF TakeLocked
    <2>2. u \in DOMAIN locks'
      BY <1>1, <2>1 DEF Drop, Restrict
    <2>3. locks[u].sequence_number \in lockedMessages
      BY <1>1, LockFacts DEF Holds
    <2>4. locks[u].sequence_number # locks[t].sequence_number
      BY <1>1, <2>1 DEF Inv, LocksMatch
    <2> QED BY <2>1, <2>2, <2>3, <2>4
  <1> QED BY <1>2, <1>3, <1>4 DEF Settle, GiveBack, Complete, DeadLetter, Abandon

-----------------------------------------------------------------------------
\* The inductive invariant of the links of links.rs over that of the entity.
THEOREM LinkSpecInv == LinkSpec => []LinkInv
  <1> QED BY LinkInitInv, LinkNextInv, PTL DEF LinkSpec

\* The phases of handle_incoming_receiver_link and receive, and the delivery a link
\* remembers, always fit together.
THEOREM LinkSpecTypeOK == LinkSpec => []LinkTypeOK
  <1>1. LinkInv => LinkTypeOK
    BY DEF LinkInv
  <1> QED BY LinkSpecInv, <1>1, PTL

\* The links and the actor around state.rs implement EntityState: what the entity
\* promises, it promises to concurrent links with late, lost and cancelled calls.
THEOREM LinkSpecImplementsEntity == LinkSpec => Spec
  <1>1. LinkInit => Init
    BY DEF LinkInit
  <1>2. [LinkNext]_allVars => [Next]_vars
    BY LinkNextIsNext
  <1> QED BY <1>1, <1>2, PTL DEF LinkSpec, Spec

\* apply_outcome for a delivery whose lock was lost leaves the lock and the message
\* of the link that has it now alone.
THEOREM LinkSpecOthersKeepTheirLock == LinkSpec => OthersKeepTheirLock
  <1>1. LinkInv /\ [LinkNext]_allVars
          => [\A q, r \in Receivers :
                /\ q # r /\ delivery[q] \in DOMAIN locks
                /\ link[r] = "sending" /\ link'[r] = "idle"
                => /\ delivery[q] \in DOMAIN locks'
                   /\ locks[delivery[q]].sequence_number \in lockedMessages']_allVars
    BY SettleAlone
  <1> QED BY LinkSpecInv, <1>1, PTL DEF LinkSpec, OthersKeepTheirLock

\* Ordinary links are woken by what becomes active while they are parked.
LEMMA WakeStep ==
  ASSUME LinkInv, [LinkNext]_allVars, NEW r \in Receivers, Wants[r] = NoSession,
         link[r] = "waiting", ~Ready(r), Ready(r)'
  PROVE  link'[r] # "waiting"
  <1>1. /\ active = <<>> /\ active' # <<>> /\ Range(active') # {}
        /\ link \in [Receivers -> Phases]
    <2>1. active \in Seq(Nat) /\ link \in [Receivers -> Phases]
      BY DEF LinkInv, LinkTypeOK, Inv, TypeOK
    <2>2. Range(active) = {} /\ Range(active') # {}
      BY DEF Ready, Fits
    <2>3. DOMAIN active = {}
      BY <2>2 DEF Range
    <2>4. active = <<>>
      BY <2>1, <2>3
    <2>5. active' # <<>>
      BY <2>2 DEF Range
    <2> QED BY <2>1, <2>2, <2>4, <2>5
  <1>2. Woken \in [Receivers -> Phases] /\ Woken[r] = "woken"
    BY <1>1 DEF Woken, Phases
  <1>3. CASE Arrive \/ Ticker
    BY <1>1, <1>2, <1>3 DEF Arrive, Ticker
  <1>4. ASSUME NEW q \in Receivers, GiveBack(q) PROVE link'[r] # "waiting"
    BY <1>2, <1>4 DEF GiveBack
  <1>5. ASSUME NEW q \in Receivers, LinkStep(q) PROVE FALSE
    <2>1. CASE Serve(q)
      BY <1>1, <2>1 DEF Serve, TryReceive, TryReceiveSession, First, vars
    <2>2. CASE Settle(q)
      BY <1>1, <2>2 DEF Settle, Complete, DeadLetter, vars
    <2> QED BY <1>1, <1>5, <2>1, <2>2
            DEF LinkStep, Attach, Ask, Register, Retry, Deadline, Detach, Close, Step, vars
  <1>6. CASE Quiet
    <2>1. CASE Purge \/ Elapse
      BY <1>1, <2>1 DEF Purge, Elapse
    <2>2. ASSUME NEW s, DeleteMessage(s) PROVE FALSE
      <3>1. active' = Without(active, s) /\ active \in Seq(Nat) /\ Range(active) = {}
        BY <1>1, <2>2 DEF DeleteMessage, Range, LinkInv, Inv, TypeOK
      <3>2. Range(active') \subseteq Range(active)
        BY <3>1, BucketKeep DEF Without
      <3> QED BY <1>1, <3>1, <3>2
    <2>3. ASSUME NEW s, ResubmitDeadLetter(s), nextSequence' = nextSequence PROVE FALSE
      <3>1. nextSequence \in Nat
        BY DEF LinkInv, Inv, TypeOK
      <3> QED BY <1>1, <2>3, <3>1 DEF ResubmitDeadLetter, Enqueue
    <2> QED BY <1>6, <2>1, <2>2, <2>3 DEF Quiet
  <1>7. CASE Reopen
    BY <1>7 DEF Reopen
  <1>8. CASE UNCHANGED allVars
    BY <1>1, <1>8 DEF allVars, vars
  <1> QED BY <1>3, <1>4, <1>5, <1>6, <1>7, <1>8 DEF LinkNext

\* No wakeup is lost on links without a session once they are parked: whatever makes
\* a message active under them, the actor's notify_waiters reaches them.
THEOREM LinkSpecArrivalsWake ==
  ASSUME \A r \in Receivers : Wants[r] = NoSession
  PROVE  LinkSpec => ArrivalsWake
  <1>1. LinkInv /\ [LinkNext]_allVars
          => [\A r \in Receivers :
                link[r] = "waiting" /\ ~Ready(r) /\ Ready(r)' => link'[r] # "waiting"]_allVars
    BY WakeStep
  <1> QED BY LinkSpecInv, <1>1, PTL DEF LinkSpec, ArrivalsWake

-----------------------------------------------------------------------------
\* The session links: who owns a session lock, for any number of links, AMQP sessions,
\* session ids and generations of the queue.
USE SessionLinksAssumption

\* Generations are numbered upwards; those to come have no locks.
Past ==
  /\ \A l \in Links : on[l] <= generation
  /\ \A g \in Generations : g > generation => locked[g] = {}

\* The inductive invariant behind OneReceiver.
SessionInv == SessionTypeOK /\ Past /\ OneReceiver

\* ... and behind LocksOwnedWhileOpen.
OwnedInv == SessionTypeOK /\ Past /\ LocksOwnedWhileOpen

-----------------------------------------------------------------------------
\* Every step keeps the types and the numbering of generations.
LEMMA BaseInv ==
  ASSUME SessionTypeOK, Past, [SessionNext]_slVars
  PROVE  SessionTypeOK' /\ Past'
<1> USE DEF SessionTypeOK, Past, Stages, Generations
<1>1. ASSUME NEW l \in Links, AttachSession(l) PROVE SessionTypeOK' /\ Past'
  BY <1>1 DEF AttachSession
<1>2. ASSUME NEW l \in Links, Grant(l) PROVE SessionTypeOK' /\ Past'
  BY <1>2 DEF Grant
<1>3. ASSUME NEW l \in Links, GiveUp(l) PROVE SessionTypeOK' /\ Past'
  BY <1>3 DEF GiveUp
<1>4. ASSUME NEW l \in Links, Report(l) PROVE SessionTypeOK' /\ Past'
  BY <1>4 DEF Report, Forget
<1>5. ASSUME NEW l \in Links, ServeSession(l) PROVE SessionTypeOK' /\ Past'
  <2>1. CASE granted[l] # Ungranted /\ exists
    <3>1. /\ stage' = [stage EXCEPT ![l] = "serving"]
          /\ on' = [on EXCEPT ![l] = generation]
          /\ UNCHANGED <<loop, granted, locked, generation, exists>>
      BY <1>5, <2>1 DEF ServeSession
    <3>2. QED
      BY <3>1
  <2>2. CASE ~(granted[l] # Ungranted /\ exists)
    BY <1>5, <2>2 DEF ServeSession, Forget
  <2>3. QED
    BY <2>1, <2>2
<1>6. ASSUME NEW l \in Links, Finish(l) PROVE SessionTypeOK' /\ Past'
  BY <1>6 DEF Finish, Forget, Released
<1>7. ASSUME NEW l \in Links, Fail(l) PROVE SessionTypeOK' /\ Past'
  BY <1>7 DEF Fail, EndLoop, Released
<1>8. ASSUME NEW c \in Connections, Disconnect(c) PROVE SessionTypeOK' /\ Past'
  BY <1>8 DEF Disconnect, EndLoop
<1>9. CASE DeleteQueue
  BY <1>9 DEF DeleteQueue
<1>10. CASE CreateQueue
  BY <1>10 DEF CreateQueue
<1>11. CASE UNCHANGED slVars
  BY <1>11 DEF slVars
<1>12. QED
  BY <1>1, <1>2, <1>3, <1>4, <1>5, <1>6, <1>7, <1>8, <1>9, <1>10, <1>11
  DEF SessionNext, SessionStep

LEMMA SessionInitInv == SessionInit => SessionInv /\ OwnedInv
  BY DEF SessionInit, SessionInv, OwnedInv, SessionTypeOK, Past, OneReceiver, LocksOwned,
         LocksOwnedWhileOpen, Stages, Generations

\* Only Grant takes a session, one that was free, and only its owner releases it.
LEMMA OneReceiverStep ==
  ASSUME SessionInv, [SessionNext]_slVars
  PROVE  OneReceiver'
<1> SUFFICES ASSUME generation' = 1
    PROVE  \A k, l \in Links :
             granted'[l] # Ungranted =>
               /\ granted'[l] \in locked'[1]
               /\ k # l => granted'[k] # granted'[l]
  BY DEF OneReceiver
<1> USE DEF SessionInv, SessionTypeOK, Past, OneReceiver, Stages, Generations
<1>0. /\ generation = 1
      /\ \A l \in Links : on[l] = 1
      /\ 1 \in Generations
  <2>1. generation = 1
    <3>1. generation' = generation \/ (CreateQueue /\ generation' = generation + 1)
      BY DEF SessionNext, SessionStep, AttachSession, Grant, GiveUp, Report, ServeSession,
             Finish, Fail, Disconnect, DeleteQueue, CreateQueue, slVars
    <3>2. QED
      BY <3>1
  <2>2. QED
    BY <2>1
<1>1. ASSUME NEW l \in Links, AttachSession(l) \/ GiveUp(l) PROVE OneReceiver'
  BY <1>0, <1>1 DEF AttachSession, GiveUp
<1>2. ASSUME NEW l \in Links, Grant(l) PROVE OneReceiver'
  BY <1>0, <1>2 DEF Grant
<1>3. ASSUME NEW l \in Links, Report(l) \/ ServeSession(l) PROVE OneReceiver'
  BY <1>0, <1>3 DEF Report, ServeSession, Forget
<1>4. ASSUME NEW l \in Links, Finish(l) PROVE OneReceiver'
  BY <1>0, <1>4 DEF Finish, Forget, Released
<1>5. ASSUME NEW l \in Links, Fail(l) PROVE OneReceiver'
  BY <1>0, <1>5 DEF Fail, EndLoop, Released
<1>6. ASSUME NEW c \in Connections, Disconnect(c) PROVE OneReceiver'
  BY <1>0, <1>6 DEF Disconnect, EndLoop
<1>7. CASE DeleteQueue \/ CreateQueue \/ UNCHANGED slVars
  BY <1>0, <1>7 DEF DeleteQueue, CreateQueue, slVars
<1>8. QED
  BY <1>1, <1>2, <1>3, <1>4, <1>5, <1>6, <1>7 DEF SessionNext, SessionStep

\* A loop that is open was open before, and no action reopens one.
LEMMA LoopsStep ==
  ASSUME SessionTypeOK, [SessionNext]_slVars,
         \A c \in Connections : loop'[c] = "open"
  PROVE  \A c \in Connections : loop[c] = "open"
  BY DEF SessionTypeOK, SessionNext, SessionStep, AttachSession, Grant, GiveUp, Report,
         ServeSession, Finish, Fail, EndLoop, Disconnect, DeleteQueue, CreateQueue, slVars

\* As long as no accept loop ends, a lock always has an owner.
LEMMA LocksOwnedStep ==
  ASSUME OwnedInv, [SessionNext]_slVars
  PROVE  LocksOwnedWhileOpen'
<1> SUFFICES ASSUME \A c \in Connections : loop'[c] = "open"
    PROVE  LocksOwned'
  BY DEF LocksOwnedWhileOpen
<1> USE DEF OwnedInv, SessionTypeOK, Past, LocksOwned, LocksOwnedWhileOpen, Stages, Generations
<1>0. (\A c \in Connections : loop[c] = "open") /\ LocksOwned
  BY LoopsStep
<1>1. ASSUME NEW l \in Links, AttachSession(l) \/ GiveUp(l) PROVE LocksOwned'
  <2>1. CASE AttachSession(l)
    <3>1. /\ UNCHANGED <<granted, locked, generation>> /\ exists
          /\ \A k \in Links : k # l => on'[k] = on[k]
          /\ granted[l] = Ungranted
      BY <2>1 DEF AttachSession
    <3>2. SUFFICES ASSUME NEW id \in locked[generation]
          PROVE  \E k \in Links : granted[k] = id /\ on'[k] = generation
      BY <3>1
    <3>3. PICK k \in Links : granted[k] = id /\ on[k] = generation
      BY <1>0, <3>1
    <3>4. id \in SessionIds /\ id # Ungranted
      OBVIOUS
    <3>5. QED
      BY <3>1, <3>3, <3>4
  <2>2. CASE GiveUp(l)
    BY <1>0, <2>2 DEF GiveUp
  <2>3. QED
    BY <1>0, <1>1, <2>1, <2>2
<1>2. ASSUME NEW l \in Links, Grant(l) PROVE LocksOwned'
  BY <1>0, <1>2 DEF Grant
<1>3. ASSUME NEW l \in Links, Report(l) PROVE LocksOwned'
  BY <1>0, <1>3 DEF Report, Open
<1>4. ASSUME NEW l \in Links, ServeSession(l) PROVE LocksOwned'
  <2>1. CASE granted[l] # Ungranted /\ exists
    BY <1>0, <1>4, <2>1 DEF ServeSession
  <2>2. CASE exists /\ granted[l] = Ungranted
    BY <1>0, <1>4, <2>2 DEF ServeSession, Forget
  <2>3. CASE ~exists
    BY <1>0, <1>4, <2>3 DEF ServeSession
  <2>4. QED
    BY <1>0, <2>1, <2>2, <2>3
<1>5. ASSUME NEW l \in Links, Finish(l) PROVE LocksOwned'
  BY <1>0, <1>5 DEF Finish, Forget, Released
<1>6. CASE DeleteQueue
  BY <1>0, <1>6 DEF DeleteQueue
<1>7. CASE CreateQueue
  <2>1. generation' \in Generations /\ generation' > generation /\ locked' = locked
    BY <1>0, <1>7 DEF CreateQueue
  <2>2. locked'[generation'] = {}
    BY <2>1
  <2>3. QED
    BY <2>2
<1>8. CASE UNCHANGED slVars
  BY <1>0, <1>8 DEF slVars
<1>9. ASSUME NEW l \in Links, Fail(l) PROVE FALSE
  BY <1>0, <1>9 DEF Fail, EndLoop
<1>10. ASSUME NEW c \in Connections, Disconnect(c) PROVE FALSE
  BY <1>10 DEF Disconnect, EndLoop
<1>11. QED
  BY <1>0, <1>1, <1>2, <1>3, <1>4, <1>5, <1>6, <1>7, <1>8, <1>9, <1>10 DEF SessionNext, SessionStep

-----------------------------------------------------------------------------
\* The variables of the session-lock chain keep their types.
THEOREM SessionSpecTypeOK == SessionSpec => []SessionTypeOK
<1>1. SessionInv /\ [SessionNext]_slVars => SessionInv'
  BY BaseInv, OneReceiverStep DEF SessionInv
<1>2. SessionInv => SessionTypeOK
  BY DEF SessionInv
<1>3. QED
  BY SessionInitInv, <1>1, <1>2, PTL DEF SessionSpec

\* While the queue is not replaced, a granted session stays locked for the one
\* link it was granted to, whatever attaches, failures and disconnections do.
THEOREM SpecOneReceiver == SessionSpec => []OneReceiver
<1>1. SessionInv /\ [SessionNext]_slVars => SessionInv'
  BY BaseInv, OneReceiverStep DEF SessionInv
<1>2. SessionInv => OneReceiver
  BY DEF SessionInv
<1>3. QED
  BY SessionInitInv, <1>1, <1>2, PTL DEF SessionSpec

\* While no accept loop ends, every session lock of the present queue has a link
\* that will release it.
THEOREM SpecLocksOwnedWhileOpen == SessionSpec => []LocksOwnedWhileOpen
<1>1. OwnedInv /\ [SessionNext]_slVars => OwnedInv'
  BY BaseInv, LocksOwnedStep DEF OwnedInv
<1>2. OwnedInv => LocksOwnedWhileOpen
  BY DEF OwnedInv
<1>3. QED
  BY SessionInitInv, <1>1, <1>2, PTL DEF SessionSpec
=============================================================================
