--------------------------- MODULE ReceiverLinks ---------------------------
(***************************************************************************)
(* Receiver links on one entity: the loop of handle_incoming_receiver_link *)
(* (amqp/links.rs) around EntityHandle::receive (actor/handle.rs), with    *)
(* the Notify by which the actor (actor/task.rs) wakes waiting receivers.  *)
(*                                                                         *)
(* A link's task and the actor interleave between these phases:            *)
(*   idle     about to call receive                                        *)
(*   asked    TryReceive is in the actor's command queue                   *)
(*   empty    the actor answered None; notified() is not created yet       *)
(*   waiting  parked on the Notified future or the deadline                *)
(*   woken    notified; goes round the loop of receive again               *)
(*   sending  a delivery is with the client, its outcome outstanding       *)
(*   dropped  the peer detached while TryReceive was queued: the reply     *)
(*            will find nobody                                             *)
(*   closed   no link; the client may attach another                       *)
(*                                                                         *)
(* The session a link serves is fixed in Wants.  No link defers a message  *)
(* or renews a lock, so Defer and RenewLock do not occur here.             *)
(***************************************************************************)
EXTENDS EntityState

CONSTANTS
  Receivers,   \* links
  Wants        \* the session each serves, NoSession for an ordinary link

VARIABLES
  link,        \* phase of each link's task
  delivery     \* lock token of the delivery it is sending

linkVars == <<link, delivery>>
allVars  == <<vars, linkVars>>

Phases == {"idle", "asked", "empty", "waiting", "woken", "sending", "dropped", "closed"}

ASSUME ReceiverAssumption == Wants \in [Receivers -> Sessions \cup {NoSession}]

LinkInit ==
  /\ Init
  /\ link = [r \in Receivers |-> "closed"]
  /\ delivery = [r \in Receivers |-> NoToken]

\* receive takes any message, receive_session those of its session.
Fits(r, s) == Wants[r] \in {NoSession, msg[s].session_id}
Ready(r)   == \E s \in Range(active) : Fits(r, s)

\* Wakes one waiter (notify_one).
Woken_Mistake ==
  LET parked == {r \in Receivers : link[r] = "waiting"}
  IN IF parked = {} THEN link ELSE [link EXCEPT ![CHOOSE r \in parked : TRUE] = "woken"]

\* notify_waiters: reaches the Notified futures that exist, and leaves no permit.
Woken == [r \in Receivers |-> IF link[r] = "waiting" THEN "woken" ELSE link[r]]

\* Link r's own step from one phase to another, away from the entity.
Step(r, from, to) ==
  /\ link[r] = from
  /\ link' = [link EXCEPT ![r] = to]
  /\ UNCHANGED <<vars, delivery>>

-----------------------------------------------------------------------------
Attach(r) == Step(r, "closed", "idle")
Ask(r)    == Step(r, "idle", "asked")

\* The actor handles the TryReceive of link r.  It locks a message whether or not
\* somebody still waits for the reply.
Serve(r) ==
  /\ link[r] \in {"asked", "dropped"}
  /\ \/ /\ ~Ready(r)
        /\ link' = [link EXCEPT ![r] = IF @ = "asked" THEN "empty" ELSE "closed"]
        /\ UNCHANGED <<vars, delivery>>
     \/ /\ \/ Wants[r] = NoSession /\ TryReceive("PeekLock")
           \/ Wants[r] # NoSession /\ TryReceiveSession(Wants[r], "PeekLock")
        /\ link' = [link EXCEPT ![r] = IF @ = "asked" THEN "sending" ELSE "closed"]
        /\ \E t \in DOMAIN locks' \ DOMAIN locks :
             delivery' = IF link[r] = "asked" THEN [delivery EXCEPT ![r] = t] ELSE delivery

Register(r) == Step(r, "empty", "waiting")
Retry(r)    == Step(r, "woken", "asked")

\* Waits without a deadline.
Deadline_Mistake(r) == Step(r, "woken", "idle")
\* max_wait is over: receive returns None and the link calls it again.
Deadline(r) == Step(r, "waiting", "idle")

\* on_detach wins the select: the receive future is dropped where it stands.
Detach(r) ==
  \/ \E from \in {"idle", "empty", "waiting", "woken"} : Step(r, from, "closed")
  \/ Step(r, "asked", "dropped")

\* The peer is gone or does not acknowledge within 30 s: the loop ends, and the
\* delivery stays locked.
Close(r) ==
  /\ link[r] = "sending"
  /\ link' = [link EXCEPT ![r] = "closed"]
  /\ delivery' = [delivery EXCEPT ![r] = NoToken]
  /\ UNCHANGED vars

\* Settles the message under whatever lock it has by now.
Settle_Mistake(r) ==
  LET m == msg[delivery[r][1]]
  IN /\ link[r] = "sending" /\ m # Gone
     /\ Complete(m.lock_token)
     /\ link' = [link EXCEPT ![r] = "idle"]
     /\ delivery' = [delivery EXCEPT ![r] = NoToken]

\* apply_outcome for an accepted or rejected delivery, as the actor handles it; a
\* lost lock is only logged.
Settle(r) ==
  LET t == delivery[r]
  IN /\ link[r] = "sending"
     /\ Complete(t) \/ DeadLetter(t) \/ (t \notin DOMAIN locks /\ UNCHANGED vars)
     /\ link' = [link EXCEPT ![r] = "idle"]
     /\ delivery' = [delivery EXCEPT ![r] = NoToken]

\* apply_outcome for a released or modified delivery.
GiveBack(r) ==
  /\ link[r] = "sending"
  /\ Abandon(delivery[r])
  /\ link' = [Woken EXCEPT ![r] = "idle"]
  /\ delivery' = [delivery EXCEPT ![r] = NoToken]

-----------------------------------------------------------------------------
(***************************************************************************)
(* What else the actor handles.                                            *)
(***************************************************************************)
Arrive ==
  /\ \/ \E session \in Sessions \cup {NoSession}, delay \in Delays, ttl \in TimesToLive :
          Send(session, delay, ttl)
     \/ \E s \in DOMAIN msg : ResubmitDeadLetter(s) /\ nextSequence' # nextSequence
  /\ link' = Woken
  /\ UNCHANGED delivery

\* The ticker notifies only when active was empty before and is not after.
Ticker ==
  /\ Tick
  /\ link' = IF active = <<>> /\ active' # <<>> THEN Woken ELSE link
  /\ UNCHANGED delivery

\* Commands that notify nobody, and the clock.
Quiet ==
  /\ \/ Purge
     \/ \E s \in DOMAIN msg : \/ DeleteMessage(s)
                              \/ ResubmitDeadLetter(s) /\ nextSequence' = nextSequence
     \/ Elapse
  /\ UNCHANGED linkVars

\* The fresh actor of a restarted engine has no links yet.
Reopen ==
  /\ Restart
  /\ link' = [r \in Receivers |-> "closed"]
  /\ delivery' = [r \in Receivers |-> NoToken]

LinkStep(r) ==
  \/ Attach(r) \/ Ask(r) \/ Serve(r) \/ Register(r) \/ Retry(r) \/ Deadline(r)
  \/ Detach(r) \/ Close(r) \/ Settle(r)

LinkNext ==
  \/ \E r \in Receivers : LinkStep(r) \/ GiveBack(r)
  \/ Arrive \/ Ticker \/ Quiet \/ Reopen

LinkSpec == LinkInit /\ [][LinkNext]_allVars

-----------------------------------------------------------------------------
\* A link has a delivery exactly while it sends one.
LinkTypeOK ==
  /\ link \in [Receivers -> Phases]
  /\ delivery \in [Receivers -> Token \cup {NoToken}]
  /\ \A r \in Receivers : delivery[r] # NoToken <=> link[r] = "sending"

\* An outcome that arrives late, when its message has gone to another link, does
\* not take that link's lock or message away (apply_outcome in links.rs).
OthersKeepTheirLock ==
  [][\A q, r \in Receivers :
       /\ q # r /\ delivery[q] \in DOMAIN locks
       /\ link[r] = "sending" /\ link'[r] = "idle"
       => /\ delivery[q] \in DOMAIN locks'
          /\ locks[delivery[q]].sequence_number \in lockedMessages']_allVars

\* Whenever a message a parked link could take becomes active, by a send, an
\* abandon, a resubmit or the ticker, the link is woken (handle.rs: receive "waits
\* (up to max_wait) for a message").
ArrivalsWake ==
  [][\A r \in Receivers :
       link[r] = "waiting" /\ ~Ready(r) /\ Ready(r)' => link'[r] # "waiting"]_allVars

-----------------------------------------------------------------------------
(***************************************************************************)
(* Liveness.  tokio runs every task that can run, the deadline fires, the  *)
(* clock runs and the ticker ticks, and send() is bounded by 30 s; nobody  *)
(* is obliged to attach or to stay.  Nothing puts a message back at the    *)
(* front for ever: links here do not abandon, and the engine is not        *)
(* restarted.                                                              *)
(***************************************************************************)
StayNext == (\E r \in Receivers : LinkStep(r)) \/ Arrive \/ Ticker \/ Quiet

StaySpec ==
  /\ LinkInit /\ [][StayNext]_allVars
  /\ \A r \in Receivers :
       /\ WF_allVars(Ask(r)) /\ WF_allVars(Serve(r)) /\ WF_allVars(Register(r))
       /\ WF_allVars(Retry(r)) /\ WF_allVars(Deadline(r))
       /\ WF_allVars(Close(r) \/ Settle(r))
  /\ WF_allVars(Ticker) /\ WF_allVars(Elapse /\ UNCHANGED linkVars)

\* While a link stays attached, every active message it may take is handed out or
\* removed, also when the link missed the notification for it (the deadline of
\* receive and the loop of the link around it).
ActiveServed ==
  \A r \in Receivers :
    <>[](link[r] \notin {"closed", "dropped"})
      => \A s \in 1..MaxSequence :
           []<>~(s \in Range(active) /\ Fits(r, s))

\* While an ordinary link stays attached, no message circulates for ever: however
\* often a peer goes silent and the ticker takes its lock back, the message is settled,
\* removed, or dead-lettered by its delivery count (tick, max_delivery_count).
PoisonBuried ==
  \A r \in Receivers :
    Wants[r] = NoSession /\ <>[](link[r] \notin {"closed", "dropped"})
      => \A s \in 1..MaxSequence :
           <>[](s \notin Range(scheduled) \cup Range(active) \cup lockedMessages)
=============================================================================
