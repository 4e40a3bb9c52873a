---------------------------- MODULE FlightSession ----------------------------
(***************************************************************************)
(* A FlightSession driven by one communication loop: any order of its      *)
(* public methods, with the loop delayed arbitrarily between two calls.    *)
(* src/mavlink_link.cpp and src/flight_application.cpp are the callers;    *)
(* the one thing taken from them is the discipline of measurement_sent     *)
(* (see MeasurementWritten).  MavlinkLink models the callers themselves.   *)
(***************************************************************************)
EXTENDS SessionPolicy

CONSTANTS
    MaxNow,         \* bound: the clock stops here
    MaxGeneration   \* bound: the last estimator generation

ASSUME SessionBounds == MaxNow \in Nat /\ MaxGeneration \in Nat

VARIABLES
    now,        \* the monotonic clock the caller samples before each call
    session,    \* the FlightSession object
    history     \* what happened, recorded without looking at session's policy

vars == <<now, session, history>>

(***************************************************************************)
(* history.accepted     the generation the last acceptance was applied to  *)
(* history.contact      no gap between heartbeats reached the timeout      *)
(*                      since that acceptance                              *)
(* history.primed       a measurement of the current generation was        *)
(*                      written since the last such gap                    *)
(* history.sentAt       when the last alignment command was written        *)
(* history.unanswered   that command has had no final answer               *)
(***************************************************************************)
History ==
    [contact : BOOLEAN, accepted : Nat, primed : BOOLEAN,
     sentAt : OptionalTime, unanswered : BOOLEAN]

TypeOK ==
    /\ now \in Nat
    /\ session \in Session
    /\ history \in History

Init ==
    /\ now = 0
    /\ \E initial \in 0..(ResetModulus - 1) : session = NewSession(initial)
    /\ history = [contact |-> FALSE, accepted |-> NoGeneration, primed |-> FALSE,
                  sentAt |-> NoTime, unanswered |-> FALSE]

-----------------------------------------------------------------------------
(* Time passes between two calls; a gap in the heartbeats is noticed here  *)
(* for the history, by the session only when it is next called.            *)
Advance ==
    /\ now < MaxNow
    /\ now' = now + 1
    /\ history' =
         IF now' - session.heartbeatTime >= HeartbeatTimeout
         THEN [history EXCEPT !.contact = FALSE, !.primed = FALSE]
         ELSE history
    /\ UNCHANGED session

Start(generation) ==
    /\ StartAllowed(session, generation)
    /\ session' = StartSession(session, generation)
    /\ history' = [history EXCEPT !.primed = FALSE]
    /\ UNCHANGED now

HearHeartbeat(armed) ==
    /\ session' = Heartbeat(session, armed, now)
    /\ UNCHANGED <<now, history>>

TickNow ==
    /\ session' = Tick(session, now)
    /\ UNCHANGED <<now, history>>

HearAck(result) ==
    LET applied == AckRelevant(Tick(session, now), now)
    IN  /\ session' = Acknowledge(session, result, now)
        /\ history' =
             IF ~applied THEN history
             ELSE IF result = "Accepted"
             THEN [history EXCEPT !.contact = TRUE, !.unanswered = FALSE,
                                  !.accepted = session.generation]
             ELSE [history EXCEPT !.unanswered = @ /\ result = "InProgress"]
        /\ UNCHANGED now

(***************************************************************************)
(* The link reports a measurement after its last byte was written, in a    *)
(* poll that has ticked the session and found that it may publish; the     *)
(* deadline of the packet keeps the estimate no older than MaxEstimateAge. *)
(***************************************************************************)
MeasurementWritten(timestamp) ==
    /\ session = Tick(session, now)
    /\ CanPublish(session, now)
    /\ timestamp <= now /\ now - timestamp <= MaxEstimateAge
    /\ session' = MeasurementSent(session, timestamp)
    /\ history' = [history EXCEPT !.primed = TRUE]
    /\ UNCHANGED now

AlignmentWritten ==
    /\ AlignmentDue(session, now)
    /\ session' = AlignmentSent(session, now)
    /\ history' = [history EXCEPT !.sentAt = now, !.unanswered = TRUE]
    /\ UNCHANGED now

\* MavlinkLink::fail on an I/O error or an unsafe partial packet.
FailSession ==
    /\ session' = Fail(session)
    /\ UNCHANGED <<now, history>>

Next ==
    \/ Advance
    \/ \E generation \in 1..MaxGeneration : Start(generation)
    \/ \E armed \in BOOLEAN : HearHeartbeat(armed)
    \/ TickNow
    \/ \E result \in AlignmentResult : HearAck(result)
    \/ \E timestamp \in 0..now : MeasurementWritten(timestamp)
    \/ AlignmentWritten
    \/ FailSession

Spec == Init /\ [][Next]_vars

-----------------------------------------------------------------------------
(* Safety *)

\* A session that could still ask for alignment has an attempt left to ask
\* with: losing the controller, a busy answer or a timeout never parks it in
\* Priming with its attempts spent, publishing to a disarmed controller
\* forever and never aligning.  (tick, acknowledge, start)
AttemptsRemain ==
    /\ session.attempts <= AlignmentAttempts
    /\ session.state \in {"WaitingForController", "Priming"} =>
           session.attempts < AlignmentAttempts

\* Armed publication rests on an acceptance given to this generation and on a
\* heartbeat stream without a gap since then, even when the loop was delayed
\* across the gap and the next call is the late heartbeat itself.  (heartbeat)
ArmedPublicationIsAligned ==
    CanPublish(session, now) /\ session.armed =>
        history.accepted = session.generation /\ history.contact

\* Alignment is requested only on a measurement of this generation, written
\* since the controller was last found.  (start, tick, alignment_due)
RequestOnlyWhenPrimed == AlignmentDue(session, now) => history.primed

\* An outstanding request is resolved within its limit counted from the write
\* of the command: repeated progress reports do not extend it.  (tick)
RequestResolvedInTime ==
    Tick(session, now).state = "AwaitingAlignment" =>
        now < history.sentAt + RequestLimit(session)

\* A request is never outstanding to a controller known to be armed.  (heartbeat)
NoRequestWhileArmed == session.state = "AwaitingAlignment" => ~session.armed

(***************************************************************************)
(* The strengthening of the invariants above that every call preserves.    *)
(***************************************************************************)
\* Nothing but a failure happens to a session that has no generation yet.
IdleUntilStarted ==
    session.generation = NoGeneration =>
        /\ session.state \in {"WaitingForController", "Failed"}
        /\ session.measurementTime = NoTime

\* An alignment in force, seen while the controller is fresh, was accepted for
\* this generation and contact has held since.
AlignmentInForce ==
    session.state = "Aligned" /\ ControllerFresh(session, now) =>
        history.accepted = session.generation /\ history.contact

\* The evidence of a written measurement does not outlive the contact or the
\* generation it was written in, nor the session.
EvidenceIsCurrent ==
    /\ session.state = "Failed" => session.measurementTime = NoTime
    /\ session.measurementTime # NoTime /\ ControllerFresh(session, now) =>
           history.primed

\* The timer of an outstanding request runs from the write of its command.
TimerRunsFromWrite ==
    session.state = "AwaitingAlignment" => session.requestTime = history.sentAt

\* An unanswered command is remembered by a nonzero count of attempts.
UnansweredIsCounted ==
    history.unanswered =>
        \/ session.state = "Failed"
        \/ session.attempts # 0 /\ session.state # "Aligned"

\* The inductive invariant of the session.  (all methods of FlightSession)
SessionInv ==
    /\ TypeOK
    /\ session.heartbeatTime <= now
    /\ AttemptsRemain
    /\ NoRequestWhileArmed
    /\ IdleUntilStarted
    /\ AlignmentInForce
    /\ EvidenceIsCurrent
    /\ TimerRunsFromWrite
    /\ UnansweredIsCounted

(* Action properties *)

\* No call recovers a failed session.  (fail, tick, heartbeat, start)
FailureLatched ==
    [][session.state = "Failed" => session'.state = "Failed"]_vars

\* A new generation starts only when the last command has been answered; a
\* command that timed out, or was forgotten with its controller, blocks it.
\* (start)
RestartOnlyWhenAnswered ==
    [][session'.generation # session.generation => ~history.unanswered]_vars
=============================================================================
