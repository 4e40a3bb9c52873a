----------------------------- MODULE LinkContract -----------------------------
(***************************************************************************)
(* What MavlinkLink promises the application that owns it: the states of   *)
(* its session and its transmit buffer without clocks, timeouts, attempts  *)
(* or packets.  Where the class decides by the time, this specification    *)
(* chooses.  MavlinkLinkContract checks that the class keeps the promise,  *)
(* and FlightApplication uses the promise in the place of the class.       *)
(*                                                                         *)
(* An operator that names a call of the class is the set of the states the *)
(* call may leave the link in.                                             *)
(***************************************************************************)
EXTENDS Naturals

CONSTANTS
    ResetModulus,   \* values of the reset byte; 256 in the code
    MaxGeneration   \* bound: the last estimator generation

VARIABLES
    link,   \* the link as its owner may know it
    wire    \* the last measurement bytes that were sent

FlightSessionState ==
    {"WaitingForController", "Priming", "AwaitingAlignment", "Aligned", "Failed"}

(***************************************************************************)
(* l.fresh       the controller's last heartbeat is recent                 *)
(* l.armed       that heartbeat reported the vehicle armed                 *)
(* l.unresolved  an alignment command of this session is unanswered or was *)
(*               refused for now                                           *)
(* l.started     between start_session() and end_session()                 *)
(* l.queued      a measurement is in the transmit buffer                   *)
(* l.partial     the packet in the transmit buffer is partly sent          *)
(***************************************************************************)
Link ==
    [state : FlightSessionState, generation : 0..MaxGeneration,
     reset : 0..(ResetModulus - 1), fresh : BOOLEAN, armed : BOOLEAN,
     unresolved : BOOLEAN, started : BOOLEAN, queued : BOOLEAN, partial : BOOLEAN]

Wire == [generation : 0..MaxGeneration, reset : 0..(ResetModulus - 1)]

ContractTypeOK == link \in Link /\ wire \in Wire

NewLink(initial) ==
    [state |-> "WaitingForController", generation |-> 0, reset |-> initial,
     fresh |-> FALSE, armed |-> TRUE, unresolved |-> FALSE, started |-> FALSE,
     queued |-> FALSE, partial |-> FALSE]

ContractInit ==
    /\ \E initial \in 0..(ResetModulus - 1) : link = NewLink(initial)
    /\ wire = [generation |-> 0, reset |-> 0]

-----------------------------------------------------------------------------
Disarmed(l) == l.fresh /\ ~l.armed

Permitted(l) ==
    /\ l.generation # 0 /\ l.fresh
    /\ l.state # "Failed"
    /\ l.state = "Aligned" \/ ~l.armed

\* The session fails; the link closes with it at once, or at its next poll.
Stopped(l) == [l EXCEPT !.state = "Failed", !.unresolved = FALSE]
Closed(l) == [Stopped(l) EXCEPT !.queued = FALSE, !.partial = FALSE]

\* What the passing of time does to the session when it is next looked at.
Ticked(l) ==
    CASE l.generation = 0 \/ l.state = "Failed" -> {l}
      [] l.generation # 0 /\ l.state = "AwaitingAlignment" ->
            IF l.fresh THEN {l, [l EXCEPT !.state = "Priming"], Stopped(l)} ELSE {Stopped(l)}
      [] l.generation # 0 /\ l.state = "WaitingForController" ->
            {IF l.fresh THEN [l EXCEPT !.state = "Priming"] ELSE l}
      [] l.generation # 0 /\ l.state \in {"Priming", "Aligned"} ->
            {IF l.fresh THEN l ELSE [l EXCEPT !.state = "WaitingForController"]}

Heard(l, armed) ==
    LET told(t) == [t EXCEPT !.fresh = TRUE, !.armed = armed]
        kept(t) == IF t.state = "AwaitingAlignment" /\ armed THEN Stopped(told(t)) ELSE told(t)
    IN  UNION {Ticked(kept(t)) : t \in Ticked(l)}

\* An acceptance, a rejection, a temporary one or none of the link's business.
Answered(l) ==
    Ticked(l) \cup
    UNION {{[t EXCEPT !.state = "Aligned", !.unresolved = FALSE],
            [t EXCEPT !.state = "Priming"], Stopped(t)} :
              t \in {u \in Ticked(l) : u.state = "AwaitingAlignment" /\ Disarmed(u)}}

Published(l) ==
    Ticked(l) \cup
    {[t EXCEPT !.queued = TRUE] :
        t \in {u \in Ticked(l) : u.started /\ Permitted(u) /\ ~u.queued /\ ~u.partial}}

MayStart(l) == l.state # "Failed" /\ ~l.unresolved

Started(l, generation) ==
    IF l.partial THEN Closed(l)
    ELSE [l EXCEPT !.reset = IF l.generation = 0 THEN @ ELSE (@ + 1) % ResetModulus,
                   !.generation = generation, !.state = "WaitingForController",
                   !.started = TRUE, !.queued = FALSE]

Ended(l) ==
    IF l.partial THEN [Closed(l) EXCEPT !.started = FALSE]
    ELSE [l EXCEPT !.started = FALSE, !.queued = FALSE]

-----------------------------------------------------------------------------
(* Calls of the owner *)

StartSession(generation) ==
    /\ link.partial \/ (MayStart(link) /\ generation > link.generation)
    /\ link' = Started(link, generation)
    /\ UNCHANGED wire

EndSession == link' = Ended(link) /\ UNCHANGED wire

Publish == link' \in Published(link) /\ UNCHANGED wire

(* What may happen in a call of poll() *)

HearHeartbeat(armed) == link' \in Heard(link, armed) /\ UNCHANGED wire

HearAnswer == link' \in Answered(link) /\ UNCHANGED wire

\* Bytes of the queued measurement are sent, under the permission of now.
SendMeasurement ==
    /\ link.queued /\ link.started /\ Permitted(link)
    /\ wire' = [generation |-> link.generation, reset |-> link.reset]
    /\ \E whole \in BOOLEAN : link' = [link EXCEPT !.queued = ~whole, !.partial = ~whole]

\* A measurement not begun is withdrawn, or has given way to bytes of a
\* heartbeat or of an alignment command.
SendControl ==
    /\ link.state # "Failed"
    /\ link.queued => ~link.partial
    /\ \E whole \in BOOLEAN : link' = [link EXCEPT !.queued = FALSE, !.partial = ~whole]
    /\ UNCHANGED wire

\* The last byte of an alignment command is sent.
RequestAlignment ==
    /\ link.started /\ link.state = "Priming" /\ Disarmed(link)
    /\ link.queued => ~link.partial
    /\ link' = [link EXCEPT !.state = "AwaitingAlignment", !.unresolved = TRUE,
                            !.queued = FALSE, !.partial = FALSE]
    /\ UNCHANGED wire

\* I/O errors, a session that failed, a packet that may not be finished.
Close == link' = Closed(link) /\ UNCHANGED wire

Poll ==
    \/ link' \in Ticked(link) /\ UNCHANGED wire
    \/ \E armed \in BOOLEAN : HearHeartbeat(armed)
    \/ HearAnswer
    \/ SendMeasurement
    \/ SendControl
    \/ RequestAlignment
    \/ Close

\* Time passes, and the last heartbeat is no longer recent.
Silence == link' = [link EXCEPT !.fresh = FALSE] /\ UNCHANGED wire

ContractNext ==
    \/ \E generation \in 1..MaxGeneration : StartSession(generation)
    \/ EndSession
    \/ Publish
    \/ Poll
    \/ Silence

ContractSpec == ContractInit /\ [][ContractNext]_<<link, wire>>
=============================================================================
