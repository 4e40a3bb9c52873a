---------------------------- MODULE SessionPolicy ----------------------------
(***************************************************************************)
(* The publication policy of one estimator generation: class FlightSession *)
(* of src/flight_session.cpp, as operators on the record of its fields.    *)
(* Each public method of the class is one operator taking the session and  *)
(* the injected time and returning the session after the call.  The state  *)
(* machine FlightSession calls them in any order a communication loop may; *)
(* MavlinkLink and AlignmentProtocol call them in the order the link does. *)
(*                                                                         *)
(* An operator X_Slip just before X is X with one slip put in, which TLC   *)
(* has to detect through the property it breaks.                           *)
(*                                                                         *)
(* Times are natural numbers of clock ticks.  An empty std::optional time  *)
(* or generation is NoTime / NoGeneration.                                 *)
(***************************************************************************)
EXTENDS Integers

CONSTANTS
    HeartbeatTimeout,   \* FlightSessionConfig::heartbeat_timeout (3 s)
    AlignmentTimeout,   \* FlightSessionConfig::alignment_timeout (2 s)
    ProgressTimeout,    \* FlightSessionConfig::progress_timeout (10 s)
    MaxEstimateAge,     \* FlightSessionConfig::max_estimate_age (0.5 s)
    AlignmentAttempts,  \* FlightSessionConfig::alignment_attempts (3)
    ResetModulus        \* values of the reset byte; 256 in the code

\* The checks of the FlightSession constructor.
ASSUME PolicyAssumption ==
    /\ HeartbeatTimeout \in Nat \ {0}
    /\ AlignmentTimeout \in Nat \ {0}
    /\ ProgressTimeout \in Nat \ {0}
    /\ MaxEstimateAge \in Nat \ {0}
    /\ AlignmentAttempts \in Nat \ {0}
    /\ ResetModulus \in Nat \ {0}

NoTime == -1
NoGeneration == 0       \* run_flight numbers generations from 1
OptionalTime == Nat \cup {NoTime}

FlightSessionState ==
    {"WaitingForController", "Priming", "AwaitingAlignment", "Aligned", "Failed"}

AlignmentResult == {"Accepted", "InProgress", "Retry", "Rejected"}

Session ==
    [state : FlightSessionState, generation : Nat, heartbeatTime : OptionalTime,
     measurementTime : OptionalTime, requestTime : Nat, nextRequestTime : Nat,
     armed : BOOLEAN, inProgress : BOOLEAN, attempts : Nat,
     resetCounter : 0..(ResetModulus - 1)]

\* A session as constructed: no generation, and the controller presumed armed.
NewSession(initial) ==
    [state |-> "WaitingForController", generation |-> NoGeneration,
     heartbeatTime |-> NoTime, measurementTime |-> NoTime, requestTime |-> 0,
     nextRequestTime |-> 0, armed |-> TRUE, inProgress |-> FALSE, attempts |-> 0,
     resetCounter |-> initial]

-----------------------------------------------------------------------------
(* Observers *)

ControllerFresh(s, now) ==
    /\ s.heartbeatTime # NoTime
    /\ now >= s.heartbeatTime
    /\ now - s.heartbeatTime < HeartbeatTimeout

ControllerDisarmed(s, now) == ControllerFresh(s, now) /\ ~s.armed

CanPublish(s, now) ==
    /\ s.generation # NoGeneration
    /\ ControllerFresh(s, now)
    /\ s.state # "Failed"
    /\ s.state = "Aligned" \/ ~s.armed

AlignmentDue(s, now) ==
    /\ s.state = "Priming"
    /\ CanPublish(s, now)
    /\ ~s.armed
    /\ s.attempts < AlignmentAttempts
    /\ now >= s.nextRequestTime
    /\ s.measurementTime # NoTime
    /\ now >= s.measurementTime
    /\ now - s.measurementTime <= MaxEstimateAge

-----------------------------------------------------------------------------
(* Mutators *)

Fail(s) == [s EXCEPT !.state = "Failed", !.measurementTime = NoTime]

\* start() throws, and changes nothing, unless StartAllowed.
StartAllowed_ForgetsRequest(s, generation) ==
    s.state # "Failed" /\ (s.generation # NoGeneration => generation > s.generation)

StartAllowed(s, generation) ==
    /\ s.state # "Failed"
    /\ s.attempts # 0 => s.state = "Aligned"
    /\ s.generation # NoGeneration => generation > s.generation

StartSession(s, generation) ==
    [s EXCEPT !.resetCounter = IF s.generation = NoGeneration THEN @
                               ELSE (@ + 1) % ResetModulus,
              !.generation = generation,
              !.measurementTime = NoTime,
              !.attempts = 0,
              !.inProgress = FALSE,
              !.nextRequestTime = 0,
              !.state = "WaitingForController"]

LoseController_KeepsAttempts(s) ==
    IF s.state = "AwaitingAlignment" THEN Fail(s)
    ELSE [s EXCEPT !.state = "WaitingForController", !.measurementTime = NoTime]

\* The two halves of tick(): the controller was lost, or it is there.
LoseController(s) ==
    IF s.state = "AwaitingAlignment" THEN Fail(s)
    ELSE [s EXCEPT !.attempts = IF s.state = "Aligned" THEN 0 ELSE @,
                   !.state = "WaitingForController",
                   !.measurementTime = NoTime]

RequestLimit(s) == IF s.inProgress THEN ProgressTimeout ELSE AlignmentTimeout

RequestExpired_Early(s, now) ==
    s.state = "AwaitingAlignment" /\ now - s.requestTime >= RequestLimit(s) - 1

RequestExpired(s, now) ==
    s.state = "AwaitingAlignment" /\ now - s.requestTime >= RequestLimit(s)

ExpireRequest(s, now) ==
    IF s.inProgress \/ s.attempts >= AlignmentAttempts THEN Fail(s)
    ELSE [s EXCEPT !.state = "Priming", !.nextRequestTime = now]

TickFresh(s, now) ==
    IF s.state = "WaitingForController" THEN [s EXCEPT !.state = "Priming"]
    ELSE IF RequestExpired(s, now) THEN ExpireRequest(s, now)
    ELSE s

Tick(s, now) ==
    IF s.generation = NoGeneration \/ s.state = "Failed" THEN s
    ELSE IF ControllerFresh(s, now) THEN TickFresh(s, now)
    ELSE LoseController(s)

\* heartbeat() between its two ticks: the report itself.
RecordHeartbeat(s, armed, now) ==
    LET heard == [s EXCEPT !.heartbeatTime = now, !.armed = armed]
    IN  IF s.state = "AwaitingAlignment" /\ armed THEN Fail(heard) ELSE heard

Heartbeat_RefreshesFirst(s, armed, now) == Tick(RecordHeartbeat(s, armed, now), now)

Heartbeat(s, armed, now) == Tick(RecordHeartbeat(Tick(s, now), armed, now), now)

MeasurementSent(s, timestamp) == [s EXCEPT !.measurementTime = timestamp]

\* alignment_sent() throws, and changes nothing, unless AlignmentDue(s, now).
AlignmentSent(s, now) ==
    [s EXCEPT !.attempts = @ + 1,
              !.requestTime = now,
              !.inProgress = FALSE,
              !.state = "AwaitingAlignment"]

ApplyResult_ProgressExtends(s, result, now) ==
    CASE result = "Accepted"   -> [s EXCEPT !.state = "Aligned"]
      [] result = "InProgress" -> [s EXCEPT !.inProgress = TRUE, !.requestTime = now]
      [] result = "Rejected"   -> Fail(s)
      [] result = "Retry"      -> s

ApplyResult(s, result, now) ==
    CASE result = "Accepted"   -> [s EXCEPT !.state = "Aligned"]
      [] result = "InProgress" -> [s EXCEPT !.inProgress = TRUE]
      [] result = "Rejected"   -> Fail(s)
      [] result = "Retry"      ->
            IF s.attempts >= AlignmentAttempts THEN Fail(s)
            ELSE [s EXCEPT !.state = "Priming",
                           !.nextRequestTime = now + AlignmentTimeout]

AckRelevant(s, now) ==
    s.state = "AwaitingAlignment" /\ ControllerFresh(s, now) /\ ~s.armed

Acknowledge(s, result, now) ==
    LET t == Tick(s, now)
    IN  IF AckRelevant(t, now) THEN ApplyResult(t, result, now) ELSE t
=============================================================================
