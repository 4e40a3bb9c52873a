------------------------- MODULE SessionPolicyProofs -------------------------
(***************************************************************************)
(* What the methods of the session do to its fields, for every value of    *)
(* the timeouts and attempts the constructor accepts.                      *)
(***************************************************************************)
EXTENDS SessionPolicy, TLAPS

\* The methods of FlightSession keep its fields within their types; only start()
\* changes the generation and the reset byte.
\* (fail, start, alignment_sent, measurement_sent)
LEMMA MutatorTypes ==
    ASSUME NEW s \in Session, NEW t \in Nat, NEW g \in Nat
    PROVE  /\ Fail(s) \in Session
           /\ StartSession(s, g) \in Session /\ StartSession(s, g).generation = g
           /\ StartSession(s, g).heartbeatTime = s.heartbeatTime
           /\ AlignmentSent(s, t) \in Session
           /\ MeasurementSent(s, t) \in Session
           /\ \A r \in {Fail(s), AlignmentSent(s, t), MeasurementSent(s, t)} :
                 /\ r.generation = s.generation /\ r.resetCounter = s.resetCounter
                 /\ r.heartbeatTime = s.heartbeatTime
<1>1. Fail(s) \in Session
  BY DEF Fail, Session, FlightSessionState, OptionalTime
<1>2. StartSession(s, g) \in Session
  <2>1. s.resetCounter \in 0..(ResetModulus - 1) /\ ResetModulus \in Nat \ {0}
    BY PolicyAssumption DEF Session
  <2>2. (s.resetCounter + 1) % ResetModulus \in 0..(ResetModulus - 1)
    BY <2>1
  <2>. QED BY <2>1, <2>2 DEF StartSession, Session, FlightSessionState, OptionalTime
<1>3. AlignmentSent(s, t) \in Session
  <2>1. s.attempts + 1 \in Nat
    BY DEF Session
  <2>. QED BY <2>1 DEF AlignmentSent, Session, FlightSessionState
<1>4. MeasurementSent(s, t) \in Session
  BY DEF MeasurementSent, Session, OptionalTime
<1>5. \A r \in {Fail(s), AlignmentSent(s, t), MeasurementSent(s, t)} :
        /\ r.generation = s.generation /\ r.resetCounter = s.resetCounter
        /\ r.heartbeatTime = s.heartbeatTime
  BY DEF Fail, AlignmentSent, MeasurementSent, Session
<1>6. StartSession(s, g).generation = g /\ StartSession(s, g).heartbeatTime = s.heartbeatTime
  BY DEF StartSession, Session
<1>. QED BY <1>1, <1>2, <1>3, <1>4, <1>5, <1>6

\* tick() keeps the types, and leaves alone every field but the state, the
\* attempts, the measurement time and the next request time.  (tick)
LEMMA TickFrame ==
    ASSUME NEW s \in Session, NEW t \in Nat
    PROVE  /\ Tick(s, t) \in Session
           /\ Tick(s, t).generation = s.generation
           /\ Tick(s, t).resetCounter = s.resetCounter
           /\ Tick(s, t).heartbeatTime = s.heartbeatTime
           /\ Tick(s, t).requestTime = s.requestTime
           /\ Tick(s, t).armed = s.armed
           /\ Tick(s, t).inProgress = s.inProgress
<1>. DEFINE Frame(r) == /\ r \in Session
                        /\ r.generation = s.generation
                        /\ r.resetCounter = s.resetCounter
                        /\ r.heartbeatTime = s.heartbeatTime
                        /\ r.requestTime = s.requestTime
                        /\ r.armed = s.armed
                        /\ r.inProgress = s.inProgress
<1>1. Frame(LoseController(s))
  BY DEF LoseController, Fail, Session, FlightSessionState, OptionalTime
<1>2. Frame(TickFresh(s, t))
  BY DEF TickFresh, ExpireRequest, Fail, Session, FlightSessionState, OptionalTime
<1>. QED BY <1>1, <1>2 DEF Tick

\* Where tick() can take the state from.  (tick)
LEMMA TickStates ==
    ASSUME NEW s \in Session, NEW t \in Nat
    PROVE  /\ s.state = "Failed" => Tick(s, t) = s
           /\ Tick(s, t).state = "Aligned" => Tick(s, t) = s
           /\ Tick(s, t).state = "AwaitingAlignment" => Tick(s, t) = s
           /\ s.generation # NoGeneration /\ ~ControllerFresh(s, t) =>
                 Tick(s, t).state \in {"WaitingForController", "Failed"}
           /\ Tick(s, t).measurementTime \in {s.measurementTime, NoTime}
           /\ s.generation # NoGeneration /\ ~ControllerFresh(s, t)
                 /\ s.state # "Failed" => Tick(s, t).measurementTime = NoTime
           /\ Tick(s, t).state = "Failed" /\ s.state # "Failed" =>
                 Tick(s, t).measurementTime = NoTime
           /\ s.generation = NoGeneration => Tick(s, t) = s
  BY DEF Tick, TickFresh, LoseController, ExpireRequest, Fail, RequestExpired,
         Session, FlightSessionState

\* heartbeat() keeps the types, the generation and the reset byte, and notes the
\* time.  (heartbeat)
LEMMA HeartbeatType ==
    ASSUME NEW s \in Session, NEW armed \in BOOLEAN, NEW t \in Nat
    PROVE  LET r == Heartbeat(s, armed, t)
           IN  /\ r \in Session
               /\ r.generation = s.generation /\ r.resetCounter = s.resetCounter
               /\ r.heartbeatTime = t
<1>1. \A r \in Session :
        /\ RecordHeartbeat(r, armed, t) \in Session
        /\ RecordHeartbeat(r, armed, t).heartbeatTime = t
        /\ RecordHeartbeat(r, armed, t).generation = r.generation
        /\ RecordHeartbeat(r, armed, t).resetCounter = r.resetCounter
  BY DEF RecordHeartbeat, Fail, Session, FlightSessionState, OptionalTime
<1>. QED BY <1>1, TickFrame DEF Heartbeat

\* acknowledge() keeps the types, the generation, the reset byte and the contact.
\* (acknowledge)
LEMMA AcknowledgeType ==
    ASSUME NEW s \in Session, NEW result \in AlignmentResult, NEW t \in Nat
    PROVE  LET r == Acknowledge(s, result, t)
           IN  /\ r \in Session
               /\ r.generation = s.generation /\ r.resetCounter = s.resetCounter
               /\ r.heartbeatTime = s.heartbeatTime
<1>1. t + AlignmentTimeout \in Nat
  BY PolicyAssumption
<1>. DEFINE Frame(r, u) == /\ u \in Session /\ u.generation = r.generation
                           /\ u.resetCounter = r.resetCounter
                           /\ u.heartbeatTime = r.heartbeatTime
<1>2. ASSUME NEW r \in Session PROVE Frame(r, ApplyResult(r, result, t))
  <2>1. Frame(r, Fail(r))
    BY DEF Fail, Session, FlightSessionState, OptionalTime
  <2>2. Frame(r, [r EXCEPT !.state = "Aligned"]) /\ Frame(r, [r EXCEPT !.inProgress = TRUE])
    BY DEF Session, FlightSessionState
  <2>3. Frame(r, [r EXCEPT !.state = "Priming", !.nextRequestTime = t + AlignmentTimeout])
    BY <1>1 DEF Session, FlightSessionState
  <2>. QED BY <2>1, <2>2, <2>3 DEF ApplyResult, AlignmentResult
<1>. QED BY <1>2, TickFrame DEF Acknowledge
===============================================================================
