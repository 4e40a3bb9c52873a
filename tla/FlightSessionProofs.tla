------------------------- MODULE FlightSessionProofs -------------------------
(***************************************************************************)
(* The safety properties of FlightSession, for every value of the timeouts *)
(* and attempts the constructor accepts and without a bound on time; then  *)
(* those of its exchange with the flight controller, of which the session  *)
(* is one end, for every line that answers within the alignment timeout.   *)
(***************************************************************************)
EXTENDS AlignmentProtocol, SessionPolicyProofs, TLAPS

-----------------------------------------------------------------------------
\* Every call keeps the types of the session, the clock and the history.
\* (class FlightSession)
LEMMA TypeStep == TypeOK /\ [Next]_vars => TypeOK'
<1>. SUFFICES ASSUME TypeOK, [Next]_vars PROVE TypeOK'
  OBVIOUS
<1>. USE DEF TypeOK
<1>1. CASE Advance
  <2>1. history' \in History
    BY <1>1 DEF Advance, History
  <2>. QED BY <1>1, <2>1 DEF Advance
<1>2. ASSUME NEW g \in 1..MaxGeneration, Start(g) PROVE TypeOK'
  <2>1. g \in Nat
    BY SessionBounds
  <2>. QED BY <1>2, <2>1, MutatorTypes DEF Start, History
<1>3. ASSUME NEW armed \in BOOLEAN, HearHeartbeat(armed) PROVE TypeOK'
  BY <1>3, HeartbeatType DEF HearHeartbeat
<1>4. CASE TickNow
  BY <1>4, TickFrame DEF TickNow
<1>5. ASSUME NEW result \in AlignmentResult, HearAck(result) PROVE TypeOK'
  <2>1. session.generation \in Nat
    BY DEF Session
  <2>2. session' \in Session /\ now' = now
    BY <1>5, AcknowledgeType DEF HearAck
  <2>3. history' \in History
    BY <1>5, <2>1 DEF HearAck, History
  <2>. QED BY <2>2, <2>3
<1>6. ASSUME NEW timestamp \in 0..now, MeasurementWritten(timestamp) PROVE TypeOK'
  <2>1. timestamp \in Nat
    OBVIOUS
  <2>2. MeasurementSent(session, timestamp) \in Session
    BY <2>1, MutatorTypes
  <2>. QED BY <1>6, <2>2 DEF MeasurementWritten, History
<1>7. CASE AlignmentWritten
  BY <1>7, MutatorTypes DEF AlignmentWritten, History, OptionalTime
<1>8. CASE FailSession
  BY <1>8, MutatorTypes DEF FailSession
<1>9. CASE UNCHANGED vars
  BY <1>9 DEF vars
<1>. QED BY <1>1, <1>2, <1>3, <1>4, <1>5, <1>6, <1>7, <1>8, <1>9 DEF Next

\* The session, the clock and the history keep their types.  (class FlightSession)
THEOREM TypeCorrect == Spec => []TypeOK
<1>1. Init => TypeOK
  BY PolicyAssumption
  DEF Init, TypeOK, NewSession, Session, FlightSessionState, OptionalTime, History,
      NoTime, NoGeneration
<1>. QED BY <1>1, TypeStep, PTL DEF Spec

-----------------------------------------------------------------------------
(***************************************************************************)
(* The policy part of SessionInv, as a predicate of a session s at time t  *)
(* with history h, so that one lemma per method speaks of all of it.       *)
(***************************************************************************)
PolicyInv(s, t, h) ==
    /\ s.heartbeatTime <= t
    /\ s.attempts <= AlignmentAttempts
    /\ s.state \in {"WaitingForController", "Priming"} => s.attempts < AlignmentAttempts
    /\ s.state = "AwaitingAlignment" => ~s.armed
    /\ s.generation = NoGeneration =>
          s.state \in {"WaitingForController", "Failed"} /\ s.measurementTime = NoTime
    /\ s.state = "Aligned" /\ ControllerFresh(s, t) =>
          h.accepted = s.generation /\ h.contact
    /\ s.state = "Failed" => s.measurementTime = NoTime
    /\ s.measurementTime # NoTime /\ ControllerFresh(s, t) => h.primed
    /\ s.state = "AwaitingAlignment" => s.requestTime = h.sentAt
    /\ h.unanswered => s.state = "Failed" \/ (s.attempts # 0 /\ s.state # "Aligned")

\* SessionInv is PolicyInv of the current session with its types.
LEMMA SessionInvIsPolicyInv ==
    SessionInv <=> TypeOK /\ PolicyInv(session, now, history)
  BY DEF SessionInv, PolicyInv, AttemptsRemain, NoRequestWhileArmed, IdleUntilStarted,
         AlignmentInForce, EvidenceIsCurrent, TimerRunsFromWrite, UnansweredIsCounted

\* tick() preserves the policy invariant, whatever time has passed.  (tick)
LEMMA TickPreserves ==
    ASSUME NEW s \in Session, NEW t \in Nat, NEW h \in History, PolicyInv(s, t, h)
    PROVE  PolicyInv(Tick(s, t), t, h)
<1>1. s.attempts \in Nat /\ AlignmentAttempts \in Nat \ {0}
  BY PolicyAssumption DEF Session
<1>2. CASE s.generation = NoGeneration \/ s.state = "Failed"
  BY <1>2 DEF Tick
<1>3. CASE s.generation # NoGeneration /\ s.state # "Failed" /\ ControllerFresh(s, t)
  BY <1>1, <1>3 DEF Tick, TickFresh, RequestExpired, ExpireRequest, Fail, PolicyInv,
                    ControllerFresh, Session, FlightSessionState, History
<1>4. CASE s.generation # NoGeneration /\ s.state # "Failed" /\ ~ControllerFresh(s, t)
  BY <1>1, <1>4 DEF Tick, LoseController, Fail, PolicyInv,
                    ControllerFresh, Session, FlightSessionState, History
<1>. QED BY <1>2, <1>3, <1>4

\* A heartbeat, however late, preserves the policy invariant: the tick before
\* it drops whatever the gap invalidated.  (heartbeat)
LEMMA HeartbeatPreserves ==
    ASSUME NEW s \in Session, NEW armed \in BOOLEAN, NEW t \in Nat, NEW h \in History,
           PolicyInv(s, t, h)
    PROVE  PolicyInv(Heartbeat(s, armed, t), t, h)
<1>. DEFINE r == Tick(s, t)
            heard == RecordHeartbeat(r, armed, t)
<1>1. r \in Session /\ PolicyInv(r, t, h)
  BY TickFrame, TickPreserves
<1>2. /\ r.generation # NoGeneration /\ ~ControllerFresh(r, t) =>
             r.state # "Aligned" /\ r.measurementTime = NoTime
      /\ r.generation = NoGeneration => r.state # "Aligned" /\ r.measurementTime = NoTime
  BY <1>1, TickFrame, TickStates DEF PolicyInv, ControllerFresh
<1>3. heard \in Session
  BY <1>1 DEF RecordHeartbeat, Fail, Session, FlightSessionState, OptionalTime
<1>4. PolicyInv(heard, t, h)
  <2>. HIDE DEF r
  <2>. QED BY <1>1, <1>2 DEF RecordHeartbeat, Fail, PolicyInv, Session, FlightSessionState,
                            History
<1>. QED BY <1>3, <1>4, TickPreserves DEF Heartbeat

\* The history after an answer was applied, as HearAck records it.
AckHistory(s, result, h) ==
    IF result = "Accepted"
    THEN [h EXCEPT !.contact = TRUE, !.unanswered = FALSE, !.accepted = s.generation]
    ELSE [h EXCEPT !.unanswered = @ /\ result = "InProgress"]

\* An answer applied to an outstanding request preserves the policy invariant.
\* (acknowledge)
LEMMA ResultPreserves ==
    ASSUME NEW s \in Session, NEW result \in AlignmentResult, NEW t \in Nat,
           NEW h \in History, PolicyInv(s, t, h), AckRelevant(s, t)
    PROVE  PolicyInv(ApplyResult(s, result, t), t, AckHistory(s, result, h))
<1>1. s.attempts \in Nat /\ AlignmentAttempts \in Nat \ {0}
  BY PolicyAssumption DEF Session
<1>2. s.state = "AwaitingAlignment"
  BY DEF AckRelevant
<1>3. CASE result = "Accepted"
  BY <1>1, <1>2, <1>3 DEF ApplyResult, AckHistory, PolicyInv, ControllerFresh, Session, History
<1>4. CASE result = "InProgress"
  BY <1>1, <1>2, <1>4 DEF ApplyResult, AckHistory, PolicyInv, ControllerFresh, Session, History
<1>5. CASE result = "Rejected"
  BY <1>1, <1>2, <1>5 DEF ApplyResult, AckHistory, Fail, PolicyInv, ControllerFresh, Session,
                         History
<1>6. CASE result = "Retry"
  BY <1>1, <1>2, <1>6 DEF ApplyResult, AckHistory, Fail, PolicyInv, ControllerFresh, Session,
                         History
<1>. QED BY <1>3, <1>4, <1>5, <1>6 DEF AlignmentResult

-----------------------------------------------------------------------------
\* SessionInv holds initially and every call preserves it.  (class FlightSession)
LEMMA SessionInvInit == Init => SessionInv
<1>. SUFFICES ASSUME Init PROVE SessionInv
  OBVIOUS
<1>1. TypeOK
  BY PolicyAssumption
  DEF Init, TypeOK, NewSession, Session, FlightSessionState, OptionalTime, History,
      NoTime, NoGeneration
<1>2. PolicyInv(session, now, history)
  BY PolicyAssumption DEF Init, NewSession, PolicyInv, ControllerFresh, NoTime
<1>. QED BY <1>1, <1>2, SessionInvIsPolicyInv

LEMMA SessionInvStep == SessionInv /\ [Next]_vars /\ TypeOK' => SessionInv'
<1>. SUFFICES ASSUME SessionInv, [Next]_vars, TypeOK' PROVE PolicyInv(session, now, history)'
  BY SessionInvIsPolicyInv DEF SessionInv, PolicyInv, AttemptsRemain, NoRequestWhileArmed,
     IdleUntilStarted, AlignmentInForce, EvidenceIsCurrent, TimerRunsFromWrite,
     UnansweredIsCounted
<1>0. /\ TypeOK /\ session \in Session /\ now \in Nat /\ history \in History
      /\ PolicyInv(session, now, history)
  BY SessionInvIsPolicyInv DEF TypeOK
<1>. USE <1>0
<1>1. CASE Advance
  <2>1. session' = session /\ now' = now + 1
    BY <1>1 DEF Advance
  <2>2. /\ ControllerFresh(session, now') => ControllerFresh(session, now)
        /\ ControllerFresh(session, now') => history' = history
        /\ history'.unanswered = history.unanswered /\ history'.sentAt = history.sentAt
    BY <1>1, <2>1, PolicyAssumption
    DEF Advance, ControllerFresh, PolicyInv, Session, OptionalTime, NoTime, History
  <2>. QED BY <2>1, <2>2 DEF PolicyInv, Session, OptionalTime, NoTime
<1>2. ASSUME NEW g \in 1..MaxGeneration, Start(g)
      PROVE  PolicyInv(session, now, history)'
  BY <1>2, PolicyAssumption, SessionBounds
  DEF Start, StartAllowed, StartSession, PolicyInv, Session, History, NoGeneration
<1>3. ASSUME NEW armed \in BOOLEAN, HearHeartbeat(armed)
      PROVE  PolicyInv(session, now, history)'
  BY <1>3, HeartbeatPreserves DEF HearHeartbeat
<1>4. CASE TickNow
  BY <1>4, TickPreserves DEF TickNow
<1>5. ASSUME NEW result \in AlignmentResult, HearAck(result)
      PROVE  PolicyInv(session, now, history)'
  <2>. DEFINE r == Tick(session, now)
  <2>1. r \in Session /\ PolicyInv(r, now, history) /\ r.generation = session.generation
    BY TickFrame, TickPreserves
  <2>2. CASE ~AckRelevant(r, now)
    BY <1>5, <2>1, <2>2 DEF HearAck, Acknowledge
  <2>3. CASE AckRelevant(r, now)
    <3>1. /\ session' = ApplyResult(r, result, now)
          /\ now' = now
          /\ history' = AckHistory(r, result, history)
      BY <1>5, <2>1, <2>3 DEF HearAck, Acknowledge, AckHistory
    <3>. QED BY <2>1, <2>3, <3>1, ResultPreserves
  <2>. QED BY <2>2, <2>3
<1>6. ASSUME NEW timestamp \in 0..now, MeasurementWritten(timestamp)
      PROVE  PolicyInv(session, now, history)'
  BY <1>6 DEF MeasurementWritten, MeasurementSent, CanPublish, PolicyInv, ControllerFresh,
              Session, History
<1>7. CASE AlignmentWritten
  BY <1>7, PolicyAssumption
  DEF AlignmentWritten, AlignmentDue, CanPublish, AlignmentSent, PolicyInv,
      ControllerFresh, Session, History
<1>8. CASE FailSession
  BY <1>8 DEF FailSession, Fail, PolicyInv, ControllerFresh, Session, History
<1>9. CASE UNCHANGED vars
  BY <1>9 DEF vars, PolicyInv, ControllerFresh
<1>. QED BY <1>1, <1>2, <1>3, <1>4, <1>5, <1>6, <1>7, <1>8, <1>9 DEF Next

\* The inductive invariant holds in every behaviour.  (class FlightSession)
THEOREM SessionInvariant == Spec => []SessionInv
<1>1. Init => SessionInv
  BY SessionInvInit
<1>2. TypeOK /\ TypeOK' /\ SessionInv /\ [Next]_vars => SessionInv'
  BY SessionInvStep
<1>. QED BY <1>1, <1>2, TypeCorrect, PTL DEF Spec

\* A session that could still ask for alignment has an attempt left.  (tick,
\* acknowledge, start)
THEOREM AttemptsAlwaysRemain == Spec => []AttemptsRemain
<1>1. SessionInv => AttemptsRemain
  BY DEF SessionInv
<1>. QED BY <1>1, SessionInvariant, PTL

\* Armed publication rests on an acceptance of this generation and an unbroken
\* heartbeat stream since.  (heartbeat, can_publish)
THEOREM ArmedPublicationSafe == Spec => []ArmedPublicationIsAligned
<1>1. SessionInv => ArmedPublicationIsAligned
  BY DEF SessionInv, AlignmentInForce, ArmedPublicationIsAligned, CanPublish
<1>. QED BY <1>1, SessionInvariant, PTL

\* Alignment is requested only on a measurement written in this generation and
\* this contact.  (alignment_due, tick, start)
THEOREM RequestsArePrimed == Spec => []RequestOnlyWhenPrimed
<1>1. SessionInv => RequestOnlyWhenPrimed
  BY DEF SessionInv, EvidenceIsCurrent, RequestOnlyWhenPrimed, AlignmentDue, CanPublish
<1>. QED BY <1>1, SessionInvariant, PTL

\* A request is resolved within its limit of the write of its command.  (tick)
THEOREM RequestsAreResolved == Spec => []RequestResolvedInTime
<1>1. SessionInv => RequestResolvedInTime
  <2>. SUFFICES ASSUME SessionInv, Tick(session, now).state = "AwaitingAlignment"
                PROVE  now < history.sentAt + RequestLimit(session)
    BY DEF RequestResolvedInTime
  <2>1. session \in Session /\ now \in Nat /\ history \in History
    BY DEF SessionInv, TypeOK
  <2>2. Tick(session, now) = session /\ session.state = "AwaitingAlignment"
    BY <2>1, TickStates
  <2>3. session.requestTime = history.sentAt /\ session.generation # NoGeneration
    BY <2>2 DEF SessionInv, TimerRunsFromWrite, IdleUntilStarted
  <2>4. ~RequestExpired(session, now)
    <3>. SUFFICES ASSUME RequestExpired(session, now) PROVE FALSE
      OBVIOUS
    <3>1. ControllerFresh(session, now)
      BY <2>1, <2>2, <2>3, TickStates
    <3>2. Tick(session, now) = ExpireRequest(session, now)
      BY <2>2, <2>3, <3>1 DEF Tick, TickFresh
    <3>3. ExpireRequest(session, now).state # "AwaitingAlignment"
      BY <2>1 DEF ExpireRequest, Fail, Session
    <3>. QED BY <2>2, <3>2, <3>3
  <2>5. session.requestTime \in Nat /\ RequestLimit(session) \in Nat
    BY <2>1, PolicyAssumption DEF Session, RequestLimit
  <2>. QED BY <2>1, <2>2, <2>3, <2>4, <2>5 DEF RequestExpired
<1>. QED BY <1>1, SessionInvariant, PTL

\* No call recovers a failed session.  (fail)
THEOREM FailureIsLatched == Spec => FailureLatched
<1>1. TypeOK /\ [Next]_vars =>
          [session.state = "Failed" => session'.state = "Failed"]_vars
  <2>. SUFFICES ASSUME TypeOK, Next, session.state = "Failed"
                PROVE  session'.state = "Failed"
    BY DEF vars
  <2>. USE DEF TypeOK
  <2>1. CASE Advance
    BY <2>1 DEF Advance
  <2>2. ASSUME NEW g \in 1..MaxGeneration, Start(g) PROVE session'.state = "Failed"
    BY <2>2 DEF Start, StartAllowed
  <2>3. ASSUME NEW armed \in BOOLEAN, HearHeartbeat(armed) PROVE session'.state = "Failed"
    <3>1. Tick(session, now) = session
      BY TickStates
    <3>2. RecordHeartbeat(session, armed, now).state = "Failed"
      BY DEF RecordHeartbeat, Session
    <3>3. RecordHeartbeat(session, armed, now) \in Session
      BY DEF RecordHeartbeat, Fail, Session, FlightSessionState, OptionalTime
    <3>. QED BY <2>3, <3>1, <3>2, <3>3, TickStates DEF HearHeartbeat, Heartbeat
  <2>4. CASE TickNow
    BY <2>4, TickStates DEF TickNow
  <2>5. ASSUME NEW result \in AlignmentResult, HearAck(result) PROVE session'.state = "Failed"
    BY <2>5, TickStates DEF HearAck, Acknowledge, AckRelevant
  <2>6. ASSUME NEW timestamp \in 0..now, MeasurementWritten(timestamp)
        PROVE session'.state = "Failed"
    BY <2>6 DEF MeasurementWritten, CanPublish
  <2>7. CASE AlignmentWritten
    BY <2>7 DEF AlignmentWritten, AlignmentDue
  <2>8. CASE FailSession
    BY <2>8 DEF FailSession, Fail, Session
  <2>. QED BY <2>1, <2>2, <2>3, <2>4, <2>5, <2>6, <2>7, <2>8 DEF Next
<1>. QED BY <1>1, TypeCorrect, PTL DEF Spec, FailureLatched

\* The generation changes only by start(), never while a command is
\* unanswered.  (start)
THEOREM RestartsAreAnswered == Spec => RestartOnlyWhenAnswered
<1>1. SessionInv /\ [Next]_vars =>
          [session'.generation # session.generation => ~history.unanswered]_vars
  <2>. SUFFICES ASSUME SessionInv, Next, session'.generation # session.generation
                PROVE  ~history.unanswered
    BY DEF vars
  <2>1. session \in Session /\ now \in Nat
    BY DEF SessionInv, TypeOK
  <2>2. ASSUME NEW g \in 1..MaxGeneration, Start(g) PROVE ~history.unanswered
    BY <2>2 DEF Start, StartAllowed, SessionInv, UnansweredIsCounted
  <2>3. ASSUME NEW armed \in BOOLEAN, HearHeartbeat(armed) PROVE FALSE
    <3>1. \A r \in Session : /\ RecordHeartbeat(r, armed, now) \in Session
                             /\ RecordHeartbeat(r, armed, now).generation = r.generation
      BY <2>1 DEF RecordHeartbeat, Fail, Session, FlightSessionState, OptionalTime
    <3>. QED BY <2>1, <2>3, <3>1, TickFrame DEF HearHeartbeat, Heartbeat
  <2>4. CASE TickNow
    BY <2>1, <2>4, TickFrame DEF TickNow
  <2>5. ASSUME NEW result \in AlignmentResult, HearAck(result) PROVE FALSE
    <3>1. \A r \in Session : ApplyResult(r, result, now).generation = r.generation
      BY DEF ApplyResult, Fail, Session, AlignmentResult
    <3>. QED BY <2>1, <2>5, <3>1, TickFrame DEF HearAck, Acknowledge
  <2>6. CASE Advance \/ AlignmentWritten \/ FailSession
               \/ \E timestamp \in 0..now : MeasurementWritten(timestamp)
    BY <2>1, <2>6 DEF Advance, AlignmentWritten, AlignmentSent, FailSession, Fail,
       MeasurementWritten, MeasurementSent, Session
  <2>. QED BY <2>2, <2>3, <2>4, <2>5, <2>6 DEF Next
<1>. QED BY <1>1, SessionInvariant, PTL DEF Spec, RestartOnlyWhenAnswered

-----------------------------------------------------------------------------
(***************************************************************************)
(* The exchange: the session at one end of the line.                       *)
(***************************************************************************)
\* Every step of the exchange keeps the types of the line.
\* (send_alignment, handle COMMAND_ACK)
LEMMA LineTypeStep ==
    ASSUME TypeOK, TypeOK', LineTypeOK, [ExchangeNext]_exchangeVars
    PROVE  LineTypeOK'
<1>. USE DEF LineTypeOK, line
<1>1. CASE LoopStep
  BY <1>1 DEF LoopStep
<1>2. CASE SendAlignment
  <2>1. [generation |-> session.generation, sentAt |-> now] \in Command
    BY DEF TypeOK, Session, Command
  <2>. QED BY <1>2, <2>1 DEF SendAlignment
<1>3. CASE ReceiveAck
  BY <1>3 DEF ReceiveAck
<1>4. CASE LoseCommand
  BY <1>4 DEF LoseCommand
<1>5. CASE LoseAck
  BY <1>5 DEF LoseAck
<1>6. ASSUME NEW result \in AlignmentResult, Answer(result) PROVE LineTypeOK'
  <2>1. Head(commands) \in Command
    BY <1>6 DEF Answer
  <2>2. [command |-> Head(commands), result |-> result] \in Ack
    BY <2>1 DEF Ack
  <2>3. granted' \subseteq Nat
    BY <1>6, <2>1 DEF Answer, Command
  <2>. QED BY <1>6, <2>2, <2>3 DEF Answer
<1>7. CASE AnswerProgress
  <2>1. Head(commands) \in Command
    BY <1>7 DEF AnswerProgress
  <2>2. [command |-> Head(commands), result |-> "InProgress"] \in Ack
    BY <2>1 DEF Ack, AlignmentResult
  <2>. QED BY <1>7, <2>2 DEF AnswerProgress
<1>8. CASE UNCHANGED exchangeVars
  BY <1>8 DEF exchangeVars
<1>. QED BY <1>1, <1>2, <1>3, <1>4, <1>5, <1>6, <1>7, <1>8 DEF ExchangeNext

\* What the exchange does to the session is a call of FlightSession, or nothing.
\* (run_flight, MavlinkLink::poll)
LEMMA ExchangeStepIsCall ==
    ASSUME TypeOK, LineTypeOK, [ExchangeNext]_exchangeVars
    PROVE  [Next]_vars
<1>1. CASE LoopStep
  <2>1. session.generation \in Nat /\ now \in Nat
    BY DEF TypeOK, Session
  <2>2. CASE session.generation < MaxGeneration /\ Start(session.generation + 1)
    <3>1. session.generation + 1 \in 1..MaxGeneration
      BY <2>1, <2>2, SessionBounds
    <3>. QED BY <2>2, <3>1 DEF Next
  <2>3. CASE MeasurementWritten(now)
    <3>1. now \in 0..now
      BY <2>1
    <3>. QED BY <2>3, <3>1 DEF Next
  <2>. QED BY <1>1, <2>2, <2>3 DEF LoopStep, Next
<1>2. CASE SendAlignment
  BY <1>2 DEF SendAlignment, Next
<1>3. CASE ReceiveAck
  <2>0. Head(acks) \in Ack
    BY <1>3 DEF ReceiveAck, LineTypeOK
  <2>1. Head(acks).result \in AlignmentResult
    BY <2>0 DEF Ack
  <2>. QED BY <1>3, <2>1 DEF ReceiveAck, Next
<1>4. CASE LoseCommand \/ LoseAck \/ (\E result \in AlignmentResult : Answer(result))
             \/ AnswerProgress \/ UNCHANGED exchangeVars
  BY <1>4 DEF LoseCommand, LoseAck, Answer, AnswerProgress, exchangeVars, vars
<1>. QED BY <1>1, <1>2, <1>3, <1>4 DEF ExchangeNext

\* The exchange and its line keep their types.  (class FlightSession)
LEMMA ExchangeTypes == ExchangeSpec => [](TypeOK /\ LineTypeOK)
<1>1. ExchangeInit => TypeOK /\ LineTypeOK
  <2>1. Init => TypeOK
    BY SessionInvInit DEF SessionInv
  <2>2. NoCommand \in Command
    BY DEF NoCommand, Command, NoGeneration
  <2>. QED BY <2>1, <2>2 DEF ExchangeInit, LineTypeOK
<1>2. TypeOK /\ LineTypeOK /\ [ExchangeNext]_exchangeVars => TypeOK' /\ LineTypeOK'
  BY ExchangeStepIsCall, TypeStep, LineTypeStep
<1>. QED BY <1>1, <1>2, PTL DEF ExchangeSpec

\* The exchange drives its session as FlightSession allows, whatever the line
\* does: what is proved of FlightSession holds of the exchange.
\* (run_flight, MavlinkLink::poll)
THEOREM ExchangeKeepsSession == ExchangeSpec => Spec
<1>1. ExchangeInit => Init
  BY DEF ExchangeInit
<1>2. TypeOK /\ LineTypeOK /\ [ExchangeNext]_exchangeVars => [Next]_vars
  BY ExchangeStepIsCall
<1>. QED BY <1>1, <1>2, ExchangeTypes, PTL DEF ExchangeSpec, Spec

(***************************************************************************)
(* What ExchangeInv says of the session s at time t: last is the last      *)
(* command, clear that the line is, and g the generations granted.         *)
(***************************************************************************)
SessionSide(s, t, last, clear, g) ==
    /\ s.state = "AwaitingAlignment" =>
          last = [generation |-> s.generation, sentAt |-> s.requestTime]
    /\ s.state \in {"WaitingForController", "Priming"} =>
          clear \/ last.sentAt + AlignmentTimeout <= t
    /\ s.attempts = 0 \/ s.state = "Aligned" => clear
    /\ s.state = "Aligned" => s.generation \in g

\* What it says of the commands cs and the answers rs.
LineSide(cs, rs, last, g) ==
    /\ \A i \in 1..Len(rs) : rs[i].result = "Accepted" => rs[i].command.generation \in g
    /\ \A i \in 1..Len(cs) : cs[i] # last => cs[i].sentAt + AlignmentTimeout <= last.sentAt
    /\ \A i \in 1..Len(rs) : rs[i].command # last =>
          rs[i].command.sentAt + AlignmentTimeout <= last.sentAt
    /\ \A i \in 1..Len(cs) : cs[i] = last => i = Len(cs)
    /\ \A i \in 1..Len(rs) : rs[i].command = last /\ rs[i].result # "InProgress" =>
          i = Len(rs) /\ cs = <<>>

\* ExchangeInv is the two sides of the line with their types.
LEMMA ExchangeInvIsTwoSided ==
    ExchangeInv <=> /\ TypeOK /\ LineTypeOK
                    /\ SessionSide(session, now, latest, Clear, granted)
                    /\ LineSide(commands, acks, latest, granted)
                    /\ latest.sentAt <= now
<1>1. ASSUME LineTypeOK
      PROVE  DOMAIN commands = 1..Len(commands) /\ DOMAIN acks = 1..Len(acks)
  BY <1>1 DEF LineTypeOK
<1>2. ASSUME LineTypeOK
      PROVE  OvertakenAreLate <=>
               /\ \A i \in 1..Len(commands) : commands[i] # latest =>
                     commands[i].sentAt + AlignmentTimeout <= latest.sentAt
               /\ \A i \in 1..Len(acks) : acks[i].command # latest =>
                     acks[i].command.sentAt + AlignmentTimeout <= latest.sentAt
  BY <1>1, <1>2 DEF OvertakenAreLate, OnLine
<1>3. ASSUME LineTypeOK
      PROVE  LineSide(commands, acks, latest, granted)
               <=> AnswersAreTrue /\ OvertakenAreLate /\ LatestIsLast
  BY <1>1, <1>2, <1>3 DEF LineSide, AnswersAreTrue, LatestIsLast
<1>4. SessionSide(session, now, latest, Clear, granted) /\ latest.sentAt <= now
        <=> RequestIsLatest /\ SpacedOut /\ AlignmentIsGenuine
  BY DEF SessionSide, RequestIsLatest, SpacedOut, AlignmentIsGenuine
<1>. QED BY <1>3, <1>4 DEF ExchangeInv

\* tick() keeps the session's side: a request that runs out on an unanswered
\* command has waited the alignment timeout.  (tick)
LEMMA TickKeepsSide ==
    ASSUME NEW s \in Session, NEW t \in Nat, NEW last, NEW clear \in BOOLEAN, NEW g,
           SessionSide(s, t, last, clear, g)
    PROVE  SessionSide(Tick(s, t), t, last, clear, g)
<1>1. s.attempts \in Nat /\ AlignmentAttempts \in Nat /\ s.requestTime \in Nat
      /\ AlignmentTimeout \in Nat
  BY PolicyAssumption DEF Session
<1>2. CASE s.generation = NoGeneration \/ s.state = "Failed"
  BY <1>2 DEF Tick
<1>3. ASSUME s.generation # NoGeneration, s.state # "Failed", ControllerFresh(s, t),
             RequestExpired(s, t)
      PROVE  SessionSide(Tick(s, t), t, last, clear, g)
  <2>1. s.state = "AwaitingAlignment" /\ t - s.requestTime >= RequestLimit(s)
    BY <1>3 DEF RequestExpired
  <2>2. Tick(s, t) = ExpireRequest(s, t)
    BY <1>3, <2>1 DEF Tick, TickFresh
  <2>3. last.sentAt = s.requestTime
    BY <2>1 DEF SessionSide
  <2>4. ~s.inProgress => last.sentAt + AlignmentTimeout <= t
    BY <1>1, <2>1, <2>3 DEF RequestLimit
  <2>. QED BY <2>1, <2>2, <2>4 DEF ExpireRequest, Fail, SessionSide, Session
<1>4. CASE s.generation # NoGeneration /\ s.state # "Failed" /\ ControllerFresh(s, t)
             /\ ~RequestExpired(s, t)
  <2>1. Tick(s, t) \in {s, [s EXCEPT !.state = "Priming"]}
        /\ (Tick(s, t) # s => s.state = "WaitingForController")
    BY <1>4 DEF Tick, TickFresh
  <2>. QED BY <2>1 DEF SessionSide, Session
<1>5. CASE s.generation # NoGeneration /\ s.state # "Failed" /\ ~ControllerFresh(s, t)
  <2>1. Tick(s, t) = LoseController(s)
    BY <1>5 DEF Tick
  <2>2. CASE s.state = "AwaitingAlignment"
    BY <2>1, <2>2 DEF LoseController, Fail, SessionSide, Session
  <2>3. CASE s.state = "Aligned"
    BY <2>1, <2>3 DEF LoseController, SessionSide, Session
  <2>4. CASE s.state \in {"WaitingForController", "Priming"}
    BY <2>1, <2>4 DEF LoseController, SessionSide, Session
  <2>. QED BY <1>5, <2>2, <2>3, <2>4 DEF Session, FlightSessionState
<1>. QED BY <1>2, <1>3, <1>4, <1>5

\* heartbeat() keeps it.  (heartbeat)
LEMMA HeartbeatKeepsSide ==
    ASSUME NEW s \in Session, NEW armed \in BOOLEAN, NEW t \in Nat, NEW last,
           NEW clear \in BOOLEAN, NEW g, SessionSide(s, t, last, clear, g)
    PROVE  SessionSide(Heartbeat(s, armed, t), t, last, clear, g)
<1>. DEFINE r == Tick(s, t)
<1>1. r \in Session /\ SessionSide(r, t, last, clear, g)
  BY TickFrame, TickKeepsSide
<1>. HIDE DEF r
<1>2. RecordHeartbeat(r, armed, t) \in Session
  BY <1>1 DEF RecordHeartbeat, Fail, Session, FlightSessionState, OptionalTime
<1>3. SessionSide(RecordHeartbeat(r, armed, t), t, last, clear, g)
  BY <1>1 DEF RecordHeartbeat, Fail, SessionSide, Session
<1>. QED BY <1>2, <1>3, TickKeepsSide DEF Heartbeat, r

\* An answer to the outstanding request keeps it, if a final answer leaves the
\* line clear and an acceptance is true.  (acknowledge)
LEMMA ResultKeepsSide ==
    ASSUME NEW s \in Session, NEW result \in AlignmentResult, NEW t \in Nat, NEW last,
           NEW clear \in BOOLEAN, NEW g, SessionSide(s, t, last, FALSE, g),
           s.state = "AwaitingAlignment",
           result # "InProgress" => clear, result = "Accepted" => s.generation \in g
    PROVE  SessionSide(ApplyResult(s, result, t), t, last, clear, g)
<1>1. CASE result = "Accepted"
  BY <1>1 DEF ApplyResult, SessionSide, Session
<1>2. CASE result = "InProgress"
  BY <1>2 DEF ApplyResult, SessionSide, Session
<1>3. CASE result = "Rejected"
  BY <1>3 DEF ApplyResult, Fail, SessionSide, Session
<1>4. CASE result = "Retry"
  BY <1>4 DEF ApplyResult, Fail, SessionSide, Session
<1>. QED BY <1>1, <1>2, <1>3, <1>4 DEF AlignmentResult

\* What Head, Tail and Append do to a sequence, element by element.
LEMMA SequenceFacts ==
    ASSUME NEW S, NEW q \in Seq(S)
    PROVE  /\ Len(q) \in Nat /\ (Len(q) = 0 <=> q = <<>>)
           /\ \A i \in 1..Len(q) : q[i] \in S
           /\ q # <<>> => /\ Head(q) = q[1] /\ 1 \in 1..Len(q)
                          /\ Tail(q) \in Seq(S) /\ Len(Tail(q)) = Len(q) - 1
                          /\ \A i \in 1..Len(Tail(q)) : Tail(q)[i] = q[i + 1]
           /\ \A e : /\ Len(Append(q, e)) = Len(q) + 1
                     /\ Append(q, e)[Len(q) + 1] = e
                     /\ \A i \in 1..Len(q) : Append(q, e)[i] = q[i]
           /\ \A e \in S : Append(q, e) # <<>>
<1>1. Len(q) \in Nat /\ (Len(q) = 0 <=> q = <<>>)
  OBVIOUS
<1>2. \A i \in 1..Len(q) : q[i] \in S
  OBVIOUS
<1>3. q # <<>> => /\ Head(q) = q[1] /\ 1 \in 1..Len(q)
                  /\ Tail(q) \in Seq(S) /\ Len(Tail(q)) = Len(q) - 1
                  /\ \A i \in 1..Len(Tail(q)) : Tail(q)[i] = q[i + 1]
  OBVIOUS
<1>4. \A e : /\ Len(Append(q, e)) = Len(q) + 1
             /\ Append(q, e)[Len(q) + 1] = e
             /\ \A i \in 1..Len(q) : Append(q, e)[i] = q[i]
  OBVIOUS
<1>5. \A e \in S : Append(q, e) # <<>>
  <2>1. \A e \in S : Len(Append(q, e)) # 0
    BY <1>1, <1>4
  <2>. QED BY <2>1
<1>. QED BY <1>1, <1>2, <1>3, <1>4, <1>5

\* Taking the first command or the first answer off the line keeps its order.
LEMMA RemovalsKeepOrder ==
    ASSUME NEW cs \in Seq(Command), NEW rs \in Seq(Ack), NEW last, NEW g,
           LineSide(cs, rs, last, g)
    PROVE  /\ cs # <<>> => LineSide(Tail(cs), rs, last, g)
           /\ rs # <<>> => LineSide(cs, Tail(rs), last, g)
<1>1. ASSUME cs # <<>> PROVE LineSide(Tail(cs), rs, last, g)
  <2>1. Len(Tail(cs)) = Len(cs) - 1 /\ \A i \in 1..Len(Tail(cs)) : Tail(cs)[i] = cs[i + 1]
    BY <1>1, SequenceFacts
  <2>2. Len(cs) \in Nat /\ Len(cs) # 0
    BY <1>1, SequenceFacts
  <2>3. ASSUME NEW i \in 1..Len(Tail(cs))
        PROVE  /\ Tail(cs)[i] # last =>
                     Tail(cs)[i].sentAt + AlignmentTimeout <= last.sentAt
               /\ Tail(cs)[i] = last => i = Len(Tail(cs))
    <3>1. i + 1 \in 1..Len(cs) /\ Tail(cs)[i] = cs[i + 1]
      BY <2>1, <2>2
    <3>2. /\ cs[i + 1] # last => cs[i + 1].sentAt + AlignmentTimeout <= last.sentAt
          /\ cs[i + 1] = last => i + 1 = Len(cs)
      BY <3>1 DEF LineSide
    <3>3. Len(cs) = i + 1 => i = Len(Tail(cs))
      BY <2>1, <2>2
    <3>. QED BY <3>1, <3>2, <3>3
  <2>. QED BY <1>1, <2>3 DEF LineSide
<1>2. ASSUME rs # <<>> PROVE LineSide(cs, Tail(rs), last, g)
  <2>. DEFINE n == Len(rs)
              q == Tail(rs)
  <2>1. n \in Nat /\ Len(q) = n - 1 /\ \A i \in 1..Len(q) : q[i] = rs[i + 1]
    BY <1>2, SequenceFacts
  <2>2. /\ \A i \in 1..n : rs[i].result = "Accepted" => rs[i].command.generation \in g
        /\ \A i \in 1..n : rs[i].command # last =>
              rs[i].command.sentAt + AlignmentTimeout <= last.sentAt
        /\ \A i \in 1..n : rs[i].command = last /\ rs[i].result # "InProgress" =>
              i = n /\ cs = <<>>
    BY DEF LineSide
  <2>. HIDE DEF n, q
  <2>3. ASSUME NEW i \in 1..Len(q)
        PROVE  /\ q[i].result = "Accepted" => q[i].command.generation \in g
               /\ q[i].command # last =>
                     q[i].command.sentAt + AlignmentTimeout <= last.sentAt
               /\ q[i].command = last /\ q[i].result # "InProgress" =>
                     i = Len(q) /\ cs = <<>>
    <3>1. i + 1 \in 1..n /\ q[i] = rs[i + 1] /\ (n = i + 1 => i = Len(q))
      BY <2>1
    <3>. QED BY <2>2, <3>1
  <2>. QED BY <2>3 DEF LineSide, q
<1>. QED BY <1>1, <1>2

\* So does a command written at time t, when all before it are overdue by then.
\* (send_alignment)
LEMMA CommandKeepsOrder ==
    ASSUME NEW cs \in Seq(Command), NEW rs \in Seq(Ack), NEW last \in Command, NEW g,
           NEW t \in Nat, NEW next \in Command, next.sentAt = t,
           LineSide(cs, rs, last, g),
           (cs = <<>> /\ rs = <<>>) \/ last.sentAt + AlignmentTimeout <= t
    PROVE  LineSide(Append(cs, next), rs, next, g)
<1>1. AlignmentTimeout \in Nat \ {0} /\ last.sentAt \in Nat
  BY PolicyAssumption DEF Command
<1>2. \A i \in 1..Len(cs) : cs[i].sentAt \in Nat
  <2>1. \A i \in 1..Len(cs) : cs[i] \in Command
    BY SequenceFacts
  <2>. QED BY <2>1 DEF Command
<1>3. \A i \in 1..Len(rs) : rs[i].command.sentAt \in Nat
  <2>1. \A i \in 1..Len(rs) : rs[i] \in Ack
    BY SequenceFacts
  <2>. QED BY <2>1 DEF Ack, Command
<1>4. /\ \A i \in 1..Len(cs) : cs[i].sentAt + AlignmentTimeout <= t
      /\ \A i \in 1..Len(rs) : rs[i].command.sentAt + AlignmentTimeout <= t
  <2>1. CASE cs = <<>> /\ rs = <<>>
    <3>1. Len(cs) = 0 /\ Len(rs) = 0
      BY <2>1, SequenceFacts
    <3>. QED BY <3>1
  <2>2. CASE last.sentAt + AlignmentTimeout <= t
    <3>1. ASSUME NEW i \in 1..Len(cs) PROVE cs[i].sentAt + AlignmentTimeout <= t
      <4>1. cs[i] = last \/ cs[i].sentAt + AlignmentTimeout <= last.sentAt
        BY DEF LineSide
      <4>2. cs[i].sentAt \in Nat
        BY <1>2
      <4>. QED BY <1>1, <2>2, <4>1, <4>2
    <3>2. ASSUME NEW i \in 1..Len(rs) PROVE rs[i].command.sentAt + AlignmentTimeout <= t
      <4>1. rs[i].command = last \/ rs[i].command.sentAt + AlignmentTimeout <= last.sentAt
        BY DEF LineSide
      <4>. DEFINE time == rs[i].command.sentAt
      <4>2. time \in Nat
        BY <1>3
      <4>3. time = last.sentAt \/ time + AlignmentTimeout <= last.sentAt
        BY <4>1
      <4>. HIDE DEF time
      <4>4. time + AlignmentTimeout <= t
        BY <1>1, <2>2, <4>2, <4>3
      <4>. QED BY <4>4 DEF time
    <3>. QED BY <3>1, <3>2
  <2>. QED BY <2>1, <2>2
<1>6. /\ \A i \in 1..Len(cs) : cs[i] # next
      /\ \A i \in 1..Len(rs) : rs[i].command # next
  <2>1. \A c : c = next => c.sentAt = t
    OBVIOUS
  <2>2. ASSUME NEW i \in 1..Len(cs) PROVE cs[i] # next
    BY <1>1, <1>2, <1>4, <2>1
  <2>3. ASSUME NEW i \in 1..Len(rs) PROVE rs[i].command # next
    <3>1. rs[i].command.sentAt # t
      <4>. DEFINE time == rs[i].command.sentAt
      <4>1. time \in Nat /\ time + AlignmentTimeout <= t
        BY <1>3, <1>4
      <4>. HIDE DEF time
      <4>2. time # t
        BY <1>1, <4>1
      <4>. QED BY <4>2 DEF time
    <3>. QED BY <2>1, <3>1
  <2>. QED BY <2>2, <2>3
<1>7. /\ Len(Append(cs, next)) = Len(cs) + 1
      /\ Append(cs, next)[Len(cs) + 1] = next
      /\ \A i \in 1..Len(cs) : Append(cs, next)[i] = cs[i]
      /\ Len(cs) \in Nat
  BY SequenceFacts
<1>8. ASSUME NEW i \in 1..(Len(cs) + 1)
      PROVE  /\ Append(cs, next)[i] # next =>
                   Append(cs, next)[i].sentAt + AlignmentTimeout <= next.sentAt
             /\ Append(cs, next)[i] = next => i = Len(cs) + 1
  <2>1. CASE i \in 1..Len(cs)
    BY <1>4, <1>6, <1>7, <2>1
  <2>2. CASE i = Len(cs) + 1
    BY <1>7, <2>2
  <2>. QED BY <1>7, <2>1, <2>2
<1>9. /\ \A i \in 1..Len(rs) : rs[i].result = "Accepted" => rs[i].command.generation \in g
      /\ \A i \in 1..Len(rs) : rs[i].command.sentAt + AlignmentTimeout <= next.sentAt
  BY <1>4 DEF LineSide
<1>. QED BY <1>6, <1>7, <1>8, <1>9 DEF LineSide

\* So does the controller's answer to the oldest command, final or not.
LEMMA AnswerKeepsOrder ==
    ASSUME NEW cs \in Seq(Command), NEW rs \in Seq(Ack), NEW last, NEW g,
           NEW result \in AlignmentResult, LineSide(cs, rs, last, g), cs # <<>>
    PROVE  LET answer == [command |-> Head(cs), result |-> result]
               h == IF result = "Accepted" THEN g \cup {Head(cs).generation} ELSE g
           IN  /\ result # "InProgress" => LineSide(Tail(cs), Append(rs, answer), last, h)
               /\ rs = <<>> /\ result = "InProgress" => LineSide(cs, <<answer>>, last, h)
<1>. DEFINE answer == [command |-> Head(cs), result |-> result]
            h == IF result = "Accepted" THEN g \cup {Head(cs).generation} ELSE g
<1>1. /\ Head(cs) = cs[1] /\ 1 \in 1..Len(cs)
      /\ Len(Tail(cs)) = Len(cs) - 1 /\ \A i \in 1..Len(Tail(cs)) : Tail(cs)[i] = cs[i + 1]
      /\ Tail(cs) \in Seq(Command)
      /\ Len(cs) \in Nat /\ Len(rs) \in Nat
  BY SequenceFacts
<1>2. answer.command = cs[1] /\ answer.result = result
  BY <1>1
<1>3. g \subseteq h /\ (result = "Accepted" => answer.command.generation \in h)
  BY <1>2, <1>1
<1>4. ASSUME result # "InProgress" PROVE LineSide(Tail(cs), Append(rs, answer), last, h)
  <2>. HIDE DEF answer, h
  <2>1. /\ Len(Append(rs, answer)) = Len(rs) + 1
        /\ Append(rs, answer)[Len(rs) + 1] = answer
        /\ \A i \in 1..Len(rs) : Append(rs, answer)[i] = rs[i]
    <3>1. \A e : /\ Len(Append(rs, e)) = Len(rs) + 1
                 /\ Append(rs, e)[Len(rs) + 1] = e
                 /\ \A i \in 1..Len(rs) : Append(rs, e)[i] = rs[i]
      BY SequenceFacts
    <3>. QED BY <3>1
  <2>2. \A i \in 1..Len(rs) : ~(rs[i].command = last /\ rs[i].result # "InProgress")
    BY DEF LineSide
  <2>3. answer.command = last => Tail(cs) = <<>>
    <3>1. answer.command = last => Len(cs) = 1
      BY <1>1, <1>2 DEF LineSide
    <3>2. Len(Tail(cs)) = 0 => Tail(cs) = <<>>
      BY <1>1, SequenceFacts
    <3>. QED BY <1>1, <3>1, <3>2
  <2>4. answer.command # last => answer.command.sentAt + AlignmentTimeout <= last.sentAt
    BY <1>1, <1>2 DEF LineSide
  <2>5. \A i \in 1..Len(Append(rs, answer)) :
          /\ Append(rs, answer)[i].result = "Accepted" =>
                Append(rs, answer)[i].command.generation \in h
          /\ Append(rs, answer)[i].command # last =>
                Append(rs, answer)[i].command.sentAt + AlignmentTimeout <= last.sentAt
          /\ Append(rs, answer)[i].command = last /\ Append(rs, answer)[i].result # "InProgress"
                => i = Len(Append(rs, answer)) /\ Tail(cs) = <<>>
    <3>. SUFFICES ASSUME NEW i \in 1..(Len(rs) + 1)
                  PROVE  /\ Append(rs, answer)[i].result = "Accepted" =>
                                Append(rs, answer)[i].command.generation \in h
                         /\ Append(rs, answer)[i].command # last =>
                                Append(rs, answer)[i].command.sentAt + AlignmentTimeout
                                  <= last.sentAt
                         /\ Append(rs, answer)[i].command = last
                               /\ Append(rs, answer)[i].result # "InProgress"
                               => i = Len(rs) + 1 /\ Tail(cs) = <<>>
      BY <2>1
    <3>1. CASE i \in 1..Len(rs)
      <4>1. Append(rs, answer)[i] = rs[i]
        BY <2>1, <3>1
      <4>2. /\ rs[i].result = "Accepted" => rs[i].command.generation \in h
            /\ rs[i].command # last => rs[i].command.sentAt + AlignmentTimeout <= last.sentAt
            /\ ~(rs[i].command = last /\ rs[i].result # "InProgress")
        BY <1>3, <2>2, <3>1 DEF LineSide
      <4>. QED BY <4>1, <4>2
    <3>2. CASE i = Len(rs) + 1
      <4>1. Append(rs, answer)[i] = answer
        BY <2>1, <3>2
      <4>2. answer.result = "Accepted" => answer.command.generation \in h
        BY <1>2, <1>3
      <4>. QED BY <2>3, <2>4, <3>2, <4>1, <4>2
    <3>. QED BY <1>1, <3>1, <3>2
  <2>6. /\ \A i \in 1..Len(Tail(cs)) : Tail(cs)[i] # last =>
              Tail(cs)[i].sentAt + AlignmentTimeout <= last.sentAt
        /\ \A i \in 1..Len(Tail(cs)) : Tail(cs)[i] = last => i = Len(Tail(cs))
    <3>. SUFFICES ASSUME NEW i \in 1..Len(Tail(cs))
                  PROVE  /\ Tail(cs)[i] # last =>
                               Tail(cs)[i].sentAt + AlignmentTimeout <= last.sentAt
                         /\ Tail(cs)[i] = last => i = Len(Tail(cs))
      OBVIOUS
    <3>1. i + 1 \in 1..Len(cs) /\ Tail(cs)[i] = cs[i + 1]
      BY <1>1
    <3>2. /\ cs[i + 1] # last => cs[i + 1].sentAt + AlignmentTimeout <= last.sentAt
          /\ cs[i + 1] = last => i + 1 = Len(cs)
      BY <3>1 DEF LineSide
    <3>3. i + 1 = Len(cs) => i = Len(Tail(cs))
      <4>. DEFINE n == Len(cs)
                  m == Len(Tail(cs))
      <4>1. m = n - 1 /\ n \in Nat /\ i \in 1..m
        BY <1>1
      <4>. HIDE DEF n, m
      <4>2. i + 1 = n => i = m
        BY <4>1
      <4>. QED BY <4>2 DEF n, m
    <3>. QED BY <3>1, <3>2, <3>3
  <2>. QED BY <2>5, <2>6 DEF LineSide
<1>5. ASSUME rs = <<>>, result = "InProgress" PROVE LineSide(cs, <<answer>>, last, h)
  <2>. HIDE DEF answer
  <2>1. Len(<<answer>>) = 1 /\ <<answer>>[1] = answer
    OBVIOUS
  <2>2. answer.command # last => answer.command.sentAt + AlignmentTimeout <= last.sentAt
    BY <1>1, <1>2 DEF LineSide
  <2>3. \A i \in 1..Len(<<answer>>) : <<answer>>[i] = answer
    BY <2>1
  <2>. QED BY <1>2, <1>5, <2>2, <2>3 DEF LineSide
<1>. QED BY <1>4, <1>5

\* An answer that comes in time answers the latest command, and a final one is
\* the last thing on the line.
LEMMA AnswerInTime ==
    ASSUME NEW cs \in Seq(Command), NEW rs \in Seq(Ack), NEW last \in Command, NEW g,
           NEW t \in Nat, LineSide(cs, rs, last, g), rs # <<>>, last.sentAt <= t,
           t - Head(rs).command.sentAt <= AnswerDelay, AnswerDelay < AlignmentTimeout
    PROVE  /\ Head(rs).command = last
           /\ Head(rs).result # "InProgress" => cs = <<>> /\ Tail(rs) = <<>>
           /\ Head(rs).result = "Accepted" => last.generation \in g
<1>1. Head(rs) = rs[1] /\ 1 \in 1..Len(rs) /\ rs[1] \in Ack
  BY SequenceFacts
<1>2. /\ rs[1].command.sentAt \in Nat /\ last.sentAt \in Nat
      /\ AnswerDelay \in Nat /\ AlignmentTimeout \in Nat
  BY <1>1, PolicyAssumption, ProtocolAssumption DEF Ack, Command
<1>3. rs[1].command = last
  <2>. SUFFICES ASSUME rs[1].command # last PROVE FALSE
    OBVIOUS
  <2>. DEFINE time == rs[1].command.sentAt
  <2>1. /\ time \in Nat /\ time + AlignmentTimeout <= last.sentAt
        /\ t - time <= AnswerDelay
    BY <1>1, <1>2 DEF LineSide
  <2>. HIDE DEF time
  <2>. QED BY <1>2, <2>1
<1>4. ASSUME rs[1].result # "InProgress" PROVE cs = <<>> /\ Tail(rs) = <<>>
  <2>1. 1 = Len(rs) /\ cs = <<>>
    BY <1>1, <1>3, <1>4 DEF LineSide
  <2>2. Tail(rs) \in Seq(Ack) /\ Len(Tail(rs)) = Len(rs) - 1
    BY SequenceFacts
  <2>3. Len(Tail(rs)) = 0
    BY <2>1, <2>2
  <2>4. Tail(rs) = <<>>
    BY <2>2, <2>3, SequenceFacts
  <2>. QED BY <2>1, <2>4
<1>5. rs[1].result = "Accepted" => last.generation \in g
  BY <1>1, <1>3 DEF LineSide
<1>. QED BY <1>1, <1>3, <1>4, <1>5

(***************************************************************************)
(* Each step of the exchange keeps both sides.                             *)
(***************************************************************************)
\* The values of both sides, which the lemmas below speak of.
ExchangeValues ==
    /\ session \in Session /\ now \in Nat /\ history \in History
    /\ commands \in Seq(Command) /\ acks \in Seq(Ack) /\ latest \in Command
    /\ Clear \in BOOLEAN
    /\ SessionSide(session, now, latest, Clear, granted)
    /\ LineSide(commands, acks, latest, granted)
    /\ latest.sentAt <= now

\* The loop's calls that leave the line alone keep the session's side, and the
\* latest command in the past.  (start, heartbeat, tick, measurement_sent, fail)
LEMMA LoopStepKeepsSide ==
    ASSUME ExchangeValues, LoopStep
    PROVE  /\ SessionSide(session', now', latest, Clear, granted)
           /\ latest.sentAt <= now'
<1>0. /\ session \in Session /\ now \in Nat /\ Clear \in BOOLEAN
      /\ SessionSide(session, now, latest, Clear, granted)
      /\ latest.sentAt \in Nat /\ latest.sentAt <= now
      /\ AlignmentTimeout \in Nat /\ session.generation \in Nat
  BY PolicyAssumption DEF ExchangeValues, Command, Session
<1>1. CASE Advance
  <2>1. now' = now + 1 /\ session' = session
    BY <1>1 DEF Advance
  <2>2. latest.sentAt + AlignmentTimeout <= now => latest.sentAt + AlignmentTimeout <= now'
    BY <1>0, <2>1
  <2>3. latest.sentAt <= now'
    BY <1>0, <2>1
  <2>. QED BY <1>0, <2>1, <2>2, <2>3 DEF SessionSide
<1>2. CASE session.generation < MaxGeneration /\ Start(session.generation + 1)
  <2>1. Clear
    BY <1>0, <1>2 DEF Start, StartAllowed, SessionSide, Session, FlightSessionState
  <2>2. SessionSide(StartSession(session, session.generation + 1), now, latest, Clear, granted)
    BY <1>0, <2>1 DEF StartSession, SessionSide, Session
  <2>. QED BY <1>0, <1>2, <2>2 DEF Start
<1>3. ASSUME NEW armed \in BOOLEAN, HearHeartbeat(armed)
      PROVE  SessionSide(session', now', latest, Clear, granted) /\ now' = now
  BY <1>0, <1>3, HeartbeatKeepsSide DEF HearHeartbeat
<1>4. CASE TickNow
  BY <1>0, <1>4, TickKeepsSide DEF TickNow
<1>5. CASE MeasurementWritten(now)
  BY <1>0, <1>5 DEF MeasurementWritten, MeasurementSent, SessionSide, Session
<1>6. CASE FailSession
  BY <1>0, <1>6 DEF FailSession, Fail, SessionSide, Session
<1>. QED BY <1>0, <1>1, <1>2, <1>3, <1>4, <1>5, <1>6 DEF LoopStep

\* A command is written when what precedes it on the line is overdue.
\* (send_alignment, alignment_due)
LEMMA SendKeepsSides ==
    ASSUME ExchangeValues, SendAlignment
    PROVE  /\ SessionSide(session', now', latest', FALSE, granted')
           /\ LineSide(commands', acks', latest', granted')
           /\ latest'.sentAt <= now'
           /\ ~Clear'
<1>. DEFINE next == [generation |-> session.generation, sentAt |-> now]
<1>1. /\ session.state = "Priming" /\ session' = AlignmentSent(session, now) /\ now' = now
      /\ latest' = next /\ commands' = Append(commands, next)
      /\ acks' = acks /\ granted' = granted
  BY DEF SendAlignment, AlignmentWritten, AlignmentDue
<1>2. next \in Command /\ next.sentAt = now /\ session.attempts \in Nat /\ now \in Nat
  BY DEF ExchangeValues, Session, Command
<1>3. SessionSide(AlignmentSent(session, now), now, next, FALSE, granted)
  BY <1>2 DEF ExchangeValues, AlignmentSent, SessionSide, Session
<1>4. Clear \/ latest.sentAt + AlignmentTimeout <= now
  BY <1>1 DEF ExchangeValues, SessionSide
<1>. HIDE DEF next
<1>5. LineSide(Append(commands, next), acks, next, granted)
  BY <1>2, <1>4, CommandKeepsOrder DEF ExchangeValues, Clear
<1>6. Append(commands, next) # <<>>
  BY <1>2, SequenceFacts DEF ExchangeValues
<1>7. ~Clear'
  BY <1>1, <1>6 DEF Clear
<1>8. latest'.sentAt <= now'
  BY <1>1, <1>2
<1>. QED BY <1>1, <1>3, <1>5, <1>7, <1>8

\* An answer that is heard in time resolves the request it was given to, and a
\* final one leaves the line clear.  (acknowledge)
LEMMA ReceiveKeepsSides ==
    ASSUME ExchangeValues, ReceiveAck, AnswerDelay < AlignmentTimeout
    PROVE  /\ SessionSide(session', now', latest', Clear', granted')
           /\ LineSide(commands', acks', latest', granted')
           /\ latest'.sentAt <= now'
<1>. DEFINE r == Tick(session, now)
            result == Head(acks).result
<1>1. /\ acks # <<>> /\ acks' = Tail(acks) /\ commands' = commands
      /\ granted' = granted /\ latest' = latest /\ now' = now
      /\ session' = Acknowledge(session, result, now)
  BY DEF ReceiveAck, HearAck
<1>2. ~Clear /\ Clear = FALSE
  BY <1>1 DEF Clear
<1>3. r \in Session /\ SessionSide(r, now, latest, FALSE, granted)
  BY <1>2, TickFrame, TickKeepsSide DEF ExchangeValues
<1>4. LineSide(commands', acks', latest', granted')
  BY <1>1, RemovalsKeepOrder DEF ExchangeValues
<1>5. result \in AlignmentResult
  <2>1. Head(acks) \in Ack
    BY <1>1, SequenceFacts DEF ExchangeValues
  <2>. QED BY <2>1 DEF Ack
<1>6. /\ result # "InProgress" => Clear'
      /\ result = "Accepted" => latest.generation \in granted
  <2>1. /\ result # "InProgress" => commands = <<>> /\ Tail(acks) = <<>>
        /\ result = "Accepted" => latest.generation \in granted
    BY <1>1, AnswerInTime DEF ExchangeValues, ReceiveAck
  <2>. QED BY <1>1, <2>1 DEF Clear
<1>7. SessionSide(session', now, latest, Clear', granted)
  <2>. DEFINE clear == Clear'
  <2>1. clear \in BOOLEAN
    BY DEF Clear
  <2>2. SessionSide(r, now, latest, clear, granted)
    BY <1>3, <2>1 DEF SessionSide
  <2>3. CASE ~AckRelevant(r, now)
    BY <1>1, <2>2, <2>3 DEF Acknowledge
  <2>4. CASE AckRelevant(r, now)
    <3>1. r.state = "AwaitingAlignment" /\ now \in Nat
      BY <2>4 DEF AckRelevant, ExchangeValues
    <3>2. r.generation = latest.generation
      BY <1>3, <3>1 DEF SessionSide
    <3>. HIDE DEF r, result, clear
    <3>3. SessionSide(ApplyResult(r, result, now), now, latest, clear, granted)
      BY <1>3, <1>5, <1>6, <2>1, <3>1, <3>2, ResultKeepsSide DEF clear
    <3>. QED BY <1>1, <2>4, <3>3 DEF Acknowledge, r, clear
  <2>. QED BY <2>3, <2>4
<1>. QED BY <1>1, <1>4, <1>7 DEF ExchangeValues

\* What the line loses and the controller answers keep both sides.
LEMMA LineStepKeepsSides ==
    ASSUME ExchangeValues,
           \/ LoseCommand \/ LoseAck \/ AnswerProgress
           \/ \E result \in AlignmentResult : Answer(result)
    PROVE  /\ SessionSide(session', now', latest', Clear', granted')
           /\ LineSide(commands', acks', latest', granted')
           /\ latest'.sentAt <= now'
<1>1. /\ session' = session /\ now' = now /\ latest' = latest /\ granted \subseteq granted'
  BY DEF LoseCommand, LoseAck, AnswerProgress, Answer
<1>2. ~Clear
  BY DEF LoseCommand, LoseAck, AnswerProgress, Answer, Clear
<1>3. SessionSide(session', now', latest', Clear', granted')
  BY <1>1, <1>2 DEF ExchangeValues, SessionSide
<1>4. LineSide(commands', acks', latest', granted')
  <2>1. CASE LoseCommand
    BY <2>1, RemovalsKeepOrder DEF LoseCommand, ExchangeValues
  <2>2. CASE LoseAck
    BY <2>2, RemovalsKeepOrder DEF LoseAck, ExchangeValues
  <2>3. ASSUME NEW result \in AlignmentResult, Answer(result)
        PROVE  LineSide(commands', acks', latest', granted')
    BY <2>3, AnswerKeepsOrder DEF Answer, ExchangeValues
  <2>4. CASE AnswerProgress
    <3>1. granted' = IF "InProgress" = "Accepted" THEN granted \cup {Head(commands).generation}
                     ELSE granted
      BY <2>4 DEF AnswerProgress
    <3>2. "InProgress" \in AlignmentResult
      BY DEF AlignmentResult
    <3>. QED BY <2>4, <3>1, <3>2, AnswerKeepsOrder DEF AnswerProgress, ExchangeValues
  <2>. QED BY <2>1, <2>2, <2>3, <2>4
<1>. QED BY <1>1, <1>3, <1>4 DEF ExchangeValues

-----------------------------------------------------------------------------
\* ExchangeInv holds initially, and every step preserves it when answers come
\* within the alignment timeout.
LEMMA ExchangeInvInit == ExchangeInit => ExchangeInv
<1>. SUFFICES ASSUME ExchangeInit PROVE ExchangeInv
  OBVIOUS
<1>1. TypeOK
  BY SessionInvInit DEF SessionInv, ExchangeInit
<1>2. LineTypeOK
  <2>1. NoCommand \in Command
    BY DEF NoCommand, Command, NoGeneration
  <2>. QED BY <2>1 DEF ExchangeInit, LineTypeOK
<1>3. /\ session.state = "WaitingForController" /\ session.attempts = 0 /\ Clear
      /\ latest.sentAt <= now
  BY DEF ExchangeInit, Init, NewSession, Clear, NoCommand
<1>4. SessionSide(session, now, latest, Clear, granted)
  BY <1>3 DEF SessionSide
<1>5. LineSide(commands, acks, latest, granted)
  <2>1. Len(commands) = 0 /\ Len(acks) = 0
    BY DEF ExchangeInit
  <2>. QED BY <2>1 DEF LineSide
<1>. QED BY <1>1, <1>2, <1>3, <1>4, <1>5, ExchangeInvIsTwoSided

LEMMA ExchangeInvStep ==
    ASSUME AnswerDelay < AlignmentTimeout, ExchangeInv, [ExchangeNext]_exchangeVars
    PROVE  ExchangeInv'
<1>1. ExchangeValues /\ TypeOK /\ LineTypeOK
  <2>1. Clear \in BOOLEAN
    BY DEF Clear
  <2>. QED BY <2>1, ExchangeInvIsTwoSided DEF ExchangeValues, TypeOK, LineTypeOK
<1>2. TypeOK' /\ LineTypeOK'
  BY <1>1, ExchangeStepIsCall, TypeStep, LineTypeStep
<1>3. /\ SessionSide(session', now', latest', Clear', granted')
      /\ LineSide(commands', acks', latest', granted')
      /\ latest'.sentAt <= now'
  <2>1. CASE LoopStep
    <3>1. UNCHANGED <<commands, acks, granted, latest>>
      BY <2>1 DEF LoopStep, line
    <3>2. Clear' = Clear
      BY <3>1 DEF Clear
    <3>. QED BY <1>1, <2>1, <3>1, <3>2, LoopStepKeepsSide DEF ExchangeValues
  <2>2. CASE SendAlignment
    BY <1>1, <2>2, SendKeepsSides DEF SessionSide
  <2>3. CASE ReceiveAck
    BY <1>1, <2>3, ReceiveKeepsSides
  <2>4. CASE \/ LoseCommand \/ LoseAck \/ AnswerProgress
             \/ \E result \in AlignmentResult : Answer(result)
    BY <1>1, <2>4, LineStepKeepsSides
  <2>5. CASE UNCHANGED exchangeVars
    <3>1. UNCHANGED <<now, session, commands, acks, granted, latest>> /\ Clear' = Clear
      BY <2>5 DEF exchangeVars, Clear
    <3>. QED BY <1>1, <3>1 DEF ExchangeValues
  <2>. QED BY <2>1, <2>2, <2>3, <2>4, <2>5 DEF ExchangeNext
<1>4. (TypeOK /\ LineTypeOK
          /\ SessionSide(session, now, latest, Clear, granted)
          /\ LineSide(commands, acks, latest, granted)
          /\ latest.sentAt <= now)' => ExchangeInv'
  BY ExchangeInvIsTwoSided, PTL
<1>. QED BY <1>2, <1>3, <1>4

\* The session and the controller agree, and the line between them is in order,
\* when answers come within the alignment timeout or not at all.
\* (start, tick, alignment_sent, acknowledge)
THEOREM ExchangeAgrees ==
    ASSUME AnswerDelay < AlignmentTimeout
    PROVE  ExchangeSpec => []ExchangeInv
<1>1. ExchangeInv /\ [ExchangeNext]_exchangeVars => ExchangeInv'
  BY ExchangeInvStep
<1>. QED BY <1>1, ExchangeInvInit, PTL DEF ExchangeSpec

\* The session believes itself aligned only when the controller has granted it
\* this generation's frame.  (acknowledge, start)
THEOREM AlignedIsGenuine ==
    ASSUME AnswerDelay < AlignmentTimeout
    PROVE  ExchangeSpec => []AlignmentIsGenuine
<1>1. ExchangeInv => AlignmentIsGenuine
  BY DEF ExchangeInv
<1>. QED BY <1>1, ExchangeAgrees, PTL

\* What an answer resolves is the request it was given to: no answer to an
\* attempt that was given up on resolves a later one.  (acknowledge, tick)
THEOREM AnswersMeetTheirRequests ==
    ASSUME AnswerDelay < AlignmentTimeout
    PROVE  ExchangeSpec => AnswerMeetsItsRequest
<1>1. ExchangeInv /\ [ExchangeNext]_exchangeVars =>
        [acks # <<>> /\ acks' = Tail(acks) /\ session'.state # session.state
         /\ Tick(session, now).state = "AwaitingAlignment"
           => Head(acks).command = latest]_exchangeVars
  <2>. SUFFICES ASSUME ExchangeInv, ExchangeNext, acks # <<>>, acks' = Tail(acks),
                       session'.state # session.state
                PROVE  Head(acks).command = latest
    BY DEF exchangeVars
  <2>1. ExchangeValues
    <3>1. Clear \in BOOLEAN
      BY DEF Clear
    <3>. QED BY <3>1, ExchangeInvIsTwoSided DEF ExchangeValues, TypeOK, LineTypeOK
  <2>2. acks' # acks
    <3>. DEFINE n == Len(acks)
                m == Len(Tail(acks))
    <3>1. m = n - 1 /\ n \in Nat
      BY <2>1, SequenceFacts DEF ExchangeValues
    <3>. HIDE DEF n, m
    <3>2. m # n
      BY <3>1
    <3>. QED BY <3>2 DEF n, m
  <2>3. ReceiveAck
    BY <2>2 DEF ExchangeNext, LoopStep, line, SendAlignment, LoseCommand, LoseAck, Answer,
                AnswerProgress
  <2>. QED BY <2>1, <2>3, AnswerInTime DEF ReceiveAck, ExchangeValues
<1>. QED BY <1>1, ExchangeAgrees, PTL DEF ExchangeSpec, AnswerMeetsItsRequest

\* No generation starts with a command or an answer of an earlier one under way.
\* (start)
THEOREM RestartsFindTheLineClear ==
    ASSUME AnswerDelay < AlignmentTimeout
    PROVE  ExchangeSpec => NothingOutstandingAtRestart
<1>1. ExchangeInv /\ [ExchangeNext]_exchangeVars =>
        [session'.generation # session.generation => Clear]_exchangeVars
  <2>. SUFFICES ASSUME ExchangeInv, ExchangeNext,
                       session'.generation # session.generation
                PROVE  Clear
    BY DEF exchangeVars
  <2>1. session \in Session /\ now \in Nat /\ LineTypeOK
    BY DEF ExchangeInv, TypeOK
  <2>2. CASE \E generation \in Nat : Start(generation)
    <3>1. session.attempts = 0 \/ session.state = "Aligned"
      BY <2>2 DEF Start, StartAllowed
    <3>. QED BY <3>1 DEF ExchangeInv, SpacedOut
  <2>3. ASSUME NEW armed \in BOOLEAN, HearHeartbeat(armed) PROVE FALSE
    BY <2>1, <2>3, HeartbeatType DEF HearHeartbeat
  <2>4. CASE ReceiveAck
    <3>1. Head(acks) \in Ack
      BY <2>1, <2>4, SequenceFacts DEF ReceiveAck, LineTypeOK
    <3>2. Head(acks).result \in AlignmentResult
      BY <3>1 DEF Ack
    <3>. QED BY <2>1, <2>4, <3>2, AcknowledgeType DEF ReceiveAck, HearAck
  <2>5. CASE Advance \/ TickNow \/ MeasurementWritten(now) \/ FailSession
    <3>1. Tick(session, now).generation = session.generation
      BY <2>1, TickFrame
    <3>2. /\ MeasurementSent(session, now).generation = session.generation
          /\ Fail(session).generation = session.generation
      BY <2>1 DEF MeasurementSent, Fail, Session
    <3>. QED BY <2>5, <3>1, <3>2 DEF Advance, TickNow, MeasurementWritten, FailSession
  <2>6. CASE SendAlignment
    BY <2>1, <2>6 DEF SendAlignment, AlignmentWritten, AlignmentSent, Session
  <2>7. CASE LoseCommand \/ LoseAck \/ AnswerProgress
             \/ \E result \in AlignmentResult : Answer(result)
    BY <2>7 DEF LoseCommand, LoseAck, Answer, AnswerProgress
  <2>8. session.generation + 1 \in Nat
    BY <2>1 DEF Session
  <2>. QED BY <2>2, <2>3, <2>4, <2>5, <2>6, <2>7, <2>8 DEF ExchangeNext, LoopStep
<1>. QED BY <1>1, ExchangeAgrees, PTL DEF ExchangeSpec, NothingOutstandingAtRestart

=============================================================================
