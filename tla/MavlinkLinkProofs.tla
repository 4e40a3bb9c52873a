-------------------------- MODULE MavlinkLinkProofs --------------------------
(***************************************************************************)
(* The safety of MavlinkLink, for every packet size, timeout and number of *)
(* generations and without a bound on time; and that it implements         *)
(* LinkContract.                                                           *)
(***************************************************************************)
EXTENDS MavlinkLinkContract, SessionPolicyProofs, TLAPS

\* BufferInv and HeartbeatNotStarved of a transmit buffer l, a session s and a time t.
BufferOf(l, s, t) ==
    /\ Busy(l) => l.open
    /\ l.offset # 0 => Busy(l)
    /\ l.pending.kind = "Alignment" => l.started
    /\ l.pending.kind = "Measurement" =>
          /\ l.started
          /\ l.pending.generation = s.generation
          /\ l.pending.reset = s.resetCounter
          /\ l.pending.timestamp = l.lastEstimate
          /\ l.pending.timestamp <= t
          /\ l.deadline = l.pending.timestamp + MaxEstimateAge
          /\ l.deadline < l.nextHeartbeat + MaxEstimateAge

\* OrderInv of a transmit buffer l, a session s and a last measurement m.
OrderOf(l, s, m) ==
    /\ m.generation <= s.generation
    /\ s.generation # NoGeneration /\ m.generation = s.generation =>
          /\ m.timestamp <= l.lastEstimate
          /\ l.pending.kind = "Measurement" => m.timestamp < l.pending.timestamp

\* What the wire holds of the packet in l.
WireOf(l, w) ==
    /\ w.intact /\ w.fresh
    /\ l.open => /\ w.partial = IF l.offset = 0 THEN NoPacket ELSE l.pending
                 /\ w.units = l.offset

\* HeardInv of a session s and a time t.
Heard(s, t) == s.heartbeatTime # NoTime => s.heartbeatTime <= t

\* The invariant, in parts a step can be followed through.
LEMMA InvByParts ==
    LinkInv <=>
        /\ TypeOK /\ Heard(session, now)
        /\ phase # "escaped" /\ (phase = "reading" => link.open)
        /\ BufferOf(link, session, now)
        /\ OrderOf(link, session, wire.last)
        /\ WireOf(link, wire)
  BY DEF LinkInv, HeardInv, Heard, BufferInv, OrderInv, PacketsStayWhole, MeasurementsArriveFresh, NothingEscapes,
         HeartbeatNotStarved, BufferOf, OrderOf, WireOf

\* The same of the state after a step.
LEMMA InvByPartsNext ==
    LinkInv' <=>
        /\ TypeOK' /\ Heard(session', now')
        /\ phase' # "escaped" /\ (phase' = "reading" => link'.open)
        /\ BufferOf(link', session', now')
        /\ OrderOf(link', session', wire'.last)
        /\ WireOf(link', wire')
  BY DEF LinkInv, HeardInv, Heard, BufferInv, OrderInv, PacketsStayWhole, MeasurementsArriveFresh, NothingEscapes,
         HeartbeatNotStarved, BufferOf, OrderOf, WireOf, Busy

\* An empty buffer is one.
LEMMA EmptyTypes ==
    /\ NoPacket \in Packet /\ NoPacket.kind = "None"
    /\ Alignment \in Packet /\ Alignment.kind = "Alignment"
    /\ OwnHeartbeat \in Packet /\ OwnHeartbeat.kind = "Heartbeat"
    /\ 0 \in 0..(PacketSize - 1) /\ NoTime \in OptionalTime
<1>1. 0 \in 0..(ResetModulus - 1) /\ 0 \in 0..(PacketSize - 1)
  BY PolicyAssumption, LinkAssumption
<1>2. NoPacket \in Packet /\ NoPacket.kind = "None"
  BY <1>1 DEF NoPacket, Packet, PendingKind, NoGeneration
<1>. QED BY <1>1, <1>2 DEF Alignment, OwnHeartbeat, Packet, PendingKind, OptionalTime

\* clear_pending empties the buffer and no more.
LEMMA Cleared ==
    ASSUME NEW l \in Link
    PROVE  LET r == ClearPending(l)
           IN  /\ r \in Link /\ ~Busy(r) /\ r.pending = NoPacket /\ r.offset = 0
               /\ r.open = l.open /\ r.started = l.started /\ r.deadline = l.deadline
               /\ r.nextHeartbeat = l.nextHeartbeat /\ r.lastEstimate = l.lastEstimate
  BY EmptyTypes DEF ClearPending, Link, Busy

\* A packet that is put into the buffer leaves the rest alone.
LEMMA Queued ==
    ASSUME NEW l \in Link, NEW packet \in Packet, NEW deadline \in Nat
    PROVE  LET r == Queue(l, packet, deadline)
           IN  /\ r \in Link /\ r.pending = packet /\ r.deadline = deadline
               /\ r.open = l.open /\ r.started = l.started /\ r.offset = l.offset
               /\ r.nextHeartbeat = l.nextHeartbeat /\ r.lastEstimate = l.lastEstimate
  BY DEF Queue, Link

-----------------------------------------------------------------------------
(* What poll() will send: Outgoing.                                         *)

\* A packet withdrawn was not begun.
LEMMA DroppedBuffer ==
    ASSUME LinkInv, ~MustClose
    PROVE  /\ Dropped \in Link /\ Dropped.open = link.open /\ Dropped.offset = link.offset
           /\ Dropped.lastEstimate = link.lastEstimate /\ Dropped.started = link.started
           /\ BufferOf(Dropped, session, now) /\ OrderOf(Dropped, session, wire.last)
           /\ Busy(Dropped) => Dropped = link /\ Eligible /\ now <= link.deadline
           /\ link.offset # 0 => Dropped = link
<1>1. link \in Link /\ BufferOf(link, session, now) /\ OrderOf(link, session, wire.last)
  BY InvByParts DEF TypeOK
<1>2. CASE Withdrawn
  <2>1. Dropped = ClearPending(link) /\ link.offset = 0
    BY <1>2 DEF Dropped, MustClose
  <2>. QED BY <1>1, <2>1, Cleared, EmptyTypes DEF BufferOf, OrderOf
<1>3. CASE ~Withdrawn
  <2>1. Dropped = link
    BY <1>3 DEF Dropped
  <2>2. link.deadline \in Nat /\ now \in Nat
    BY InvByParts DEF TypeOK, Link
  <2>. QED BY <1>1, <1>3, <2>1, <2>2 DEF Withdrawn
<1>. QED BY <1>2, <1>3

\* What is refilled is an alignment command that is due or a heartbeat; a measurement
\* that goes out is the buffered one, permitted and in time.
LEMMA OutgoingBuffer ==
    ASSUME LinkInv, phase = "reading", ~MustClose
    PROVE  /\ Outgoing \in Link /\ Outgoing.open /\ Outgoing.offset = link.offset
           /\ Outgoing.lastEstimate = link.lastEstimate /\ Outgoing.started = link.started
           /\ BufferOf(Outgoing, session, now) /\ OrderOf(Outgoing, session, wire.last)
           /\ link.offset # 0 => Outgoing = link
           /\ Outgoing.pending.kind = "Measurement" =>
                 CanPublish(session, now) /\ now <= Outgoing.deadline
           /\ Outgoing.pending.kind = "Measurement" => Outgoing = link
           /\ Outgoing.pending.kind = "Alignment" => AlignmentDue(session, now)
<1>. DEFINE d == Dropped
<1>1. /\ d \in Link /\ d.open /\ d.offset = link.offset /\ d.lastEstimate = link.lastEstimate
      /\ d.started = link.started
      /\ BufferOf(d, session, now) /\ OrderOf(d, session, wire.last)
      /\ Busy(d) => d = link /\ Eligible /\ now <= link.deadline
      /\ link.offset # 0 => d = link
  BY DroppedBuffer, InvByParts
<1>2. now \in Nat /\ now + AlignmentTimeout \in Nat /\ now + HeartbeatPeriod \in Nat
  BY InvByParts, PolicyAssumption, LinkAssumption DEF TypeOK
<1>3. link.offset # 0 => Busy(link)
  BY InvByParts DEF BufferOf
<1>. HIDE DEF d
<1>4. Outgoing = Refill(d)
  BY DEF Outgoing, d
<1>5. CASE Busy(d)
  BY <1>1, <1>4, <1>5 DEF Refill, Eligible
<1>6. CASE ~Busy(d) /\ d.started /\ AlignmentDue(session, now)
  <2>. DEFINE q == Queue(d, Alignment, now + AlignmentTimeout)
  <2>0. /\ q \in Link /\ q.pending = Alignment /\ q.open = d.open
        /\ q.offset = d.offset /\ q.lastEstimate = d.lastEstimate /\ q.started = d.started
    BY <1>1, <1>2, Queued, EmptyTypes
  <2>1. Outgoing = q
    BY <1>4, <1>6 DEF Refill
  <2>2. link.offset = 0
    BY <1>1, <1>3, <1>6
  <2>3. /\ Outgoing \in Link /\ Outgoing.pending = Alignment /\ Outgoing.open = d.open
        /\ Outgoing.offset = d.offset /\ Outgoing.lastEstimate = d.lastEstimate
        /\ Outgoing.started = d.started
    BY <2>0, <2>1
  <2>4. Outgoing.pending.kind = "Alignment"
    BY <2>3, EmptyTypes
  <2>. QED BY <1>1, <1>6, <2>2, <2>3, <2>4 DEF BufferOf, OrderOf, Busy
<1>7. CASE ~Busy(d) /\ ~(d.started /\ AlignmentDue(session, now)) /\ now >= d.nextHeartbeat
  <2>. DEFINE q == Queue(d, OwnHeartbeat, now + HeartbeatPeriod)
  <2>1. Outgoing = [q EXCEPT !.nextHeartbeat = now + HeartbeatPeriod]
    BY <1>4, <1>7 DEF Refill
  <2>0. /\ q \in Link /\ q.pending = OwnHeartbeat /\ q.open = d.open /\ q.offset = d.offset
        /\ q.lastEstimate = d.lastEstimate /\ q.started = d.started
    BY <1>1, <1>2, Queued, EmptyTypes
  <2>2. q.pending.kind = "Heartbeat" /\ q.open
    BY <1>1, <2>0, EmptyTypes
  <2>3. link.offset = 0
    BY <1>1, <1>3, <1>7
  <2>. HIDE DEF q
  <2>4. /\ Outgoing \in Link /\ Outgoing.pending = q.pending /\ Outgoing.open = q.open
        /\ Outgoing.offset = q.offset /\ Outgoing.lastEstimate = q.lastEstimate
        /\ Outgoing.started = q.started
    BY <1>2, <2>0, <2>1 DEF Link
  <2>. QED BY <1>1, <2>0, <2>2, <2>3, <2>4 DEF BufferOf, OrderOf, Busy
<1>8. CASE ~Busy(d) /\ ~(d.started /\ AlignmentDue(session, now)) /\ ~(now >= d.nextHeartbeat)
  <2>1. Outgoing = d
    BY <1>4, <1>8 DEF Refill
  <2>. QED BY <1>1, <1>3, <1>8, <2>1 DEF BufferOf, OrderOf, Busy
<1>. QED BY <1>5, <1>6, <1>7, <1>8

-----------------------------------------------------------------------------
(* The steps.                                                               *)

\* A step of the session that keeps its generation leaves the buffer as good as it was.
LEMMA SessionStep ==
    ASSUME LinkInv, session' \in Session, session'.generation = session.generation,
           session'.resetCounter = session.resetCounter, Heard(session', now),
           UNCHANGED <<now, link, wire>>,
           phase' \in {"idle", "reading"}, phase' = "reading" => link.open
    PROVE  LinkInv'
<1>1. TypeOK'
  BY InvByParts DEF TypeOK, Phase
<1>. QED BY <1>1, InvByParts, InvByPartsNext DEF BufferOf, OrderOf, WireOf

\* Once the link is closed nothing of it reaches the wire.
LEMMA ClosingStep ==
    ASSUME LinkInv, NEW l \in Link, l.lastEstimate = link.lastEstimate,
           session' \in Session, session'.generation = session.generation,
           session'.resetCounter = session.resetCounter,
           session'.heartbeatTime = session.heartbeatTime,
           \/ link' = CloseLink(l)
           \/ link' = [CloseLink(l) EXCEPT !.started = FALSE],
           UNCHANGED <<now, wire>>, phase' = "idle"
    PROVE  LinkInv'
<1>. DEFINE c == ClearPending(l)
<1>1. /\ c \in Link /\ c.pending = NoPacket /\ c.offset = 0 /\ c.lastEstimate = l.lastEstimate
  BY Cleared
<1>. HIDE DEF c
<1>2. /\ link' \in Link /\ link'.pending = NoPacket /\ link'.offset = 0
      /\ link'.lastEstimate = link.lastEstimate /\ link'.open = FALSE
  BY <1>1 DEF CloseLink, Link, c
<1>3. TypeOK'
  BY <1>2, InvByParts DEF TypeOK, Phase
<1>. QED BY <1>2, <1>3, EmptyTypes, InvByParts, InvByPartsNext
     DEF BufferOf, OrderOf, WireOf, Busy, Heard

\* A step that leaves the open link a good buffer with as much of it on the wire.
LEMMA BufferStep ==
    ASSUME LinkInv, NEW l \in Link, BufferOf(l, session, now), OrderOf(l, session, wire.last),
           l.open = link.open, l.offset = link.offset, l.offset # 0 => l.pending = link.pending,
           link' = l, UNCHANGED <<now, session, wire>>, phase' = "idle"
    PROVE  LinkInv'
<1>1. TypeOK'
  BY InvByParts DEF TypeOK, Phase
<1>. QED BY <1>1, InvByParts, InvByPartsNext DEF WireOf, Heard

\* Time only makes a buffered measurement older.
LEMMA AdvanceStep == LinkInv /\ Advance => LinkInv'
<1>. SUFFICES ASSUME LinkInv, Advance PROVE LinkInv'
  OBVIOUS
<1>1. /\ now \in Nat /\ now' = now + 1 /\ UNCHANGED <<session, link, phase, wire>>
  BY InvByParts DEF Advance, TypeOK
<1>2. TypeOK'
  BY <1>1, InvByParts DEF TypeOK
<1>3. BufferOf(link', session', now')
  <2>1. link.pending.timestamp \in Nat
    BY InvByParts DEF TypeOK, Link, Packet
  <2>. QED BY <1>1, <2>1, InvByParts DEF BufferOf
<1>4. Heard(session', now')
  BY <1>1, InvByParts DEF Heard, TypeOK, Session, OptionalTime
<1>. QED BY <1>1, <1>2, <1>3, <1>4, InvByParts, InvByPartsNext DEF OrderOf, WireOf

\* A session starts with an empty buffer, and in a generation later than that of any
\* measurement sent.
LEMMA StartStep ==
    ASSUME LinkInv, NEW generation \in 1..MaxGeneration, StartOnLink(generation)
    PROVE  LinkInv'
<1>1. /\ phase = "idle" /\ link.offset = 0 /\ StartAllowed(session, generation)
      /\ session' = StartSession(session, generation)
      /\ link' = [ClearPending(link) EXCEPT !.lastEstimate = NoTime, !.started = TRUE]
      /\ UNCHANGED <<now, phase, wire>>
  BY DEF StartOnLink
<1>2. session \in Session /\ link \in Link /\ wire \in Wire /\ generation \in Nat
  BY InvByParts, LinkAssumption DEF TypeOK
<1>3. /\ session' \in Session /\ session'.generation = generation
      /\ session'.heartbeatTime = session.heartbeatTime
  BY <1>1, <1>2, MutatorTypes
<1>. DEFINE c == ClearPending(link)
<1>4. /\ c \in Link /\ c.pending = NoPacket /\ c.offset = 0 /\ c.open = link.open
  BY <1>2, Cleared
<1>. HIDE DEF c
<1>5. /\ link' \in Link /\ link'.pending = NoPacket /\ link'.offset = 0
      /\ link'.open = link.open
  BY <1>1, <1>4, EmptyTypes DEF Link, c
<1>6. wire.last.generation < generation
  <2>1. wire.last.generation <= session.generation /\ wire.last.generation \in Nat
        /\ session.generation \in Nat
    BY <1>2, InvByParts DEF OrderOf, Wire, Packet, Session
  <2>2. session.generation < generation
    BY <1>1, <1>2, <2>1 DEF StartAllowed, NoGeneration
  <2>. QED BY <1>2, <2>1, <2>2
<1>7. TypeOK'
  BY <1>1, <1>3, <1>5, InvByParts DEF TypeOK
<1>8. wire.last.generation \in Nat
  BY <1>2 DEF Wire, Packet
<1>. QED BY <1>1, <1>2, <1>3, <1>5, <1>6, <1>7, <1>8, EmptyTypes, InvByParts, InvByPartsNext
     DEF BufferOf, OrderOf, WireOf, Busy, Heard

\* start_session() during a partial transmission closes the link over it.
LEMMA StartDuringPartialStep == LinkInv /\ StartDuringPartial => LinkInv'
<1>. SUFFICES ASSUME LinkInv, StartDuringPartial PROVE LinkInv'
  OBVIOUS
<1>1. session \in Session /\ link \in Link /\ now \in Nat
  BY InvByParts DEF TypeOK
<1>. QED BY <1>1, MutatorTypes, ClosingStep DEF StartDuringPartial, FailLink

\* The capture's end empties the buffer, or closes the link over what is half sent.
LEMMA EndStep == LinkInv /\ EndSession => LinkInv'
<1>. SUFFICES ASSUME LinkInv, EndSession PROVE LinkInv'
  OBVIOUS
<1>1. /\ session \in Session /\ link \in Link /\ now \in Nat /\ phase' = "idle"
      /\ UNCHANGED <<now, wire>>
  BY InvByParts DEF TypeOK, EndSession
<1>2. CASE link.offset # 0
  BY <1>1, <1>2, MutatorTypes, ClosingStep DEF EndSession
<1>3. CASE link.offset = 0
  <2>. DEFINE c == ClearPending(link)
  <2>1. /\ c \in Link /\ c.pending = NoPacket /\ c.offset = 0 /\ c.open = link.open
        /\ c.lastEstimate = link.lastEstimate
    BY <1>1, Cleared
  <2>2. link' = [c EXCEPT !.started = FALSE] /\ session' = session
    BY <1>3 DEF EndSession
  <2>. HIDE DEF c
  <2>3. /\ link' \in Link /\ link'.pending = NoPacket /\ link'.offset = 0
        /\ link'.open = link.open /\ link'.lastEstimate = link.lastEstimate
    BY <2>1, <2>2 DEF Link
  <2>4. TypeOK'
    BY <1>1, <2>2, <2>3, InvByParts DEF TypeOK, Phase
  <2>. QED BY <1>1, <1>3, <2>2, <2>3, <2>4, EmptyTypes, InvByParts, InvByPartsNext
       DEF BufferOf, OrderOf, WireOf, Busy, Heard
<1>. QED BY <1>2, <1>3

\* An accepted measurement is later than the last one, of the running generation, and
\* waits for less than the heartbeat's deadline.
LEMMA PublishStep ==
    ASSUME LinkInv, NEW estimate \in Estimate, Publish(estimate)
    PROVE  LinkInv'
<1>. DEFINE s == Tick(session, now)
            m == MeasurementPacket(s, estimate)
            q == Queue(link, m, MeasurementDeadline(estimate))
<1>1. /\ phase = "idle" /\ session' = s /\ UNCHANGED <<now, phase, wire>>
      /\ link' = IF MayQueue(s, estimate) THEN [q EXCEPT !.lastEstimate = estimate.timestamp]
                 ELSE link
  BY DEF Publish
<1>2. /\ session \in Session /\ link \in Link /\ wire \in Wire /\ now \in Nat
      /\ MaxEstimateAge \in Nat
  BY InvByParts, PolicyAssumption DEF TypeOK
<1>3. /\ s \in Session /\ s.generation = session.generation
      /\ s.resetCounter = session.resetCounter /\ Heard(s, now)
  BY <1>2, TickFrame, InvByParts DEF Heard
<1>. HIDE DEF s
<1>4. CASE ~MayQueue(s, estimate)
  BY <1>1, <1>3, <1>4, SessionStep
<1>5. CASE MayQueue(s, estimate)
  <2>1. /\ link.started /\ link.open /\ ~Busy(link) /\ now < link.nextHeartbeat
        /\ s.generation # NoGeneration /\ estimate.generation = s.generation
        /\ estimate.timestamp <= now
        /\ link.lastEstimate # NoTime => estimate.timestamp > link.lastEstimate
    BY <1>5 DEF MayQueue, CanPublish, ValidEstimate
  <2>2. estimate.timestamp \in Nat /\ estimate.timestamp + MaxEstimateAge \in Nat
    BY <1>2 DEF Estimate
  <2>3. MeasurementDeadline(estimate) = estimate.timestamp + MaxEstimateAge
    BY <1>2, <2>2 DEF MeasurementDeadline
  <2>4. /\ m \in Packet /\ m.kind = "Measurement" /\ m.generation = s.generation
        /\ m.reset = s.resetCounter /\ m.timestamp = estimate.timestamp
    BY <1>3, <2>1, <2>2 DEF MeasurementPacket, Packet, PendingKind, Session
  <2>. HIDE DEF m
  <2>5. /\ q \in Link /\ q.pending = m /\ q.deadline = estimate.timestamp + MaxEstimateAge
        /\ q.open = link.open /\ q.started = link.started /\ q.offset = link.offset
        /\ q.nextHeartbeat = link.nextHeartbeat
    BY <1>2, <2>2, <2>3, <2>4, Queued
  <2>. HIDE DEF q
  <2>6. /\ link' \in Link /\ link'.pending = m /\ link'.open /\ link'.started
        /\ link'.deadline = estimate.timestamp + MaxEstimateAge
        /\ link'.offset = link.offset /\ link'.nextHeartbeat = link.nextHeartbeat
        /\ link'.lastEstimate = estimate.timestamp
    BY <1>1, <1>5, <2>1, <2>2, <2>5 DEF Link, OptionalTime
  <2>7. link.offset = 0
    BY <2>1, InvByParts DEF BufferOf
  <2>8. TypeOK'
    BY <1>1, <1>2, <1>3, <2>6, InvByParts DEF TypeOK
  <2>9. BufferOf(link', session', now')
    <3>1. link.nextHeartbeat \in Nat
      BY <1>2 DEF Link
    <3>2. estimate.timestamp + MaxEstimateAge < link.nextHeartbeat + MaxEstimateAge
      BY <1>2, <2>1, <2>2, <3>1
    <3>. QED BY <1>1, <1>3, <2>1, <2>4, <2>6, <2>7, <3>2 DEF BufferOf, Busy
  <2>10. OrderOf(link', session', wire'.last)
    <3>1. wire.last.timestamp \in Nat /\ link.lastEstimate \in Nat \cup {NoTime}
      BY <1>2 DEF Wire, Packet, Link, OptionalTime
    <3>2. wire.last.generation = s.generation => wire.last.timestamp < estimate.timestamp
      BY <1>3, <2>1, <2>2, <3>1, InvByParts DEF OrderOf, NoTime
    <3>. QED BY <1>1, <1>3, <2>2, <2>4, <2>6, <3>1, <3>2, InvByParts DEF OrderOf
  <2>11. Heard(session', now')
    BY <1>1, <1>3
  <2>. QED BY <1>1, <2>1, <2>6, <2>7, <2>8, <2>9, <2>10, <2>11, InvByParts, InvByPartsNext
       DEF WireOf
<1>. QED BY <1>4, <1>5

\* What poll() does before it writes.
LEMMA ReadingStep ==
    ASSUME LinkInv,
           \/ PollReadError \/ PollBegin
           \/ \E armed \in BOOLEAN : ReceiveHeartbeat(armed)
           \/ \E result \in AlignmentResult : ReceiveAck(result)
    PROVE  LinkInv'
<1>0. session \in Session /\ link \in Link /\ now \in Nat /\ (phase = "reading" => link.open)
  BY InvByParts DEF TypeOK
<1>1. CASE PollReadError
  <2>. DEFINE s == Tick(session, now)
  <2>1. /\ s \in Session /\ s.generation = session.generation
        /\ s.resetCounter = session.resetCounter /\ s.heartbeatTime = session.heartbeatTime
    BY <1>0, TickFrame
  <2>. HIDE DEF s
  <2>2. /\ Fail(s) \in Session /\ Fail(s).generation = s.generation
        /\ Fail(s).resetCounter = s.resetCounter /\ Fail(s).heartbeatTime = s.heartbeatTime
    BY <1>0, <2>1, MutatorTypes
  <2>. QED BY <1>0, <1>1, <2>1, <2>2, ClosingStep DEF PollReadError, EndPoll, s
<1>2. CASE PollBegin
  BY <1>0, <1>2, TickFrame, SessionStep, InvByParts DEF PollBegin, Heard
<1>3. ASSUME NEW armed \in BOOLEAN, ReceiveHeartbeat(armed) PROVE LinkInv'
  BY <1>0, <1>3, HeartbeatType, SessionStep DEF ReceiveHeartbeat, Heard
<1>4. ASSUME NEW result \in AlignmentResult, ReceiveAck(result) PROVE LinkInv'
  BY <1>0, <1>4, AcknowledgeType, SessionStep, InvByParts DEF ReceiveAck, Heard
<1>. QED BY <1>1, <1>2, <1>3, <1>4

\* poll() that writes nothing: it closes, or keeps what it may still send.
LEMMA QuietStep ==
    ASSUME LinkInv, PollClose \/ PollWriteError \/ PollFull \/ PollQuiet
    PROVE  LinkInv'
<1>0. session \in Session /\ link \in Link /\ now \in Nat
  BY InvByParts DEF TypeOK
<1>1. /\ Fail(session) \in Session /\ Fail(session).generation = session.generation
      /\ Fail(session).resetCounter = session.resetCounter
      /\ Fail(session).heartbeatTime = session.heartbeatTime
  BY <1>0, MutatorTypes
<1>2. CASE PollClose
  BY <1>0, <1>1, <1>2, ClosingStep DEF PollClose, FailLink, EndPoll
<1>3. CASE PollWriteError
  BY <1>0, <1>1, <1>3, OutgoingBuffer, ClosingStep DEF PollWriteError, EndPoll
<1>4. CASE PollFull
  <2>1. link' = Dropped /\ phase' = "idle" /\ UNCHANGED <<now, session, wire>> /\ ~MustClose
    BY <1>4 DEF PollFull, EndPoll
  <2>2. /\ Dropped \in Link /\ BufferOf(Dropped, session, now)
        /\ OrderOf(Dropped, session, wire.last) /\ Dropped.open = link.open
        /\ Dropped.offset = link.offset
        /\ Dropped.offset # 0 => Dropped.pending = link.pending
    BY <2>1, DroppedBuffer
  <2>. QED BY <2>1, <2>2, BufferStep
<1>5. CASE PollQuiet
  <2>1. /\ link' = Outgoing /\ phase' = "idle" /\ UNCHANGED <<now, session, wire>>
        /\ ~MustClose /\ phase = "reading"
    BY <1>5 DEF PollQuiet, EndPoll
  <2>2. /\ Outgoing \in Link /\ BufferOf(Outgoing, session, now)
        /\ OrderOf(Outgoing, session, wire.last) /\ Outgoing.open = link.open
        /\ Outgoing.offset = link.offset
        /\ Outgoing.offset # 0 => Outgoing.pending = link.pending
    BY <2>1, OutgoingBuffer, InvByParts
  <2>. QED BY <2>1, <2>2, BufferStep
<1>. QED BY <1>2, <1>3, <1>4, <1>5

\* The bytes that go out join on to those before, and the last one of a measurement
\* goes out in time.
LEMMA WireStep ==
    ASSUME LinkInv, phase = "reading", ~MustClose, Busy(Outgoing), NEW n \in Nat, n # 0,
           Outgoing.offset + n <= PacketSize
    PROVE  LET whole == Outgoing.offset + n = PacketSize
               measured == whole /\ Outgoing.pending.kind = "Measurement"
           IN  Sent(Outgoing, n) =
                 [partial |-> IF whole THEN NoPacket ELSE Outgoing.pending,
                  units |-> IF whole THEN 0 ELSE Outgoing.offset + n,
                  intact |-> TRUE, fresh |-> TRUE,
                  last |-> IF measured THEN Outgoing.pending ELSE wire.last]
<1>. DEFINE l == Outgoing
            whole == l.offset + n = PacketSize
            measured == whole /\ l.pending.kind = "Measurement"
            inTime == /\ l.pending.timestamp <= now
                      /\ now - l.pending.timestamp <= MaxEstimateAge
            joins == IF wire.partial = NoPacket THEN l.offset = 0
                     ELSE l.pending = wire.partial /\ l.offset = wire.units
<1>1. /\ l \in Link /\ l.offset = link.offset /\ link.open
      /\ link.offset # 0 => l = link
      /\ l.pending.kind = "Measurement" => now <= l.deadline
      /\ BufferOf(l, session, now) /\ WireOf(link, wire)
  BY OutgoingBuffer, InvByParts
<1>2. joins
  <2>1. CASE link.offset = 0
    BY <1>1, <2>1 DEF WireOf
  <2>2. CASE link.offset # 0
    <3>1. l.pending # NoPacket
      BY EmptyTypes DEF Busy
    <3>. QED BY <1>1, <2>2, <3>1 DEF WireOf
  <2>. QED BY <2>1, <2>2
<1>3. measured => inTime
  <2>1. l.pending.timestamp \in Nat /\ now \in Nat /\ MaxEstimateAge \in Nat
    BY <1>1, InvByParts, PolicyAssumption DEF TypeOK, Link, Packet
  <2>. QED BY <1>1, <2>1 DEF BufferOf
<1>4. wire.intact = TRUE /\ wire.fresh = TRUE
  BY <1>1, InvByParts DEF WireOf, TypeOK, Wire
<1>5. (wire.intact /\ joins) = TRUE /\ (wire.fresh /\ (measured => inTime)) = TRUE
  BY <1>2, <1>3, <1>4
<1>. QED BY <1>5 DEF Sent

\* A partial write leaves the packet in the buffer, begun.
LEMMA PartialStep ==
    ASSUME LinkInv, NEW n \in 0..(PacketSize - 1), PollPartial(n)
    PROVE  LinkInv' /\ wire'.last = wire.last
<1>. DEFINE l == Outgoing
<1>0. /\ phase = "reading" /\ ~MustClose /\ Busy(l) /\ n < PacketSize - l.offset
      /\ link' = [l EXCEPT !.offset = @ + n] /\ wire' = Sent(l, n)
      /\ phase' = "idle" /\ UNCHANGED <<now, session>>
  BY DEF PollPartial, EndPoll
<1>1. /\ l \in Link /\ l.offset = link.offset /\ l.open /\ link.open
      /\ l.lastEstimate = link.lastEstimate
      /\ link.offset # 0 => l = link
      /\ BufferOf(l, session, now) /\ OrderOf(l, session, wire.last) /\ WireOf(link, wire)
  BY <1>0, OutgoingBuffer, InvByParts
<1>2. l.offset \in 0..(PacketSize - 1) /\ PacketSize \in Nat \ {0}
  BY <1>1, LinkAssumption DEF Link
<1>3. l.offset + n \in 0..(PacketSize - 1) /\ l.offset + n # PacketSize
  BY <1>0, <1>2
<1>. HIDE DEF l
<1>4. /\ link' \in Link /\ link'.offset = l.offset + n /\ link'.pending = l.pending
      /\ link'.open = l.open /\ link'.started = l.started /\ link'.deadline = l.deadline
      /\ link'.nextHeartbeat = l.nextHeartbeat /\ link'.lastEstimate = l.lastEstimate
  BY <1>0, <1>1, <1>3 DEF Link
<1>5. BufferOf(link', session', now') /\ OrderOf(link', session', wire.last)
  BY <1>0, <1>1, <1>4 DEF BufferOf, OrderOf, Busy
<1>6. wire' \in Wire /\ wire'.last = wire.last /\ WireOf(link', wire')
  <2>1. CASE n = 0
    <3>1. wire' = wire /\ link'.offset = link.offset
      BY <1>0, <1>1, <1>2, <1>4, <2>1 DEF Sent
    <3>2. link.offset # 0 => link'.pending = link.pending
      BY <1>1, <1>4
    <3>. QED BY <1>1, <1>4, <3>1, <3>2, InvByParts DEF WireOf, TypeOK
  <2>2. CASE n # 0
    <3>1. wire' = [partial |-> l.pending, units |-> l.offset + n, intact |-> TRUE,
                   fresh |-> TRUE, last |-> wire.last]
      BY <1>0, <1>2, <1>3, <2>2, WireStep DEF l
    <3>2. l.pending \in Packet /\ wire.last \in Packet
      BY <1>1, InvByParts DEF Link, TypeOK, Wire
    <3>3. l.offset + n # 0
      BY <1>2, <2>2
    <3>. QED BY <1>3, <1>4, <3>1, <3>2, <3>3 DEF Wire, WireOf
  <2>. QED BY <2>1, <2>2
<1>7. TypeOK'
  BY <1>0, <1>4, <1>6, InvByParts DEF TypeOK, Phase
<1>8. Heard(session', now')
  BY <1>0, InvByParts DEF Heard
<1>. QED BY <1>0, <1>1, <1>4, <1>5, <1>6, <1>7, <1>8, InvByPartsNext

\* The write that ends a packet empties the buffer; a measurement becomes the last one,
\* and the session is told of an alignment command it finds due.
LEMMA WholeStep ==
    ASSUME LinkInv, PollWhole
    PROVE  /\ LinkInv'
           /\ wire'.last # wire.last =>
                /\ link.started /\ CanPublish(session, now)
                /\ wire'.last.generation = session.generation
                /\ wire'.last.reset = session.resetCounter
                /\ wire.last.generation = wire'.last.generation =>
                     wire.last.timestamp < wire'.last.timestamp
<1>. DEFINE l == Outgoing
            c == ClearPending(l)
            m == l.pending
<1>0. phase = "reading" /\ ~MustClose /\ Busy(l) /\ wire' = Sent(l, PacketSize - l.offset)
  BY DEF PollWhole
<1>1. /\ l \in Link /\ l.offset = link.offset /\ l.open
      /\ l.lastEstimate = link.lastEstimate /\ l.started = link.started
      /\ BufferOf(l, session, now) /\ OrderOf(l, session, wire.last)
      /\ m.kind = "Measurement" => CanPublish(session, now)
      /\ m.kind = "Alignment" => AlignmentDue(session, now)
  BY <1>0, OutgoingBuffer
<1>2. /\ session \in Session /\ now \in Nat /\ wire.last \in Packet /\ m \in Packet
      /\ l.offset \in 0..(PacketSize - 1) /\ PacketSize \in Nat \ {0}
  BY <1>1, InvByParts, LinkAssumption DEF TypeOK, Wire, Link
<1>3. /\ phase' = "idle" /\ now' = now /\ link' = c
      /\ session' = Completed(m.kind, m.timestamp)
  BY <1>1 DEF PollWhole, EndPoll
<1>4. /\ session' \in Session /\ session'.generation = session.generation
      /\ session'.resetCounter = session.resetCounter
      /\ session'.heartbeatTime = session.heartbeatTime
  <2>1. m.timestamp \in Nat /\ m.kind \in {"Measurement", "Alignment", "Heartbeat"}
    BY <1>0, <1>2 DEF Packet, PendingKind, Busy
  <2>. QED BY <1>2, <1>3, <2>1, MutatorTypes DEF Completed
<1>5. /\ c \in Link /\ c.pending = NoPacket /\ c.offset = 0 /\ c.open
      /\ c.lastEstimate = link.lastEstimate
  BY <1>1, Cleared
<1>6. wire' = [partial |-> NoPacket, units |-> 0, intact |-> TRUE, fresh |-> TRUE,
               last |-> IF m.kind = "Measurement" THEN m ELSE wire.last]
  <2>. DEFINE n == PacketSize - l.offset
  <2>1. n \in Nat /\ n # 0 /\ l.offset + n = PacketSize
    BY <1>2
  <2>. HIDE DEF n
  <2>2. l.offset + n <= PacketSize
    BY <2>1, <1>2
  <2>3. Sent(l, n) =
          [partial |-> IF l.offset + n = PacketSize THEN NoPacket ELSE l.pending,
           units |-> IF l.offset + n = PacketSize THEN 0 ELSE l.offset + n,
           intact |-> TRUE, fresh |-> TRUE,
           last |-> IF l.offset + n = PacketSize /\ l.pending.kind = "Measurement"
                    THEN l.pending ELSE wire.last]
    BY <1>0, <2>1, <2>2, WireStep
  <2>4. Sent(l, n) = [partial |-> NoPacket, units |-> 0, intact |-> TRUE, fresh |-> TRUE,
                      last |-> IF m.kind = "Measurement" THEN m ELSE wire.last]
    BY <2>1, <2>3
  <2>. QED BY <1>0, <2>4 DEF n
<1>. HIDE DEF l, c, m
<1>7. wire' \in Wire /\ WireOf(link', wire')
  BY <1>2, <1>3, <1>5, <1>6, EmptyTypes DEF Wire, WireOf
<1>8. BufferOf(link', session', now')
  BY <1>3, <1>5, EmptyTypes DEF BufferOf, Busy
<1>9. m.kind = "Measurement" =>
        /\ l.started /\ m.generation = session.generation /\ m.reset = session.resetCounter
        /\ m.timestamp = link.lastEstimate /\ m.timestamp \in Nat
  BY <1>1, <1>2 DEF BufferOf, Packet, m
<1>10. OrderOf(link', session', wire'.last)
  <2>1. CASE m.kind = "Measurement"
    <3>1. wire'.last = m /\ m.timestamp <= link.lastEstimate
      BY <1>6, <1>9, <2>1
    <3>2. m.generation <= session'.generation
      BY <1>2, <1>4, <1>9, <2>1 DEF Session
    <3>. QED BY <1>3, <1>5, <3>1, <3>2, EmptyTypes DEF OrderOf
  <2>2. CASE m.kind # "Measurement"
    <3>1. wire'.last = wire.last
      BY <1>6, <2>2
    <3>. QED BY <1>1, <1>3, <1>4, <1>5, <3>1, EmptyTypes DEF OrderOf
  <2>. QED BY <2>1, <2>2
<1>11. LinkInv'
  BY <1>3, <1>4, <1>5, <1>7, <1>8, <1>10, InvByParts, InvByPartsNext DEF TypeOK, Phase, Heard
<1>12. ASSUME wire'.last # wire.last
       PROVE  /\ link.started /\ CanPublish(session, now)
              /\ wire'.last.generation = session.generation
              /\ wire'.last.reset = session.resetCounter
              /\ wire.last.generation = wire'.last.generation =>
                   wire.last.timestamp < wire'.last.timestamp
  <2>1. m.kind = "Measurement" /\ wire'.last = m
    BY <1>6, <1>12
  <2>2. CanPublish(session, now) /\ session.generation # NoGeneration
    BY <1>1, <2>1 DEF m, CanPublish
  <2>3. wire.last.generation = session.generation => wire.last.timestamp < m.timestamp
    BY <1>1, <2>1, <2>2 DEF OrderOf, m
  <2>4. link.started
    BY <1>1, <1>9, <2>1
  <2>. QED BY <1>9, <2>1, <2>2, <2>3, <2>4
<1>. QED BY <1>11, <1>12
-----------------------------------------------------------------------------
(* The theorems.                                                            *)

\* The link is created with an empty buffer and an idle session.
LEMMA InitLink == Init => LinkInv
<1>. SUFFICES ASSUME Init PROVE LinkInv
  OBVIOUS
<1>1. PICK initial \in 0..(ResetModulus - 1) : session = NewSession(initial)
  BY DEF Init
<1>2. /\ session \in Session /\ session.generation = NoGeneration
      /\ session.heartbeatTime = NoTime
  BY <1>1 DEF NewSession, Session, FlightSessionState, OptionalTime, NoTime, NoGeneration
<1>3. link \in Link /\ wire \in Wire
  BY EmptyTypes DEF Init, Link, Wire
<1>4. TypeOK
  BY <1>2, <1>3 DEF Init, TypeOK, Phase
<1>. QED BY <1>2, <1>4, InvByParts, EmptyTypes
     DEF Init, BufferOf, OrderOf, WireOf, Busy, Heard, NoPacket, NoGeneration

\* Every step keeps the invariant.
LEMMA LinkInvNext == LinkInv /\ [Next]_vars => LinkInv'
<1>. SUFFICES ASSUME LinkInv, [Next]_vars PROVE LinkInv'
  OBVIOUS
<1>1. CASE Advance
  BY <1>1, AdvanceStep
<1>2. ASSUME NEW generation \in 1..MaxGeneration, StartOnLink(generation) PROVE LinkInv'
  BY <1>2, StartStep
<1>3. CASE StartDuringPartial
  BY <1>3, StartDuringPartialStep
<1>4. CASE EndSession
  BY <1>4, EndStep
<1>5. ASSUME NEW estimate \in Estimate, Publish(estimate) PROVE LinkInv'
  BY <1>5, PublishStep
<1>6. CASE \/ PollReadError \/ PollBegin
           \/ \E armed \in BOOLEAN : ReceiveHeartbeat(armed)
           \/ \E result \in AlignmentResult : ReceiveAck(result)
  BY <1>6, ReadingStep
<1>7. CASE PollClose \/ PollWriteError \/ PollFull \/ PollQuiet
  BY <1>7, QuietStep
<1>8. ASSUME NEW n \in 0..(PacketSize - 1), PollPartial(n) PROVE LinkInv'
  BY <1>8, PartialStep
<1>9. CASE PollWhole
  BY <1>9, WholeStep
<1>10. CASE UNCHANGED vars
  BY <1>10, InvByParts, InvByPartsNext DEF vars, TypeOK, BufferOf, OrderOf, WireOf, Heard
<1>. QED BY <1>1, <1>2, <1>3, <1>4, <1>5, <1>6, <1>7, <1>8, <1>9, <1>10 DEF Next

\* The transmit buffer, the session and the wire agree in every reachable state: what
\* poll() and publish() rely on, and the bound on how long a measurement may hold up
\* the link's own heartbeat.
THEOREM LinkInvariant == Spec => []LinkInv
<1>. QED BY InitLink, LinkInvNext, PTL DEF Spec

\* No packet is abandoned half sent on an open link, whatever end_session(),
\* start_session(), a deadline or a lost permission does.
THEOREM PacketsWhole == Spec => []PacketsStayWhole
<1>1. LinkInv => PacketsStayWhole
  BY DEF LinkInv
<1>. QED BY <1>1, LinkInvariant, PTL

\* The deadline publish() gives a measurement is enough: it never arrives too old,
\* however the stream splits it.
THEOREM MeasurementsFresh == Spec => []MeasurementsArriveFresh
<1>1. LinkInv => MeasurementsArriveFresh
  BY DEF LinkInv
<1>. QED BY <1>1, LinkInvariant, PTL

\* poll() tells the session only of an alignment command it finds due, so
\* alignment_sent() does not throw.
THEOREM NothingEscapesPoll == Spec => []NothingEscapes
<1>1. LinkInv => NothingEscapes
  BY DEF LinkInv
<1>. QED BY <1>1, LinkInvariant, PTL

\* The measurements of a generation reach the wire in the order of their timestamps,
\* each under the permission of its own poll().
THEOREM MeasurementsInOrder == Spec => MeasurementsOrdered
<1>. DEFINE Ordered ==
         wire'.last # wire.last
           => /\ link.started /\ CanPublish(session, now)
              /\ wire'.last.generation = session.generation
              /\ wire'.last.reset = session.resetCounter
              /\ wire.last.generation = wire'.last.generation =>
                    wire.last.timestamp < wire'.last.timestamp
<1>1. LinkInv /\ Next => Ordered
  <2>. SUFFICES ASSUME LinkInv, Next PROVE Ordered
    OBVIOUS
  <2>1. ASSUME NEW n \in 0..(PacketSize - 1), PollPartial(n) PROVE Ordered
    BY <2>1, PartialStep
  <2>2. CASE PollWhole
    BY <2>2, WholeStep
  <2>3. CASE UNCHANGED wire
    BY <2>3
  <2>4. \/ UNCHANGED wire \/ PollWhole \/ \E n \in 0..(PacketSize - 1) : PollPartial(n)
    BY DEF Next, Advance, StartOnLink, StartDuringPartial, EndSession, Publish, PollBegin,
           ReceiveHeartbeat, ReceiveAck, PollReadError, PollClose, PollWriteError, PollFull,
           PollQuiet
  <2>. QED BY <2>1, <2>2, <2>3, <2>4
<1>2. LinkInv /\ [Next]_vars => [Ordered]_vars
  BY <1>1
<1>. QED BY <1>2, LinkInvariant, PTL DEF Spec, MeasurementsOrdered

-----------------------------------------------------------------------------
(***************************************************************************)
(* MavlinkLink implements LinkContract: its initial states are seen as     *)
(* initial states of the contract, and its steps as steps of the contract  *)
(* or as none.                                                             *)
(***************************************************************************)

SeenType ==
    [state : FlightSessionState, generation : Nat, reset : 0..(ResetModulus - 1),
     fresh : BOOLEAN, armed : BOOLEAN, unresolved : BOOLEAN, started : BOOLEAN,
     queued : BOOLEAN, partial : BOOLEAN]

\* a is what is seen of the session s and the link l at time t.
Matches(a, s, l, t) ==
    /\ a.state = s.state /\ a.generation = s.generation /\ a.reset = s.resetCounter
    /\ a.fresh <=> ControllerFresh(s, t)
    /\ a.armed <=> s.armed
    /\ a.unresolved <=> Unresolved(s)
    /\ a.started <=> l.started
    /\ a.queued <=> l.pending.kind = "Measurement"
    /\ a.partial <=> l.offset # 0

\* What is seen is determined by its fields.
LEMMA SeenFields ==
    ASSUME NEW s \in Session, NEW l \in Link, NEW t \in Nat
    PROVE  /\ Seen(s, l, t) \in SeenType /\ Matches(Seen(s, l, t), s, l, t)
           /\ \A a \in SeenType : Matches(a, s, l, t) => a = Seen(s, l, t)
<1>. DEFINE b == Seen(s, l, t)
<1>1. /\ s.state \in FlightSessionState /\ s.generation \in Nat
      /\ s.resetCounter \in 0..(ResetModulus - 1) /\ s.armed \in BOOLEAN
      /\ l.started \in BOOLEAN
  BY DEF Session, Link
<1>2. ControllerFresh(s, t) \in BOOLEAN /\ Unresolved(s) \in BOOLEAN
  BY DEF ControllerFresh, Unresolved
<1>3. b \in SeenType /\ Matches(b, s, l, t)
  BY <1>1, <1>2 DEF Seen, SeenType, Matches
<1>. HIDE DEF b
<1>4. ASSUME NEW a \in SeenType, Matches(a, s, l, t) PROVE a = b
  BY <1>3, <1>4 DEF SeenType, Matches
<1>. QED BY <1>3, <1>4 DEF b

-----------------------------------------------------------------------------
(* The methods of the session, seen as the contract has them.               *)

\* b is like a but in the state and in whether a command is unresolved.
Others(b, a) ==
    /\ b.generation = a.generation /\ b.reset = a.reset
    /\ b.fresh <=> a.fresh
    /\ b.armed <=> a.armed
    /\ b.started <=> a.started
    /\ b.queued <=> a.queued
    /\ b.partial <=> a.partial

\* A session u that differs from s in its state and in what the contract does not see.
LEMMA StateSeen ==
    ASSUME NEW s \in Session, NEW u \in Session, NEW l \in Link, NEW t \in Nat,
           u.generation = s.generation, u.resetCounter = s.resetCounter,
           u.heartbeatTime = s.heartbeatTime, u.armed = s.armed,
           NEW b \in SeenType, Others(b, Seen(s, l, t)),
           b.state = u.state, b.unresolved <=> Unresolved(u)
    PROVE  Seen(u, l, t) = b
<1>1. Matches(Seen(s, l, t), s, l, t)
  BY SeenFields
<1>2. ControllerFresh(u, t) <=> ControllerFresh(s, t)
  BY DEF ControllerFresh
<1>3. Matches(b, u, l, t)
  BY <1>1, <1>2 DEF Matches, Others
<1>. QED BY <1>3, SeenFields

\* What the contract changes of the state, and nothing else.
LEMMA StoppedFields ==
    ASSUME NEW a \in SeenType
    PROVE  LET b == Contract!Stopped(a)
           IN  b \in SeenType /\ Others(b, a) /\ b.state = "Failed" /\ ~b.unresolved
  BY DEF Contract!Stopped, SeenType, Others, FlightSessionState

\* Once it failed, a session asks nothing.  (fail)
LEMMA FailSeen ==
    ASSUME NEW s \in Session, NEW l \in Link, NEW t \in Nat
    PROVE  Seen(Fail(s), l, t) = Contract!Stopped(Seen(s, l, t))
<1>. DEFINE u == Fail(s)
            b == Contract!Stopped(Seen(s, l, t))
<1>1. /\ u \in Session /\ u.state = "Failed" /\ u.generation = s.generation
      /\ u.resetCounter = s.resetCounter /\ u.heartbeatTime = s.heartbeatTime
      /\ u.armed = s.armed /\ ~Unresolved(u)
  BY DEF Fail, Session, FlightSessionState, OptionalTime, Unresolved
<1>2. b \in SeenType /\ Others(b, Seen(s, l, t)) /\ b.state = "Failed" /\ ~b.unresolved
  BY SeenFields, StoppedFields
<1>. HIDE DEF u, b
<1>3. Seen(u, l, t) = b
  BY <1>1, <1>2, StateSeen
<1>. QED BY <1>3 DEF u, b

\* What tick() does depends on the contact and the state; the contract leaves open
\* whether a request has expired.  (tick)
LEMMA TickSeen ==
    ASSUME NEW s \in Session, NEW l \in Link, NEW t \in Nat
    PROVE  Seen(Tick(s, t), l, t) \in Contract!Ticked(Seen(s, l, t))
<1>. DEFINE a == Seen(s, l, t)
            u == Tick(s, t)
<1>0. /\ u \in Session /\ u.generation = s.generation /\ u.resetCounter = s.resetCounter
      /\ u.heartbeatTime = s.heartbeatTime /\ u.armed = s.armed
  BY TickFrame
<1>1. /\ a \in SeenType /\ a.state = s.state /\ a.generation = s.generation
      /\ a.fresh <=> ControllerFresh(s, t)
      /\ a.unresolved <=> Unresolved(s)
  BY SeenFields DEF Matches
<1>. HIDE DEF a
<1>b. ASSUME NEW x \in FlightSessionState, u.state = x, Unresolved(u) <=> Unresolved(s)
      PROVE  Seen(u, l, t) = [a EXCEPT !.state = x]
  <2>. DEFINE b == [a EXCEPT !.state = x]
  <2>1. b \in SeenType /\ Others(b, a) /\ b.state = x /\ b.unresolved = a.unresolved
    BY <1>1 DEF SeenType, Others
  <2>. HIDE DEF b, u
  <2>2. Seen(u, l, t) = b
    BY <1>0, <1>1, <1>b, <2>1, StateSeen DEF a
  <2>. QED BY <2>2 DEF b
<1>2. CASE s.generation = NoGeneration \/ s.state = "Failed"
  <2>1. u = s
    BY <1>2 DEF Tick
  <2>2. Contract!Ticked(a) = {a}
    BY <1>1, <1>2 DEF Contract!Ticked, NoGeneration
  <2>. QED BY <2>1, <2>2 DEF a
<1>3. CASE s.generation # NoGeneration /\ s.state = "AwaitingAlignment"
  <2>1. Contract!Ticked(a) = IF a.fresh
                             THEN {a, [a EXCEPT !.state = "Priming"], Contract!Stopped(a)}
                             ELSE {Contract!Stopped(a)}
    BY <1>1, <1>3 DEF Contract!Ticked, NoGeneration
  <2>2. CASE u = Fail(s)
    BY <2>1, <2>2, FailSeen DEF a
  <2>3. CASE u # Fail(s)
    <3>1. ControllerFresh(s, t) /\ (u = s \/ (u.state = "Priming" /\ u.attempts = s.attempts))
      BY <1>3, <2>3 DEF Tick, LoseController, TickFresh, ExpireRequest, Session
    <3>2. u = s => Seen(u, l, t) = a
      BY DEF a
    <3>3. u.state = "Priming" /\ u.attempts = s.attempts =>
             Seen(u, l, t) = [a EXCEPT !.state = "Priming"]
      BY <1>b, <1>3 DEF Unresolved, FlightSessionState
    <3>. QED BY <1>1, <2>1, <3>1, <3>2, <3>3 DEF a
  <2>. QED BY <2>2, <2>3
<1>4. CASE s.generation # NoGeneration /\ s.state = "WaitingForController"
  <2>1. Contract!Ticked(a) = {IF a.fresh THEN [a EXCEPT !.state = "Priming"] ELSE a}
    BY <1>1, <1>4 DEF Contract!Ticked, NoGeneration
  <2>2. CASE ControllerFresh(s, t)
    <3>1. u.state = "Priming" /\ u.attempts = s.attempts
      BY <1>4, <2>2 DEF Tick, TickFresh, Session
    <3>2. Seen(u, l, t) = [a EXCEPT !.state = "Priming"]
      BY <1>b, <1>4, <3>1 DEF Unresolved, FlightSessionState
    <3>. QED BY <1>1, <2>1, <2>2, <3>2 DEF a
  <2>3. CASE ~ControllerFresh(s, t)
    <3>1. u.state = s.state /\ u.attempts = s.attempts
      BY <1>4, <2>3 DEF Tick, LoseController, Session
    <3>2. Matches(Seen(u, l, t), s, l, t)
      <4>1. Matches(Seen(u, l, t), u, l, t)
        BY <1>0, SeenFields
      <4>2. (ControllerFresh(u, t) <=> ControllerFresh(s, t)) /\ (Unresolved(u) <=> Unresolved(s))
        BY <1>0, <3>1 DEF ControllerFresh, Unresolved
      <4>. QED BY <1>0, <3>1, <4>1, <4>2 DEF Matches
    <3>3. Seen(u, l, t) = a
      BY <1>0, <3>2, SeenFields DEF a
    <3>. QED BY <1>1, <2>1, <2>3, <3>3 DEF a
  <2>. QED BY <2>2, <2>3
<1>5. CASE s.generation # NoGeneration /\ s.state \in {"Priming", "Aligned"}
  <2>1. Contract!Ticked(a) = {IF a.fresh THEN a ELSE [a EXCEPT !.state = "WaitingForController"]}
    BY <1>1, <1>5 DEF Contract!Ticked, NoGeneration
  <2>2. CASE ControllerFresh(s, t)
    <3>1. u = s
      BY <1>5, <2>2 DEF Tick, TickFresh, RequestExpired
    <3>. QED BY <1>1, <2>1, <2>2, <3>1 DEF a
  <2>3. CASE ~ControllerFresh(s, t)
    <3>1. /\ u.state = "WaitingForController"
          /\ u.attempts = IF s.state = "Aligned" THEN 0 ELSE s.attempts
      BY <1>5, <2>3 DEF Tick, LoseController, Session
    <3>2. Unresolved(u) <=> Unresolved(s)
      BY <1>5, <3>1 DEF Unresolved
    <3>3. Seen(u, l, t) = [a EXCEPT !.state = "WaitingForController"]
      BY <1>b, <3>1, <3>2 DEF FlightSessionState
    <3>. QED BY <1>1, <2>1, <2>3, <3>3 DEF a
  <2>. QED BY <2>2, <2>3
<1>6. s.state \in FlightSessionState
  BY DEF Session
<1>. QED BY <1>2, <1>3, <1>4, <1>5, <1>6 DEF FlightSessionState

\* A heartbeat is heard between two ticks.  (heartbeat)
LEMMA HeartbeatSeen ==
    ASSUME NEW s \in Session, NEW l \in Link, NEW t \in Nat, NEW armed \in BOOLEAN
    PROVE  Seen(Heartbeat(s, armed, t), l, t) \in Contract!Heard(Seen(s, l, t), armed)
<1>. DEFINE u == Tick(s, t)
            a == Seen(u, l, t)
            h == [u EXCEPT !.heartbeatTime = t, !.armed = armed]
            b == [a EXCEPT !.fresh = TRUE, !.armed = armed]
            r == RecordHeartbeat(u, armed, t)
            k == IF a.state = "AwaitingAlignment" /\ armed THEN Contract!Stopped(b) ELSE b
<1>1. u \in Session
  BY TickFrame
<1>2. a \in Contract!Ticked(Seen(s, l, t))
  BY TickSeen
<1>3. a \in SeenType /\ Matches(a, u, l, t)
  BY <1>1, SeenFields
<1>4. /\ h \in Session /\ h.state = u.state /\ h.generation = u.generation
      /\ h.resetCounter = u.resetCounter /\ h.heartbeatTime = t /\ h.armed = armed
      /\ h.attempts = u.attempts
  BY <1>1 DEF Session, OptionalTime
<1>. HIDE DEF u, a, h
<1>5. ControllerFresh(h, t) /\ (Unresolved(h) <=> Unresolved(u))
  BY <1>4, PolicyAssumption DEF ControllerFresh, Unresolved, NoTime
<1>6. b \in SeenType /\ Matches(b, h, l, t)
  BY <1>3, <1>4, <1>5 DEF SeenType, Matches
<1>7. Seen(h, l, t) = b
  BY <1>4, <1>6, SeenFields
<1>. HIDE DEF b
<1>8. a.state = u.state
  BY <1>3 DEF Matches
<1>9. r \in Session /\ Seen(r, l, t) = k
  <2>1. r = IF u.state = "AwaitingAlignment" /\ armed THEN Fail(h) ELSE h
    BY DEF RecordHeartbeat, h
  <2>2. Fail(h) \in Session
    BY <1>4, MutatorTypes
  <2>. QED BY <1>4, <1>7, <1>8, <2>1, <2>2, FailSeen
<1>. HIDE DEF r, k
<1>10. Seen(Tick(r, t), l, t) \in Contract!Ticked(k)
  BY <1>9, TickSeen
<1>. QED BY <1>2, <1>10 DEF Contract!Heard, Heartbeat, a, b, k, r, u

\* An acknowledgment tells something only to a session that asked a disarmed
\* controller.  (acknowledge)
LEMMA AcknowledgeSeen ==
    ASSUME NEW s \in Session, NEW l \in Link, NEW t \in Nat, NEW result \in AlignmentResult
    PROVE  Seen(Acknowledge(s, result, t), l, t) \in Contract!Answered(Seen(s, l, t))
<1>. DEFINE u == Tick(s, t)
            a == Seen(u, l, t)
            r == ApplyResult(u, result, t)
<1>1. u \in Session
  BY TickFrame
<1>2. a \in Contract!Ticked(Seen(s, l, t))
  BY TickSeen
<1>3. a \in SeenType /\ Matches(a, u, l, t)
  BY <1>1, SeenFields
<1>. HIDE DEF u
<1>4. CASE ~AckRelevant(u, t)
  BY <1>2, <1>4 DEF Acknowledge, Contract!Answered, u
<1>5. CASE AckRelevant(u, t)
  <2>1. u.state = "AwaitingAlignment" /\ ControllerFresh(u, t) /\ ~u.armed
    BY <1>5 DEF AckRelevant
  <2>2. a.state = "AwaitingAlignment" /\ Contract!Disarmed(a)
    BY <1>3, <2>1 DEF Matches, Contract!Disarmed
  <2>3. {[a EXCEPT !.state = "Aligned", !.unresolved = FALSE], [a EXCEPT !.state = "Priming"],
         Contract!Stopped(a), a} \subseteq Contract!Answered(Seen(s, l, t))
    <3>. DEFINE told(v) == {[v EXCEPT !.state = "Aligned", !.unresolved = FALSE],
                            [v EXCEPT !.state = "Priming"], Contract!Stopped(v)}
                asked == {v \in Contract!Ticked(Seen(s, l, t)) :
                             v.state = "AwaitingAlignment" /\ Contract!Disarmed(v)}
    <3>1. Contract!Answered(Seen(s, l, t))
            = Contract!Ticked(Seen(s, l, t)) \cup UNION {told(v) : v \in asked}
      BY DEF Contract!Answered
    <3>2. a \in asked
      BY <1>2, <2>2
    <3>3. {[a EXCEPT !.state = "Aligned", !.unresolved = FALSE], [a EXCEPT !.state = "Priming"],
           Contract!Stopped(a)} = told(a)
      OBVIOUS
    <3>. HIDE DEF told, asked
    <3>4. told(a) \subseteq UNION {told(v) : v \in asked}
      BY <3>2
    <3>. QED BY <1>2, <3>1, <3>3, <3>4
  <2>4. CASE result = "Accepted"
    <3>. DEFINE b == [a EXCEPT !.state = "Aligned", !.unresolved = FALSE]
    <3>1. b \in SeenType /\ Others(b, a) /\ b.state = "Aligned" /\ ~b.unresolved
      BY <1>3 DEF SeenType, Others, FlightSessionState
    <3>2. r = [u EXCEPT !.state = "Aligned"]
      BY <2>4 DEF ApplyResult
    <3>3. /\ r \in Session /\ r.state = "Aligned" /\ r.generation = u.generation
          /\ r.resetCounter = u.resetCounter /\ r.heartbeatTime = u.heartbeatTime
          /\ r.armed = u.armed
      BY <1>1, <3>2 DEF Session, FlightSessionState
    <3>4. ~Unresolved(r)
      BY <3>3 DEF Unresolved
    <3>. HIDE DEF b, r
    <3>5. Seen(r, l, t) = b
      BY <1>1, <3>1, <3>3, <3>4, StateSeen
    <3>. QED BY <1>5, <2>3, <3>5 DEF Acknowledge, b, r, u
  <2>5. CASE result = "InProgress"
    <3>1. r = [u EXCEPT !.inProgress = TRUE]
      BY <2>5 DEF ApplyResult
    <3>2. /\ r \in Session /\ r.state = u.state /\ r.generation = u.generation
          /\ r.resetCounter = u.resetCounter /\ r.heartbeatTime = u.heartbeatTime
          /\ r.armed = u.armed /\ r.attempts = u.attempts
      BY <1>1, <3>1 DEF Session
    <3>. HIDE DEF a, r
    <3>3. Matches(a, r, l, t)
      BY <1>3, <3>2 DEF Matches, ControllerFresh, Unresolved
    <3>4. Seen(r, l, t) = a
      BY <1>3, <3>2, <3>3, SeenFields
    <3>. QED BY <1>5, <2>3, <3>4 DEF Acknowledge, r, u
  <2>6. CASE r = Fail(u)
    BY <1>1, <1>5, <2>3, <2>6, FailSeen DEF Acknowledge, u
  <2>7. CASE result = "Retry" /\ r # Fail(u)
    <3>. DEFINE b == [a EXCEPT !.state = "Priming"]
    <3>1. b \in SeenType /\ Others(b, a) /\ b.state = "Priming" /\ b.unresolved = a.unresolved
      BY <1>3 DEF SeenType, Others, FlightSessionState
    <3>2. r = [u EXCEPT !.state = "Priming", !.nextRequestTime = t + AlignmentTimeout]
      BY <2>7 DEF ApplyResult
    <3>3. /\ r \in Session /\ r.state = "Priming" /\ r.generation = u.generation
          /\ r.resetCounter = u.resetCounter /\ r.heartbeatTime = u.heartbeatTime
          /\ r.armed = u.armed /\ r.attempts = u.attempts
      <4>1. t + AlignmentTimeout \in Nat
        BY PolicyAssumption
      <4>. QED BY <1>1, <3>2, <4>1 DEF Session, FlightSessionState
    <3>4. Unresolved(r) <=> Unresolved(u)
      BY <2>1, <3>3 DEF Unresolved
    <3>5. a.unresolved <=> Unresolved(u)
      BY <1>3 DEF Matches
    <3>. HIDE DEF b, r
    <3>6. Seen(r, l, t) = b
      BY <1>1, <3>1, <3>3, <3>4, <3>5, StateSeen
    <3>. QED BY <1>5, <2>3, <3>6 DEF Acknowledge, b, r, u
  <2>. QED BY <2>4, <2>5, <2>6, <2>7 DEF ApplyResult, AlignmentResult
<1>. QED BY <1>4, <1>5

-----------------------------------------------------------------------------
(* The actions.                                                             *)

Here == Seen(session, link, now)

\* A step of the contract, or none that it sees.
ContractStep ==
    \/ Contract!ContractNext
    \/ UNCHANGED <<Here, LastMeasurement>>

\* What the invariant says of the parts.
LEMMA Parts ==
    ASSUME LinkInv
    PROVE  /\ session \in Session /\ link \in Link /\ now \in Nat /\ wire \in Wire
           /\ Here \in SeenType /\ Matches(Here, session, link, now)
           /\ link.offset # 0 => Busy(link)
           /\ link.pending.kind = "Alignment" => link.started
<1>1. session \in Session /\ link \in Link /\ now \in Nat /\ wire \in Wire
  BY InvByParts DEF TypeOK
<1>. QED BY <1>1, InvByParts, SeenFields DEF BufferOf, Here

\* Another state that a record of the contract matches is that record.
LEMMA HereNext ==
    ASSUME LinkInv', NEW b \in SeenType, Matches(b, session', link', now')
    PROVE  Here' = b
<1>1. session' \in Session /\ link' \in Link /\ now' \in Nat
  BY InvByPartsNext DEF TypeOK
<1>. QED BY <1>1, SeenFields DEF Here

\* Time passes.
LEMMA AdvanceSeen ==
    ASSUME LinkInv, LinkInv', Advance
    PROVE  ContractStep
<1>1. now' = now + 1 /\ UNCHANGED <<session, link, wire>>
  BY DEF Advance
<1>2. Matches(Here, session, link, now) /\ Here \in SeenType /\ session \in Session /\ now \in Nat
  BY Parts
<1>3. ControllerFresh(session, now') => ControllerFresh(session, now)
  BY <1>1, <1>2, InvByParts, PolicyAssumption
  DEF ControllerFresh, Heard, Session, OptionalTime, NoTime
<1>4. LastMeasurement' = LastMeasurement
  BY <1>1 DEF LastMeasurement
<1>5. CASE ControllerFresh(session, now') <=> ControllerFresh(session, now)
  <2>1. Matches(Here, session', link', now')
    BY <1>1, <1>2, <1>5 DEF Matches
  <2>2. Here' = Here
    BY <1>2, <2>1, HereNext
  <2>. QED BY <1>4, <2>2 DEF ContractStep
<1>6. CASE ~ControllerFresh(session, now')
  <2>. DEFINE b == [Here EXCEPT !.fresh = FALSE]
  <2>1. b \in SeenType /\ Matches(b, session', link', now')
    BY <1>1, <1>2, <1>6 DEF SeenType, Matches
  <2>2. Here' = b
    BY <2>1, HereNext
  <2>. QED BY <1>4, <2>2 DEF ContractStep, Contract!ContractNext, Contract!Silence, Here
<1>. QED BY <1>3, <1>5, <1>6

\* start_session() between two packets.
LEMMA StartSeen ==
    ASSUME LinkInv, LinkInv', NEW generation \in 1..MaxGeneration, StartOnLink(generation)
    PROVE  ContractStep
<1>1. /\ link.offset = 0 /\ StartAllowed(session, generation)
      /\ session' = StartSession(session, generation)
      /\ link' = [ClearPending(link) EXCEPT !.lastEstimate = NoTime, !.started = TRUE]
      /\ UNCHANGED <<now, wire>>
  BY DEF StartOnLink
<1>2. /\ Matches(Here, session, link, now) /\ Here \in SeenType /\ session \in Session
      /\ link \in Link /\ generation \in Nat /\ generation # NoGeneration
  BY Parts, LinkAssumption DEF NoGeneration
<1>3. /\ session'.state = "WaitingForController" /\ session'.generation = generation
      /\ session'.resetCounter = IF session.generation = NoGeneration THEN session.resetCounter
                                 ELSE (session.resetCounter + 1) % ResetModulus
      /\ session'.heartbeatTime = session.heartbeatTime /\ session'.armed = session.armed
      /\ session'.attempts = 0
  BY <1>1, <1>2 DEF StartSession, Session
<1>. DEFINE c == ClearPending(link)
<1>4. c \in Link /\ c.pending = NoPacket /\ c.offset = 0
  BY <1>2, Cleared
<1>. HIDE DEF c
<1>5. link'.pending.kind # "Measurement" /\ link'.offset = 0 /\ link'.started = TRUE
  BY <1>1, <1>4, EmptyTypes DEF Link, c
<1>. DEFINE b == Contract!Started(Here, generation)
<1>6. ~Here.partial
  BY <1>1, <1>2 DEF Matches
<1>7. /\ b.state = "WaitingForController" /\ b.generation = generation
      /\ b.reset = IF Here.generation = 0 THEN Here.reset ELSE (Here.reset + 1) % ResetModulus
      /\ b.fresh = Here.fresh /\ b.armed = Here.armed /\ b.unresolved = Here.unresolved
      /\ b.started = TRUE /\ b.queued = FALSE /\ b.partial = Here.partial
  BY <1>2, <1>6 DEF Contract!Started, SeenType
<1>8. b \in SeenType
  <2>1. (Here.reset + 1) % ResetModulus \in 0..(ResetModulus - 1)
    BY <1>2, PolicyAssumption DEF SeenType
  <2>. QED BY <1>2, <1>6, <2>1 DEF Contract!Started, SeenType, FlightSessionState
<1>9. ~Unresolved(session) /\ ~Unresolved(session')
  BY <1>1, <1>3 DEF Unresolved, StartAllowed
<1>10. ControllerFresh(session', now') <=> ControllerFresh(session, now)
  BY <1>1, <1>3 DEF ControllerFresh
<1>. HIDE DEF b
<1>11. Matches(b, session', link', now')
  BY <1>2, <1>3, <1>5, <1>6, <1>7, <1>9, <1>10 DEF Matches, NoGeneration
<1>12. Here' = b
  BY <1>8, <1>11, HereNext
<1>13. Contract!MayStart(Here) /\ generation > Here.generation
  BY <1>1, <1>2, <1>9 DEF Contract!MayStart, Matches, StartAllowed, NoGeneration
<1>14. LastMeasurement' = LastMeasurement
  BY <1>1 DEF LastMeasurement
<1>. QED BY <1>12, <1>13, <1>14
     DEF b, Here, ContractStep, Contract!ContractNext, Contract!StartSession

\* The session fails and the link closes with it.  (fail)
LEMMA ClosingSeen ==
    ASSUME LinkInv, LinkInv', NEW s \in Session, NEW l \in Link,
           s.generation = session.generation, s.resetCounter = session.resetCounter,
           s.heartbeatTime = session.heartbeatTime, s.armed = session.armed,
           l.started = link.started, session' = Fail(s), link' = CloseLink(l),
           UNCHANGED <<now, wire>>
    PROVE  Here' = Contract!Closed(Here) /\ ContractStep
<1>1. Here \in SeenType /\ Matches(Here, session, link, now)
  BY Parts
<1>2. /\ session'.state = "Failed" /\ session'.generation = s.generation
      /\ session'.resetCounter = s.resetCounter /\ session'.heartbeatTime = s.heartbeatTime
      /\ session'.armed = s.armed
  BY DEF Fail, Session
<1>. DEFINE c == ClearPending(l)
<1>3. c \in Link /\ c.pending = NoPacket /\ c.offset = 0 /\ c.started = l.started
  BY Cleared
<1>. HIDE DEF c
<1>4. link'.pending.kind # "Measurement" /\ link'.offset = 0 /\ link'.started = link.started
  BY <1>3, EmptyTypes DEF CloseLink, Link, c
<1>. DEFINE b == Contract!Closed(Here)
<1>5. /\ b \in SeenType /\ b.state = "Failed" /\ ~b.unresolved /\ ~b.queued /\ ~b.partial
      /\ b.generation = Here.generation /\ b.reset = Here.reset /\ b.fresh = Here.fresh
      /\ b.armed = Here.armed /\ b.started = Here.started
  BY <1>1 DEF Contract!Closed, Contract!Stopped, SeenType, FlightSessionState
<1>6. ~Unresolved(session') /\ (ControllerFresh(session', now') <=> ControllerFresh(session, now))
  BY <1>2 DEF Unresolved, ControllerFresh
<1>. HIDE DEF b
<1>7. Matches(b, session', link', now')
  BY <1>1, <1>2, <1>4, <1>5, <1>6 DEF Matches
<1>8. Here' = b
  BY <1>5, <1>7, HereNext
<1>9. LastMeasurement' = LastMeasurement
  BY DEF LastMeasurement
<1>. QED BY <1>8, <1>9
     DEF b, Here, ContractStep, Contract!ContractNext, Contract!Poll, Contract!Close

\* end_session() empties the buffer, or closes the link over what is half sent.
LEMMA EndSeen ==
    ASSUME LinkInv, LinkInv', EndSession
    PROVE  ContractStep
<1>1. /\ Here \in SeenType /\ Matches(Here, session, link, now)
      /\ session \in Session /\ link \in Link
  BY Parts
<1>2. UNCHANGED <<now, wire>> /\ LastMeasurement' = LastMeasurement
  BY DEF EndSession, LastMeasurement
<1>. DEFINE c == ClearPending(link)
            b == Contract!Ended(Here)
<1>3. c \in Link /\ c.pending = NoPacket /\ c.offset = 0
  BY <1>1, Cleared
<1>. HIDE DEF c
<1>4. link'.pending.kind # "Measurement" /\ link'.offset = 0 /\ link'.started = FALSE
  <2>1. link' = [c EXCEPT !.started = FALSE] \/ link' = [[c EXCEPT !.open = FALSE] EXCEPT !.started = FALSE]
    BY DEF EndSession, CloseLink, c
  <2>. QED BY <1>3, <2>1, EmptyTypes DEF Link
<1>5. CASE link.offset # 0
  <2>1. session' = Fail(session)
    BY <1>5 DEF EndSession
  <2>2. /\ session'.state = "Failed" /\ session'.generation = session.generation
        /\ session'.resetCounter = session.resetCounter
        /\ session'.heartbeatTime = session.heartbeatTime /\ session'.armed = session.armed
    BY <1>1, <2>1 DEF Fail, Session
  <2>3. Here.partial
    BY <1>1, <1>5 DEF Matches
  <2>4. /\ b \in SeenType /\ b.state = "Failed" /\ ~b.unresolved /\ ~b.queued /\ ~b.partial
        /\ b.generation = Here.generation /\ b.reset = Here.reset /\ b.fresh = Here.fresh
        /\ b.armed = Here.armed /\ ~b.started
    BY <1>1, <2>3 DEF Contract!Ended, Contract!Closed, Contract!Stopped, SeenType,
                      FlightSessionState
  <2>5. ~Unresolved(session')
        /\ (ControllerFresh(session', now') <=> ControllerFresh(session, now))
    BY <1>2, <2>2 DEF Unresolved, ControllerFresh
  <2>. HIDE DEF b
  <2>6. Matches(b, session', link', now')
    BY <1>1, <1>4, <2>2, <2>4, <2>5 DEF Matches
  <2>7. Here' = b
    BY <2>4, <2>6, HereNext
  <2>. QED BY <1>2, <2>7 DEF b, Here, ContractStep, Contract!ContractNext, Contract!EndSession
<1>6. CASE link.offset = 0
  <2>1. session' = session
    BY <1>6 DEF EndSession
  <2>2. ~Here.partial
    BY <1>1, <1>6 DEF Matches
  <2>3. /\ b \in SeenType /\ b.state = Here.state /\ b.unresolved = Here.unresolved
        /\ ~b.queued /\ b.partial = Here.partial /\ b.generation = Here.generation
        /\ b.reset = Here.reset /\ b.fresh = Here.fresh /\ b.armed = Here.armed /\ ~b.started
    BY <1>1, <2>2 DEF Contract!Ended, SeenType
  <2>. HIDE DEF b
  <2>4. Matches(b, session', link', now')
    BY <1>1, <1>2, <1>4, <2>1, <2>2, <2>3 DEF Matches
  <2>5. Here' = b
    BY <2>3, <2>4, HereNext
  <2>. QED BY <1>2, <2>5 DEF b, Here, ContractStep, Contract!ContractNext, Contract!EndSession
<1>. QED BY <1>5, <1>6

\* publish() queues only under the permission of the moment.
LEMMA PublishSeen ==
    ASSUME LinkInv, LinkInv', NEW estimate \in Estimate, Publish(estimate)
    PROVE  ContractStep
<1>. DEFINE s == Tick(session, now)
            a == Seen(s, link, now)
            q == Queue(link, MeasurementPacket(s, estimate), MeasurementDeadline(estimate))
<1>1. /\ session' = s /\ UNCHANGED <<now, wire>>
      /\ link' = IF MayQueue(s, estimate) THEN [q EXCEPT !.lastEstimate = estimate.timestamp]
                 ELSE link
  BY DEF Publish
<1>2. session \in Session /\ link \in Link /\ now \in Nat /\ (link.offset # 0 => Busy(link))
  BY Parts
<1>3. s \in Session /\ a \in Contract!Ticked(Here)
  BY <1>2, TickFrame, TickSeen DEF Here
<1>. HIDE DEF s
<1>4. a \in SeenType /\ Matches(a, s, link, now)
  BY <1>2, <1>3, SeenFields
<1>5. LastMeasurement' = LastMeasurement
  BY <1>1 DEF LastMeasurement
<1>6. CASE ~MayQueue(s, estimate)
  <2>1. Here' = a
    BY <1>1, <1>6 DEF Here
  <2>. QED BY <1>3, <1>5, <2>1
       DEF Here, ContractStep, Contract!ContractNext, Contract!Publish, Contract!Published
<1>7. CASE MayQueue(s, estimate)
  <2>1. link' = [q EXCEPT !.lastEstimate = estimate.timestamp]
    BY <1>1, <1>7
  <2>2. /\ link'.pending.kind = "Measurement" /\ link'.started = link.started
        /\ link'.offset = link.offset
    BY <1>2, <2>1 DEF Queue, MeasurementPacket, Link
  <2>3. link.started /\ CanPublish(s, now) /\ ~Busy(link)
    BY <1>7 DEF MayQueue
  <2>4. a.started /\ Contract!Permitted(a) /\ ~a.queued /\ ~a.partial
    BY <1>2, <1>4, <2>3 DEF Matches, CanPublish, Contract!Permitted, Busy, NoGeneration
  <2>. DEFINE b == [a EXCEPT !.queued = TRUE]
  <2>. HIDE DEF a
  <2>5. b \in SeenType /\ Matches(b, session', link', now')
    BY <1>1, <1>4, <2>2 DEF SeenType, Matches
  <2>6. Here' = b
    BY <2>5, HereNext
  <2>7. b \in Contract!Published(Here)
    BY <1>3, <2>4 DEF Contract!Published
  <2>. QED BY <1>5, <2>6, <2>7 DEF Here, ContractStep, Contract!ContractNext, Contract!Publish
<1>. QED BY <1>6, <1>7

\* What poll() reads.
LEMMA ReadingSeen ==
    ASSUME LinkInv, LinkInv',
           \/ PollReadError \/ PollBegin
           \/ \E armed \in BOOLEAN : ReceiveHeartbeat(armed)
           \/ \E result \in AlignmentResult : ReceiveAck(result)
    PROVE  ContractStep
<1>0. session \in Session /\ link \in Link /\ now \in Nat
  BY Parts
<1>1. CASE PollReadError
  <2>. DEFINE s == Tick(session, now)
  <2>1. /\ s \in Session /\ s.generation = session.generation
        /\ s.resetCounter = session.resetCounter /\ s.armed = session.armed
        /\ s.heartbeatTime = session.heartbeatTime
    BY <1>0, TickFrame
  <2>2. session' = Fail(s) /\ link' = CloseLink(link) /\ UNCHANGED <<now, wire>>
    BY <1>1 DEF PollReadError, EndPoll
  <2>. HIDE DEF s
  <2>. QED BY <1>0, <2>1, <2>2, ClosingSeen
<1>2. CASE PollBegin
  <2>1. Here' \in Contract!Ticked(Here) /\ LastMeasurement' = LastMeasurement
    BY <1>0, <1>2, TickSeen DEF PollBegin, Here, LastMeasurement
  <2>. QED BY <2>1 DEF Here, ContractStep, Contract!ContractNext, Contract!Poll
<1>3. ASSUME NEW armed \in BOOLEAN, ReceiveHeartbeat(armed) PROVE ContractStep
  <2>1. Here' \in Contract!Heard(Here, armed) /\ LastMeasurement' = LastMeasurement
    BY <1>0, <1>3, HeartbeatSeen DEF ReceiveHeartbeat, Here, LastMeasurement
  <2>. QED BY <2>1
       DEF Here, ContractStep, Contract!ContractNext, Contract!Poll, Contract!HearHeartbeat
<1>4. ASSUME NEW result \in AlignmentResult, ReceiveAck(result) PROVE ContractStep
  <2>1. Here' \in Contract!Answered(Here) /\ LastMeasurement' = LastMeasurement
    BY <1>0, <1>4, AcknowledgeSeen DEF ReceiveAck, Here, LastMeasurement
  <2>. QED BY <2>1
       DEF Here, ContractStep, Contract!ContractNext, Contract!Poll, Contract!HearAnswer
<1>. QED BY <1>1, <1>2, <1>3, <1>4

\* A measurement that is not begun is withdrawn, or bytes of another packet go out.
LEMMA ControlSeen ==
    ASSUME LinkInv, LinkInv', session.state # "Failed",
           link.pending.kind = "Measurement" => link.offset = 0,
           link'.pending.kind # "Measurement", link'.started = link.started,
           LastMeasurement' = LastMeasurement, UNCHANGED <<now, session>>
    PROVE  ContractStep
<1>1. Here \in SeenType /\ Matches(Here, session, link, now)
  BY Parts
<1>. DEFINE whole == link'.offset = 0
            b == [Here EXCEPT !.queued = FALSE, !.partial = ~whole]
<1>2. b \in SeenType /\ Matches(b, session', link', now')
  BY <1>1 DEF SeenType, Matches
<1>3. Here' = b
  BY <1>2, HereNext
<1>4. Here.state # "Failed" /\ (Here.queued => ~Here.partial)
  BY <1>1 DEF Matches
<1>5. \E w \in BOOLEAN : Here' = [Here EXCEPT !.queued = FALSE, !.partial = ~w]
  BY <1>3
<1>. QED BY <1>4, <1>5
     DEF Here, ContractStep, Contract!ContractNext, Contract!Poll, Contract!SendControl

\* poll() and start_session() close the link, or send nothing.
LEMMA QuietSeen ==
    ASSUME LinkInv, LinkInv',
           StartDuringPartial \/ PollClose \/ PollWriteError \/ PollFull \/ PollQuiet
    PROVE  ContractStep
<1>0. /\ session \in Session /\ link \in Link /\ (link.offset # 0 => Busy(link))
      /\ Here \in SeenType /\ Matches(Here, session, link, now)
  BY Parts
<1>1. CASE StartDuringPartial \/ PollClose
  <2>1. session' = Fail(session) /\ link' = CloseLink(link) /\ UNCHANGED <<now, wire>>
    BY <1>1 DEF StartDuringPartial, PollClose, FailLink, EndPoll
  <2>. QED BY <1>0, <2>1, ClosingSeen
<1>2. CASE PollWriteError
  <2>1. /\ session' = Fail(session) /\ link' = CloseLink(Outgoing) /\ UNCHANGED <<now, wire>>
        /\ phase = "reading" /\ ~MustClose
    BY <1>2 DEF PollWriteError, EndPoll
  <2>2. Outgoing \in Link /\ Outgoing.started = link.started
    BY <2>1, OutgoingBuffer
  <2>. QED BY <1>0, <2>1, <2>2, ClosingSeen
<1>3. CASE PollFull
  <2>1. /\ link' = Dropped /\ ~MustClose /\ UNCHANGED <<now, session, wire>>
        /\ LastMeasurement' = LastMeasurement
    BY <1>3 DEF PollFull, EndPoll, LastMeasurement
  <2>2. CASE ~Withdrawn
    <3>1. link' = link
      BY <2>1, <2>2 DEF Dropped
    <3>2. Here' = Here
      BY <2>1, <3>1 DEF Here
    <3>. QED BY <2>1, <3>2 DEF ContractStep
  <2>3. CASE Withdrawn
    <3>. DEFINE c == ClearPending(link)
    <3>1. c.pending = NoPacket /\ c.started = link.started
      BY <1>0, Cleared
    <3>2. link' = c
      BY <2>1, <2>3 DEF Dropped
    <3>. HIDE DEF c
    <3>3. link'.pending.kind # "Measurement" /\ link'.started = link.started
      BY <3>1, <3>2, EmptyTypes
    <3>4. link.offset = 0 /\ session.state # "Failed"
      BY <2>1, <2>3 DEF MustClose
    <3>. QED BY <2>1, <3>3, <3>4, ControlSeen
  <2>. QED BY <2>2, <2>3
<1>4. CASE PollQuiet
  <2>1. /\ link' = Outgoing /\ ~Busy(Outgoing) /\ ~MustClose /\ phase = "reading"
        /\ UNCHANGED <<now, session, wire>> /\ LastMeasurement' = LastMeasurement
    BY <1>4 DEF PollQuiet, EndPoll, LastMeasurement
  <2>2. Outgoing.started = link.started /\ (link.offset # 0 => Outgoing = link)
    BY <2>1, OutgoingBuffer
  <2>3. link.offset = 0
    BY <1>0, <2>1, <2>2
  <2>4. link'.pending.kind # "Measurement" /\ session.state # "Failed"
    BY <2>1 DEF Busy, MustClose
  <2>. QED BY <2>1, <2>2, <2>3, <2>4, ControlSeen
<1>. QED BY <1>1, <1>2, <1>3, <1>4

\* What poll() is about to send, and what of it has gone out already.
LEMMA Sending ==
    ASSUME LinkInv, phase = "reading", ~MustClose, Busy(Outgoing)
    PROVE  /\ Outgoing \in Link /\ Outgoing.started = link.started
           /\ Outgoing.offset = link.offset
           /\ session.state # "Failed"
           /\ Outgoing.pending.kind = "Measurement" =>
                 /\ link.started /\ CanPublish(session, now) /\ Outgoing = link
                 /\ Outgoing.pending.generation = session.generation
                 /\ Outgoing.pending.reset = session.resetCounter
           /\ Outgoing.pending.kind = "Alignment" =>
                 link.started /\ AlignmentDue(session, now)
           /\ Outgoing.pending.kind # "Measurement" =>
                 /\ link.pending.kind = "Measurement" => link.offset = 0
                 /\ LastMeasurement = wire.last
<1>1. /\ Outgoing \in Link /\ Outgoing.started = link.started /\ Outgoing.offset = link.offset
      /\ link.offset # 0 => Outgoing = link
      /\ BufferOf(Outgoing, session, now)
      /\ Outgoing.pending.kind = "Measurement" => CanPublish(session, now)
      /\ Outgoing.pending.kind = "Measurement" => Outgoing = link
      /\ Outgoing.pending.kind = "Alignment" => AlignmentDue(session, now)
  BY OutgoingBuffer
<1>2. session.state # "Failed"
  BY DEF MustClose
<1>3. link.open /\ WireOf(link, wire)
  BY InvByParts
<1>4. wire.partial = IF link.offset = 0 THEN NoPacket ELSE link.pending
  BY <1>3 DEF WireOf
<1>5. Outgoing.pending.kind # "Measurement" => wire.partial.kind # "Measurement"
  BY <1>1, <1>4, EmptyTypes
<1>. QED BY <1>1, <1>2, <1>5 DEF BufferOf, LastMeasurement

\* The first bytes of a packet go out, or more of them.
LEMMA PartialSeen ==
    ASSUME LinkInv, LinkInv', NEW n \in 0..(PacketSize - 1), PollPartial(n)
    PROVE  ContractStep
<1>. DEFINE l == Outgoing
<1>1. /\ phase = "reading" /\ ~MustClose /\ Busy(l) /\ n < PacketSize - l.offset
      /\ link' = [l EXCEPT !.offset = @ + n] /\ wire' = Sent(l, n)
      /\ UNCHANGED <<now, session>>
  BY DEF PollPartial, EndPoll
<1>2. /\ l \in Link /\ l.started = link.started /\ l.offset = link.offset
      /\ session.state # "Failed"
      /\ l.pending.kind = "Measurement" =>
            /\ link.started /\ CanPublish(session, now) /\ l = link
            /\ l.pending.generation = session.generation
            /\ l.pending.reset = session.resetCounter
      /\ l.pending.kind # "Measurement" =>
            /\ link.pending.kind = "Measurement" => link.offset = 0
            /\ LastMeasurement = wire.last
  BY <1>1, Sending
<1>3. /\ l.offset \in 0..(PacketSize - 1) /\ PacketSize \in Nat \ {0}
      /\ Here \in SeenType /\ Matches(Here, session, link, now)
  BY <1>2, Parts, LinkAssumption DEF Link
<1>4. n = 0 => wire' = wire
  BY <1>1 DEF Sent
<1>5. n # 0 => wire'.partial = l.pending /\ wire'.last = wire.last
  <2>1. n # 0 => l.offset + n <= PacketSize /\ l.offset + n # PacketSize
    BY <1>1, <1>3
  <2>. QED BY <1>1, <2>1, WireStep
<1>. HIDE DEF l
<1>6. /\ link'.pending = l.pending /\ link'.started = l.started
      /\ link'.offset = l.offset + n
  BY <1>1, <1>2 DEF Link
<1>7. CASE l.pending.kind # "Measurement"
  <2>1. LastMeasurement' = LastMeasurement
    BY <1>2, <1>4, <1>5, <1>7 DEF LastMeasurement
  <2>. QED BY <1>1, <1>2, <1>6, <1>7, <2>1, ControlSeen
<1>8. CASE l.pending.kind = "Measurement" /\ n = 0
  <2>1. Matches(Here, session', link', now')
    BY <1>1, <1>2, <1>3, <1>6, <1>8 DEF Matches
  <2>2. Here' = Here
    BY <1>3, <2>1, HereNext
  <2>. QED BY <1>4, <1>8, <2>2 DEF ContractStep, LastMeasurement
<1>9. CASE l.pending.kind = "Measurement" /\ n # 0
  <2>. DEFINE b == [Here EXCEPT !.queued = TRUE, !.partial = TRUE]
  <2>1. link'.offset # 0
    BY <1>3, <1>6, <1>9
  <2>2. b \in SeenType /\ Matches(b, session', link', now')
    BY <1>1, <1>2, <1>3, <1>6, <1>9, <2>1 DEF SeenType, Matches
  <2>3. Here' = b
    BY <2>2, HereNext
  <2>4. \E whole \in BOOLEAN : Here' = [Here EXCEPT !.queued = ~whole, !.partial = ~whole]
    <3>1. b = [Here EXCEPT !.queued = ~FALSE, !.partial = ~FALSE]
      OBVIOUS
    <3>. QED BY <2>3, <3>1
  <2>5. Here.queued /\ Here.started /\ Contract!Permitted(Here)
    BY <1>2, <1>3, <1>9 DEF Matches, Contract!Permitted, CanPublish, NoGeneration
  <2>6. LastMeasurement'.generation = Here.generation /\ LastMeasurement'.reset = Here.reset
    BY <1>2, <1>3, <1>5, <1>9 DEF LastMeasurement, Matches
  <2>. QED BY <2>4, <2>5, <2>6
       DEF Here, ContractStep, Contract!ContractNext, Contract!Poll, Contract!SendMeasurement
<1>. QED BY <1>7, <1>8, <1>9

\* The last byte of a packet goes out.
LEMMA WholeSeen ==
    ASSUME LinkInv, LinkInv', PollWhole
    PROVE  ContractStep
<1>. DEFINE l == Outgoing
            c == ClearPending(l)
            m == l.pending
<1>1. /\ phase = "reading" /\ ~MustClose /\ Busy(l)
      /\ wire' = Sent(l, PacketSize - l.offset)
  BY DEF PollWhole
<1>2. /\ l \in Link /\ l.started = link.started /\ l.offset = link.offset
      /\ session.state # "Failed"
      /\ m.kind = "Measurement" =>
            /\ link.started /\ CanPublish(session, now) /\ l = link
            /\ m.generation = session.generation /\ m.reset = session.resetCounter
      /\ m.kind = "Alignment" => link.started /\ AlignmentDue(session, now)
      /\ m.kind # "Measurement" =>
            /\ link.pending.kind = "Measurement" => link.offset = 0
            /\ LastMeasurement = wire.last
  BY <1>1, Sending
<1>3. now' = now /\ link' = c /\ session' = Completed(m.kind, m.timestamp)
  BY <1>2 DEF PollWhole, EndPoll
<1>4. /\ session \in Session /\ now \in Nat /\ m \in Packet
      /\ l.offset \in 0..(PacketSize - 1) /\ PacketSize \in Nat \ {0}
      /\ Here \in SeenType /\ Matches(Here, session, link, now)
  BY <1>2, Parts, LinkAssumption DEF Link
<1>5. c.pending = NoPacket /\ c.offset = 0 /\ c.started = l.started
  BY <1>2, Cleared
<1>6. /\ wire'.partial = NoPacket
      /\ wire'.last = IF m.kind = "Measurement" THEN m ELSE wire.last
  <2>. DEFINE n == PacketSize - l.offset
  <2>1. n \in Nat /\ n # 0 /\ l.offset + n = PacketSize
    BY <1>4
  <2>. HIDE DEF n
  <2>2. l.offset + n <= PacketSize
    BY <2>1, <1>4
  <2>3. Sent(l, n) =
          [partial |-> IF l.offset + n = PacketSize THEN NoPacket ELSE l.pending,
           units |-> IF l.offset + n = PacketSize THEN 0 ELSE l.offset + n,
           intact |-> TRUE, fresh |-> TRUE,
           last |-> IF l.offset + n = PacketSize /\ l.pending.kind = "Measurement"
                    THEN l.pending ELSE wire.last]
    BY <1>1, <2>1, <2>2, WireStep
  <2>. QED BY <1>1, <2>1, <2>3 DEF n
<1>7. m.kind \in {"Measurement", "Alignment", "Heartbeat"}
  BY <1>1, <1>4 DEF Packet, PendingKind, Busy
<1>. HIDE DEF l, c, m
<1>8. /\ link'.pending.kind # "Measurement" /\ link'.offset = 0
      /\ link'.started = link.started
  BY <1>2, <1>3, <1>5, EmptyTypes
<1>9. LastMeasurement' = IF m.kind = "Measurement" THEN m ELSE wire.last
  BY <1>6, EmptyTypes DEF LastMeasurement
<1>10. CASE m.kind = "Heartbeat"
  <2>1. session' = session
    BY <1>3, <1>10 DEF Completed
  <2>. QED BY <1>2, <1>3, <1>8, <1>9, <1>10, <2>1, ControlSeen
<1>11. CASE m.kind = "Measurement"
  <2>. DEFINE b == [Here EXCEPT !.queued = FALSE, !.partial = FALSE]
  <2>1. /\ session'.state = session.state /\ session'.generation = session.generation
        /\ session'.resetCounter = session.resetCounter
        /\ session'.heartbeatTime = session.heartbeatTime
        /\ session'.armed = session.armed /\ session'.attempts = session.attempts
    BY <1>3, <1>4, <1>11 DEF Completed, MeasurementSent, Session
  <2>2. /\ ControllerFresh(session', now') <=> ControllerFresh(session, now)
        /\ Unresolved(session') <=> Unresolved(session)
    BY <1>3, <2>1 DEF ControllerFresh, Unresolved
  <2>3. b \in SeenType /\ Matches(b, session', link', now')
    BY <1>4, <1>8, <2>1, <2>2 DEF SeenType, Matches
  <2>4. Here' = b
    BY <2>3, HereNext
  <2>5. \E whole \in BOOLEAN : Here' = [Here EXCEPT !.queued = ~whole, !.partial = ~whole]
    <3>1. b = [Here EXCEPT !.queued = ~TRUE, !.partial = ~TRUE]
      OBVIOUS
    <3>. QED BY <2>4, <3>1
  <2>6. Here.queued /\ Here.started /\ Contract!Permitted(Here)
    BY <1>2, <1>4, <1>11 DEF Matches, Contract!Permitted, CanPublish, NoGeneration, m
  <2>7. LastMeasurement'.generation = Here.generation /\ LastMeasurement'.reset = Here.reset
    BY <1>2, <1>4, <1>9, <1>11 DEF Matches
  <2>. QED BY <2>5, <2>6, <2>7
       DEF Here, ContractStep, Contract!ContractNext, Contract!Poll, Contract!SendMeasurement
<1>12. CASE m.kind = "Alignment"
  <2>. DEFINE b == [Here EXCEPT !.state = "AwaitingAlignment", !.unresolved = TRUE,
                                !.queued = FALSE, !.partial = FALSE]
  <2>1. /\ session'.state = "AwaitingAlignment" /\ session'.generation = session.generation
        /\ session'.resetCounter = session.resetCounter
        /\ session'.heartbeatTime = session.heartbeatTime
        /\ session'.armed = session.armed /\ session'.attempts = session.attempts + 1
    BY <1>3, <1>4, <1>12 DEF Completed, AlignmentSent, Session
  <2>2. session.attempts \in Nat
    BY <1>4, PolicyAssumption DEF Session
  <2>3. /\ ControllerFresh(session', now') <=> ControllerFresh(session, now)
        /\ Unresolved(session')
    BY <1>3, <2>1, <2>2 DEF ControllerFresh, Unresolved
  <2>4. b \in SeenType /\ Matches(b, session', link', now')
    BY <1>4, <1>8, <2>1, <2>3 DEF SeenType, Matches, FlightSessionState
  <2>5. Here' = b
    BY <2>4, HereNext
  <2>6. Here.started /\ Here.state = "Priming" /\ Contract!Disarmed(Here)
    BY <1>2, <1>4, <1>12 DEF Matches, Contract!Disarmed, AlignmentDue, CanPublish
  <2>7. Here.queued => ~Here.partial
    BY <1>2, <1>4, <1>12 DEF Matches
  <2>8. LastMeasurement' = LastMeasurement
    BY <1>2, <1>9, <1>12
  <2>. QED BY <2>5, <2>6, <2>7, <2>8
       DEF Here, ContractStep, Contract!ContractNext, Contract!Poll, Contract!RequestAlignment
<1>. QED BY <1>7, <1>10, <1>11, <1>12

-----------------------------------------------------------------------------
(* The theorem.                                                             *)

\* A new link is a new link of the contract.
LEMMA InitSeen == Init => Contract!ContractInit
<1>. SUFFICES ASSUME Init PROVE Contract!ContractInit
  OBVIOUS
<1>1. LinkInv
  BY InitLink
<1>2. Here \in SeenType /\ Matches(Here, session, link, now)
  BY <1>1, Parts
<1>3. PICK initial \in 0..(ResetModulus - 1) : session = NewSession(initial)
  BY DEF Init
<1>. DEFINE b == Contract!NewLink(initial)
<1>4. b \in SeenType
  BY DEF Contract!NewLink, SeenType, FlightSessionState
<1>5. ~ControllerFresh(session, now) /\ ~Unresolved(session)
  BY <1>3 DEF NewSession, ControllerFresh, Unresolved
<1>6. Matches(b, session, link, now)
  BY <1>3, <1>5, EmptyTypes DEF Contract!NewLink, Matches, NewSession, Init, NoGeneration
<1>7. session \in Session /\ link \in Link /\ now \in Nat
  BY <1>1, Parts
<1>. HIDE DEF b
<1>8. Here = b
  BY <1>4, <1>6, <1>7, SeenFields DEF Here
<1>9. LastMeasurement.generation = 0 /\ LastMeasurement.reset = 0
  BY DEF Init, LastMeasurement, NoPacket, NoGeneration
<1>. QED BY <1>8, <1>9 DEF b, Here, Contract!ContractInit

\* Every step of the link is one of the contract, or is not seen.
LEMMA StepSeen == LinkInv /\ LinkInv' /\ [Next]_vars => ContractStep
<1>. SUFFICES ASSUME LinkInv, LinkInv', [Next]_vars PROVE ContractStep
  OBVIOUS
<1>1. CASE Advance
  BY <1>1, AdvanceSeen
<1>2. ASSUME NEW generation \in 1..MaxGeneration, StartOnLink(generation) PROVE ContractStep
  BY <1>2, StartSeen
<1>3. CASE StartDuringPartial \/ PollClose \/ PollWriteError \/ PollFull \/ PollQuiet
  BY <1>3, QuietSeen
<1>4. CASE EndSession
  BY <1>4, EndSeen
<1>5. ASSUME NEW estimate \in Estimate, Publish(estimate) PROVE ContractStep
  BY <1>5, PublishSeen
<1>6. CASE \/ PollReadError \/ PollBegin
           \/ \E armed \in BOOLEAN : ReceiveHeartbeat(armed)
           \/ \E result \in AlignmentResult : ReceiveAck(result)
  BY <1>6, ReadingSeen
<1>7. ASSUME NEW n \in 0..(PacketSize - 1), PollPartial(n) PROVE ContractStep
  BY <1>7, PartialSeen
<1>8. CASE PollWhole
  BY <1>8, WholeSeen
<1>9. CASE UNCHANGED vars
  BY <1>9 DEF vars, ContractStep, Here, LastMeasurement
<1>. QED BY <1>1, <1>2, <1>3, <1>4, <1>5, <1>6, <1>7, <1>8, <1>9 DEF Next

\* The link does to the application that owns it only what LinkContract lets it do:
\* what FlightApplication puts in the place of the class is a true abstraction of it.
THEOREM LinkKeepsContract == Spec => KeepsContract
<1>1. ContractStep =>
        [Contract!ContractNext]_<<Seen(session, link, now),
            [generation |-> LastMeasurement.generation, reset |-> LastMeasurement.reset]>>
  BY DEF ContractStep, Here
<1>2. LinkInv /\ LinkInv' /\ [Next]_vars =>
        [Contract!ContractNext]_<<Seen(session, link, now),
            [generation |-> LastMeasurement.generation, reset |-> LastMeasurement.reset]>>
  BY <1>1, StepSeen
<1>. QED BY <1>2, InitSeen, LinkInvariant, PTL DEF Spec, KeepsContract, Contract!ContractSpec
===============================================================================
