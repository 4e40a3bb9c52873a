----------------------------- MODULE MavlinkLink -----------------------------
(***************************************************************************)
(* class MavlinkLink of src/mavlink_link.cpp: the one owner of the byte    *)
(* stream, of the transmit buffer and of a FlightSession, serviced by one  *)
(* communication loop.  The stream reads and writes without blocking, may  *)
(* take any part of a packet, and may fail.                                *)
(*                                                                         *)
(* poll() reads the clock once and runs to its end, but what it reads is   *)
(* any number of messages in any order, so it is modelled as PollBegin,    *)
(* one Receive per decoded message and one of the ways it ends; no other   *)
(* call and no time comes between these (phase).  An operator X_Slip just  *)
(* before X is X with one slip put in, which TLC has to detect.            *)
(***************************************************************************)
EXTENDS SessionPolicy

CONSTANTS
    HeartbeatPeriod,    \* queue_heartbeat: one second
    PacketSize,         \* units the transport may split a packet into
    MaxNow,             \* bound: the clock stops here
    MaxGeneration       \* bound: the last estimator generation

ASSUME LinkAssumption ==
    /\ HeartbeatPeriod \in Nat \ {0}
    /\ PacketSize \in Nat \ {0}
    /\ MaxNow \in Nat
    /\ MaxGeneration \in Nat

VARIABLES
    now,        \* the monotonic clock
    session,    \* session_
    link,       \* the other fields of the object
    phase,      \* where poll() is
    wire        \* what the flight controller has been sent (history)

vars == <<now, session, link, phase, wire>>

PendingKind == {"None", "Measurement", "Alignment", "Heartbeat"}

\* The bytes of the transmit buffer, by what they say.
Packet == [kind : PendingKind, generation : Nat, reset : 0..(ResetModulus - 1),
           timestamp : Nat]
NoPacket == [kind |-> "None", generation |-> NoGeneration, reset |-> 0, timestamp |-> 0]

Link ==
    [open : BOOLEAN,                \* stream_
     started : BOOLEAN,
     pending : Packet,              \* pending_, pending_kind_, pending_timestamp_
     offset : 0..(PacketSize - 1),  \* pending_offset_
     deadline : Nat,                \* pending_deadline_
     nextHeartbeat : Nat,
     lastEstimate : OptionalTime]   \* last_estimate_time_

Phase == {"idle", "reading", "escaped"}

(***************************************************************************)
(* wire.partial, wire.units  the packet whose first bytes are out, and how *)
(*                           many of them                                  *)
(* wire.intact    every packet so far went out whole, one after another    *)
(* wire.fresh     every measurement so far was within the age limit when   *)
(*                its last byte went out                                   *)
(* wire.last      the last whole measurement                               *)
(***************************************************************************)
Wire == [partial : Packet, units : 0..(PacketSize - 1), intact : BOOLEAN,
         fresh : BOOLEAN, last : Packet]

TypeOK ==
    /\ now \in Nat
    /\ session \in Session
    /\ link \in Link
    /\ phase \in Phase
    /\ wire \in Wire

Init ==
    /\ now = 0
    /\ \E initial \in 0..(ResetModulus - 1) : session = NewSession(initial)
    /\ link = [open |-> TRUE, started |-> FALSE, pending |-> NoPacket, offset |-> 0,
               deadline |-> 0, nextHeartbeat |-> 0, lastEstimate |-> NoTime]
    /\ phase = "idle"
    /\ wire = [partial |-> NoPacket, units |-> 0, intact |-> TRUE,
               fresh |-> TRUE, last |-> NoPacket]

-----------------------------------------------------------------------------
(* The transmit buffer *)

Busy(l) == l.pending.kind # "None"

ClearPending(l) == [l EXCEPT !.pending = NoPacket, !.offset = 0]

Queue(l, packet, deadline) == [l EXCEPT !.pending = packet, !.deadline = deadline]

CloseLink(l) == [ClearPending(l) EXCEPT !.open = FALSE]

\* MavlinkLink::fail
FailLink ==
    /\ session' = Fail(session)
    /\ link' = CloseLink(link)

-----------------------------------------------------------------------------
(* Calls of the application *)

Advance ==
    /\ phase = "idle"
    /\ now < MaxNow
    /\ now' = now + 1
    /\ UNCHANGED <<session, link, phase, wire>>

StartOnLink(generation) ==
    /\ phase = "idle"
    /\ link.offset = 0
    /\ StartAllowed(session, generation)
    /\ session' = StartSession(session, generation)
    /\ link' = [ClearPending(link) EXCEPT !.lastEstimate = NoTime, !.started = TRUE]
    /\ UNCHANGED <<now, phase, wire>>

\* start_session() during a partial transmission fails the link and throws.
StartDuringPartial ==
    /\ phase = "idle"
    /\ link.offset # 0
    /\ FailLink
    /\ UNCHANGED <<now, phase, wire>>

EndSession_DropsPartial ==
    /\ phase = "idle"
    /\ link' = [ClearPending(link) EXCEPT !.started = FALSE]
    /\ UNCHANGED <<now, session, phase, wire>>

EndSession ==
    /\ phase = "idle"
    /\ IF link.offset # 0
       THEN /\ session' = Fail(session)
            /\ link' = [CloseLink(link) EXCEPT !.started = FALSE]
       ELSE /\ link' = [ClearPending(link) EXCEPT !.started = FALSE]
            /\ UNCHANGED session
    /\ UNCHANGED <<now, phase, wire>>

(***************************************************************************)
(* validate_estimate and fits_wire: "usable" stands for a Ready estimate   *)
(* with finite values, a proper orientation and components a float holds.  *)
(***************************************************************************)
Estimate == [generation : 1..MaxGeneration, timestamp : 0..(now + 1), usable : BOOLEAN]

ValidEstimate(estimate, generation) ==
    /\ estimate.usable
    /\ estimate.generation = generation
    /\ estimate.timestamp <= now
    /\ now - estimate.timestamp <= MaxEstimateAge

MayQueue_HeartbeatWaits(s, estimate) ==
    /\ link.started /\ link.open /\ CanPublish(s, now)
    /\ ValidEstimate(estimate, s.generation)
    /\ link.lastEstimate # NoTime => estimate.timestamp > link.lastEstimate
    /\ ~Busy(link) /\ ~AlignmentDue(s, now)

MayQueue_AnyOrder(s, estimate) ==
    /\ link.started /\ link.open /\ CanPublish(s, now)
    /\ ValidEstimate(estimate, s.generation)
    /\ ~Busy(link) /\ ~AlignmentDue(s, now) /\ now < link.nextHeartbeat

MayQueue(s, estimate) ==
    /\ link.started /\ link.open /\ CanPublish(s, now)
    /\ ValidEstimate(estimate, s.generation)
    /\ link.lastEstimate # NoTime => estimate.timestamp > link.lastEstimate
    /\ ~Busy(link)
    /\ ~AlignmentDue(s, now)
    /\ now < link.nextHeartbeat

MeasurementPacket(s, estimate) ==
    [kind |-> "Measurement", generation |-> estimate.generation,
     reset |-> s.resetCounter, timestamp |-> estimate.timestamp]

MeasurementDeadline_FromNow(estimate) == now + MaxEstimateAge

MeasurementDeadline(estimate) == now + (MaxEstimateAge - (now - estimate.timestamp))

Publish(estimate) ==
    LET s == Tick(session, now)
    IN  /\ phase = "idle"
        /\ session' = s
        /\ link' = IF MayQueue(s, estimate)
                   THEN [Queue(link, MeasurementPacket(s, estimate),
                               MeasurementDeadline(estimate))
                            EXCEPT !.lastEstimate = estimate.timestamp]
                   ELSE link
        /\ UNCHANGED <<now, phase, wire>>

-----------------------------------------------------------------------------
(* poll() *)

EndPoll == phase' = "idle" /\ UNCHANGED now

\* read() throws std::runtime_error: an error or a hangup of the stream.
PollReadError ==
    /\ phase = "idle"
    /\ link.open
    /\ session' = Fail(Tick(session, now))
    /\ link' = CloseLink(link)
    /\ EndPoll /\ UNCHANGED wire

PollBegin ==
    /\ phase = "idle"
    /\ link.open
    /\ session' = Tick(session, now)
    /\ phase' = "reading"
    /\ UNCHANGED <<now, link, wire>>

\* receive(): a heartbeat or an acknowledgment from the configured controller;
\* any other message changes nothing.
ReceiveHeartbeat(armed) ==
    /\ phase = "reading"
    /\ session' = Heartbeat(session, armed, now)
    /\ UNCHANGED <<now, link, phase, wire>>

ReceiveAck(result) ==
    /\ phase = "reading"
    /\ session' = Acknowledge(session, result, now)
    /\ UNCHANGED <<now, link, phase, wire>>

Eligible_MeasurementAlways ==
    link.pending.kind = "Alignment" => AlignmentDue(session, now)

Eligible_AlignmentAlways ==
    link.pending.kind = "Measurement" => CanPublish(session, now)

\* Whether what is buffered may still be sent, and the buffer if it may not.
Eligible ==
    /\ link.pending.kind = "Measurement" => CanPublish(session, now)
    /\ link.pending.kind = "Alignment" => AlignmentDue(session, now)

Withdrawn == Busy(link) /\ (~Eligible \/ now > link.deadline)

Dropped == IF Withdrawn THEN ClearPending(link) ELSE link

Alignment == [NoPacket EXCEPT !.kind = "Alignment"]
OwnHeartbeat == [NoPacket EXCEPT !.kind = "Heartbeat"]

\* The buffer after queue_alignment or queue_heartbeat, when it was empty.
Refill(l) ==
    IF Busy(l) THEN l
    ELSE IF l.started /\ AlignmentDue(session, now)
    THEN Queue(l, Alignment, now + AlignmentTimeout)
    ELSE IF now >= l.nextHeartbeat
    THEN [Queue(l, OwnHeartbeat, now + HeartbeatPeriod)
             EXCEPT !.nextHeartbeat = now + HeartbeatPeriod]
    ELSE l

Outgoing == Refill(Dropped)

\* The link must close: the session failed, or a packet that may no longer be
\* sent is partly on the wire.
MustClose == session.state = "Failed" \/ (Withdrawn /\ link.offset # 0)

PollClose ==
    /\ phase = "reading"
    /\ MustClose
    /\ FailLink
    /\ EndPoll /\ UNCHANGED wire

\* A read that filled the input buffer ends the poll before any transmission.
PollFull ==
    /\ phase = "reading"
    /\ ~MustClose
    /\ link' = Dropped
    /\ EndPoll /\ UNCHANGED <<session, wire>>

PollQuiet ==
    /\ phase = "reading"
    /\ ~MustClose
    /\ ~Busy(Outgoing)
    /\ link' = Outgoing
    /\ EndPoll /\ UNCHANGED <<session, wire>>

\* write() throws std::runtime_error.
PollWriteError ==
    /\ phase = "reading"
    /\ ~MustClose
    /\ Busy(Outgoing)
    /\ session' = Fail(session)
    /\ link' = CloseLink(Outgoing)
    /\ EndPoll /\ UNCHANGED wire

\* The wire after n units of l's packet went out.
Sent(l, n) ==
    LET whole == l.offset + n = PacketSize
        measured == whole /\ l.pending.kind = "Measurement"
        inTime == /\ l.pending.timestamp <= now
                  /\ now - l.pending.timestamp <= MaxEstimateAge
        joins == IF wire.partial = NoPacket THEN l.offset = 0
                 ELSE l.pending = wire.partial /\ l.offset = wire.units
    IN  IF n = 0 THEN wire
        ELSE [partial |-> IF whole THEN NoPacket ELSE l.pending,
              units |-> IF whole THEN 0 ELSE l.offset + n,
              intact |-> wire.intact /\ joins,
              fresh |-> wire.fresh /\ (measured => inTime),
              last |-> IF measured THEN l.pending ELSE wire.last]

PollPartial(n) ==
    /\ phase = "reading"
    /\ ~MustClose
    /\ Busy(Outgoing)
    /\ n < PacketSize - Outgoing.offset
    /\ link' = [Outgoing EXCEPT !.offset = @ + n]
    /\ wire' = Sent(Outgoing, n)
    /\ EndPoll /\ UNCHANGED session

\* The bookkeeping of a packet written to its end.
Completed(kind, timestamp) ==
    CASE kind = "Measurement" -> MeasurementSent(session, timestamp)
      [] kind = "Alignment"   -> AlignmentSent(session, now)
      [] kind = "Heartbeat"   -> session

PollWhole ==
    /\ phase = "reading"
    /\ ~MustClose
    /\ Busy(Outgoing)
    /\ wire' = Sent(Outgoing, PacketSize - Outgoing.offset)
    /\ IF Outgoing.pending.kind = "Alignment" /\ ~AlignmentDue(session, now)
       THEN /\ phase' = "escaped"       \* alignment_sent() throws std::logic_error
            /\ link' = Outgoing
            /\ UNCHANGED <<now, session>>
       ELSE /\ session' = Completed(Outgoing.pending.kind, Outgoing.pending.timestamp)
            /\ link' = ClearPending(Outgoing)
            /\ EndPoll

Next ==
    \/ Advance
    \/ \E generation \in 1..MaxGeneration : StartOnLink(generation)
    \/ StartDuringPartial
    \/ EndSession
    \/ \E estimate \in Estimate : Publish(estimate)
    \/ PollBegin
    \/ \E armed \in BOOLEAN : ReceiveHeartbeat(armed)
    \/ \E result \in AlignmentResult : ReceiveAck(result)
    \/ PollReadError
    \/ PollClose
    \/ PollWriteError
    \/ PollFull
    \/ PollQuiet
    \/ \E n \in 0..(PacketSize - 1) : PollPartial(n)
    \/ PollWhole

Spec == Init /\ [][Next]_vars

-----------------------------------------------------------------------------
(* Safety *)

\* The controller receives whole packets one after another as long as the
\* stream is open: no call, deadline or lost permission abandons a packet
\* whose first bytes are out.  (start_session, end_session, poll)
PacketsStayWhole ==
    /\ wire.intact
    /\ link.open => wire.partial = IF link.offset = 0 THEN NoPacket ELSE link.pending

\* A measurement is never older than the limit when its last byte goes out,
\* however long it waited in the buffer or half written.  (publish, poll)
MeasurementsArriveFresh == wire.fresh

\* The session is never told of an alignment command it did not find due, so
\* no std::logic_error escapes from poll().  (poll, alignment_sent)
NothingEscapes == phase # "escaped"

\* A buffered measurement cannot hold up the link's own heartbeat by more than
\* the age limit, however fast the estimator publishes.  (publish)
HeartbeatNotStarved ==
    link.pending.kind = "Measurement" =>
        link.deadline < link.nextHeartbeat + MaxEstimateAge

\* What is buffered belongs to the open link, a buffered alignment command to the
\* running session, and a buffered measurement to its generation.
BufferInv ==
    /\ phase = "reading" => link.open
    /\ Busy(link) => link.open
    /\ link.offset # 0 => Busy(link)
    /\ link.open => wire.units = link.offset
    /\ link.pending.kind = "Alignment" => link.started
    /\ link.pending.kind = "Measurement" =>
          /\ link.started
          /\ link.pending.generation = session.generation
          /\ link.pending.reset = session.resetCounter
          /\ link.pending.timestamp = link.lastEstimate
          /\ link.pending.timestamp <= now
          /\ link.deadline = link.pending.timestamp + MaxEstimateAge

\* The last whole measurement is of no later generation than the session, and within
\* it of no later estimate than the last one accepted or the one buffered.
OrderInv ==
    /\ wire.last.generation <= session.generation
    /\ session.generation # NoGeneration /\ wire.last.generation = session.generation =>
          /\ wire.last.timestamp <= link.lastEstimate
          /\ link.pending.kind = "Measurement" => wire.last.timestamp < link.pending.timestamp

\* No contact is ahead of the clock.
HeardInv == session.heartbeatTime # NoTime => session.heartbeatTime <= now

\* The inductive invariant.
LinkInv ==
    /\ TypeOK /\ HeardInv
    /\ BufferInv /\ OrderInv
    /\ PacketsStayWhole /\ MeasurementsArriveFresh
    /\ NothingEscapes /\ HeartbeatNotStarved

(* Action properties *)

\* A write completes a measurement only for the running generation and its
\* reset byte, under the permission that holds after everything just read; and
\* the whole measurements of a generation leave in the order of their
\* timestamps.  (publish, poll)
MeasurementsOrdered ==
    [][wire'.last # wire.last
         => /\ link.started /\ CanPublish(session, now)
            /\ wire'.last.generation = session.generation
            /\ wire'.last.reset = session.resetCounter
            /\ wire.last.generation = wire'.last.generation =>
                   wire.last.timestamp < wire'.last.timestamp]_vars
=============================================================================
