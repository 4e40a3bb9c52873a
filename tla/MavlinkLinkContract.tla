-------------------------- MODULE MavlinkLinkContract --------------------------
(***************************************************************************)
(* MavlinkLink keeps the promise of LinkContract.                          *)
(***************************************************************************)
EXTENDS MavlinkLink

\* A command of this session is unanswered, or was refused for now.
Unresolved(s) == s.attempts # 0 /\ s.state \notin {"Aligned", "Failed"}

\* A link l with the session s at time t, without its clock, attempts and packets.
Seen(s, l, t) ==
    [state |-> s.state,
     generation |-> s.generation,
     reset |-> s.resetCounter,
     fresh |-> ControllerFresh(s, t),
     armed |-> s.armed,
     unresolved |-> Unresolved(s),
     started |-> l.started,
     queued |-> l.pending.kind = "Measurement",
     partial |-> l.offset # 0]

\* The measurement whose bytes went out last.
LastMeasurement == IF wire.partial.kind = "Measurement" THEN wire.partial ELSE wire.last

Contract == INSTANCE LinkContract WITH
    link <- Seen(session, link, now),
    wire <- [generation |-> LastMeasurement.generation, reset |-> LastMeasurement.reset]

\* Seen without its clock, every call and every message read does to the link
\* what the contract lets it do: measurement bytes carry the running generation
\* and leave under the permission of the moment, a session with an unresolved
\* alignment is not restarted, a lost controller ends an alignment, and ending
\* the capture empties the buffer.  (MavlinkLink, all methods)
KeepsContract == Contract!ContractSpec
=============================================================================
