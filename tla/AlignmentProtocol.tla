-------------------------- MODULE AlignmentProtocol --------------------------
(***************************************************************************)
(* The alignment exchange between the link and the flight controller over  *)
(* a serial line: commands one way, COMMAND_ACKs the other, both in order  *)
(* and both lossy.  An ACK names neither the generation nor the attempt it *)
(* answers, so the session takes any ACK for the answer to its outstanding *)
(* request; what makes that right is how late an ACK can be.               *)
(*                                                                         *)
(* The link's end is the FlightSession, with every call of its loop.  The  *)
(* controller is external: what it may do is taken from the messages that  *)
(* src/mavlink_link.cpp sends to it and accepts from it.                   *)
(***************************************************************************)
EXTENDS FlightSession, Sequences

CONSTANT AnswerDelay    \* an ACK arrives within this of its command, or never

ASSUME ProtocolAssumption == AnswerDelay \in Nat

VARIABLES
    commands,   \* alignment commands on their way to the controller
    acks,       \* COMMAND_ACKs on their way back
    granted,    \* generations the controller has aligned to
    latest      \* the last command written (history)

line == <<commands, acks, granted, latest>>

exchangeVars == <<now, session, history, commands, acks, granted, latest>>

\* A command knows what the wire does not carry: its generation and its time.
Command == [generation : Nat, sentAt : Nat]
NoCommand == [generation |-> NoGeneration, sentAt |-> 0]
Ack == [command : Command, result : AlignmentResult]

LineTypeOK ==
    /\ commands \in Seq(Command)
    /\ acks \in Seq(Ack)
    /\ granted \subseteq Nat
    /\ latest \in Command

ExchangeInit ==
    /\ Init
    /\ commands = <<>>
    /\ acks = <<>>
    /\ granted = {}
    /\ latest = NoCommand

-----------------------------------------------------------------------------
(* The link *)

\* What its loop does without the line; run_flight numbers the generations.
LoopStep ==
    /\ \/ Advance
       \/ session.generation < MaxGeneration /\ Start(session.generation + 1)
       \/ \E armed \in BOOLEAN : HearHeartbeat(armed)
       \/ TickNow
       \/ MeasurementWritten(now)
       \/ FailSession
    /\ UNCHANGED line

SendAlignment ==
    /\ AlignmentWritten
    /\ latest' = [generation |-> session.generation, sentAt |-> now]
    /\ commands' = Append(commands, latest')
    /\ UNCHANGED <<acks, granted>>

ReceiveAck ==
    /\ acks # <<>>
    /\ now - Head(acks).command.sentAt <= AnswerDelay
    /\ HearAck(Head(acks).result)
    /\ acks' = Tail(acks)
    /\ UNCHANGED <<commands, granted, latest>>

-----------------------------------------------------------------------------
(* The line and the controller (external) *)

LoseCommand ==
    /\ commands # <<>>
    /\ commands' = Tail(commands)
    /\ UNCHANGED <<now, session, history, acks, granted, latest>>

LoseAck ==
    /\ acks # <<>>
    /\ acks' = Tail(acks)
    /\ UNCHANGED <<now, session, history, commands, granted, latest>>

\* The controller obeys the oldest command, or refuses it, and answers.
Answer(result) ==
    /\ commands # <<>>
    /\ result # "InProgress"
    /\ commands' = Tail(commands)
    /\ acks' = Append(acks, [command |-> Head(commands), result |-> result])
    /\ granted' = IF result = "Accepted" THEN granted \cup {Head(commands).generation}
                  ELSE granted
    /\ UNCHANGED <<now, session, history, latest>>

\* It reports progress once, when nothing else of its is on the line, and
\* answers for good later.
AnswerProgress ==
    /\ commands # <<>>
    /\ acks = <<>>
    /\ acks' = <<[command |-> Head(commands), result |-> "InProgress"]>>
    /\ UNCHANGED <<now, session, history, commands, granted, latest>>

ExchangeNext ==
    \/ LoopStep
    \/ SendAlignment
    \/ ReceiveAck
    \/ LoseCommand
    \/ LoseAck
    \/ \E result \in AlignmentResult : Answer(result)
    \/ AnswerProgress

ExchangeSpec == ExchangeInit /\ [][ExchangeNext]_exchangeVars

-----------------------------------------------------------------------------
(* What holds while every answer comes within the alignment timeout.       *)

\* The session believes itself aligned only when the controller has accepted
\* an alignment command of this very generation, so a command of an earlier
\* coordinate frame cannot leak into a new one.  (start, acknowledge)
AlignmentIsGenuine ==
    session.state = "Aligned" => session.generation \in granted

(***************************************************************************)
(* The strengthening that every step of either end preserves.              *)
(***************************************************************************)
OnLine == {commands[i] : i \in DOMAIN commands} \cup {acks[i].command : i \in DOMAIN acks}

Clear == commands = <<>> /\ acks = <<>>

\* The request that is outstanding is the latest command.
RequestIsLatest ==
    session.state = "AwaitingAlignment" =>
        latest = [generation |-> session.generation, sentAt |-> session.requestTime]

\* The controller has done what its answers say.
AnswersAreTrue ==
    \A i \in DOMAIN acks :
        acks[i].result = "Accepted" => acks[i].command.generation \in granted

\* A command overtaken by a later one is too old to be answered in time.
OvertakenAreLate ==
    \A command \in OnLine : command # latest =>
        command.sentAt + AlignmentTimeout <= latest.sentAt

\* Behind the latest command, and behind the final answer to it, there is nothing.
LatestIsLast ==
    /\ \A i \in DOMAIN commands : commands[i] = latest => i = Len(commands)
    /\ \A i \in DOMAIN acks : acks[i].command = latest /\ acks[i].result # "InProgress" =>
           i = Len(acks) /\ commands = <<>>

\* A session that asks anew left its last command time to be answered, and one
\* that may be restarted has nothing on the line.
SpacedOut ==
    /\ latest.sentAt <= now
    /\ session.state \in {"WaitingForController", "Priming"} =>
           Clear \/ latest.sentAt + AlignmentTimeout <= now
    /\ session.attempts = 0 \/ session.state = "Aligned" => Clear

\* The two ends agree, and the line between them is in order: the inductive
\* invariant of the exchange.  (start, tick, alignment_sent, acknowledge)
ExchangeInv ==
    /\ TypeOK /\ LineTypeOK
    /\ AlignmentIsGenuine
    /\ RequestIsLatest
    /\ AnswersAreTrue
    /\ OvertakenAreLate
    /\ LatestIsLast
    /\ SpacedOut

(* Action properties *)

\* An answer the session applies is the answer to its latest command: one that
\* belongs to an attempt already given up on finds nothing to resolve.
\* (acknowledge, tick)
AnswerMeetsItsRequest ==
    [][acks # <<>> /\ acks' = Tail(acks) /\ session'.state # session.state
       /\ Tick(session, now).state = "AwaitingAlignment"
         => Head(acks).command = latest]_exchangeVars

\* A generation starts only when nothing of an earlier alignment is under way:
\* restarting the estimator while a request is outstanding is rejected.
\* (start)
NothingOutstandingAtRestart ==
    [][session'.generation # session.generation => Clear]_exchangeVars
=============================================================================
