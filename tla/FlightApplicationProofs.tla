------------------------ MODULE FlightApplicationProofs ------------------------
(***************************************************************************)
(* The safety of FlightApplication, for any number of generations and      *)
(* values of the reset byte, over every link that keeps LinkContract; and  *)
(* of the worker it runs, SensorRunner, for any sizes of the queues,       *)
(* limits, offsets and number of samples.                                  *)
(***************************************************************************)
EXTENDS FlightApplication, SensorRunner, TLAPS

\* The link is in the generation the main thread reserved, and holds a measurement
\* only while a capture is up.
LinkFollows ==
    /\ link.generation = app.generation
    /\ link.queued => app.at \in {"loop", "end"}

Capturing == {"loop", "end", "halt", "drain"}

WorkerInv ==
    /\ app.at = "loop" => worker.latest \in {0, app.generation}
    /\ WorkerEndsFirst
    /\ app.at = "settle" /\ worker.error => app.error
    /\ app.requested => stopping

\* Where the estimator has been: used up before a capture ends, and replaced before
\* the next begins.
EstimatorInv ==
    /\ ~capture.reused
    /\ app.at \in {"select", "recheck", "prepare"} => ~capture.used
    /\ app.at \in {"top", "await", "backoff"} /\ capture.used => ~app.estimator
    /\ app.at \in {"prepare"} \cup Capturing => capture.checked = app.generation

Inv == TypeOK /\ LinkFollows /\ WorkerInv /\ EstimatorInv /\ OutcomeIsEarned

-----------------------------------------------------------------------------
(* The calls of the link                                                    *)

\* What a call does at most: it queues nothing, and stays in its generation.
Quiet(l, t) == t \in Link /\ t.generation = l.generation /\ (t.queued => l.queued)

LEMMA TickedQuiet == ASSUME NEW l \in Link, NEW t \in Ticked(l) PROVE Quiet(l, t)
  BY DEF Ticked, Stopped, Quiet, Link, FlightSessionState

LEMMA ToldQuiet ==
    ASSUME NEW l \in Link, NEW armed \in BOOLEAN, NEW t \in Heard(l, armed)
    PROVE  Quiet(l, t)
<1>. DEFINE told(u) == [u EXCEPT !.fresh = TRUE, !.armed = armed]
            kept(u) == IF u.state = "AwaitingAlignment" /\ armed THEN Stopped(told(u))
                                                                 ELSE told(u)
<1>1. PICK u \in Ticked(l) : t \in Ticked(kept(u))
  BY DEF Heard
<1>2. Quiet(l, u)
  BY <1>1, TickedQuiet
<1>3. Quiet(u, kept(u))
  BY <1>2 DEF Quiet, Link, Stopped, FlightSessionState
<1>. HIDE DEF kept
<1>4. Quiet(kept(u), t)
  BY <1>1, <1>3, TickedQuiet DEF Quiet
<1>. QED BY <1>2, <1>3, <1>4 DEF Quiet

LEMMA AnsweredQuiet == ASSUME NEW l \in Link, NEW t \in Answered(l) PROVE Quiet(l, t)
<1>1. CASE t \in Ticked(l)
  BY <1>1, TickedQuiet
<1>2. ASSUME NEW u \in Ticked(l),
             t \in {[u EXCEPT !.state = "Aligned", !.unresolved = FALSE],
                    [u EXCEPT !.state = "Priming"], Stopped(u)}
      PROVE  Quiet(l, t)
  <2>1. Quiet(l, u)
    BY TickedQuiet
  <2>. QED BY <1>2, <2>1 DEF Quiet, Link, Stopped, FlightSessionState
<1>. QED BY <1>1, <1>2 DEF Answered

LEMMA ClosedQuiet == ASSUME NEW l \in Link PROVE Quiet(l, Closed(l)) /\ ~Closed(l).queued
  BY DEF Closed, Stopped, Quiet, Link, FlightSessionState

LEMMA PollQuiet ==
    ASSUME ContractTypeOK, Poll
    PROVE  Quiet(link, link') /\ ContractTypeOK'
<1>1. link \in Link /\ wire \in Wire
  BY DEF ContractTypeOK
<1>2. CASE link' \in Ticked(link) /\ UNCHANGED wire
  BY <1>1, <1>2, TickedQuiet DEF ContractTypeOK, Quiet
<1>3. ASSUME NEW armed \in BOOLEAN, HearHeartbeat(armed)
      PROVE  Quiet(link, link') /\ ContractTypeOK'
  BY <1>1, <1>3, ToldQuiet DEF HearHeartbeat, ContractTypeOK, Quiet
<1>4. CASE HearAnswer
  BY <1>1, <1>4, AnsweredQuiet DEF HearAnswer, ContractTypeOK, Quiet
<1>5. CASE SendMeasurement
  BY <1>1, <1>5 DEF SendMeasurement, ContractTypeOK, Quiet, Link, Wire
<1>6. CASE SendControl
  BY <1>1, <1>6 DEF SendControl, ContractTypeOK, Quiet, Link
<1>7. CASE RequestAlignment
  BY <1>1, <1>7 DEF RequestAlignment, ContractTypeOK, Quiet, Link, FlightSessionState
<1>8. CASE Close
  BY <1>1, <1>8, ClosedQuiet DEF Close, ContractTypeOK, Quiet
<1>. QED BY <1>2, <1>3, <1>4, <1>5, <1>6, <1>7, <1>8 DEF Poll

\* publish() may queue a measurement.
LEMMA PublishTypes ==
    ASSUME ContractTypeOK, Publish
    PROVE  ContractTypeOK' /\ link'.generation = link.generation
<1>1. link \in Link /\ wire \in Wire /\ wire' = wire
  BY DEF ContractTypeOK, Publish
<1>2. CASE link' \in Ticked(link)
  BY <1>1, <1>2, TickedQuiet DEF ContractTypeOK, Quiet
<1>3. ASSUME NEW t \in Ticked(link), link' = [t EXCEPT !.queued = TRUE]
      PROVE  ContractTypeOK' /\ link'.generation = link.generation
  <2>1. Quiet(link, t)
    BY <1>1, TickedQuiet
  <2>. QED BY <1>1, <1>3, <2>1 DEF ContractTypeOK, Quiet, Link
<1>. QED BY <1>2, <1>3 DEF Publish, Published

-----------------------------------------------------------------------------
(* Steps                                                                    *)

LEMMA InitInv == Init => Inv
<1>. SUFFICES ASSUME Init PROVE Inv
  OBVIOUS
<1>1. 0 \in 0..MaxGeneration /\ 0 \in 0..(ResetModulus - 1)
  BY ApplicationAssumption
<1>2. PICK initial \in 0..(ResetModulus - 1) : link = NewLink(initial)
  BY DEF Init, ContractInit
<1>3. link \in Link /\ link.generation = 0 /\ ~link.queued
  BY <1>1, <1>2 DEF NewLink, Link, FlightSessionState
<1>4. wire \in Wire
  BY <1>1 DEF Init, ContractInit, Wire
<1>5. app \in App /\ worker \in Worker /\ stopping \in BOOLEAN /\ capture \in Capture
  BY <1>1 DEF Init, App, Place, Worker, NoWorker, Capture
<1>. QED BY <1>3, <1>4, <1>5
         DEF Init, Inv, TypeOK, ContractTypeOK, NoWorker, LinkFollows, WorkerInv,
             WorkerEndsFirst, EstimatorInv, Capturing, OutcomeIsEarned, MarkerIsEarned,
             CleanExitOnRequest

\* The link is polled; the rest stands still.
LEMMA PumpStep == Inv /\ Pump => Inv'
<1>. SUFFICES ASSUME Inv, Pump PROVE Inv'
  OBVIOUS
<1>1. Quiet(link, link') /\ ContractTypeOK' /\ UNCHANGED <<app, worker, stopping, capture>>
  BY PollQuiet DEF Inv, TypeOK, Pump
<1>. QED BY <1>1 DEF Inv, TypeOK, Quiet, LinkFollows, WorkerInv, WorkerEndsFirst, EstimatorInv,
                OutcomeIsEarned, MarkerIsEarned, CleanExitOnRequest

LEMMA PublishStep == Inv /\ PublishLatest => Inv'
<1>. SUFFICES ASSUME Inv, PublishLatest PROVE Inv'
  OBVIOUS
<1>1. /\ ContractTypeOK' /\ link'.generation = link.generation /\ app.at = "loop"
      /\ UNCHANGED <<app, worker, stopping, capture>>
  BY PublishTypes DEF Inv, TypeOK, PublishLatest
<1>. QED BY <1>1 DEF Inv, TypeOK, LinkFollows, WorkerInv, WorkerEndsFirst, EstimatorInv,
                OutcomeIsEarned, MarkerIsEarned, CleanExitOnRequest

\* The steps that change the link otherwise.
LEMMA LinkStep == Inv /\ (Begin \/ BeginRefused \/ EndCapture \/ TimePasses) => Inv'
<1>. SUFFICES ASSUME Inv, Begin \/ BeginRefused \/ EndCapture \/ TimePasses PROVE Inv'
  OBVIOUS
<1>0. link \in Link /\ wire \in Wire /\ app \in App /\ worker \in Worker
  BY DEF Inv, TypeOK, ContractTypeOK
<1>1. CASE Begin
  <2>1. /\ link' = [link EXCEPT !.reset = IF link.generation = 0 THEN @
                                          ELSE (@ + 1) % ResetModulus,
                                !.generation = app.generation + 1,
                                !.state = "WaitingForController",
                                !.started = TRUE, !.queued = FALSE]
        /\ app' = [app EXCEPT !.at = "await", !.generation = @ + 1]
        /\ UNCHANGED <<wire, worker, stopping, capture>>
        /\ app.at = "top" /\ app.generation < MaxGeneration
    BY <1>1 DEF Begin, StartSession, Started
  <2>2. app.generation + 1 \in 0..MaxGeneration
    BY <1>0, <2>1, ApplicationAssumption DEF App
  <2>3. (link.reset + 1) % ResetModulus \in 0..(ResetModulus - 1)
    BY <1>0, ApplicationAssumption DEF Link
  <2>4. /\ link' \in Link /\ link'.generation = app'.generation /\ ~link'.queued
    BY <1>0, <2>1, <2>2, <2>3 DEF Link, FlightSessionState, App
  <2>5. /\ app' \in App /\ app'.at = "await" /\ app'.estimator = app.estimator
        /\ app'.requested = app.requested /\ app'.exit = app.exit
    BY <1>0, <2>1, <2>2 DEF App, Place
  <2>. QED BY <2>1, <2>4, <2>5
           DEF Inv, TypeOK, ContractTypeOK, LinkFollows, WorkerInv, WorkerEndsFirst,
               EstimatorInv, Capturing, OutcomeIsEarned, MarkerIsEarned, CleanExitOnRequest
<1>2. CASE BeginRefused
  <2>1. Quiet(link, link') /\ UNCHANGED <<wire, worker, stopping, capture>> /\ app.at = "top"
    BY <1>0, <1>2, ClosedQuiet DEF BeginRefused, Quiet
  <2>2. /\ app' \in App /\ app'.at = "exited" /\ app'.exit = "failure"
        /\ app'.requested = app.requested /\ app'.generation = app.generation
    BY <1>0, <1>2 DEF BeginRefused, Exit, App, Place
  <2>. QED BY <2>1, <2>2
           DEF Inv, TypeOK, ContractTypeOK, Quiet, LinkFollows, WorkerInv, WorkerEndsFirst,
               EstimatorInv, Capturing, OutcomeIsEarned, MarkerIsEarned, CleanExitOnRequest
<1>3. CASE EndCapture
  <2>1. link' \in Link /\ link'.generation = link.generation /\ ~link'.queued
    BY <1>0, <1>3 DEF EndCapture, EndSession, Ended, Closed, Stopped, Link, FlightSessionState
  <2>2. /\ app.at = "end" /\ app' = [app EXCEPT !.at = "halt"]
        /\ worker' = [worker EXCEPT !.stop = TRUE]
        /\ UNCHANGED <<wire, stopping, capture>>
    BY <1>3 DEF EndCapture, EndSession
  <2>. QED BY <1>0, <2>1, <2>2
           DEF Inv, TypeOK, ContractTypeOK, LinkFollows, WorkerInv, WorkerEndsFirst, App, Place,
               Worker, EstimatorInv, Capturing, OutcomeIsEarned, MarkerIsEarned,
               CleanExitOnRequest
<1>4. CASE TimePasses
  <2>1. Quiet(link, link') /\ UNCHANGED <<wire, app, worker, stopping, capture>>
    BY <1>0, <1>4 DEF TimePasses, Silence, Quiet, Link
  <2>. QED BY <2>1
           DEF Inv, TypeOK, ContractTypeOK, Quiet, LinkFollows, WorkerInv, WorkerEndsFirst,
               EstimatorInv, OutcomeIsEarned, MarkerIsEarned, CleanExitOnRequest
<1>. QED BY <1>1, <1>2, <1>3, <1>4

\* What is left to prove of a step that leaves the link alone.
LEMMA LinkAlone ==
    ASSUME Inv, UNCHANGED <<link, wire>>, app' \in App, worker' \in Worker,
           stopping' \in BOOLEAN, capture' \in Capture,
           app'.generation = app.generation,
           app.at = "end" => app'.at = "end",
           app.at = "loop" => app'.at \in {"loop", "end"},
           WorkerInv', EstimatorInv', OutcomeIsEarned'
    PROVE  Inv'
  BY DEF Inv, TypeOK, ContractTypeOK, LinkFollows

\* Between captures.
LEMMA BetweenStep ==
    Inv /\ (PumpThrows \/ ReserveThrows \/ Leave \/ FoundDisarmed \/ BackoffEnds) => Inv'
<1>. SUFFICES ASSUME Inv, PumpThrows \/ ReserveThrows \/ Leave \/ FoundDisarmed \/ BackoffEnds
              PROVE  Inv'
  OBVIOUS
<1>0. /\ app \in App /\ worker \in Worker /\ capture \in Capture /\ stopping \in BOOLEAN
      /\ WorkerInv /\ EstimatorInv /\ OutcomeIsEarned
  BY DEF Inv, TypeOK
<1>1. UNCHANGED <<link, wire, worker, stopping>> /\ app.at \in {"top", "await", "backoff"}
  BY DEF PumpThrows, ReserveThrows, Leave, FoundDisarmed, BackoffEnds
<1>2. CASE FoundDisarmed
  <2>1. /\ app' \in App /\ app'.at = "select" /\ app'.generation = app.generation
        /\ app'.requested = app.requested /\ app'.exit = app.exit
        /\ capture' \in Capture /\ ~capture'.used /\ ~capture'.reused
        /\ capture'.marked = capture.marked /\ capture'.earned = capture.earned
    BY <1>0, <1>2 DEF FoundDisarmed, App, Place, Capture, EstimatorInv
  <2>. QED BY <1>0, <1>1, <2>1, LinkAlone
           DEF WorkerInv, WorkerEndsFirst, EstimatorInv, Capturing, OutcomeIsEarned,
               MarkerIsEarned, CleanExitOnRequest
<1>3. CASE PumpThrows \/ ReserveThrows \/ Leave \/ BackoffEnds
  <2>1. /\ app' \in App /\ app'.at \in {"exited", "top"} /\ app'.generation = app.generation
        /\ app'.requested = app.requested /\ app'.estimator = app.estimator
        /\ app'.exit = "clean" => stopping
        /\ capture' = capture
    BY <1>0, <1>3
       DEF PumpThrows, ReserveThrows, Leave, BackoffEnds, Exit, App, Place, OutcomeIsEarned,
           CleanExitOnRequest
  <2>. QED BY <1>0, <1>1, <2>1, LinkAlone
           DEF WorkerInv, WorkerEndsFirst, EstimatorInv, Capturing, OutcomeIsEarned,
               MarkerIsEarned, CleanExitOnRequest
<1>. QED BY <1>2, <1>3

\* From the choice of the exposure to the start of the worker.
LEMMA LaunchStep ==
    Inv /\ (SelectThrows \/ Select \/ Recheck \/ PrepareThrows \/ Launch) => Inv'
<1>. SUFFICES ASSUME Inv, SelectThrows \/ Select \/ Recheck \/ PrepareThrows \/ Launch
              PROVE  Inv'
  OBVIOUS
<1>0. /\ app \in App /\ worker \in Worker /\ capture \in Capture /\ stopping \in BOOLEAN
      /\ WorkerInv /\ EstimatorInv /\ OutcomeIsEarned
  BY DEF Inv, TypeOK
<1>1. UNCHANGED <<link, wire, stopping>> /\ app.at \in {"select", "recheck", "prepare"}
  BY DEF SelectThrows, Select, Recheck, PrepareThrows, Launch
<1>2. CASE Launch
  <2>1. /\ app' \in App /\ app'.at = "loop" /\ app'.generation = app.generation
        /\ ~app'.requested /\ app'.exit = app.exit
    BY <1>0, <1>2 DEF Launch, App, Place
  <2>2. worker' \in Worker /\ worker'.latest = 0
    <3>1. 0 \in 0..MaxGeneration
      BY ApplicationAssumption
    <3>2. worker' = [at |-> "running", stop |-> FALSE, error |-> FALSE, latest |-> 0,
                     complete |-> FALSE]
      BY <1>2 DEF Launch, NoWorker
    <3>. QED BY <3>1, <3>2 DEF Worker
  <2>3. /\ capture' \in Capture /\ ~capture'.reused /\ ~capture'.marked
        /\ capture'.checked = app.generation
    BY <1>0, <1>1, <1>2 DEF Launch, Capture, EstimatorInv
  <2>. QED BY <1>0, <1>1, <2>1, <2>2, <2>3, LinkAlone
           DEF WorkerInv, WorkerEndsFirst, EstimatorInv, Capturing, OutcomeIsEarned,
               MarkerIsEarned, CleanExitOnRequest
<1>3. CASE Recheck
  <2>1. /\ app' \in App /\ app'.at \in {"caught", "top", "prepare"}
        /\ app'.at = "prepare" => Disarmed(link)
        /\ app'.generation = app.generation /\ app'.estimator = app.estimator
        /\ app'.requested = app.requested /\ app'.exit = app.exit
        /\ worker' = worker
    BY <1>0, <1>3 DEF Recheck, App, Place
  <2>2. app.generation \in 0..MaxGeneration
    BY <1>0 DEF App
  <2>3. /\ capture' \in Capture
        /\ capture'.checked = IF Disarmed(link) THEN app.generation ELSE capture.checked
        /\ capture'.used = capture.used /\ capture'.reused = capture.reused
        /\ capture'.marked = capture.marked /\ capture'.earned = capture.earned
    BY <1>0, <1>3, <2>2 DEF Recheck, Checked, Capture
  <2>. QED BY <1>0, <1>1, <1>3, <2>1, <2>3, LinkAlone
           DEF Recheck, WorkerInv, WorkerEndsFirst, EstimatorInv, Capturing, OutcomeIsEarned,
               MarkerIsEarned, CleanExitOnRequest
<1>4. CASE SelectThrows \/ Select \/ PrepareThrows
  <2>1. /\ app' \in App /\ app'.at \in {"caught", "recheck"}
        /\ app'.generation = app.generation /\ app'.estimator = app.estimator
        /\ app'.requested = app.requested /\ app'.exit = app.exit
        /\ UNCHANGED <<worker, capture>>
    BY <1>0, <1>4 DEF SelectThrows, Select, PrepareThrows, App, Place
  <2>. QED BY <1>0, <1>1, <2>1, LinkAlone
           DEF WorkerInv, WorkerEndsFirst, EstimatorInv, Capturing, OutcomeIsEarned,
               MarkerIsEarned, CleanExitOnRequest
<1>. QED BY <1>2, <1>3, <1>4

\* The loop ends, the camera stops, and the worker is waited for.
LEMMA CaptureStep == Inv /\ (LoopThrows \/ LoopEnds \/ HaltCamera \/ Join) => Inv'
<1>. SUFFICES ASSUME Inv, LoopThrows \/ LoopEnds \/ HaltCamera \/ Join PROVE Inv'
  OBVIOUS
<1>0. /\ app \in App /\ worker \in Worker /\ capture \in Capture /\ stopping \in BOOLEAN
      /\ WorkerInv /\ EstimatorInv /\ OutcomeIsEarned
  BY DEF Inv, TypeOK
<1>1. /\ UNCHANGED <<link, wire, worker, stopping, capture>>
      /\ app'.generation = app.generation /\ app'.exit = app.exit
      /\ \/ app.at = "loop" /\ app'.at = "end"
         \/ app.at = "halt" /\ app'.at = "drain"
         \/ /\ app.at = "drain" /\ app'.at = "settle" /\ worker.at = "done"
            /\ worker.error => app'.error
      /\ app'.requested => stopping
      /\ app' \in App
  BY <1>0 DEF LoopThrows, LoopEnds, HaltCamera, Join, Drained, Settled, App, Place, Failing,
              Worker, WorkerInv
<1>. QED BY <1>0, <1>1, LinkAlone
         DEF WorkerInv, WorkerEndsFirst, EstimatorInv, Capturing, OutcomeIsEarned,
             MarkerIsEarned, CleanExitOnRequest

\* What the capture leaves.
LEMMA SettleStep == Inv /\ (SettleThrows \/ Settle \/ Caught) => Inv'
<1>. SUFFICES ASSUME Inv, SettleThrows \/ Settle \/ Caught PROVE Inv'
  OBVIOUS
<1>0. /\ app \in App /\ worker \in Worker /\ capture \in Capture /\ stopping \in BOOLEAN
      /\ WorkerInv /\ EstimatorInv /\ OutcomeIsEarned
  BY DEF Inv, TypeOK
<1>1. UNCHANGED <<link, wire, worker, stopping>> /\ app.at \in {"settle", "caught"}
  BY DEF SettleThrows, Settle, Caught
<1>2. /\ app' \in App /\ app'.generation = app.generation
      /\ app'.at \in {"caught", "backoff", "exited"}
      /\ app'.at = "backoff" => ~app'.estimator
      /\ app'.requested = app.requested
      /\ app'.exit = "clean" => stopping
  BY <1>0 DEF SettleThrows, Settle, Caught, Exit, App, Place, OutcomeIsEarned,
              CleanExitOnRequest
<1>3. /\ capture' \in Capture /\ ~capture'.reused
      /\ capture'.marked => capture'.earned
  <2>1. CASE Settle
    <3>1. /\ capture' = [capture EXCEPT
                            !.marked = app.requested /\ worker.complete,
                            !.earned = stopping /\ worker.complete /\ ~worker.error]
          /\ app.at = "settle" /\ ~app.error
      BY <2>1 DEF Settle
    <3>. QED BY <1>0, <3>1 DEF Capture, App, Worker, WorkerInv, EstimatorInv
  <2>2. CASE SettleThrows \/ Caught
    BY <1>0, <2>2 DEF SettleThrows, Caught, EstimatorInv, OutcomeIsEarned, MarkerIsEarned
  <2>. QED BY <2>1, <2>2
<1>. QED BY <1>0, <1>1, <1>2, <1>3, LinkAlone
         DEF WorkerInv, WorkerEndsFirst, EstimatorInv, Capturing, OutcomeIsEarned,
             MarkerIsEarned, CleanExitOnRequest

\* The worker and the operator.
LEMMA WorkerStep == Inv /\ (Estimate \/ WorkerStops \/ WorkerThrows \/ Terminate) => Inv'
<1>. SUFFICES ASSUME Inv, Estimate \/ WorkerStops \/ WorkerThrows \/ Terminate PROVE Inv'
  OBVIOUS
<1>0. /\ app \in App /\ worker \in Worker /\ capture \in Capture /\ stopping \in BOOLEAN
      /\ WorkerInv /\ EstimatorInv /\ OutcomeIsEarned
  BY DEF Inv, TypeOK
<1>1. /\ UNCHANGED <<link, wire, app, capture>>
      /\ stopping' \in BOOLEAN
      /\ stopping => stopping'
  BY <1>0 DEF Estimate, WorkerStops, WorkerThrows, WorkerDone, Terminate
<1>2. CASE Terminate
  BY <1>0, <1>1, <1>2, LinkAlone
     DEF Terminate, WorkerInv, WorkerEndsFirst, EstimatorInv, OutcomeIsEarned, MarkerIsEarned,
         CleanExitOnRequest
<1>3. CASE Estimate \/ WorkerStops \/ WorkerThrows
  <2>1. /\ worker.at = "running" /\ worker' \in Worker
        /\ worker'.latest \in {worker.latest, app.generation}
    BY <1>0, <1>3 DEF Estimate, WorkerStops, WorkerThrows, WorkerDone, Worker, App
  <2>2. app.at \in Capturing
    BY <1>0, <2>1 DEF WorkerInv, WorkerEndsFirst, Capturing
  <2>. QED BY <1>0, <1>1, <2>1, <2>2, LinkAlone
           DEF WorkerInv, WorkerEndsFirst, EstimatorInv, Capturing, OutcomeIsEarned,
               MarkerIsEarned, CleanExitOnRequest
<1>. QED BY <1>2, <1>3

LEMMA StepInv == Inv /\ [Next]_vars => Inv'
<1>. SUFFICES ASSUME Inv, [Next]_vars PROVE Inv'
  OBVIOUS
<1>1. CASE Next
  BY <1>1, PumpStep, PublishStep, LinkStep, BetweenStep, LaunchStep, CaptureStep, SettleStep,
     WorkerStep DEF Next, Proceed
<1>2. CASE UNCHANGED vars
  BY <1>2 DEF vars, Inv, TypeOK, ContractTypeOK, LinkFollows, WorkerInv, WorkerEndsFirst,
     EstimatorInv, OutcomeIsEarned, MarkerIsEarned, CleanExitOnRequest
<1>. QED BY <1>1, <1>2

LEMMA Invariant == Spec => []Inv
  BY InitInv, StepInv, PTL DEF Spec

-----------------------------------------------------------------------------
(* The theorems                                                             *)

\* No measurement waits in the link while a capture is taken down or the next is not
\* yet up; the mailbox never holds another generation's estimate; the worker ends
\* before what it uses.  (run_capture, end_session)
THEOREM QuietCleanup == Spec => []NoPoseDuringCleanup
<1>1. Inv => NoPoseDuringCleanup
  BY DEF Inv, NoPoseDuringCleanup, LinkFollows, WorkerInv, MailboxIsCurrent
<1>. QED BY <1>1, Invariant, PTL

\* An estimator runs one capture at most, and each starts only if the controller was
\* still disarmed, in its own session, after the exposure had been chosen.  (run_flight)
THEOREM CleanStart == Spec => []CaptureStartsClean
<1>1. Inv => CaptureStartsClean
  BY DEF Inv, CaptureStartsClean, LinkFollows, WorkerInv, WorkerEndsFirst, EstimatorInv,
         Capturing
<1>. QED BY <1>1, Invariant, PTL

\* The marker of a recording and the exit status tell the truth.  (run_flight,
\* run_capture)
THEOREM TrueOutcome == Spec => []OutcomeIsEarned
<1>1. Inv => OutcomeIsEarned
  BY DEF Inv
<1>. QED BY <1>1, Invariant, PTL
-----------------------------------------------------------------------------
(***************************************************************************)
(* The worker.                                                             *)
(***************************************************************************)
\* Sequences of times: what Append and Tail do to their members and their order.
LEMMA TimesGrow ==
    ASSUME NEW s \in Seq(Nat), NEW time \in Nat
    PROVE  /\ Append(s, time) \in Seq(Nat)
           /\ Len(Append(s, time)) = Len(s) + 1
           /\ ToSet(Append(s, time)) = ToSet(s) \cup {time}
           /\ Ascending(s) /\ Older(ToSet(s), {time}) => Ascending(Append(s, time))
<1>. DEFINE longer == Append(s, time)
            n == Len(s)
<1>1. /\ longer \in Seq(Nat) /\ n \in Nat /\ Len(longer) = n + 1
      /\ DOMAIN s = 1..n /\ DOMAIN longer = 1..(n + 1)
      /\ longer[n + 1] = time
      /\ \A i \in 1..n : longer[i] = s[i] /\ s[i] \in Nat
  OBVIOUS
<1>. HIDE DEF longer, n
<1>2. ToSet(longer) = ToSet(s) \cup {time}
  <2>1. \A i \in 1..(n + 1) : i \in 1..n \/ i = n + 1
    BY <1>1
  <2>2. \A i \in 1..n : i \in 1..(n + 1)
    BY <1>1
  <2>3. n + 1 \in 1..(n + 1)
    BY <1>1
  <2>. QED BY <1>1, <2>1, <2>2, <2>3 DEF ToSet
<1>3. ASSUME Ascending(s), Older(ToSet(s), {time})
      PROVE  Ascending(longer)
  <2>. SUFFICES ASSUME NEW i \in 1..(n + 1), NEW j \in 1..(n + 1), i < j
                PROVE  longer[i] < longer[j]
    BY <1>1 DEF Ascending
  <2>1. i \in 1..n
    BY <1>1
  <2>2. CASE j = n + 1
    BY <1>1, <1>3, <2>1, <2>2 DEF Older, ToSet
  <2>3. CASE j # n + 1
    <3>1. j \in 1..n
      BY <1>1, <2>3
    <3>. QED BY <1>1, <1>3, <2>1, <3>1 DEF Ascending
  <2>. QED BY <2>2, <2>3
<1>. QED BY <1>1, <1>2, <1>3 DEF longer, n

LEMMA TimesShrink ==
    ASSUME NEW s \in Seq(Nat), s # <<>>
    PROVE  /\ Head(s) \in Nat /\ Tail(s) \in Seq(Nat)
           /\ Len(s) > 0 /\ Len(Tail(s)) = Len(s) - 1
           /\ ToSet(s) = ToSet(Tail(s)) \cup {Head(s)}
           /\ Ascending(s) => Ascending(Tail(s)) /\ Older({Head(s)}, ToSet(Tail(s)))
<1>. DEFINE rest == Tail(s)
            n == Len(s)
<1>1. /\ n \in Nat \ {0} /\ rest \in Seq(Nat) /\ Len(rest) = n - 1
      /\ DOMAIN s = 1..n /\ DOMAIN rest = 1..(n - 1)
      /\ Head(s) = s[1]
      /\ \A i \in 1..(n - 1) : rest[i] = s[i + 1]
      /\ \A i \in 1..n : s[i] \in Nat
  OBVIOUS
<1>. HIDE DEF rest, n
<1>2. /\ 1 \in 1..n
      /\ \A i \in 1..n : i = 1 \/ (i - 1 \in 1..(n - 1) /\ i = (i - 1) + 1)
      /\ \A i \in 1..(n - 1) : i + 1 \in 1..n /\ 1 < i + 1
  BY <1>1
<1>3. ToSet(s) = ToSet(rest) \cup {s[1]}
  <2>1. \A i \in 1..n : s[i] \in {s[1]} \cup {rest[j] : j \in 1..(n - 1)}
    <3>. SUFFICES ASSUME NEW i \in 1..n, i # 1
                  PROVE  s[i] \in {rest[j] : j \in 1..(n - 1)}
      BY <1>1
    <3>1. i - 1 \in 1..(n - 1) /\ rest[i - 1] = s[i]
      BY <1>1, <1>2
    <3>. QED BY <3>1
  <2>2. \A j \in 1..(n - 1) : rest[j] \in {s[i] : i \in 1..n}
    BY <1>1, <1>2
  <2>3. s[1] \in {s[i] : i \in 1..n}
    BY <1>2
  <2>4. ToSet(s) = {s[i] : i \in 1..n} /\ ToSet(rest) = {rest[j] : j \in 1..(n - 1)}
    BY <1>1 DEF ToSet
  <2>. QED BY <2>1, <2>2, <2>3, <2>4
<1>4. ASSUME Ascending(s)
      PROVE  Ascending(rest) /\ Older({s[1]}, ToSet(rest))
  <2>1. ASSUME NEW i \in 1..(n - 1), NEW j \in 1..(n - 1), i < j
        PROVE  rest[i] < rest[j]
    <3>1. i + 1 < j + 1
      BY <2>1
    <3>. QED BY <1>1, <1>2, <1>4, <2>1, <3>1 DEF Ascending
  <2>2. \A i \in 1..(n - 1) : s[1] < rest[i]
    BY <1>1, <1>2, <1>4 DEF Ascending
  <2>. QED BY <1>1, <2>1, <2>2 DEF Ascending, Older, ToSet
<1>. QED BY <1>1, <1>2, <1>3, <1>4 DEF rest, n

\* Handing the queue on, and feeding the first row taken, keep the rows as they are.
LEMMA RowsMove ==
    ASSUME NEW f \in Seq(Nat), NEW t \in Seq(Nat), NEW q \in Seq(Nat), NEW time \in Nat
    PROVE  /\ f \o t \o Append(q, time) = Append(f \o t \o q, time)
           /\ f \o q \o <<>> = f \o <<>> \o q
           /\ t # <<>> => Append(f, Head(t)) \o Tail(t) \o q = f \o t \o q
           /\ f \o t \o q \in Seq(Nat)
           /\ ToSet(f) \subseteq ToSet(f \o t \o q) /\ ToSet(t) \subseteq ToSet(f \o t \o q)
<1>1. f \o t \o Append(q, time) = Append(f \o t \o q, time)
  <2>1. ASSUME NEW g \in Seq(Nat) PROVE g \o Append(q, time) = Append(g \o q, time)
    <3>. DEFINE left == g \o Append(q, time)
                right == Append(g \o q, time)
    <3>1. /\ left \in Seq(Nat) /\ right \in Seq(Nat)
          /\ Len(left) = Len(g) + Len(q) + 1 /\ Len(right) = Len(g) + Len(q) + 1
      OBVIOUS
    <3>2. ASSUME NEW i \in 1..(Len(g) + Len(q) + 1) PROVE left[i] = right[i]
      OBVIOUS
    <3>. HIDE DEF left, right
    <3>3. left = right
      BY <3>1, <3>2
    <3>. QED BY <3>3 DEF left, right
  <2>2. f \o t \in Seq(Nat)
    OBVIOUS
  <2>. QED BY <2>1, <2>2
<1>2. f \o q \o <<>> = f \o <<>> \o q
  OBVIOUS
<1>3. ASSUME t # <<>> PROVE Append(f, Head(t)) \o Tail(t) \o q = f \o t \o q
  BY <1>3
<1>4. f \o t \o q \in Seq(Nat)
  OBVIOUS
<1>5. \A g \in Seq(Nat), h \in Seq(Nat) :
         ToSet(g) \subseteq ToSet(g \o h) /\ ToSet(h) \subseteq ToSet(g \o h)
  <2>. SUFFICES ASSUME NEW g \in Seq(Nat), NEW h \in Seq(Nat)
                PROVE  ToSet(g) \subseteq ToSet(g \o h) /\ ToSet(h) \subseteq ToSet(g \o h)
    OBVIOUS
  <2>. DEFINE both == g \o h
  <2>1. /\ both \in Seq(Nat) /\ DOMAIN g = 1..Len(g) /\ DOMAIN h = 1..Len(h)
        /\ DOMAIN both = 1..(Len(g) + Len(h)) /\ Len(g) \in Nat /\ Len(h) \in Nat
    OBVIOUS
  <2>2. \A i \in 1..Len(g) : both[i] = g[i]
    OBVIOUS
  <2>3. \A i \in 1..Len(h) : both[i + Len(g)] = h[i]
    OBVIOUS
  <2>. HIDE DEF both
  <2>4. \A i \in 1..Len(g) : i \in 1..(Len(g) + Len(h))
    BY <2>1
  <2>5. \A i \in 1..Len(h) : i + Len(g) \in 1..(Len(g) + Len(h))
    BY <2>1
  <2>6. \A i \in DOMAIN g : g[i] \in ToSet(both)
    BY <2>1, <2>2, <2>4 DEF ToSet
  <2>7. \A i \in DOMAIN h : h[i] \in ToSet(both)
    BY <2>1, <2>3, <2>5 DEF ToSet
  <2>8. ToSet(g) \subseteq ToSet(both) /\ ToSet(h) \subseteq ToSet(both)
    BY <2>6, <2>7 DEF ToSet
  <2>. QED BY <2>8 DEF both
<1>6. f \o t \in Seq(Nat)
  OBVIOUS
<1>7. /\ ToSet(f) \subseteq ToSet(f \o t \o q)
      /\ ToSet(t) \subseteq ToSet(f \o t \o q)
  <2>1. ToSet(f) \subseteq ToSet(f \o t) /\ ToSet(t) \subseteq ToSet(f \o t)
    BY <1>5
  <2>2. ToSet(f \o t) \subseteq ToSet(f \o t \o q)
    BY <1>5, <1>6
  <2>. QED BY <2>1, <2>2
<1>. QED BY <1>1, <1>2, <1>3, <1>4, <1>7

LEMMA LengthsAreNumbers == \A s \in Seq(Nat) : Len(s) \in Nat
  OBVIOUS

LEMMA RunnerNumbers ==
    /\ Start \in Nat /\ Offsets \subseteq Int /\ \A offset \in Offsets : Start + offset >= 0
    /\ MaxCamQueue \in Nat \ {0} /\ MaxRows \in Nat \ {0}
  BY RunnerAssumption


LEMMA FrameTypes ==
    ASSUME NEW q \in FrameQueues
    PROVE  /\ q.queue \in Seq(Nat) /\ q.meta \in Seq(Nat) /\ q.dropped \in SUBSET Nat
           /\ [q EXCEPT !.done = TRUE] \in FrameQueues
           /\ [q EXCEPT !.ended = TRUE] \in FrameQueues
           /\ \A times \in Seq(Nat) : /\ [q EXCEPT !.queue = times] \in FrameQueues
                                      /\ [q EXCEPT !.meta = times] \in FrameQueues
           /\ \A times \in Seq(Nat), gone \in SUBSET Nat :
                 [q EXCEPT !.queue = times, !.dropped = gone] \in FrameQueues
<1>1. /\ q.queue \in Seq(Nat) /\ q.meta \in Seq(Nat) /\ q.dropped \in SUBSET Nat
      /\ [q EXCEPT !.done = TRUE] \in FrameQueues
      /\ [q EXCEPT !.ended = TRUE] \in FrameQueues
  BY DEF FrameQueues
<1>2. \A times \in Seq(Nat) : /\ [q EXCEPT !.queue = times] \in FrameQueues
                              /\ [q EXCEPT !.meta = times] \in FrameQueues
  BY DEF FrameQueues
<1>3. \A times \in Seq(Nat), gone \in SUBSET Nat :
         [q EXCEPT !.queue = times, !.dropped = gone] \in FrameQueues
  BY DEF FrameQueues
<1>. QED BY <1>1, <1>2, <1>3

\* What enqueue_frame makes of the queue: the new frame is the last of it, and the
\* oldest has gone if there was no room.
LEMMA EnqueuedFrames ==
    ASSUME NEW q \in FrameQueues, Len(q.queue) <= MaxCamQueue, NEW time \in Nat
    PROVE  LET e == Enqueued(q, time) IN
           /\ e \in FrameQueues /\ Len(e.queue) <= MaxCamQueue
           /\ e.meta = q.meta
           /\ \/ e.queue = Append(q.queue, time) /\ e.dropped = q.dropped
              \/ /\ q.queue # <<>>
                 /\ e.queue = Append(Tail(q.queue), time)
                 /\ e.dropped = q.dropped \cup {Head(q.queue)}
<1>. DEFINE times == q.queue
            n == Len(times)
<1>1. times \in Seq(Nat) /\ n <= MaxCamQueue /\ MaxCamQueue \in Nat \ {0} /\ n \in Nat
      /\ q.dropped \in SUBSET Nat
  <2>1. times \in Seq(Nat) /\ q.dropped \in SUBSET Nat
    BY FrameTypes
  <2>. QED BY <2>1, RunnerNumbers, LengthsAreNumbers
<1>2. CASE n < MaxCamQueue
  <2>1. Append(times, time) \in Seq(Nat) /\ Len(Append(times, time)) = n + 1
    BY <1>1, TimesGrow
  <2>2. Enqueued(q, time) = [q EXCEPT !.queue = Append(times, time)]
    BY <1>2 DEF Enqueued
  <2>3. [q EXCEPT !.queue = Append(times, time)] \in FrameQueues
    BY <2>1, FrameTypes
  <2>4. LET e == [q EXCEPT !.queue = Append(times, time)]
        IN  e.queue = Append(times, time) /\ e.dropped = q.dropped /\ e.meta = q.meta
    BY DEF FrameQueues
  <2>5. n + 1 <= MaxCamQueue
    BY <1>1, <1>2
  <2>. QED BY <2>1, <2>2, <2>3, <2>4, <2>5
<1>3. CASE ~(n < MaxCamQueue)
  <2>. DEFINE gone == q.dropped \cup {Head(times)}
              left == Append(Tail(times), time)
  <2>1. times # <<>>
    BY <1>1, <1>3
  <2>2. /\ Tail(times) \in Seq(Nat) /\ Head(times) \in Nat /\ Len(Tail(times)) = n - 1
    BY <1>1, <2>1, TimesShrink
  <2>3. left \in Seq(Nat) /\ Len(left) = n - 1 + 1
    BY <2>2, TimesGrow
  <2>4. gone \in SUBSET Nat /\ Len(left) <= MaxCamQueue
    BY <1>1, <2>2, <2>3
  <2>5. Enqueued(q, time) = [q EXCEPT !.queue = left, !.dropped = gone]
    BY <1>3 DEF Enqueued
  <2>. HIDE DEF gone, left
  <2>6. [q EXCEPT !.queue = left, !.dropped = gone] \in FrameQueues
    BY <2>3, <2>4, FrameTypes
  <2>7. LET e == [q EXCEPT !.queue = left, !.dropped = gone]
        IN  e.queue = left /\ e.dropped = gone /\ e.meta = q.meta
    BY DEF FrameQueues
  <2>. QED BY <2>1, <2>4, <2>5, <2>6, <2>7 DEF gone, left
<1>. QED BY <1>2, <1>3

LEMMA UpdaterTypes ==
    ASSUME NEW u \in Updater
    PROVE  /\ u.taken \in Seq(Nat) /\ u.frame \in Nat /\ u.imu \in Nat /\ u.offset \in Offsets
           /\ \A times \in Seq(Nat) : [u EXCEPT !.at = "feed", !.taken = times] \in Updater
           /\ \A times \in Seq(Nat), time \in Nat :
                 [u EXCEPT !.taken = times, !.imu = time] \in Updater
           /\ \A time \in Nat : /\ [u EXCEPT !.at = "camera", !.frame = time] \in Updater
                                /\ [u EXCEPT !.at = "wait", !.stall = time] \in Updater
           /\ \A offset \in Offsets : [u EXCEPT !.at = "wait", !.offset = offset] \in Updater
<1>1. u.taken \in Seq(Nat) /\ u.frame \in Nat /\ u.imu \in Nat /\ u.offset \in Offsets
  BY DEF Updater
<1>2. \A times \in Seq(Nat) : [u EXCEPT !.at = "feed", !.taken = times] \in Updater
  BY DEF Updater
<1>3. \A times \in Seq(Nat), time \in Nat :
         [u EXCEPT !.taken = times, !.imu = time] \in Updater
  BY DEF Updater
<1>4. \A time \in Nat : /\ [u EXCEPT !.at = "camera", !.frame = time] \in Updater
                        /\ [u EXCEPT !.at = "wait", !.stall = time] \in Updater
  BY DEF Updater
<1>5. \A offset \in Offsets : [u EXCEPT !.at = "wait", !.offset = offset] \in Updater
  BY DEF Updater
<1>. QED BY <1>1, <1>2, <1>3, <1>4, <1>5

LEMMA RunnerTypeStep ==
    ASSUME RunnerTypeOK, RunnerNext
    PROVE  RunnerTypeOK'
<1>1. ASSUME NEW t \in Thread, Throw(t) PROVE RunnerTypeOK'
  BY <1>1 DEF RunnerTypeOK, Throw, Ends, FirstError
<1>2. ASSUME NEW t \in Thread, ReaderStops(t) PROVE RunnerTypeOK'
  BY <1>2 DEF RunnerTypeOK, ReaderStops, Ends
<1>3. CASE ImuRow
  <2>1. now \in Nat /\ sensed.rows \in Seq(Nat) /\ imuQ \in Seq(Nat) /\ Len(imuQ) \in Nat
    BY DEF RunnerTypeOK, Samples
  <2>2. /\ Append(sensed.rows, now) \in Seq(Nat)
        /\ Append(imuQ, now) \in Seq(Nat) /\ Len(Append(imuQ, now)) = Len(imuQ) + 1
    BY <2>1, TimesGrow
  <2>3. Len(imuQ) + 1 <= MaxRows
    BY <1>3, <2>1, RunnerNumbers DEF ImuRow
  <2>4. sensed' \in Samples
    BY <1>3, <2>1, <2>2 DEF RunnerTypeOK, ImuRow, Samples
  <2>5. imuQ' \in Seq(Nat) /\ Len(imuQ') <= MaxRows
    BY <1>3, <2>2, <2>3 DEF ImuRow
  <2>. QED BY <1>3, <2>4, <2>5 DEF RunnerTypeOK, ImuRow
<1>4. CASE CameraFrame
  <2>1. sensed' \in Samples
    BY <1>4 DEF RunnerTypeOK, CameraFrame, Samples
  <2>2. /\ frames' \in FrameQueues /\ Len(frames'.queue) <= MaxCamQueue
        /\ frames'.meta = frames.meta
    BY <1>4, EnqueuedFrames DEF RunnerTypeOK, CameraFrame
  <2>. QED BY <1>4, <2>1, <2>2 DEF RunnerTypeOK, CameraFrame
<1>5. CASE MetaRecord
  <2>1. now \in Nat /\ frames.meta \in Seq(Nat) /\ Len(frames.meta) \in Nat
    BY FrameTypes, LengthsAreNumbers DEF RunnerTypeOK
  <2>2. /\ Append(frames.meta, now) \in Seq(Nat)
        /\ Len(Append(frames.meta, now)) = Len(frames.meta) + 1
    BY <2>1, TimesGrow
  <2>3. Len(frames.meta) + 1 <= MaxRows
    BY <1>5, <2>1, RunnerNumbers DEF MetaRecord
  <2>4. sensed' \in Samples
    BY <1>5 DEF RunnerTypeOK, MetaRecord, Samples
  <2>5. frames' \in FrameQueues
    BY <1>5, <2>2, FrameTypes DEF RunnerTypeOK, MetaRecord
  <2>6. frames'.meta = Append(frames.meta, now) /\ frames'.queue = frames.queue
    BY <1>5 DEF RunnerTypeOK, MetaRecord, FrameQueues
  <2>7. Len(frames'.meta) <= MaxRows /\ Len(frames'.queue) <= MaxCamQueue
    BY <2>2, <2>3, <2>6 DEF RunnerTypeOK
  <2>. QED BY <1>5, <2>4, <2>5, <2>7 DEF RunnerTypeOK, MetaRecord
<1>6. ASSUME MetaEnds \/ FramesEnd PROVE RunnerTypeOK'
  <2>1. /\ frames' \in FrameQueues /\ frames'.queue = frames.queue
        /\ frames'.meta = frames.meta
    BY <1>6 DEF RunnerTypeOK, MetaEnds, FramesEnd, FrameQueues
  <2>2. thread' \in [Thread -> {"unborn", "on", "pairing", "over"}]
    BY <1>6 DEF RunnerTypeOK, MetaEnds, FramesEnd, Ends, Thread
  <2>. QED BY <1>6, <2>1, <2>2 DEF RunnerTypeOK, MetaEnds, FramesEnd
<1>7. CASE FrameImage
  BY <1>7 DEF RunnerTypeOK, FrameImage, Thread
<1>8. CASE FramePaired
  <2>. DEFINE q == [frames EXCEPT !.meta = Tail(@)]
  <2>1. /\ Tail(frames.meta) \in Seq(Nat) /\ Head(frames.meta) \in Nat
        /\ Len(Tail(frames.meta)) = Len(frames.meta) - 1 /\ Len(frames.meta) \in Nat
    <3>1. frames.meta \in Seq(Nat)
      BY FrameTypes DEF RunnerTypeOK
    <3>2. frames.meta # <<>>
      BY <1>8 DEF FramePaired
    <3>. QED BY <3>1, <3>2, TimesShrink, LengthsAreNumbers
  <2>2. q \in FrameQueues
    BY <2>1, FrameTypes DEF RunnerTypeOK
  <2>3. q.queue = frames.queue /\ q.dropped = frames.dropped /\ q.meta = Tail(frames.meta)
    BY DEF RunnerTypeOK, FrameQueues
  <2>4. frames' = Enqueued(q, Head(frames.meta))
    BY <1>8 DEF FramePaired
  <2>. HIDE DEF q
  <2>5. /\ frames' \in FrameQueues
        /\ Len(frames'.queue) <= MaxCamQueue /\ frames'.meta = Tail(frames.meta)
    BY <2>1, <2>2, <2>3, <2>4, EnqueuedFrames DEF RunnerTypeOK
  <2>6. Len(Tail(frames.meta)) <= MaxRows
    BY <2>1, RunnerNumbers DEF RunnerTypeOK
  <2>7. thread' \in [Thread -> {"unborn", "on", "pairing", "over"}]
    BY <1>8 DEF RunnerTypeOK, FramePaired, Thread
  <2>. QED BY <1>8, <2>5, <2>6, <2>7 DEF RunnerTypeOK, FramePaired
<1>9. CASE TakeSamples
  <2>1. update' \in Updater
    BY <1>9, UpdaterTypes DEF RunnerTypeOK, TakeSamples
  <2>2. <<>> \in Seq(Nat) /\ Len(<<>>) <= MaxRows
    BY RunnerNumbers
  <2>. QED BY <1>9, <2>1, <2>2 DEF RunnerTypeOK, TakeSamples
<1>10. CASE FeedImu
  <2>1. Tail(update.taken) \in Seq(Nat) /\ Head(update.taken) \in Nat
    BY <1>10, TimesShrink, UpdaterTypes DEF FeedImu, RunnerTypeOK
  <2>2. Append(fed.rows, Head(update.taken)) \in Seq(Nat)
    BY <2>1, TimesGrow DEF RunnerTypeOK
  <2>3. update' \in Updater
    BY <1>10, <2>1, UpdaterTypes DEF RunnerTypeOK, FeedImu
  <2>4. fed' \in [rows : Seq(Nat), frames : Seq(Nat)]
    BY <1>10, <2>2 DEF RunnerTypeOK, FeedImu
  <2>. QED BY <1>10, <2>3, <2>4 DEF RunnerTypeOK, FeedImu
<1>11. CASE PopFrame
  <2>1. /\ Tail(frames.queue) \in Seq(Nat) /\ Head(frames.queue) \in Nat
        /\ Len(Tail(frames.queue)) = Len(frames.queue) - 1 /\ Len(frames.queue) \in Nat
    <3>1. frames.queue \in Seq(Nat)
      BY FrameTypes DEF RunnerTypeOK
    <3>2. frames.queue # <<>>
      BY <1>11 DEF PopFrame, Ready
    <3>. QED BY <3>1, <3>2, TimesShrink, LengthsAreNumbers
  <2>2. update' \in Updater
    BY <1>11, <2>1, UpdaterTypes DEF RunnerTypeOK, PopFrame
  <2>3. frames' \in FrameQueues
    BY <1>11, <2>1, FrameTypes DEF RunnerTypeOK, PopFrame
  <2>4. frames'.queue = Tail(frames.queue) /\ frames'.meta = frames.meta
    BY <1>11 DEF RunnerTypeOK, PopFrame, FrameQueues
  <2>5. Len(frames'.queue) <= MaxCamQueue
    BY <2>1, <2>4, RunnerNumbers DEF RunnerTypeOK
  <2>. QED BY <1>11, <2>2, <2>3, <2>4, <2>5 DEF RunnerTypeOK, PopFrame
<1>12. CASE WaitAgain
  <2>1. (IF frames.done /\ update.stall = 0 THEN now ELSE update.stall) \in Nat
    BY DEF RunnerTypeOK, Updater
  <2>2. update' = [update EXCEPT !.at = "wait",
                     !.stall = IF frames.done /\ update.stall = 0 THEN now ELSE update.stall]
    BY <1>12 DEF WaitAgain
  <2>3. update' \in Updater
    BY <2>1, <2>2, UpdaterTypes DEF RunnerTypeOK
  <2>. QED BY <1>12, <2>3 DEF RunnerTypeOK, WaitAgain
<1>13. CASE UpdateEnds
  BY <1>13 DEF RunnerTypeOK, UpdateEnds, Ends, Thread
<1>14. CASE FeedFrame
  <2>1. Append(fed.frames, update.frame) \in Seq(Nat)
    BY TimesGrow, UpdaterTypes DEF RunnerTypeOK
  <2>2. fed' \in [rows : Seq(Nat), frames : Seq(Nat)]
    BY <1>14, <2>1 DEF RunnerTypeOK, FeedFrame
  <2>3. update' \in Updater
    <3>1. PICK offset \in Offsets : update' = [update EXCEPT !.at = "wait", !.offset = offset]
      BY <1>14 DEF FeedFrame
    <3>. QED BY <3>1, UpdaterTypes DEF RunnerTypeOK
  <2>. QED BY <1>14, <2>2, <2>3 DEF RunnerTypeOK, FeedFrame
<1>15. CASE LaunchThread
  <2>1. PICK i \in DOMAIN Workers :
              /\ thread' = [thread EXCEPT ![Workers[i]] = "on"]
              /\ run' = IF i < Len(Workers) THEN run ELSE [run EXCEPT !.at = "watch"]
    BY <1>15 DEF LaunchThread
  <2>2. [run EXCEPT !.at = "watch"] \in Supervisor
    BY DEF RunnerTypeOK, Supervisor
  <2>3. [thread EXCEPT ![Workers[i]] = "on"]
           \in [Thread -> {"unborn", "on", "pairing", "over"}]
    BY DEF RunnerTypeOK
  <2>. QED BY <1>15, <2>1, <2>2, <2>3 DEF RunnerTypeOK, LaunchThread
<1>16. ASSUME LaunchFails \/ WatchEnds PROVE RunnerTypeOK'
  <2>1. run' \in Supervisor
    BY <1>16 DEF RunnerTypeOK, LaunchFails, WatchEnds, Supervisor
  <2>. QED BY <1>16, <2>1 DEF RunnerTypeOK, LaunchFails, WatchEnds
<1>17. CASE Return
  <2>1. Outcome \in {"none", "ok", "imu_stalled", "no_thread"} \cup Thread
    BY DEF RunnerTypeOK, Outcome
  <2>2. run' \in Supervisor
    BY <1>17, <2>1 DEF RunnerTypeOK, Return, Supervisor
  <2>. QED BY <1>17, <2>2 DEF RunnerTypeOK, Return
<1>18. CASE CallerStops
  BY <1>18 DEF RunnerTypeOK, CallerStops
<1>19. CASE Tick
  BY <1>19 DEF RunnerTypeOK, Tick
<1>. QED BY <1>1, <1>2, <1>3, <1>4, <1>5, <1>6, <1>7, <1>8, <1>9, <1>10, <1>11, <1>12, <1>13,
            <1>14, <1>15, <1>16, <1>17, <1>18, <1>19
         DEF RunnerNext, Step, Fails, CameraSilent, Read, Supervise, Thread

\* The order of the frames, stated of values: those fed, the one in hand, those
\* queued, the metadata to come, those dropped, and the time of the last.
FramesOrdered(f, b, q, m, d, last) ==
    /\ Ascending(f) /\ Ascending(q) /\ Ascending(m)
    /\ Older(ToSet(f), b) /\ Older(ToSet(f) \cup b, ToSet(q)) /\ Older(d, ToSet(q))
    /\ d \cap (ToSet(f) \cup b) = {}
    /\ Older(ToSet(f) \cup b \cup d \cup ToSet(q), ToSet(m))
    /\ \A frame \in ToSet(f) \cup b \cup d \cup ToSet(q) \cup ToSet(m) : frame <= last
    /\ \A frame \in ToSet(q) \cup ToSet(m) : Start <= frame

LEMMA FramesOrderedIs ==
    FramesAccounted /\ FramesKeepTheirOrder <=>
        FramesOrdered(fed.frames, Busy, frames.queue, frames.meta, frames.dropped,
                      sensed.camera)
  BY DEF FramesOrdered, FramesAccounted, FramesKeepTheirOrder

LEMMA FramesOrderedIsNext ==
    (FramesAccounted /\ FramesKeepTheirOrder)' <=>
        FramesOrdered(fed'.frames, Busy', frames'.queue, frames'.meta, frames'.dropped,
                      sensed'.camera)
  BY DEF FramesOrdered, FramesAccounted, FramesKeepTheirOrder

LEMMA SetsOfTimes == \A s \in Seq(Nat) : ToSet(s) \subseteq Nat
  BY DEF ToSet

\* A frame newer than all but the metadata joins the queue; the oldest may give way.
LEMMA EnqueueKeepsOrder ==
    ASSUME NEW f \in Seq(Nat), NEW b \in SUBSET Nat, NEW q \in Seq(Nat), NEW m \in Seq(Nat),
           NEW d \in SUBSET Nat, NEW last \in Nat, FramesOrdered(f, b, q, m, d, last),
           NEW time \in Nat, NEW until \in Nat, last <= until, Start <= time, time <= until,
           Older(ToSet(f) \cup b \cup d \cup ToSet(q), {time}), Older({time}, ToSet(m))
    PROVE  /\ FramesOrdered(f, b, Append(q, time), m, d, until)
           /\ q # <<>> =>
                 FramesOrdered(f, b, Append(Tail(q), time), m, d \cup {Head(q)}, until)
<1>1. /\ ToSet(f) \subseteq Nat /\ ToSet(q) \subseteq Nat /\ ToSet(m) \subseteq Nat
      /\ Start \in Nat
  BY SetsOfTimes, RunnerNumbers
<1>2. ASSUME NEW s \in Seq(Nat), NEW g \in SUBSET Nat, Ascending(s), ToSet(s) \subseteq ToSet(q),
             Older(g, ToSet(s)), g \cap (ToSet(f) \cup b) = {},
             g \subseteq d \cup ToSet(q)
      PROVE  FramesOrdered(f, b, Append(s, time), m, g, until)
  <2>1. ToSet(Append(s, time)) = ToSet(s) \cup {time}
    BY TimesGrow
  <2>2. Older(ToSet(s), {time})
    BY <1>2 DEF Older
  <2>3. Ascending(Append(s, time))
    BY <1>2, <2>2, TimesGrow
  <2>. DEFINE all == ToSet(Append(s, time))
  <2>4. all = ToSet(s) \cup {time}
    BY <2>1
  <2>. HIDE DEF all
  <2>5. /\ Ascending(f) /\ Ascending(m) /\ Older(ToSet(f), b)
        /\ Older(ToSet(f) \cup b, all) /\ Older(g, all)
    BY <1>2, <2>4 DEF FramesOrdered, Older
  <2>6. Older(ToSet(f) \cup b \cup g \cup all, ToSet(m))
    BY <1>2, <2>4 DEF FramesOrdered, Older
  <2>7. \A frame \in ToSet(f) \cup b \cup g \cup all \cup ToSet(m) : frame \in Nat
    BY <1>1, <1>2, <2>4
  <2>8. \A frame \in ToSet(f) \cup b \cup g \cup all \cup ToSet(m) :
           frame = time \/ frame \in ToSet(f) \cup b \cup d \cup ToSet(q) \cup ToSet(m)
    BY <1>2, <2>4
  <2>9. \A frame \in ToSet(f) \cup b \cup g \cup all \cup ToSet(m) : frame <= until
    <3>1. \A frame \in ToSet(f) \cup b \cup d \cup ToSet(q) \cup ToSet(m) : frame <= last
      BY DEF FramesOrdered
    <3>2. \A frame \in Nat : frame <= last => frame <= until
      OBVIOUS
    <3>. QED BY <2>7, <2>8, <3>1, <3>2
  <2>10. \A frame \in all \cup ToSet(m) : Start <= frame
    BY <1>2, <2>4 DEF FramesOrdered
  <2>. QED BY <1>2, <2>3, <2>5, <2>6, <2>9, <2>10 DEF FramesOrdered, all
<1>3. FramesOrdered(f, b, Append(q, time), m, d, until)
  BY <1>2 DEF FramesOrdered
<1>4. ASSUME q # <<>>
      PROVE  FramesOrdered(f, b, Append(Tail(q), time), m, d \cup {Head(q)}, until)
  <2>1. /\ Head(q) \in Nat /\ Tail(q) \in Seq(Nat)
        /\ ToSet(q) = ToSet(Tail(q)) \cup {Head(q)}
        /\ Ascending(Tail(q)) /\ Older({Head(q)}, ToSet(Tail(q)))
    BY <1>4, TimesShrink DEF FramesOrdered
  <2>2. Older(d \cup {Head(q)}, ToSet(Tail(q)))
    BY <2>1 DEF FramesOrdered, Older
  <2>3. \A x \in ToSet(f) \cup b : x < Head(q) /\ x \in Nat
    BY <1>1, <2>1 DEF FramesOrdered, Older
  <2>4. Head(q) \notin ToSet(f) \cup b
    BY <2>1, <2>3
  <2>5. (d \cup {Head(q)}) \cap (ToSet(f) \cup b) = {}
    BY <2>4 DEF FramesOrdered
  <2>. QED BY <1>2, <2>1, <2>2, <2>5
<1>. QED BY <1>3, <1>4

\* The front of the queue is taken, and then fed.
LEMMA FeedKeepsOrder ==
    ASSUME NEW f \in Seq(Nat), NEW q \in Seq(Nat), NEW m \in Seq(Nat),
           NEW d \in SUBSET Nat, NEW last \in Nat
    PROVE  /\ q # <<>> /\ FramesOrdered(f, {}, q, m, d, last) =>
                 FramesOrdered(f, {Head(q)}, Tail(q), m, d, last)
           /\ \A frame \in Nat : FramesOrdered(f, {frame}, q, m, d, last) =>
                 FramesOrdered(Append(f, frame), {}, q, m, d, last)
<1>1. ASSUME q # <<>>, FramesOrdered(f, {}, q, m, d, last)
      PROVE  FramesOrdered(f, {Head(q)}, Tail(q), m, d, last)
  <2>. DEFINE front == Head(q)
              rest == Tail(q)
  <2>1. /\ front \in Nat /\ rest \in Seq(Nat) /\ ToSet(q) = ToSet(rest) \cup {front}
        /\ Ascending(rest) /\ Older({front}, ToSet(rest))
    BY <1>1, TimesShrink DEF FramesOrdered
  <2>. HIDE DEF front, rest
  <2>2. front \notin d
    <3>1. \A frame \in d : frame < front
      BY <1>1, <2>1 DEF FramesOrdered, Older
    <3>2. ~(front < front)
      BY <2>1
    <3>. QED BY <3>1, <3>2
  <2>3. /\ Older(ToSet(f), {front}) /\ Older(ToSet(f) \cup {front}, ToSet(rest))
        /\ Older(d, ToSet(rest))
    BY <1>1, <2>1 DEF FramesOrdered, Older
  <2>4. ToSet(f) \cup {front} \cup d \cup ToSet(rest) = ToSet(f) \cup {} \cup d \cup ToSet(q)
    BY <2>1
  <2>5. d \cap (ToSet(f) \cup {front}) = {}
    BY <1>1, <2>2 DEF FramesOrdered
  <2>6. \A frame \in ToSet(rest) \cup ToSet(m) : Start <= frame
    BY <1>1, <2>1 DEF FramesOrdered
  <2>7. FramesOrdered(f, {front}, rest, m, d, last)
    BY <1>1, <2>1, <2>3, <2>4, <2>5, <2>6 DEF FramesOrdered
  <2>. QED BY <2>7 DEF front, rest
<1>2. ASSUME NEW frame \in Nat, FramesOrdered(f, {frame}, q, m, d, last)
      PROVE  FramesOrdered(Append(f, frame), {}, q, m, d, last)
  <2>1. ToSet(Append(f, frame)) = ToSet(f) \cup {frame} /\ Ascending(Append(f, frame))
    BY <1>2, TimesGrow DEF FramesOrdered
  <2>2. ToSet(Append(f, frame)) \cup {} = ToSet(f) \cup {frame}
    BY <2>1
  <2>3. Older(ToSet(Append(f, frame)), {})
    BY DEF Older
  <2>. QED BY <1>2, <2>1, <2>2, <2>3 DEF FramesOrdered
<1>. QED BY <1>1, <1>2

\* A record of the metadata joins it, and its oldest leaves it.
LEMMA MetaKeepsOrder ==
    ASSUME NEW f \in Seq(Nat), NEW b \in SUBSET Nat, NEW q \in Seq(Nat), NEW m \in Seq(Nat),
           NEW d \in SUBSET Nat, NEW last \in Nat, FramesOrdered(f, b, q, m, d, last)
    PROVE  /\ \A time \in Nat : last < time /\ Start <= time =>
                 FramesOrdered(f, b, q, Append(m, time), d, time)
           /\ m # <<>> => /\ FramesOrdered(f, b, q, Tail(m), d, last)
                          /\ Older({Head(m)}, ToSet(Tail(m)))
                          /\ Older(ToSet(f) \cup b \cup d \cup ToSet(q), {Head(m)})
                          /\ Start <= Head(m) /\ Head(m) <= last
<1>1. /\ ToSet(f) \subseteq Nat /\ ToSet(q) \subseteq Nat /\ ToSet(m) \subseteq Nat
      /\ Start \in Nat
  BY SetsOfTimes, RunnerNumbers
<1>2. ASSUME NEW time \in Nat, last < time, Start <= time
      PROVE  FramesOrdered(f, b, q, Append(m, time), d, time)
  <2>. DEFINE all == ToSet(f) \cup b \cup d \cup ToSet(q) \cup ToSet(m)
  <2>1. \A frame \in all : frame \in Nat /\ frame <= last
    BY <1>1 DEF FramesOrdered
  <2>2. \A frame \in all : frame < time /\ frame <= time
    BY <1>2, <2>1
  <2>3. Older(ToSet(m), {time})
    BY <2>2 DEF Older
  <2>4. ToSet(Append(m, time)) = ToSet(m) \cup {time} /\ Ascending(Append(m, time))
    BY <2>3, TimesGrow DEF FramesOrdered
  <2>5. Older(ToSet(f) \cup b \cup d \cup ToSet(q), ToSet(m) \cup {time})
    BY <2>2 DEF FramesOrdered, Older
  <2>6. \A frame \in ToSet(f) \cup b \cup d \cup ToSet(q) \cup (ToSet(m) \cup {time}) :
           frame <= time
    BY <2>2
  <2>7. \A frame \in ToSet(q) \cup (ToSet(m) \cup {time}) : Start <= frame
    BY <1>2 DEF FramesOrdered
  <2>. HIDE DEF all
  <2>. QED BY <2>4, <2>5, <2>6, <2>7 DEF FramesOrdered
<1>3. ASSUME m # <<>>
      PROVE  /\ FramesOrdered(f, b, q, Tail(m), d, last)
             /\ Older({Head(m)}, ToSet(Tail(m)))
             /\ Older(ToSet(f) \cup b \cup d \cup ToSet(q), {Head(m)})
             /\ Start <= Head(m) /\ Head(m) <= last
  <2>. DEFINE front == Head(m)
              rest == Tail(m)
  <2>1. /\ ToSet(m) = ToSet(rest) \cup {front}
        /\ Ascending(rest) /\ Older({front}, ToSet(rest))
    BY <1>3, TimesShrink DEF FramesOrdered
  <2>. HIDE DEF front, rest
  <2>2. FramesOrdered(f, b, q, rest, d, last)
    BY <2>1 DEF FramesOrdered, Older
  <2>3. /\ Older(ToSet(f) \cup b \cup d \cup ToSet(q), {front})
        /\ Start <= front /\ front <= last
    BY <2>1 DEF FramesOrdered, Older
  <2>. QED BY <2>1, <2>2, <2>3 DEF front, rest
<1>. QED BY <1>2, <1>3

\* What the values of a capture are.
LEMMA RunnerValues ==
    ASSUME RunnerTypeOK
    PROVE  /\ imuQ \in Seq(Nat) /\ update.taken \in Seq(Nat)
           /\ fed.rows \in Seq(Nat) /\ fed.frames \in Seq(Nat) /\ sensed.rows \in Seq(Nat)
           /\ frames.queue \in Seq(Nat) /\ frames.meta \in Seq(Nat)
           /\ frames.dropped \in SUBSET Nat /\ Busy \in SUBSET Nat
           /\ now \in Nat /\ sensed.imu \in Nat /\ sensed.camera \in Nat /\ update.imu \in Nat
           /\ update.frame \in Nat /\ update.offset \in Int
<1>1. /\ imuQ \in Seq(Nat) /\ now \in Nat /\ update \in Updater /\ sensed \in Samples
      /\ frames \in FrameQueues /\ fed.rows \in Seq(Nat) /\ fed.frames \in Seq(Nat)
  BY DEF RunnerTypeOK
<1>2. /\ update.taken \in Seq(Nat) /\ update.imu \in Nat /\ update.frame \in Nat
      /\ update.offset \in Int
  BY <1>1, RunnerNumbers DEF Updater
<1>3. sensed.rows \in Seq(Nat) /\ sensed.imu \in Nat /\ sensed.camera \in Nat
  BY <1>1 DEF Samples
<1>4. Busy \in SUBSET Nat
  BY <1>2 DEF Busy
<1>. QED BY <1>1, <1>2, <1>3, <1>4, FrameTypes

-----------------------------------------------------------------------------
(* The rows *)

RowSide == RowsAreFedOnce /\ ClockRunsAhead

\* What a step that moves no row leaves of it.
LEMMA CalmRows ==
    ASSUME RowSide, RunnerTypeOK, RunnerTypeOK',
           imuQ' = imuQ, fed'.rows = fed.rows, update'.taken = update.taken,
           update'.imu = update.imu, update'.at # "feed" => update.taken = <<>>,
           sensed'.rows = sensed.rows, sensed'.imu = sensed.imu,
           now <= now', sensed'.camera \in {sensed.camera, now}
    PROVE  RowSide'
<1>1. RowsAreFedOnce'
  BY DEF RowSide, RowsAreFedOnce
<1>2. Start <= now' /\ sensed'.imu <= now' /\ sensed'.camera <= now'
  <2>1. /\ now \in Nat /\ now' \in Nat /\ sensed.imu \in Nat /\ sensed.camera \in Nat
        /\ Start \in Nat
    BY RunnerValues, RunnerNumbers DEF RunnerTypeOK
  <2>. QED BY <2>1 DEF RowSide, ClockRunsAhead
<1>. QED BY <1>1, <1>2 DEF RowSide, ClockRunsAhead

LEMMA ImuRowKeeps ==
    ASSUME RowSide, RunnerTypeOK, ImuRow
    PROVE  RowSide'
<1>1. /\ imuQ' = Append(imuQ, now) /\ fed' = fed /\ update' = update /\ now' = now
      /\ sensed.imu < now
  BY DEF ImuRow
<1>2. /\ sensed'.rows = Append(sensed.rows, now) /\ sensed'.imu = now
      /\ sensed'.camera = sensed.camera
  BY DEF ImuRow, RunnerTypeOK, Samples
<1>3. fed.rows \o update.taken \o imuQ' = sensed'.rows
  <2>. DEFINE f == fed.rows
              t == update.taken
  <2>1. f \in Seq(Nat) /\ t \in Seq(Nat) /\ imuQ \in Seq(Nat) /\ now \in Nat
    BY RunnerValues
  <2>. HIDE DEF f, t
  <2>2. f \o t \o Append(imuQ, now) = Append(f \o t \o imuQ, now)
    BY <2>1, RowsMove
  <2>. QED BY <1>1, <1>2, <2>2 DEF RowSide, RowsAreFedOnce, f, t
<1>4. \A row \in ToSet(sensed.rows) : row \in Nat /\ row <= sensed.imu
  BY RunnerValues, SetsOfTimes DEF RowSide, ClockRunsAhead
<1>5. \A row \in ToSet(sensed.rows) : row < now /\ row <= now
  BY <1>1, <1>4, RunnerValues
<1>6. Older(ToSet(sensed.rows), {now})
  BY <1>5 DEF Older
<1>7. Ascending(sensed'.rows) /\ ToSet(sensed'.rows) = ToSet(sensed.rows) \cup {now}
  BY <1>2, <1>6, TimesGrow, RunnerValues DEF RowSide, RowsAreFedOnce
<1>8. now <= now
  BY RunnerValues
<1>. QED BY <1>1, <1>2, <1>3, <1>5, <1>7, <1>8 DEF RowSide, RowsAreFedOnce, ClockRunsAhead

LEMMA TakeSamplesKeeps ==
    ASSUME RowSide, RunnerTypeOK, TakeSamples
    PROVE  RowSide'
<1>1. /\ imuQ' = <<>> /\ fed' = fed /\ sensed' = sensed /\ now' = now
      /\ update.at = "wait"
  BY DEF TakeSamples, Updating
<1>2. /\ update'.at = "feed" /\ update'.taken = imuQ /\ update'.imu = update.imu
  BY DEF TakeSamples, RunnerTypeOK, Updater
<1>3. update.taken = <<>>
  BY <1>1 DEF RowSide, ClockRunsAhead
<1>4. fed.rows \o imuQ \o <<>> = fed.rows \o <<>> \o imuQ
  BY RowsMove, RunnerValues
<1>5. fed'.rows \o update'.taken \o imuQ' = sensed'.rows
  BY <1>1, <1>2, <1>3, <1>4 DEF RowSide, RowsAreFedOnce
<1>. QED BY <1>1, <1>2, <1>5 DEF RowSide, RowsAreFedOnce, ClockRunsAhead

LEMMA FeedImuKeeps ==
    ASSUME RowSide, RunnerTypeOK, FeedImu
    PROVE  RowSide' /\ ToSet(fed.rows) \subseteq ToSet(fed'.rows)
<1>. DEFINE row == Head(update.taken)
<1>1. /\ imuQ' = imuQ /\ sensed' = sensed /\ now' = now
      /\ update.at = "feed" /\ update.taken # <<>>
  BY DEF FeedImu, Updating
<1>2. /\ update'.at = "feed" /\ update'.taken = Tail(update.taken) /\ update'.imu = row
      /\ fed'.rows = Append(fed.rows, row)
  BY <1>1 DEF FeedImu, RunnerTypeOK, Updater
<1>3. row \in Nat
  BY <1>1, TimesShrink, RunnerValues
<1>4. ToSet(fed'.rows) = ToSet(fed.rows) \cup {row}
  BY <1>2, <1>3, TimesGrow, RunnerValues
<1>5. fed'.rows \o update'.taken \o imuQ' = sensed'.rows
  <2>. DEFINE f == fed.rows
              t == update.taken
  <2>1. f \in Seq(Nat) /\ t \in Seq(Nat) /\ imuQ \in Seq(Nat) /\ t # <<>> /\ row = Head(t)
    BY <1>1, RunnerValues
  <2>. HIDE DEF f, t, row
  <2>2. Append(f, Head(t)) \o Tail(t) \o imuQ = f \o t \o imuQ
    BY <1>3, <2>1, RowsMove
  <2>. QED BY <1>1, <1>2, <2>1, <2>2 DEF RowSide, RowsAreFedOnce, f, t
<1>. QED BY <1>1, <1>2, <1>4, <1>5 DEF RowSide, RowsAreFedOnce, ClockRunsAhead

\* What update_thread finds ready is covered by a row it has fed: the clock had
\* passed every offset when the first frame was taken.  (ready)
LEMMA ReadyIsCovered ==
    ASSUME RowSide, FramesKeepTheirOrder, RunnerTypeOK, Ready(update)
    PROVE  /\ frames.queue # <<>>
           /\ \E row \in ToSet(fed.rows) : Head(frames.queue) < row - update.offset
<1>. DEFINE frame == Head(frames.queue)
<1>1. frames.queue # <<>> /\ frame < update.imu - update.offset
  BY DEF Ready, Covered
<1>2. frame \in Nat /\ frame \in ToSet(frames.queue)
  BY <1>1, TimesShrink, RunnerValues
<1>3. Start <= frame
  BY <1>2 DEF FramesKeepTheirOrder
<1>4. update.offset \in Offsets /\ Start + update.offset >= 0 /\ Start \in Nat
  BY RunnerNumbers, UpdaterTypes DEF RunnerTypeOK
<1>5. update.imu # 0
  <2>1. update.offset \in Int /\ update.imu \in Nat
    BY RunnerValues
  <2>. HIDE DEF frame
  <2>2. update.imu = 0 => frame < 0 - update.offset
    BY <1>1
  <2>. QED BY <1>2, <1>3, <1>4, <2>1, <2>2
<1>. QED BY <1>1, <1>5 DEF RowSide, ClockRunsAhead

-----------------------------------------------------------------------------
(* The frames *)

FrameSide == FramesAccounted /\ FramesKeepTheirOrder

LEMMA CalmFrames ==
    ASSUME FrameSide, fed'.frames = fed.frames, Busy' = Busy,
           frames'.queue = frames.queue, frames'.meta = frames.meta,
           frames'.dropped = frames.dropped, sensed'.camera = sensed.camera
    PROVE  FrameSide'
  BY FramesOrderedIs, FramesOrderedIsNext DEF FrameSide

LEMMA CameraFrameKeeps ==
    ASSUME FrameSide, RowSide, OneSource, RunnerTypeOK, CameraFrame
    PROVE  FrameSide'
<1>1. FramesOrdered(fed.frames, Busy, frames.queue, frames.meta, frames.dropped,
                    sensed.camera)
  BY FramesOrderedIs DEF FrameSide
<1>2. /\ fed' = fed /\ Busy' = Busy /\ sensed.camera < now
      /\ frames' = Enqueued(frames, now)
  BY DEF CameraFrame, Busy
<1>3. sensed'.camera = now
  BY DEF CameraFrame, RunnerTypeOK, Samples
<1>4. frames.meta = <<>>
  BY DEF OneSource, CameraFrame, Running
<1>. DEFINE gone == ToSet(fed.frames) \cup Busy \cup frames.dropped \cup ToSet(frames.queue)
<1>5. \A frame \in gone : frame \in Nat /\ frame <= sensed.camera
  BY <1>1, RunnerValues, SetsOfTimes DEF FramesOrdered
<1>6. Older(gone, {now})
  BY <1>2, <1>5, RunnerValues DEF Older
<1>7. Older({now}, ToSet(frames.meta))
  BY <1>4 DEF Older, ToSet
<1>8. Start <= now /\ now <= now /\ sensed.camera <= now
  BY <1>2, RunnerValues DEF RowSide, ClockRunsAhead
<1>. HIDE DEF gone
<1>9. LET o(q, d) == FramesOrdered(fed.frames, Busy, q, frames.meta, d, now)
      IN  /\ o(Append(frames.queue, now), frames.dropped)
          /\ frames.queue # <<>> => o(Append(Tail(frames.queue), now),
                                      frames.dropped \cup {Head(frames.queue)})
  BY <1>1, <1>6, <1>7, <1>8, RunnerValues, EnqueueKeepsOrder DEF gone
<1>10. /\ frames'.meta = frames.meta
       /\ \/ frames'.queue = Append(frames.queue, now) /\ frames'.dropped = frames.dropped
          \/ /\ frames.queue # <<>>
             /\ frames'.queue = Append(Tail(frames.queue), now)
             /\ frames'.dropped = frames.dropped \cup {Head(frames.queue)}
  BY <1>2, EnqueuedFrames DEF RunnerTypeOK
<1>11. FramesOrdered(fed'.frames, Busy', frames'.queue, frames'.meta, frames'.dropped,
                     sensed'.camera)
  BY <1>2, <1>3, <1>9, <1>10
<1>. QED BY <1>11, FramesOrderedIsNext DEF FrameSide

LEMMA MetaRecordKeeps ==
    ASSUME FrameSide, RowSide, RunnerTypeOK, MetaRecord
    PROVE  FrameSide'
<1>1. FramesOrdered(fed.frames, Busy, frames.queue, frames.meta, frames.dropped,
                    sensed.camera)
  BY FramesOrderedIs DEF FrameSide
<1>2. fed' = fed /\ Busy' = Busy /\ sensed.camera < now
  BY DEF MetaRecord, Busy
<1>3. sensed'.camera = now
  BY DEF MetaRecord, RunnerTypeOK, Samples
<1>4. /\ frames'.meta = Append(frames.meta, now) /\ frames'.queue = frames.queue
      /\ frames'.dropped = frames.dropped
  BY DEF MetaRecord, RunnerTypeOK, FrameQueues
<1>5. Start <= now
  BY DEF RowSide, ClockRunsAhead
<1>6. FramesOrdered(fed.frames, Busy, frames.queue, Append(frames.meta, now),
                    frames.dropped, now)
  BY <1>1, <1>2, <1>5, RunnerValues, MetaKeepsOrder
<1>7. FramesOrdered(fed'.frames, Busy', frames'.queue, frames'.meta, frames'.dropped,
                    sensed'.camera)
  BY <1>2, <1>3, <1>4, <1>6
<1>. QED BY <1>7, FramesOrderedIsNext DEF FrameSide

LEMMA FramePairedKeeps ==
    ASSUME FrameSide, RunnerTypeOK, FramePaired
    PROVE  FrameSide'
<1>. DEFINE q == [frames EXCEPT !.meta = Tail(@)]
            time == Head(frames.meta)
            rest == Tail(frames.meta)
<1>1. FramesOrdered(fed.frames, Busy, frames.queue, frames.meta, frames.dropped,
                    sensed.camera)
  BY FramesOrderedIs DEF FrameSide
<1>2. /\ fed' = fed /\ Busy' = Busy /\ sensed' = sensed
      /\ frames.meta # <<>> /\ frames' = Enqueued(q, time)
  BY DEF FramePaired, Busy
<1>3. time \in Nat /\ rest \in Seq(Nat)
  BY <1>2, RunnerValues, TimesShrink
<1>4. /\ q \in FrameQueues /\ q.queue = frames.queue /\ q.dropped = frames.dropped
      /\ q.meta = rest
  <2>1. q \in FrameQueues
    BY <1>3, FrameTypes DEF RunnerTypeOK
  <2>. QED BY <2>1 DEF RunnerTypeOK, FrameQueues
<1>. HIDE DEF q, time, rest
<1>5. /\ FramesOrdered(fed.frames, Busy, frames.queue, rest, frames.dropped, sensed.camera)
      /\ Older({time}, ToSet(rest))
      /\ Older(ToSet(fed.frames) \cup Busy \cup frames.dropped \cup ToSet(frames.queue), {time})
      /\ Start <= time /\ time <= sensed.camera
  BY <1>1, <1>2, RunnerValues, MetaKeepsOrder DEF time, rest
<1>6. sensed.camera <= sensed.camera
  BY RunnerValues
<1>7. LET o(s, d) == FramesOrdered(fed.frames, Busy, s, rest, d, sensed.camera)
      IN  /\ o(Append(frames.queue, time), frames.dropped)
          /\ frames.queue # <<>> => o(Append(Tail(frames.queue), time),
                                      frames.dropped \cup {Head(frames.queue)})
  BY <1>3, <1>5, <1>6, RunnerValues, EnqueueKeepsOrder
<1>8. /\ frames'.meta = rest
      /\ \/ frames'.queue = Append(frames.queue, time) /\ frames'.dropped = frames.dropped
         \/ /\ frames.queue # <<>>
            /\ frames'.queue = Append(Tail(frames.queue), time)
            /\ frames'.dropped = frames.dropped \cup {Head(frames.queue)}
  BY <1>2, <1>3, <1>4, EnqueuedFrames DEF RunnerTypeOK
<1>9. FramesOrdered(fed'.frames, Busy', frames'.queue, frames'.meta, frames'.dropped,
                    sensed'.camera)
  BY <1>2, <1>7, <1>8
<1>. QED BY <1>9, FramesOrderedIsNext DEF FrameSide

LEMMA PopFrameKeeps ==
    ASSUME FrameSide, RowSide, RunnerTypeOK, PopFrame
    PROVE  FrameSide' /\ FramesWaitForRows'
<1>1. FramesOrdered(fed.frames, Busy, frames.queue, frames.meta, frames.dropped,
                    sensed.camera)
  BY FramesOrderedIs DEF FrameSide
<1>2. fed' = fed /\ sensed' = sensed /\ Ready(update) /\ Busy = {}
  BY DEF PopFrame, Busy, Updating
<1>3. /\ frames.queue # <<>>
      /\ \E row \in ToSet(fed.rows) : Head(frames.queue) < row - update.offset
  BY <1>2, ReadyIsCovered DEF FrameSide
<1>4. /\ frames'.queue = Tail(frames.queue) /\ frames'.meta = frames.meta
      /\ frames'.dropped = frames.dropped
  BY DEF PopFrame, RunnerTypeOK, FrameQueues
<1>5. Busy' = {Head(frames.queue)} /\ update'.offset = update.offset
  BY DEF PopFrame, RunnerTypeOK, Updater, Busy
<1>6. FramesOrdered(fed.frames, {Head(frames.queue)}, Tail(frames.queue), frames.meta,
                    frames.dropped, sensed.camera)
  BY <1>1, <1>2, <1>3, RunnerValues, FeedKeepsOrder
<1>7. FramesOrdered(fed'.frames, Busy', frames'.queue, frames'.meta, frames'.dropped,
                    sensed'.camera)
  BY <1>2, <1>4, <1>5, <1>6
<1>8. FramesWaitForRows'
  BY <1>2, <1>3, <1>5 DEF FramesWaitForRows
<1>. QED BY <1>7, <1>8, FramesOrderedIsNext DEF FrameSide

LEMMA FeedFrameKeeps ==
    ASSUME FrameSide, RunnerTypeOK, FeedFrame
    PROVE  FrameSide' /\ Busy' = {}
<1>1. FramesOrdered(fed.frames, Busy, frames.queue, frames.meta, frames.dropped,
                    sensed.camera)
  BY FramesOrderedIs DEF FrameSide
<1>2. frames' = frames /\ sensed' = sensed /\ Busy = {update.frame}
  BY DEF FeedFrame, Busy, Updating
<1>3. fed'.frames = Append(fed.frames, update.frame)
  BY DEF FeedFrame, RunnerTypeOK
<1>4. Busy' = {}
  BY DEF FeedFrame, RunnerTypeOK, Updater, Busy
<1>5. FramesOrdered(Append(fed.frames, update.frame), {}, frames.queue, frames.meta,
                    frames.dropped, sensed.camera)
  BY <1>1, <1>2, RunnerValues, FeedKeepsOrder
<1>6. FramesOrdered(fed'.frames, Busy', frames'.queue, frames'.meta, frames'.dropped,
                    sensed'.camera)
  BY <1>2, <1>3, <1>4, <1>5
<1>. QED BY <1>4, <1>6, FramesOrderedIsNext DEF FrameSide

(* The threads *)

\* A thread that is over stays over, none comes back from another place, and the
\* flag stays up.
LEMMA ThreadsOnlyEnd ==
    ASSUME RunnerTypeOK, RunnerNext
    PROVE  /\ stop => stop'
           /\ \A t \in Thread : thread[t] = "over" => thread'[t] = "over"
           /\ run.at = "returned" /\ (\A t \in Thread : thread[t] \in {"unborn", "over"})
                 => thread' = thread /\ error' = error /\ run' = run
           /\ run'.native = run.native
           /\ run'.at = "returned" => run.at \in {"join", "returned"}
<1>1. ASSUME NEW t \in Thread, Throw(t), Running(t)
      PROVE  /\ stop' /\ run' = run /\ \A u \in Thread : thread[u] = "over" => thread'[u] = "over"
             /\ thread[t] = "on"
  BY <1>1 DEF RunnerTypeOK, Throw, Ends, Running
<1>2. ASSUME NEW t \in Thread, ReaderStops(t)
      PROVE  /\ stop' = stop /\ run' = run
             /\ \A u \in Thread : thread[u] = "over" => thread'[u] = "over"
             /\ thread[t] = "on"
  BY <1>2 DEF RunnerTypeOK, ReaderStops, Ends, Running
<1>3. ASSUME MetaEnds \/ FramesEnd \/ FrameImage \/ FramePaired \/ UpdateEnds
      PROVE  /\ stop' = stop /\ run' = run
             /\ \A u \in Thread : thread[u] = "over" => thread'[u] = "over"
             /\ \E t \in Thread : thread[t] \in {"on", "pairing"}
  BY <1>3 DEF RunnerTypeOK, MetaEnds, FramesEnd, FrameImage, FramePaired, UpdateEnds, Ends,
              Running, Updating, Thread
<1>4. ASSUME ImuRow \/ CameraFrame \/ MetaRecord \/ TakeSamples \/ FeedImu \/ PopFrame
             \/ WaitAgain \/ FeedFrame \/ Tick
      PROVE  stop' = stop /\ run' = run /\ thread' = thread /\ error' = error
  BY <1>4 DEF ImuRow, CameraFrame, MetaRecord, TakeSamples, FeedImu, PopFrame, WaitAgain,
              FeedFrame, Tick
<1>5. CASE LaunchThread
  <2>1. PICK i \in DOMAIN Workers :
              /\ thread[Workers[i]] = "unborn"
              /\ thread' = [thread EXCEPT ![Workers[i]] = "on"]
              /\ run' = IF i < Len(Workers) THEN run ELSE [run EXCEPT !.at = "watch"]
    BY <1>5 DEF LaunchThread
  <2>2. run.at = "launch" /\ run'.at \in {"launch", "watch"} /\ run'.native = run.native
    BY <1>5, <2>1 DEF LaunchThread, RunnerTypeOK, Supervisor
  <2>3. \A t \in Thread : thread[t] = "over" => thread'[t] = "over"
    BY <2>1 DEF RunnerTypeOK
  <2>. QED BY <1>5, <2>2, <2>3 DEF LaunchThread
<1>6. ASSUME LaunchFails \/ WatchEnds
      PROVE  /\ stop' /\ thread' = thread /\ run.at \in {"launch", "watch"}
             /\ run'.at = "join" /\ run'.native = run.native
  BY <1>6 DEF LaunchFails, WatchEnds, RunnerTypeOK, Supervisor
<1>7. CASE Return
  <2>1. run.at = "join" /\ run'.native = run.native /\ thread' = thread /\ stop' = stop
    BY <1>7 DEF Return, RunnerTypeOK, Supervisor
  <2>. QED BY <2>1
<1>8. CASE CallerStops
  BY <1>8 DEF CallerStops
<1>. QED BY <1>1, <1>2, <1>3, <1>4, <1>5, <1>6, <1>7, <1>8
         DEF RunnerNext, Step, Fails, CameraSilent, Read, Supervise, Thread

LEMMA ErrorsStep ==
    ASSUME RunnerTypeOK, ErrorsAreKept, RunnerNext
    PROVE  ErrorsAreKept' /\ (error # "none" => error' = error)
<1>1. ASSUME NEW t \in Thread, Throw(t)
      PROVE  /\ error' = FirstError(t) /\ stop' /\ thread'[t] = "over" /\ run' = run
  BY <1>1 DEF RunnerTypeOK, Throw, Ends
<1>2. ASSUME NEW t \in Thread, Throw(t)
      PROVE  /\ error' # "none" => stop' /\ thread'[error'] = "over"
             /\ error # "none" => error' = error
  <2>1. CASE error = "none"
    BY <1>1, <1>2, <2>1 DEF FirstError
  <2>2. CASE error # "none"
    <3>1. error' = error /\ error \in Thread /\ thread[error] = "over"
      BY <1>1, <1>2, <2>2 DEF FirstError, ErrorsAreKept, RunnerTypeOK
    <3>2. thread'[error] = "over"
      BY <1>2, <3>1 DEF RunnerTypeOK, Throw, Ends
    <3>. QED BY <1>1, <1>2, <3>1, <3>2
  <2>. QED BY <2>1, <2>2
<1>3. ASSUME ~\E t \in Thread : Throw(t) PROVE error' = error
  BY <1>3 DEF RunnerNext, Step, Fails, Read, Supervise, ReaderStops, CameraSilent, ImuRow,
              CameraFrame, MetaRecord, MetaEnds, FrameImage, FramePaired, FramesEnd, TakeSamples,
              FeedImu, PopFrame, WaitAgain, UpdateEnds, FeedFrame, LaunchThread, LaunchFails,
              WatchEnds, Return, CallerStops, Tick, Thread
<1>4. /\ error' # "none" => stop' /\ thread'[error'] = "over"
      /\ error # "none" => error' = error
  <2>1. CASE \E t \in Thread : Throw(t)
    BY <1>2, <2>1
  <2>2. CASE ~\E t \in Thread : Throw(t)
    BY <1>3, <2>2, ThreadsOnlyEnd DEF ErrorsAreKept, RunnerTypeOK
  <2>. QED BY <2>1, <2>2
<1>5. ASSUME run'.at = "returned"
      PROVE  /\ \A t \in Thread : thread'[t] \in {"unborn", "over"}
             /\ error' # "none" => run'.outcome \in {error', "no_thread"}
  <2>1. CASE run.at = "returned"
    BY <2>1, ThreadsOnlyEnd DEF ErrorsAreKept
  <2>2. CASE run.at = "join"
    <3>1. Return
      BY <1>1, <1>5, <2>2
         DEF RunnerNext, Step, Fails, Read, Supervise, ReaderStops, CameraSilent, ImuRow,
              CameraFrame, MetaRecord, MetaEnds, FrameImage, FramePaired, FramesEnd, TakeSamples,
              FeedImu, PopFrame, WaitAgain, UpdateEnds, FeedFrame, LaunchThread, LaunchFails,
              WatchEnds, CallerStops, Tick, Thread
    <3>2. run'.outcome = Outcome
      BY <3>1 DEF Return, RunnerTypeOK, Supervisor
    <3>3. error # "none" => Outcome \in {error, "no_thread"}
      BY DEF Outcome
    <3>. QED BY <3>1, <3>2, <3>3 DEF Return
  <2>. QED BY <1>5, <2>1, <2>2, ThreadsOnlyEnd
<1>. QED BY <1>4, <1>5 DEF ErrorsAreKept

LEMMA SourceStep ==
    ASSUME RunnerTypeOK, OneSource, RunnerNext
    PROVE  OneSource'
<1>1. run'.native = run.native
  BY ThreadsOnlyEnd
<1>2. ASSUME NEW t \in {"camera", "meta"}, thread[t] = "unborn", thread'[t] # "unborn"
      PROVE  t = "camera" <=> run.native
  <2>1. LaunchThread
    BY <1>2 DEF RunnerTypeOK, RunnerNext, Step, Fails, Read, Supervise, Throw, Running, Ends,
           ReaderStops, CameraSilent, ImuRow, CameraFrame, MetaRecord, MetaEnds, FrameImage,
           FramePaired, FramesEnd, TakeSamples, FeedImu, PopFrame, WaitAgain, UpdateEnds,
           Updating, FeedFrame, LaunchFails, WatchEnds, Return, CallerStops, Tick, Thread
  <2>2. PICK i \in DOMAIN Workers : thread' = [thread EXCEPT ![Workers[i]] = "on"]
    BY <2>1 DEF LaunchThread
  <2>3. t = Workers[i]
    BY <1>2, <2>2 DEF RunnerTypeOK, Thread
  <2>4. CASE run.native
    <3>1. Workers = <<"imu", "update", "camera">>
      BY <2>4 DEF Workers
    <3>. QED BY <1>2, <2>3, <2>4, <3>1
  <2>5. CASE ~run.native
    <3>1. Workers = <<"imu", "update", "meta", "frame">>
      BY <2>5 DEF Workers
    <3>. QED BY <1>2, <2>3, <2>5, <3>1
  <2>. QED BY <2>4, <2>5
<1>3. ASSUME run.native PROVE frames'.meta = <<>>
  <2>1. frames.meta = <<>> /\ thread["meta"] = "unborn"
    BY <1>3 DEF OneSource
  <2>2. CASE frames' = frames
    BY <2>1, <2>2
  <2>3. CASE CameraFrame
    BY <2>1, <2>3, EnqueuedFrames DEF CameraFrame, RunnerTypeOK
  <2>4. ASSUME MetaEnds \/ FramesEnd \/ PopFrame PROVE frames'.meta = <<>>
    BY <2>1, <2>4 DEF MetaEnds, FramesEnd, PopFrame, RunnerTypeOK, FrameQueues
  <2>5. ~MetaRecord /\ ~FramePaired
    BY <2>1 DEF MetaRecord, FramePaired, Running
  <2>. QED BY <2>2, <2>3, <2>4, <2>5
           DEF RunnerNext, Step, Fails, Read, Supervise, Throw,
           ReaderStops, CameraSilent, ImuRow, FrameImage, TakeSamples, FeedImu, WaitAgain,
           UpdateEnds, FeedFrame, LaunchThread, LaunchFails, WatchEnds, Return, CallerStops,
           Tick, Thread
<1>. QED BY <1>1, <1>2, <1>3 DEF OneSource

-----------------------------------------------------------------------------
\* A frame in hand stays covered, as rows are only added.
LEMMA CoverKeeps ==
    ASSUME FramesWaitForRows, ToSet(fed.rows) \subseteq ToSet(fed'.rows),
           Busy' = {} \/ (Busy' = Busy /\ update'.offset = update.offset)
    PROVE  FramesWaitForRows'
  BY DEF FramesWaitForRows

\* RunnerInv holds initially, and every step preserves it.
LEMMA RunnerInvInit == RunnerInit => RunnerInv
<1>. SUFFICES ASSUME RunnerInit PROVE RunnerInv
  OBVIOUS
<1>1. /\ imuQ = <<>> /\ frames.queue = <<>> /\ frames.meta = <<>> /\ frames.dropped = {}
      /\ fed.rows = <<>> /\ fed.frames = <<>> /\ now = Start /\ error = "none"
      /\ sensed.imu = 0 /\ sensed.rows = <<>> /\ sensed.camera = 0
      /\ update.at = "wait" /\ update.taken = <<>> /\ update.imu = 0
      /\ run.at = "launch" /\ \A t \in Thread : thread[t] = "unborn"
  BY DEF RunnerInit
<1>2. <<>> \in Seq(Nat) /\ Len(<<>>) = 0 /\ ToSet(<<>>) = {} /\ Ascending(<<>>)
  BY DEF ToSet, Ascending
<1>3. RunnerTypeOK
  <2>1. run \in Supervisor
    BY DEF RunnerInit, Supervisor
  <2>6. update \in Updater
    <3>1. update \in [at : {"wait"}, taken : {<<>>}, frame : {0}, offset : Offsets,
                     stall : {0}, imu : {0}]
      BY DEF RunnerInit
    <3>2. {<<>>} \subseteq Seq(Nat) /\ {0} \subseteq Nat
      BY <1>2
    <3>. QED BY <3>1, <3>2 DEF Updater
  <2>2. frames \in FrameQueues
    BY <1>2 DEF RunnerInit, FrameQueues
  <2>3. sensed \in Samples
    <3>1. PICK quiet \in {"imu", "camera"} :
             sensed = [imu |-> 0, rows |-> <<>>, camera |-> 0, silent |-> quiet]
      BY DEF RunnerInit
    <3>. QED BY <1>2, <3>1 DEF Samples
  <2>4. fed \in [rows : Seq(Nat), frames : Seq(Nat)]
    BY <1>2 DEF RunnerInit
  <2>5. thread \in [Thread -> {"unborn", "on", "pairing", "over"}]
    BY DEF RunnerInit
  <2>7. /\ Len(imuQ) <= MaxRows /\ Len(frames.queue) <= MaxCamQueue
        /\ Len(frames.meta) <= MaxRows /\ now \in Nat /\ imuQ \in Seq(Nat)
        /\ stop \in BOOLEAN /\ error \in {"none"} \cup Thread
    <3>1. stop \in BOOLEAN
      BY DEF RunnerInit
    <3>2. Start \in Nat /\ 0 <= MaxRows /\ 0 <= MaxCamQueue
      BY RunnerNumbers
    <3>. QED BY <1>1, <1>2, <3>1, <3>2
  <2>. QED BY <2>1, <2>2, <2>3, <2>4, <2>5, <2>6, <2>7 DEF RunnerTypeOK
<1>4. RowSide
  <2>1. <<>> \o <<>> \o <<>> = <<>>
    OBVIOUS
  <2>. QED BY <1>1, <1>2, <2>1, RunnerNumbers DEF RowSide, RowsAreFedOnce, ClockRunsAhead
<1>5. FrameSide /\ FramesWaitForRows
  BY <1>1, <1>2 DEF FrameSide, FramesAccounted, FramesKeepTheirOrder, FramesWaitForRows, Busy,
                    Older
<1>6. OneSource /\ ErrorsAreKept
  BY <1>1 DEF OneSource, ErrorsAreKept, Thread
<1>. QED BY <1>3, <1>4, <1>5, <1>6 DEF RunnerInv, RowSide, FrameSide

LEMMA RunnerInvStep ==
    ASSUME RunnerInv, [RunnerNext]_runnerVars
    PROVE  RunnerInv'
<1>1. /\ RunnerTypeOK /\ RowSide /\ FrameSide /\ FramesWaitForRows /\ OneSource
      /\ ErrorsAreKept /\ FramesKeepTheirOrder
  BY DEF RunnerInv, RowSide, FrameSide
<1>2. CASE UNCHANGED runnerVars
  BY <1>2 DEF runnerVars, RunnerInv, RunnerTypeOK, RowsAreFedOnce, FramesWaitForRows,
     FramesAccounted, ClockRunsAhead, FramesKeepTheirOrder, OneSource, ErrorsAreKept, Busy
<1>3. ASSUME RunnerNext PROVE RunnerInv'
  <2>1. RunnerTypeOK' /\ OneSource' /\ ErrorsAreKept'
    BY <1>1, <1>3, RunnerTypeStep, SourceStep, ErrorsStep
  <2>. DEFINE Done == RowSide' /\ FrameSide' /\ FramesWaitForRows'
  <2>2. now <= now
    BY <1>1, RunnerValues
  <2>3. ASSUME UNCHANGED <<imuQ, fed, update, sensed>>, now <= now',
               frames'.queue = frames.queue, frames'.meta = frames.meta,
               frames'.dropped = frames.dropped
        PROVE  Done
    <3>1. Busy' = Busy
      BY <2>3 DEF Busy
    <3>2. RowSide'
      BY <1>1, <2>1, <2>3, CalmRows DEF RowSide, ClockRunsAhead
    <3>3. FrameSide'
      BY <1>1, <2>3, <3>1, CalmFrames
    <3>4. FramesWaitForRows'
      BY <1>1, <2>3, <3>1, CoverKeeps
    <3>. QED BY <3>2, <3>3, <3>4
  <2>4. ASSUME NEW t \in Thread, Throw(t) \/ ReaderStops(t) PROVE Done
    BY <2>2, <2>3, <2>4 DEF Throw, ReaderStops
  <2>5. ASSUME MetaEnds \/ FramesEnd PROVE Done
    <3>1. /\ frames'.queue = frames.queue /\ frames'.meta = frames.meta
          /\ frames'.dropped = frames.dropped
      BY <1>1, <2>5 DEF MetaEnds, FramesEnd, RunnerTypeOK, FrameQueues
    <3>. QED BY <2>2, <2>3, <2>5, <3>1 DEF MetaEnds, FramesEnd
  <2>6. ASSUME FrameImage \/ UpdateEnds \/ LaunchThread \/ LaunchFails \/ WatchEnds \/ Return
               \/ CallerStops
        PROVE  Done
    BY <2>2, <2>3, <2>6
       DEF FrameImage, UpdateEnds, LaunchThread, LaunchFails, WatchEnds, Return, CallerStops
  <2>7. ASSUME Tick PROVE Done
    <3>1. now' = now + 1 /\ now \in Nat
      BY <1>1, <2>7, RunnerValues DEF Tick
    <3>2. now <= now'
      BY <3>1
    <3>. QED BY <2>3, <2>7, <3>2 DEF Tick
  <2>8. ASSUME ImuRow PROVE Done
    <3>1. /\ Busy' = Busy /\ sensed'.camera = sensed.camera /\ frames' = frames /\ fed' = fed
          /\ update' = update
      BY <1>1, <2>8 DEF ImuRow, Busy, RunnerTypeOK, Samples
    <3>2. RowSide'
      BY <1>1, <2>8, ImuRowKeeps
    <3>3. FrameSide'
      BY <1>1, <3>1, CalmFrames
    <3>4. FramesWaitForRows'
      BY <1>1, <3>1, CoverKeeps
    <3>. QED BY <3>2, <3>3, <3>4
  <2>9. ASSUME CameraFrame \/ MetaRecord PROVE Done
    <3>1. /\ imuQ' = imuQ /\ fed' = fed /\ update' = update /\ now' = now /\ Busy' = Busy
          /\ sensed'.rows = sensed.rows /\ sensed'.imu = sensed.imu /\ sensed'.camera = now
      BY <1>1, <2>9 DEF CameraFrame, MetaRecord, Busy, RunnerTypeOK, Samples
    <3>2. RowSide'
      BY <1>1, <2>1, <2>2, <3>1, CalmRows DEF RowSide, ClockRunsAhead
    <3>3. FrameSide'
      BY <1>1, <2>9, CameraFrameKeeps, MetaRecordKeeps
    <3>4. FramesWaitForRows'
      BY <1>1, <3>1, CoverKeeps
    <3>. QED BY <3>2, <3>3, <3>4
  <2>10. ASSUME FramePaired PROVE Done
    <3>1. /\ imuQ' = imuQ /\ fed' = fed /\ update' = update /\ now' = now /\ Busy' = Busy
          /\ sensed' = sensed
      BY <2>10 DEF FramePaired, Busy
    <3>2. RowSide'
      BY <1>1, <2>1, <2>2, <3>1, CalmRows DEF RowSide, ClockRunsAhead
    <3>3. FrameSide'
      BY <1>1, <2>10, FramePairedKeeps
    <3>4. FramesWaitForRows'
      BY <1>1, <3>1, CoverKeeps
    <3>. QED BY <3>2, <3>3, <3>4
  <2>11. ASSUME TakeSamples PROVE Done
    <3>1. /\ fed' = fed /\ frames' = frames /\ sensed' = sensed
          /\ Busy = {} /\ Busy' = {}
      BY <1>1, <2>11 DEF TakeSamples, Updating, Busy, RunnerTypeOK, Updater
    <3>2. RowSide'
      BY <1>1, <2>11, TakeSamplesKeeps
    <3>3. FrameSide'
      BY <1>1, <3>1, CalmFrames
    <3>4. FramesWaitForRows'
      BY <1>1, <3>1, CoverKeeps
    <3>. QED BY <3>2, <3>3, <3>4
  <2>12. ASSUME FeedImu PROVE Done
    <3>1. /\ fed'.frames = fed.frames /\ frames' = frames /\ sensed' = sensed
          /\ Busy = {} /\ Busy' = {}
      BY <1>1, <2>12 DEF FeedImu, Updating, Busy, RunnerTypeOK, Updater
    <3>2. RowSide' /\ ToSet(fed.rows) \subseteq ToSet(fed'.rows)
      BY <1>1, <2>12, FeedImuKeeps
    <3>3. FrameSide'
      BY <1>1, <3>1, CalmFrames
    <3>4. FramesWaitForRows'
      BY <1>1, <3>1, <3>2, CoverKeeps
    <3>. QED BY <3>2, <3>3, <3>4
  <2>13. ASSUME PopFrame PROVE Done
    <3>1. /\ imuQ' = imuQ /\ fed' = fed /\ now' = now /\ sensed' = sensed
          /\ update'.taken = update.taken /\ update'.imu = update.imu /\ update.taken = <<>>
      BY <1>1, <2>13 DEF PopFrame, RunnerTypeOK, Updater
    <3>2. RowSide'
      BY <1>1, <2>1, <2>2, <3>1, CalmRows
    <3>3. FrameSide' /\ FramesWaitForRows'
      BY <1>1, <2>13, PopFrameKeeps
    <3>. QED BY <3>2, <3>3
  <2>14. ASSUME WaitAgain PROVE Done
    <3>1. /\ imuQ' = imuQ /\ fed' = fed /\ now' = now /\ sensed' = sensed /\ frames' = frames
          /\ update'.taken = update.taken /\ update'.imu = update.imu /\ update.taken = <<>>
          /\ Busy = {} /\ Busy' = {}
      BY <1>1, <2>14 DEF WaitAgain, Updating, Busy, RunnerTypeOK, Updater
    <3>2. RowSide'
      BY <1>1, <2>1, <2>2, <3>1, CalmRows
    <3>3. FrameSide'
      BY <1>1, <3>1, CalmFrames
    <3>4. FramesWaitForRows'
      BY <1>1, <3>1, CoverKeeps
    <3>. QED BY <3>2, <3>3, <3>4
  <2>15. ASSUME FeedFrame PROVE Done
    <3>1. /\ imuQ' = imuQ /\ fed'.rows = fed.rows /\ now' = now /\ sensed' = sensed
          /\ update'.taken = update.taken /\ update'.imu = update.imu /\ update.at = "camera"
      BY <1>1, <2>15 DEF FeedFrame, Updating, RunnerTypeOK, Updater
    <3>2. RowSide'
      BY <1>1, <2>1, <2>2, <3>1, CalmRows DEF RowSide, ClockRunsAhead
    <3>3. FrameSide' /\ Busy' = {}
      BY <1>1, <2>15, FeedFrameKeeps
    <3>4. FramesWaitForRows'
      BY <1>1, <3>1, <3>3, CoverKeeps
    <3>. QED BY <3>2, <3>3, <3>4
  <2>. HIDE DEF Done
  <2>16. Done
    BY <1>3, <2>4, <2>5, <2>6, <2>7, <2>8, <2>9, <2>10, <2>11, <2>12, <2>13, <2>14, <2>15
       DEF RunnerNext, Step, Fails, CameraSilent, Read, Supervise, Thread
  <2>. QED BY <2>1, <2>16 DEF Done, RunnerInv, RowSide, FrameSide
<1>. QED BY <1>2, <1>3

\* What the estimator is fed and how the threads of a capture agree.  (run)
THEOREM RunnerInvariant == RunnerSpec => []RunnerInv
<1>1. RunnerInv /\ [RunnerNext]_runnerVars => RunnerInv'
  BY RunnerInvStep
<1>. QED BY <1>1, RunnerInvInit, PTL DEF RunnerSpec

\* The oldest frames give way under load; none is dropped and fed, and those that
\* are fed are in order.  (enqueue_frame)
THEOREM FramesAreAccounted == RunnerSpec => []FramesAccounted
<1>1. RunnerInv => FramesAccounted
  BY DEF RunnerInv
<1>. QED BY <1>1, RunnerInvariant, PTL

\* The first exception is kept, and thrown once no thread is left.  (Workers)
THEOREM FirstErrorIsReported == RunnerSpec => FirstErrorReported
<1>1. RunnerInv /\ RunnerInv' /\ [RunnerNext]_runnerVars =>
        [/\ error # "none" => error' = error
         /\ run'.at = "returned" =>
               /\ \A t \in Thread : thread'[t] \in {"unborn", "over"}
               /\ error' # "none" => run'.outcome \in {error', "no_thread"}]_runnerVars
  <2>. SUFFICES ASSUME RunnerInv, RunnerInv', RunnerNext
                PROVE  /\ error # "none" => error' = error
                       /\ ErrorsAreKept'
    BY DEF ErrorsAreKept
  <2>. QED BY ErrorsStep DEF RunnerInv
<1>. QED BY <1>1, RunnerInvariant, PTL DEF RunnerSpec, FirstErrorReported
=============================================================================
