--------------------------- MODULE FlightApplication ---------------------------
(***************************************************************************)
(* run_flight and run_capture of src/flight_application.cpp: the main      *)
(* thread that owns the link, the estimator, the camera and one capture    *)
(* worker at a time, and services the flight controller while the worker   *)
(* runs the estimator.  The link is LinkContract's, which MavlinkLink is   *)
(* checked to keep.                                                        *)
(*                                                                         *)
(* Main-thread code between two calls of pump(), and each call that may    *)
(* throw or that the worker can see, is one step; the worker, SIGTERM, the *)
(* controller and time move between the steps.  X_Slip just before X is X  *)
(* with one slip put in, which TLC has to detect.                          *)
(***************************************************************************)
EXTENDS LinkContract

ASSUME ApplicationAssumption ==
    /\ ResetModulus \in Nat \ {0}
    /\ MaxGeneration \in Nat

VARIABLES
    app,        \* the main thread
    worker,     \* the CaptureWorker and what its thread has produced
    stopping,   \* SIGTERM or SIGINT has been received
    capture     \* what the captures left behind (history)

vars == <<link, wire, app, worker, stopping, capture>>

Place == {"top", "await", "select", "recheck", "prepare", "loop", "end", "halt", "drain",
          "join", "settle", "caught", "backoff", "exited"}

(***************************************************************************)
(* app.generation  the local variable generation of run_flight             *)
(* app.estimator   the estimator exists                                    *)
(* app.error       capture_error                                           *)
(* app.requested   requested_stop                                          *)
(* app.exit        how the process ended                                   *)
(***************************************************************************)
App ==
    [at : Place, generation : 0..MaxGeneration, estimator : BOOLEAN,
     error : BOOLEAN, requested : BOOLEAN, exit : {"running", "clean", "failure"}]

(***************************************************************************)
(* worker.stop     the flag the worker's threads watch                     *)
(* worker.error    run() threw                                             *)
(* worker.latest   the generation in the LatestEstimate mailbox; 0: empty  *)
(* worker.complete the recording is complete                               *)
(***************************************************************************)
Worker ==
    [at : {"none", "running", "done"}, stop : BOOLEAN, error : BOOLEAN,
     latest : 0..MaxGeneration, complete : BOOLEAN]

NoWorker == [at |-> "none", stop |-> FALSE, error |-> FALSE, latest |-> 0, complete |-> FALSE]

(***************************************************************************)
(* capture.used     this estimator object has run a capture                *)
(* capture.reused   an estimator that had run a capture ran another        *)
(* capture.checked  the last generation for which the controller was found *)
(*                  disarmed after the exposure had been chosen            *)
(* capture.marked, capture.earned   the last capture was marked complete;  *)
(*                  its worker, its recording and SIGTERM bear it out      *)
(***************************************************************************)
Capture == [used : BOOLEAN, reused : BOOLEAN, checked : 0..MaxGeneration,
            marked : BOOLEAN, earned : BOOLEAN]

TypeOK ==
    /\ ContractTypeOK
    /\ app \in App
    /\ worker \in Worker
    /\ stopping \in BOOLEAN
    /\ capture \in Capture

Init ==
    /\ ContractInit
    /\ app = [at |-> "top", generation |-> 0, estimator |-> TRUE,
              error |-> FALSE, requested |-> FALSE, exit |-> "running"]
    /\ worker = NoWorker
    /\ stopping = FALSE
    /\ capture = [used |-> FALSE, reused |-> FALSE, checked |-> 0, marked |-> FALSE,
                  earned |-> FALSE]

-----------------------------------------------------------------------------
Exit(a, how) == [a EXCEPT !.at = "exited", !.exit = how]

Failing == link.state = "Failed"

\* The link is polled in every loop of the main thread.
Pump ==
    /\ app.at \in {"await", "select", "recheck", "loop", "drain", "backoff"}
    /\ Poll
    /\ UNCHANGED <<app, worker, stopping, capture>>

\* What pump() throws outside of the capture's try block ends run_flight.
PumpThrows ==
    /\ app.at \in {"await", "backoff"}
    /\ Failing
    /\ app' = Exit(app, "failure")
    /\ UNCHANGED <<link, wire, worker, stopping, capture>>

Begin ==
    /\ app.at = "top"
    /\ ~stopping
    /\ app.generation < MaxGeneration
    /\ app' = [app EXCEPT !.at = "await", !.generation = @ + 1]
    /\ MayStart(link) /\ ~link.partial
    /\ StartSession(app.generation + 1)
    /\ UNCHANGED <<worker, stopping, capture>>

\* start_session() throws, and closes the link if a packet is half sent.
BeginRefused ==
    /\ app.at = "top"
    /\ ~stopping
    /\ link.partial \/ ~MayStart(link)
    /\ link' = IF link.partial THEN Closed(link) ELSE link
    /\ app' = Exit(app, "failure")
    /\ UNCHANGED <<wire, worker, stopping, capture>>

\* reserve_reset() throws.
ReserveThrows ==
    /\ app.at = "top"
    /\ ~stopping
    /\ app' = Exit(app, "failure")
    /\ UNCHANGED <<link, wire, worker, stopping, capture>>

Leave ==
    /\ app.at = "top" \/ (app.at = "await" /\ ~Failing)
    /\ stopping
    /\ app' = Exit(app, "clean")
    /\ UNCHANGED <<link, wire, worker, stopping, capture>>

FoundDisarmed ==
    /\ app.at = "await"
    /\ ~Failing /\ ~stopping
    /\ Disarmed(link)
    /\ app' = [app EXCEPT !.at = "select", !.estimator = TRUE]
    /\ capture' = [capture EXCEPT !.used = @ /\ app.estimator]
    /\ UNCHANGED <<link, wire, worker, stopping>>

\* make_estimator, the calibration check, make_camera or select_exposure throws:
\* a probe also when the link fails, SIGTERM arrives or the vehicle is armed.
SelectThrows ==
    /\ app.at = "select"
    /\ app' = [app EXCEPT !.at = "caught"]
    /\ UNCHANGED <<link, wire, worker, stopping, capture>>

Select ==
    /\ app.at = "select"
    /\ ~Failing
    /\ app' = [app EXCEPT !.at = "recheck"]
    /\ UNCHANGED <<link, wire, worker, stopping, capture>>

Checked == IF Disarmed(link) THEN app.generation ELSE capture.checked

Recheck_PumpOnly ==
    /\ app.at = "recheck"
    /\ app' = [app EXCEPT !.at = IF Failing THEN "caught"
                                 ELSE IF stopping THEN "top"
                                 ELSE "prepare"]
    /\ capture' = [capture EXCEPT !.checked = Checked]
    /\ UNCHANGED <<link, wire, worker, stopping>>

Recheck ==
    /\ app.at = "recheck"
    /\ app' = [app EXCEPT !.at = IF Failing THEN "caught"
                                 ELSE IF stopping \/ ~Disarmed(link) THEN "top"
                                 ELSE "prepare"]
    /\ capture' = [capture EXCEPT !.checked = Checked]
    /\ UNCHANGED <<link, wire, worker, stopping>>

\* prepare_recording, the IMU devices or camera.start throws.
PrepareThrows ==
    /\ app.at = "prepare"
    /\ app' = [app EXCEPT !.at = "caught"]
    /\ UNCHANGED <<link, wire, worker, stopping, capture>>

Launch ==
    /\ app.at = "prepare"
    /\ app' = [app EXCEPT !.at = "loop", !.error = FALSE, !.requested = FALSE]
    /\ worker' = [NoWorker EXCEPT !.at = "running"]
    /\ capture' = [capture EXCEPT !.used = TRUE, !.reused = @ \/ capture.used,
                                  !.marked = FALSE, !.earned = FALSE]
    /\ UNCHANGED <<link, wire, stopping>>

-----------------------------------------------------------------------------
(* The capture loop and its clean-up *)

PublishLatest ==
    /\ app.at = "loop"
    /\ worker.latest # 0 /\ worker.latest = link.generation
    /\ Publish
    /\ UNCHANGED <<app, worker, stopping, capture>>

\* No estimate for too long, or the latest one too old.
LoopThrows ==
    /\ app.at = "loop"
    /\ app' = [app EXCEPT !.at = "end", !.error = TRUE]
    /\ UNCHANGED <<link, wire, worker, stopping, capture>>

\* pump() throws or returns false, or the worker is done.
LoopEnds ==
    /\ app.at = "loop"
    /\ Failing \/ stopping \/ worker.at = "done"
    /\ app' = [app EXCEPT !.at = "end",
                          !.error = Failing \/ ~stopping,
                          !.requested = stopping /\ ~Failing]
    /\ UNCHANGED <<link, wire, worker, stopping, capture>>

EndCapture_LeavesSession ==
    /\ app.at = "end"
    /\ app' = [app EXCEPT !.at = "halt"]
    /\ worker' = [worker EXCEPT !.stop = TRUE]
    /\ UNCHANGED <<link, wire, stopping, capture>>

EndCapture_ForgetsWorker ==
    /\ app.at = "end"
    /\ EndSession
    /\ app' = [app EXCEPT !.at = "halt"]
    /\ UNCHANGED <<worker, stopping, capture>>

\* link.end_session(); worker.stop = true
EndCapture ==
    /\ app.at = "end"
    /\ EndSession
    /\ app' = [app EXCEPT !.at = "halt"]
    /\ worker' = [worker EXCEPT !.stop = TRUE]
    /\ UNCHANGED <<stopping, capture>>

\* camera.stop(), which may throw once the camera is stopped.
HaltCamera ==
    /\ app.at = "halt"
    /\ \E error \in BOOLEAN :
          app' = [app EXCEPT !.at = "drain", !.error = @ \/ error]
    /\ UNCHANGED <<link, wire, worker, stopping, capture>>

Drained == worker.at = "done"

Settled_IgnoresWorker == app.error

Settled == app.error \/ worker.error

\* The worker is joined and its error taken; the mailbox goes with the capture.
Join ==
    /\ app.at = "drain"
    /\ Drained
    /\ app' = [app EXCEPT !.at = "settle", !.error = Settled]
    /\ UNCHANGED <<link, wire, worker, stopping, capture>>

\* run_capture throws what it caught.
SettleThrows ==
    /\ app.at = "settle"
    /\ app.error
    /\ app' = [app EXCEPT !.at = "caught"]
    /\ UNCHANGED <<link, wire, worker, stopping, capture>>

\* It marks a complete recording, which may throw too, and returns.
Settle ==
    /\ app.at = "settle"
    /\ ~app.error
    /\ capture' = [capture EXCEPT
                      !.marked = app.requested /\ worker.complete,
                      !.earned = stopping /\ worker.complete /\ ~worker.error]
    /\ \/ app' = [app EXCEPT !.at = "backoff", !.estimator = FALSE]
       \/ capture'.marked /\ app' = [app EXCEPT !.at = "caught"]
    /\ UNCHANGED <<link, wire, worker, stopping>>

Rethrown == link.state \in {"Failed", "AwaitingAlignment"}

Caught_KeepsEstimator ==
    /\ app.at = "caught"
    /\ app' = IF stopping THEN Exit(app, "clean")
              ELSE IF Rethrown THEN Exit(app, "failure")
              ELSE [app EXCEPT !.at = "backoff"]
    /\ UNCHANGED <<link, wire, worker, stopping, capture>>

Caught ==
    /\ app.at = "caught"
    /\ app' = IF stopping THEN Exit(app, "clean")
              ELSE IF Rethrown THEN Exit(app, "failure")
              ELSE [app EXCEPT !.at = "backoff", !.estimator = FALSE]
    /\ UNCHANGED <<link, wire, worker, stopping, capture>>

\* The retry time has come, or pump() returned false.
BackoffEnds ==
    /\ app.at = "backoff"
    /\ ~Failing
    /\ app' = [app EXCEPT !.at = "top"]
    /\ UNCHANGED <<link, wire, worker, stopping, capture>>

-----------------------------------------------------------------------------
(* The worker, the operator and time *)

Estimate ==
    /\ worker.at = "running"
    /\ worker' = [worker EXCEPT !.latest = app.generation]
    /\ UNCHANGED <<link, wire, app, stopping, capture>>

\* run() ends, by a return or a throw; its threads have ended and its recording
\* has been closed.
WorkerDone(error) ==
    /\ worker.at = "running"
    /\ \E complete \in BOOLEAN :
          worker' = [worker EXCEPT !.at = "done", !.stop = TRUE, !.error = error,
                                   !.complete = complete]
    /\ UNCHANGED <<link, wire, app, stopping, capture>>

WorkerStops == worker.stop /\ \E error \in BOOLEAN : WorkerDone(error)

\* A sensor or the estimator fails.
WorkerThrows == ~worker.stop /\ WorkerDone(TRUE)

Terminate ==
    /\ ~stopping
    /\ stopping' = TRUE
    /\ UNCHANGED <<link, wire, app, worker, capture>>

TimePasses ==
    /\ app.at # "exited"
    /\ Silence
    /\ UNCHANGED <<app, worker, stopping, capture>>

-----------------------------------------------------------------------------
\* What the main thread does next when nothing goes wrong by itself.
Proceed ==
    \/ PumpThrows \/ Begin \/ BeginRefused \/ Leave \/ FoundDisarmed
    \/ SelectThrows \/ Select \/ Recheck \/ Launch
    \/ LoopEnds \/ EndCapture \/ HaltCamera \/ Join \/ SettleThrows \/ Settle
    \/ Caught \/ BackoffEnds

Next ==
    \/ Proceed
    \/ ReserveThrows \/ PrepareThrows \/ LoopThrows
    \/ Pump \/ PublishLatest
    \/ Estimate \/ WorkerStops \/ WorkerThrows
    \/ Terminate
    \/ TimePasses

(***************************************************************************)
(* Both threads are scheduled; every wait of the main thread is a loop     *)
(* over sleep_for or has a deadline, and every wait of the worker's        *)
(* threads has one too, after which they look at the stop flag.  Nothing   *)
(* makes the controller speak, an estimate appear or a signal arrive.      *)
(***************************************************************************)
Fairness == WF_vars(Proceed) /\ WF_vars(WorkerStops)

Spec == Init /\ [][Next]_vars /\ Fairness

-----------------------------------------------------------------------------
(* Safety *)

\* The mailbox never offers the link an estimate of another generation than
\* the link's, across failed captures and the restarts skipped by an early
\* "continue".  (run_flight, run_capture)
MailboxIsCurrent ==
    worker.latest # 0 /\ app.at = "loop" => worker.latest = link.generation

\* The worker has ended before anything it uses does: the mailbox, the IMU
\* buffers, the camera object and the estimator.  (CaptureWorker, run_capture)
WorkerEndsFirst ==
    worker.at = "running" => app.at \in {"loop", "end", "halt", "drain"}

\* No measurement waits in the link once a capture is being taken down, or
\* before the next is up, so none is sent while the main thread goes on
\* polling for the worker to unwind; and what the worker uses outlives it.
\* (run_capture, end_session)
NoPoseDuringCleanup ==
    /\ TypeOK
    /\ link.queued => app.at \in {"loop", "end"}
    /\ MailboxIsCurrent
    /\ WorkerEndsFirst

\* An estimator that has run a capture, and holds its filter state and queues,
\* never runs another; and a capture starts only if the controller was still
\* disarmed, in the capture's session, after the exposure had been chosen, however
\* it was armed, lost or replaced since the wait for it ended.  (run_flight)
CaptureStartsClean ==
    /\ ~capture.reused
    /\ worker.at = "running" => capture.checked = link.generation

\* A capture marked complete was stopped by request, its recording is complete
\* and its worker did not throw, whichever came first of the signal and the
\* worker's end.  (run_capture)
MarkerIsEarned == capture.marked => capture.earned

\* The process ends as a success only when it was told to stop, so the service
\* manager restarts it after everything else.  (run_flight)
CleanExitOnRequest == app.exit = "clean" => stopping

\* What the process leaves for others to read is true: the recording's marker
\* and its exit status.  (run_flight, run_capture)
OutcomeIsEarned == MarkerIsEarned /\ CleanExitOnRequest

(* Liveness *)

\* A signal ends the process, wherever the main thread is and whatever the
\* controller does, and so does a failed link: no capture goes on or is retried
\* over it.  (run_flight, run_capture)
ProcessEnds == stopping \/ Failing ~> app.at = "exited"
=============================================================================
