----------------------------- MODULE SensorRunner -----------------------------
(***************************************************************************)
(* OpenVinsRunner::run of src/openvins_runner/sensor_runner.cpp: one       *)
(* capture with its worker threads, the queues between them and the        *)
(* supervisor that watches the IMU and joins them.  The frames of a native *)
(* run come from the camera source; those of the legacy runner from two    *)
(* FIFOs that meta_thread and frame_thread read.                           *)
(*                                                                         *)
(* Time is counted in coarse ticks: the supervisor's 20 ms loop acts       *)
(* within a tick, every other thread may be arbitrarily slow.  A sample is *)
(* its timestamp; sensors fall silent after LastSample at the latest.  X_Y *)
(* just before X is X with one slip put in.                                *)
(***************************************************************************)
EXTENDS Integers, Sequences, SequencesExt

CONSTANTS
    Start,          \* the clock when run() is called
    Offsets,        \* camera-to-IMU time offsets the estimator may calibrate
    MaxCamQueue,    \* options.max_camera_queue
    MaxRows,        \* limit of imu_q and of meta_ts
    StartGrace,     \* the supervisor's 3 s
    ImuLimit,       \* its 2 s
    CameraLimit,    \* camera_thread's limit without a frame
    FrameGrace,     \* update_thread's second after the last frame
    LastSample,     \* bound: no sample is taken later
    MaxTime         \* bound of the clock

ASSUME RunnerAssumption ==
    /\ Start \in Nat \ {0}
    /\ Offsets \subseteq Int /\ Offsets # {}
    /\ \A offset \in Offsets : Start + offset >= 0
    /\ {MaxCamQueue, MaxRows, StartGrace, ImuLimit, CameraLimit, FrameGrace}
          \subseteq Nat \ {0}
    /\ {LastSample, MaxTime} \subseteq Nat /\ Start <= LastSample /\ LastSample < MaxTime

VARIABLES
    run,        \* the thread that called run(): options.camera, its place, why it left
                \* the supervisor's loop, and how run() ended
    stop,       \* the flag every thread watches, also set by the caller
    thread,     \* what each worker thread is doing
    error,      \* Workers::error, "none" or the thread whose exception it holds
    imuQ,       \* Shared::imu_q
    frames,     \* Shared::cam_q, frames_done, meta_ts, meta_done, and drop counts
    update,     \* update_thread's locals and last_imu_ns
    fed,        \* the rows and the frames the estimator was fed (history)
    now,        \* the clock, CLOCK_MONOTONIC
    sensed      \* when the last row and frame were taken, the rows handed over (history),
                \* and which sensor falls silent

runnerVars == <<run, stop, thread, error, imuQ, frames, update, fed, now, sensed>>

Thread == {"imu", "update", "camera", "meta", "frame"}

\* In the order run() launches them.
Workers == IF run.native THEN <<"imu", "update", "camera">>
                         ELSE <<"imu", "update", "meta", "frame">>

Supervisor == [native : BOOLEAN, at : {"launch", "watch", "join", "returned"},
               why : {"none", "stop", "frames", "imu", "unborn"},
               outcome : {"none", "ok", "imu_stalled", "no_thread"} \cup Thread]

FrameQueues == [queue : Seq(Nat), done : BOOLEAN, meta : Seq(Nat), ended : BOOLEAN,
                dropped : SUBSET Nat]

Updater == [at : {"wait", "feed", "camera"}, taken : Seq(Nat), frame : Nat,
            offset : Offsets, stall : Nat, imu : Nat]

Samples == [imu : Nat, rows : Seq(Nat), camera : Nat, silent : {"imu", "camera"}]

RunnerTypeOK ==
    /\ run \in Supervisor
    /\ stop \in BOOLEAN
    /\ thread \in [Thread -> {"unborn", "on", "pairing", "over"}]
    /\ error \in {"none"} \cup Thread
    /\ imuQ \in Seq(Nat) /\ Len(imuQ) <= MaxRows
    /\ frames \in FrameQueues
    /\ Len(frames.queue) <= MaxCamQueue /\ Len(frames.meta) <= MaxRows
    /\ update \in Updater
    /\ fed \in [rows : Seq(Nat), frames : Seq(Nat)]
    /\ now \in Nat
    /\ sensed \in Samples

RunnerInit ==
    /\ run \in [native : BOOLEAN, at : {"launch"}, why : {"none"}, outcome : {"none"}]
    /\ stop = FALSE
    /\ thread = [t \in Thread |-> "unborn"]
    /\ error = "none"
    /\ imuQ = <<>>
    /\ frames = [queue |-> <<>>, done |-> FALSE, meta |-> <<>>, ended |-> FALSE,
                 dropped |-> {}]
    /\ update \in [at : {"wait"}, taken : {<<>>}, frame : {0}, offset : Offsets, stall : {0},
                   imu : {0}]
    /\ fed = [rows |-> <<>>, frames |-> <<>>]
    /\ now = Start
    /\ sensed \in [imu : {0}, rows : {<<>>}, camera : {0},
                   silent : IF run.native THEN {"imu", "camera"} ELSE {"camera"}]

-----------------------------------------------------------------------------
(* Workers: each thread is started, runs, and ends; the first exception is *)
(* kept and raises the flag.                                               *)
Running(t) == thread[t] = "on"

Ends(t) == thread' = [thread EXCEPT ![t] = "over"]

LaunchThread ==
    /\ run.at = "launch"
    /\ \E i \in DOMAIN Workers :
          /\ thread[Workers[i]] = "unborn"
          /\ \A j \in 1..(i - 1) : thread[Workers[j]] # "unborn"
          /\ thread' = [thread EXCEPT ![Workers[i]] = "on"]
          /\ run' = IF i < Len(Workers) THEN run ELSE [run EXCEPT !.at = "watch"]
    /\ UNCHANGED <<stop, error, imuQ, frames, update, fed, now, sensed>>

\* No thread can be had: ~Workers() stops and joins those that run.
LaunchFails ==
    /\ run.at = "launch"
    /\ run' = [run EXCEPT !.at = "join", !.why = "unborn"]
    /\ stop' = TRUE
    /\ UNCHANGED <<thread, error, imuQ, frames, update, fed, now, sensed>>

FirstError_Latest(t) == t
FirstError(t) == IF error = "none" THEN t ELSE error

\* Nobody reads the error before the thread is joined, so keeping it and raising
\* the flag are one step.
Throw(t) ==
    /\ Ends(t)
    /\ error' = FirstError(t)
    /\ stop' = TRUE
    /\ UNCHANGED <<run, imuQ, frames, update, fed, now, sensed>>

\* A device, stream or layout error in a reader, or an exception of OpenVINS.
Fails(t) == Running(t) /\ (t = "update" => update.at \in {"feed", "camera"}) /\ Throw(t)

\* The loops of the readers end on the flag; frame_thread announces its end.
ReaderStops(t) ==
    /\ Running(t) /\ t \notin {"update", "frame", "meta"}
    /\ stop
    /\ Ends(t)
    /\ UNCHANGED <<run, stop, error, imuQ, frames, update, fed, now, sensed>>

-----------------------------------------------------------------------------
MaySense(sensor) ==
    run.at # "launch" /\ now < MaxTime /\ (sensed.silent = sensor => now <= LastSample)

\* imu_thread hands on one paired row (ImuPairing), or finds its queue full.
ImuRow ==
    /\ Running("imu")
    /\ MaySense("imu") /\ sensed.imu < now
    /\ Len(imuQ) < MaxRows
    /\ imuQ' = Append(imuQ, now)
    /\ sensed' = [sensed EXCEPT !.imu = now, !.rows = Append(@, now)]
    /\ UNCHANGED <<run, stop, thread, error, frames, update, fed, now>>

Enqueued_DropsNewest(q, ts) ==
    IF Len(q.queue) < MaxCamQueue THEN [q EXCEPT !.queue = Append(@, ts)]
    ELSE [q EXCEPT !.dropped = @ \cup {ts}]

\* enqueue_frame: the oldest frame makes room.  The queue is never longer than the
\* limit, so its loop pops one frame at most.
Enqueued(q, ts) ==
    IF Len(q.queue) < MaxCamQueue THEN [q EXCEPT !.queue = Append(@, ts)]
    ELSE [q EXCEPT !.queue = Append(Tail(@), ts), !.dropped = @ \cup {Head(q.queue)}]

CameraFrame ==
    /\ Running("camera")
    /\ MaySense("camera") /\ sensed.camera < now
    /\ frames' = Enqueued(frames, now)
    /\ sensed' = [sensed EXCEPT !.camera = now]
    /\ UNCHANGED <<run, stop, thread, error, imuQ, update, fed, now>>

CameraSilent ==
    /\ Running("camera")
    /\ now - (IF sensed.camera = 0 THEN Start ELSE sensed.camera) > CameraLimit
    /\ Throw("camera")

\* meta_thread: one record, or the end of its stream or of the capture.
MetaRecord ==
    /\ Running("meta")
    /\ MaySense("camera") /\ sensed.camera < now
    /\ Len(frames.meta) < MaxRows
    /\ frames' = [frames EXCEPT !.meta = Append(@, now)]
    /\ sensed' = [sensed EXCEPT !.camera = now]
    /\ UNCHANGED <<run, stop, thread, error, imuQ, update, fed, now>>

MetaEnds ==
    /\ Running("meta")
    /\ Ends("meta")
    /\ frames' = [frames EXCEPT !.ended = TRUE]
    /\ UNCHANGED <<run, stop, error, imuQ, update, fed, now, sensed>>

\* frame_thread: a whole image, then its timestamp; or the end of the images.
FrameImage ==
    /\ Running("frame")
    /\ run.at # "launch" /\ now < MaxTime
    /\ thread' = [thread EXCEPT !["frame"] = "pairing"]
    /\ UNCHANGED <<run, stop, error, imuQ, frames, update, fed, now, sensed>>

FramePaired ==
    /\ thread["frame"] = "pairing"
    /\ frames.meta # <<>>
    /\ frames' = Enqueued([frames EXCEPT !.meta = Tail(@)], Head(frames.meta))
    /\ thread' = [thread EXCEPT !["frame"] = "on"]
    /\ UNCHANGED <<run, stop, error, imuQ, update, fed, now, sensed>>

FramesEnd ==
    /\ \/ Running("frame")
       \/ thread["frame"] = "pairing" /\ frames.meta = <<>> /\ (frames.ended \/ stop)
    /\ Ends("frame")
    /\ frames' = [frames EXCEPT !.done = TRUE]
    /\ UNCHANGED <<run, stop, error, imuQ, update, fed, now, sensed>>

-----------------------------------------------------------------------------
(* update_thread: take the samples under the lock, feed them outside of it, *)
(* look again at the front frame under the lock, feed it outside.           *)
Updating(place) == Running("update") /\ update.at = place

Covered(u, ts) == ts < u.imu - u.offset

Ready_Uncovered(u) == frames.queue # <<>>
Ready(u) == frames.queue # <<>> /\ Covered(u, Head(frames.queue))

\* wait_for returns on its predicate or after 100 ms: at any moment.
TakeSamples ==
    /\ Updating("wait")
    /\ update' = [update EXCEPT !.at = "feed", !.taken = imuQ]
    /\ imuQ' = <<>>
    /\ UNCHANGED <<run, stop, thread, error, frames, fed, now, sensed>>

FeedImu ==
    /\ Updating("feed") /\ update.taken # <<>>
    /\ fed' = [fed EXCEPT !.rows = Append(@, Head(update.taken))]
    /\ update' = [update EXCEPT !.taken = Tail(@), !.imu = Head(update.taken)]
    /\ UNCHANGED <<run, stop, thread, error, imuQ, frames, now, sensed>>

\* The frame may have been replaced at the front since ready() was last true.
PopFrame ==
    /\ Updating("feed") /\ update.taken = <<>>
    /\ ~stop
    /\ Ready(update)
    /\ update' = [update EXCEPT !.at = "camera", !.frame = Head(frames.queue)]
    /\ frames' = [frames EXCEPT !.queue = Tail(@)]
    /\ UNCHANGED <<run, stop, thread, error, imuQ, fed, now, sensed>>

GraceOver(u) == u.stall # 0 /\ now - u.stall > FrameGrace

WaitAgain ==
    /\ Updating("feed") /\ update.taken = <<>>
    /\ ~stop /\ ~Ready(update)
    /\ frames.done => frames.queue # <<>> /\ ~GraceOver(update)
    /\ update' = [update EXCEPT !.at = "wait",
                                !.stall = IF frames.done /\ @ = 0 THEN now ELSE @]
    /\ UNCHANGED <<run, stop, thread, error, imuQ, frames, fed, now, sensed>>

UpdateEnds ==
    /\ \/ Updating("wait") /\ stop
       \/ Updating("feed") /\ update.taken = <<>>
            /\ \/ stop
               \/ ~Ready(update) /\ frames.done /\ (frames.queue = <<>> \/ GraceOver(update))
    /\ Ends("update")
    /\ UNCHANGED <<run, stop, error, imuQ, frames, update, fed, now, sensed>>

\* OpenVINS may calibrate a new offset; what it publishes is FlightApplication's.
FeedFrame ==
    /\ Updating("camera")
    /\ fed' = [fed EXCEPT !.frames = Append(@, update.frame)]
    /\ \E offset \in Offsets : update' = [update EXCEPT !.at = "wait", !.offset = offset]
    /\ UNCHANGED <<run, stop, thread, error, imuQ, frames, now, sensed>>

-----------------------------------------------------------------------------
(* The supervisor leaves its loop on the flag, the end of the images or a  *)
(* silent IMU, sets the flag, joins, and reports.                          *)
ImuStalled_OnceSeen == now - Start > StartGrace /\ update.imu # 0 /\ now - update.imu > ImuLimit
ImuStalled == now - Start > StartGrace /\ (update.imu = 0 \/ now - update.imu > ImuLimit)

WatchEnds ==
    /\ run.at = "watch"
    /\ \E why \in {"stop", "frames", "imu"} :
          /\ run' = [run EXCEPT !.at = "join", !.why = why]
          /\ \/ why = "stop" /\ stop
             \/ why = "frames" /\ frames.done /\ ~stop
             \/ why = "imu" /\ ~frames.done /\ ImuStalled
    /\ stop' = TRUE
    /\ UNCHANGED <<thread, error, imuQ, frames, update, fed, now, sensed>>

Outcome ==
    CASE run.why = "unborn" -> "no_thread"
      [] run.why # "unborn" /\ error # "none" -> error
      [] run.why = "imu" /\ error = "none"    -> "imu_stalled"
      [] OTHER -> "ok"

\* The threads are joined, the recording (module Recording) and the files are
\* closed, and run() returns or throws.
Return ==
    /\ run.at = "join"
    /\ \A t \in Thread : thread[t] \in {"unborn", "over"}
    /\ run' = [run EXCEPT !.at = "returned", !.outcome = Outcome]
    /\ UNCHANGED <<stop, thread, error, imuQ, frames, update, fed, now, sensed>>

-----------------------------------------------------------------------------
\* run_capture, or a signal of the legacy runner, stops the capture.
CallerStops ==
    /\ ~stop /\ run.at \in {"launch", "watch"}
    /\ stop' = TRUE
    /\ UNCHANGED <<run, thread, error, imuQ, frames, update, fed, now, sensed>>

\* Starting the threads takes no time that counts, the supervisor acts within a
\* tick, and once it has set the flag no limit matters.
Tick ==
    /\ now < MaxTime
    /\ run.at = "watch"
    /\ ~stop /\ ~frames.done /\ ~ImuStalled
    /\ now' = now + 1
    /\ UNCHANGED <<run, stop, thread, error, imuQ, frames, update, fed, sensed>>

Read == ImuRow \/ CameraFrame \/ MetaRecord \/ FrameImage

Step(t) ==
    \/ ReaderStops(t)
    \/ t = "camera" /\ CameraSilent
    \/ t = "meta" /\ MetaEnds /\ stop
    \/ t = "frame" /\ (FramePaired \/ (FramesEnd /\ stop))
    \/ t = "update" /\ (TakeSamples \/ FeedImu \/ PopFrame \/ WaitAgain \/ UpdateEnds \/ FeedFrame)

Supervise == LaunchThread \/ WatchEnds \/ Return

RunnerNext ==
    \/ \E t \in Thread : Step(t) \/ Fails(t)
    \/ Read \/ MetaEnds \/ FramesEnd
    \/ Supervise \/ LaunchFails
    \/ CallerStops \/ Tick

\* Threads are scheduled and time passes; no sensor has to give anything.
RunnerFairness ==
    /\ \A t \in Thread : WF_runnerVars(Step(t))
    /\ WF_runnerVars(Supervise)
    /\ WF_runnerVars(Tick)

RunnerSpec == RunnerInit /\ [][RunnerNext]_runnerVars /\ RunnerFairness

-----------------------------------------------------------------------------
Ascending(s) == \A i, j \in DOMAIN s : i < j => s[i] < s[j]

Older(S, T) == \A s \in S, t \in T : s < t

\* The frame update_thread holds outside of the lock.
Busy == IF update.at = "camera" THEN {update.frame} ELSE {}

\* What the estimator was fed, then what update_thread took, then what is queued, is
\* what imu_thread handed over: each row once and in order, although the queue
\* changes hands without the lock.  (imu_thread, update_thread)
RowsAreFedOnce ==
    /\ fed.rows \o update.taken \o imuQ = sensed.rows
    /\ Ascending(sensed.rows)

\* A frame is fed only after a row later than it by the offset then calibrated.
\* (update_thread, "Wait for IMU coverage")
FramesWaitForRows ==
    \A frame \in Busy : \E row \in ToSet(fed.rows) : frame < row - update.offset

(***************************************************************************)
(* Under load the oldest frames give way (enqueue_frame): a dropped frame  *)
(* is older than every frame still queued, no frame is both dropped and    *)
(* fed, and frames are fed in order.                                       *)
(***************************************************************************)
FramesAccounted ==
    LET queued == ToSet(frames.queue)
        seen == ToSet(fed.frames) \cup Busy
    IN  /\ Ascending(fed.frames) /\ Ascending(frames.queue)
        /\ Older(ToSet(fed.frames), Busy) /\ Older(seen, queued)
        /\ Older(frames.dropped, queued)
        /\ frames.dropped \cap seen = {}

(***************************************************************************)
(* The strengthening that every step preserves.                            *)
(***************************************************************************)
\* The times of the last samples bound all others, and the rows taken are fed before
\* a frame is looked at.
ClockRunsAhead ==
    /\ Start <= now /\ sensed.imu <= now /\ sensed.camera <= now
    /\ \A row \in ToSet(sensed.rows) : row <= sensed.imu
    /\ update.imu = 0 \/ update.imu \in ToSet(fed.rows)
    /\ update.at # "feed" => update.taken = <<>>

\* The metadata still to be paired is newer than every frame that went on, and
\* nothing was taken before the capture or after the last sample.
FramesKeepTheirOrder ==
    LET metas == ToSet(frames.meta)
        queued == ToSet(frames.queue)
        gone == ToSet(fed.frames) \cup Busy \cup frames.dropped
    IN  /\ Ascending(frames.meta)
        /\ Older(gone \cup queued, metas)
        /\ \A frame \in gone \cup queued \cup metas : frame <= sensed.camera
        /\ \A frame \in queued \cup metas : Start <= frame

\* The frames of a run come from the camera or from the FIFOs, never both.
OneSource ==
    /\ thread["camera"] # "unborn" => run.native
    /\ thread["meta"] # "unborn" => ~run.native
    /\ run.native => frames.meta = <<>>

\* An exception ends its thread and raises the flag; a run() that has returned left
\* no thread behind and threw the exception.  (Workers)
ErrorsAreKept ==
    /\ error # "none" => stop /\ thread[error] = "over"
    /\ run.at = "returned" =>
          /\ \A t \in Thread : thread[t] \in {"unborn", "over"}
          /\ error # "none" => run.outcome \in {error, "no_thread"}

(***************************************************************************)
(* What OpenVINS sees, and what the threads and their queues have to agree *)
(* on for it: the inductive invariant of a capture.                        *)
(***************************************************************************)
RunnerInv ==
    /\ RunnerTypeOK
    /\ RowsAreFedOnce
    /\ FramesWaitForRows
    /\ FramesAccounted
    /\ ClockRunsAhead
    /\ FramesKeepTheirOrder
    /\ OneSource
    /\ ErrorsAreKept

(***************************************************************************)
(* Workers: the first exception is kept; run() returns only when no thread *)
(* it started is left to use the files and the estimator, and then throws  *)
(* that exception whatever else went wrong.                                *)
(***************************************************************************)
FirstErrorReported ==
    [][/\ error # "none" => error' = error
       /\ run'.at = "returned" =>
             /\ \A t \in Thread : thread'[t] \in {"unborn", "over"}
             /\ error' # "none" => run'.outcome \in {error', "no_thread"}]_runnerVars

(***************************************************************************)
(* A capture on the native camera whose IMU or camera falls silent, for    *)
(* any reason that raises no error, ends; so does one that is stopped.     *)
(***************************************************************************)
CaptureEnds == run.native ~> run.at = "returned"

(***************************************************************************)
(* sensor_runner.cpp:470 says of the frames left when the images end       *)
(* "give the IMU a second, then stop".  The supervisor sees frames_done    *)
(* within 20 ms and sets the flag that update_thread tests first.          *)
(***************************************************************************)
LeftFramesGetASecond ==
    [][(Running("update") /\ thread'["update"] = "over" /\ run.why = "frames" /\ error = "none"
        /\ frames.queue # <<>>)
          => GraceOver(update)]_runnerVars
=============================================================================
