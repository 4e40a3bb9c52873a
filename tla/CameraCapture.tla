----------------------------- MODULE CameraCapture -----------------------------
(***************************************************************************)
(* LibcameraSource of src/libcamera_source.cpp and the CameraQueue it      *)
(* fills: start(), stop(), read(), the destructor and the two callbacks    *)
(* that libcamera's thread makes meanwhile.  The owner is the thread that  *)
(* probes exposures and then captures; the reader may be another thread.   *)
(* libcamera itself is external.                                           *)
(*                                                                         *)
(* Each access to an atomic, to the locked queue or to libcamera is a step *)
(* of its own.  The exposure requested is fixed: automatic exposure is the *)
(* case in which every frame matches.  X_Slip just before X is X with one  *)
(* slip put in, which TLC has to detect.                                   *)
(***************************************************************************)
EXTENDS Naturals, Sequences

CONSTANTS
    Requests,    \* the capture requests, one per buffer; six in the code
    QueueSize,   \* frames the queue holds; 4 in the code
    Warmup,      \* frames that are never handed over; 10 in the code
    Settle,      \* matching frames in a row before one is; 3 in the code
    Patience,    \* frames by which the exposure has settled; 60 in the code
    MaxStarts,   \* bound: calls of start()
    MaxStamp     \* bound: sensor timestamps

ASSUME CameraAssumption ==
    /\ Requests # {} /\ QueueSize \in Nat \ {0}
    /\ Warmup \in Nat /\ Settle \in Nat \ {0} /\ Patience \in Nat /\ Warmup < Patience
    /\ MaxStarts \in Nat /\ MaxStamp \in Nat

VARIABLES
    owner,      \* the thread that owns the source
    source,     \* members of LibcameraSource
    camera,     \* libcamera's camera
    callback,   \* completed(), on libcamera's thread
    queue       \* members of CameraQueue

vars == <<owner, source, camera, callback, queue>>

-----------------------------------------------------------------------------
(***************************************************************************)
(* owner.at     where the owner is; "idle" and "capturing" between calls   *)
(* owner.then   what follows the stop() it is in                           *)
(* owner.start  the number of the last start()                             *)
(* owner.fed    the requests it has queued so far                          *)
(***************************************************************************)
StopPlace == {"halt", "drain", "drained", "close"}
StartPlace == {"release", "configure", "reset", "run", "feed"}

Owner ==
    [at : StopPlace \cup StartPlace \cup {"idle", "capturing", "destroyed"},
     then : {"idle", "start", "abandon", "destroy"}, start : Nat, fed : SUBSET Requests]

\* The counters matter up to the thresholds they are compared with.
Source ==
    [stopping : BOOLEAN, running : BOOLEAN, received : 0..Patience, settled : 0..Settle,
     previous : Nat]

(***************************************************************************)
(* camera.queued     requests it has to fill                               *)
(* camera.buffers    the buffers, their mappings and the requests exist    *)
(* camera.reported   disconnected() has been called                        *)
(* camera.stamp      the sensor's clock                                    *)
(* camera.matching   frames in a row taken with the requested exposure     *)
(***************************************************************************)
Camera ==
    [state : {"stopped", "running", "stopping"}, present : BOOLEAN, reported : BOOLEAN,
     buffers : BOOLEAN, queued : SUBSET Requests, stamp : Nat, matching : 0..Settle]

\* frame.serial counts the frames handed over since the start.
Frame == [start : Nat, matching : 0..Settle, serial : Nat]

Callback ==
    [at : {"idle", "enter", "body", "push", "requeue", "submit", "catch", "report"},
     request : Requests]

Queue == [frames : Seq(Frame), error : BOOLEAN, closed : BOOLEAN, serial : Nat]

NewQueue(closed) == [frames |-> <<>>, error |-> FALSE, closed |-> closed, serial |-> 0]

TypeOK ==
    /\ owner \in Owner
    /\ source \in Source
    /\ camera \in Camera
    /\ callback \in Callback
    /\ queue \in Queue /\ Len(queue.frames) <= QueueSize

Init ==
    /\ owner = [at |-> "idle", then |-> "idle", start |-> 0, fed |-> {}]
    /\ source = [stopping |-> TRUE, running |-> FALSE, received |-> 0, settled |-> 0,
                 previous |-> 0]
    /\ camera = [state |-> "stopped", present |-> TRUE, reported |-> FALSE, buffers |-> FALSE,
                 queued |-> {}, stamp |-> 0, matching |-> 0]
    /\ \E request \in Requests : callback = [at |-> "idle", request |-> request]
    /\ queue = NewQueue(TRUE)

AtMost(bound, n) == IF n > bound THEN bound ELSE n

-----------------------------------------------------------------------------
(* stop() *)

Call(then) == owner' = [owner EXCEPT !.at = "halt", !.then = then, !.fed = {}]

\* The owner calls start(), stop() or the destructor; each begins with stop().
CallSource ==
    /\ \/ owner.at = "idle" /\ owner.start < MaxStarts /\ Call("start")
       \/ owner.at = "capturing" /\ Call("idle")
       \/ owner.at \in {"idle", "capturing"} /\ Call("destroy")
    /\ UNCHANGED <<source, camera, callback, queue>>

Halt_SkipsCamera ==
    /\ owner.at = "halt"
    /\ source' = [source EXCEPT !.stopping = TRUE, !.running = FALSE]
    /\ owner' = [owner EXCEPT !.at = "close"]
    /\ UNCHANGED <<camera, callback, queue>>

Halt ==
    /\ owner.at = "halt"
    /\ source' = [source EXCEPT !.stopping = TRUE]
    /\ owner' = [owner EXCEPT !.at = IF source.running THEN "drain" ELSE "close"]
    /\ UNCHANGED <<camera, callback, queue>>

\* camera_->stop() refuses further requests, waits for a callback in progress
\* and cancels the requests that are left.
Drain ==
    /\ owner.at = "drain"
    /\ camera' = [camera EXCEPT !.state = "stopping"]
    /\ owner' = [owner EXCEPT !.at = "drained"]
    /\ UNCHANGED <<source, callback, queue>>

Drained ==
    /\ owner.at = "drained"
    /\ callback.at = "idle"
    /\ camera' = [camera EXCEPT !.state = "stopped", !.queued = {}]
    /\ owner' = [owner EXCEPT !.at = "close"]
    /\ source' = [source EXCEPT !.running = FALSE]
    /\ UNCHANGED <<callback, queue>>

\* frames_.close().  An error of camera_->stop() is thrown, past the release.
Close ==
    /\ owner.at = "close"
    /\ queue' = [queue EXCEPT !.closed = TRUE, !.frames = <<>>]
    /\ \E failed \in BOOLEAN :
          owner' = [owner EXCEPT !.at = IF owner.then = "destroy" THEN "release"
                                        ELSE IF owner.then = "idle" \/ failed THEN "idle"
                                        ELSE "release"]
    /\ UNCHANGED <<source, camera, callback>>

-----------------------------------------------------------------------------
(* start() *)

\* The signals are disconnected, then the requests and the buffers destroyed.
Release ==
    /\ owner.at = "release"
    /\ camera' = [camera EXCEPT !.buffers = FALSE]
    /\ owner' = [owner EXCEPT !.at = CASE owner.then = "start" -> "configure"
                                       [] owner.then = "abandon" -> "idle"
                                       [] owner.then = "destroy" -> "destroyed"]
    /\ UNCHANGED <<source, callback, queue>>

\* A step of start() throws: it stops and releases the camera and rethrows.
Abandon == Call("abandon")

Configure ==
    /\ owner.at = "configure"
    /\ \/ /\ camera' = [camera EXCEPT !.buffers = TRUE]
          /\ owner' = [owner EXCEPT !.at = "reset", !.start = @ + 1]
       \/ /\ camera' \in {camera, [camera EXCEPT !.buffers = TRUE]}
          /\ Abandon
    /\ UNCHANGED <<source, callback, queue>>

Reset_KeepsCounters ==
    /\ owner.at = "reset"
    /\ source' = [source EXCEPT !.previous = 0, !.stopping = FALSE]
    /\ queue' = NewQueue(FALSE)
    /\ owner' = [owner EXCEPT !.at = "run"]
    /\ UNCHANGED <<camera, callback>>

\* The counters, frames_.reset() and the flag: no request is queued yet.
Reset ==
    /\ owner.at = "reset"
    /\ source' = [source EXCEPT !.received = 0, !.settled = 0, !.previous = 0,
                                !.stopping = FALSE]
    /\ queue' = NewQueue(FALSE)
    /\ owner' = [owner EXCEPT !.at = "run"]
    /\ UNCHANGED <<camera, callback>>

\* camera_->start(), which refuses a camera that is gone.
Run ==
    /\ owner.at = "run"
    /\ \/ /\ camera.present
          /\ camera' = [camera EXCEPT !.state = "running", !.matching = 0]
          /\ source' = [source EXCEPT !.running = TRUE]
          /\ owner' = [owner EXCEPT !.at = "feed"]
       \/ Abandon /\ UNCHANGED <<source, camera>>
    /\ UNCHANGED <<callback, queue>>

\* queueRequest() of one request; callbacks for the others may be running.
Feed(request) ==
    LET fed == owner.fed \cup {request} IN
    /\ owner.at = "feed"
    /\ request \notin owner.fed
    /\ \/ /\ camera.present
          /\ camera' = [camera EXCEPT !.queued = @ \cup {request}]
          /\ owner' = IF fed = Requests THEN [owner EXCEPT !.at = "capturing", !.fed = {}]
                      ELSE [owner EXCEPT !.fed = fed]
       \/ Abandon /\ UNCHANGED camera
    /\ UNCHANGED <<source, callback, queue>>

-----------------------------------------------------------------------------
(* completed() *)

Answer(place) == callback' = [callback EXCEPT !.at = place]

\* The camera fills a buffer.  The sensor's clock may fail to advance.
Complete(request) ==
    /\ callback.at = "idle"
    /\ camera.present /\ camera.state # "stopped"
    /\ request \in camera.queued
    /\ \E stamp \in {camera.stamp, camera.stamp + 1}, matches \in BOOLEAN :
          /\ stamp <= MaxStamp
          /\ camera' = [camera EXCEPT
                           !.queued = @ \ {request}, !.stamp = stamp,
                           !.matching = IF matches THEN AtMost(Settle, @ + 1) ELSE 0]
          /\ callback' = [at |-> "enter", request |-> request]
    /\ UNCHANGED <<owner, source, queue>>

Enter ==
    /\ callback.at = "enter"
    /\ Answer(IF source.stopping THEN "idle" ELSE "body")
    /\ UNCHANGED <<owner, source, camera, queue>>

\* An incomplete frame, missing metadata, a changed clock offset or a timestamp
\* that does not advance is an error.  Whether the frame matches is in
\* camera.matching.
Validate ==
    LET received == AtMost(Patience, source.received + 1)
        settled == IF camera.matching = 0 THEN 0 ELSE AtMost(Settle, source.settled + 1)
    IN
    /\ callback.at = "body"
    /\ \/ Answer("catch") /\ UNCHANGED source
       \/ /\ camera.stamp > source.previous
          /\ source' = [source EXCEPT !.previous = camera.stamp, !.received = received,
                                      !.settled = settled]
          /\ Answer(IF received >= Patience /\ settled < Settle THEN "catch"
                    ELSE IF received > Warmup /\ settled >= Settle THEN "push"
                    ELSE "requeue")
    /\ UNCHANGED <<owner, camera, queue>>

\* The oldest frame yields to the newest.
Kept(frames, frame) ==
    Append(IF Len(frames) = QueueSize THEN Tail(frames) ELSE frames, frame)

\* The duration is checked and the pixels are copied, which may fail; then
\* frames_.push().
Push ==
    /\ callback.at = "push"
    /\ \/ Answer("catch") /\ UNCHANGED queue
       \/ /\ queue' = IF queue.closed THEN queue
                      ELSE [queue EXCEPT
                               !.frames = Kept(@, [start |-> owner.start,
                                                   matching |-> camera.matching,
                                                   serial |-> queue.serial + 1]),
                               !.serial = @ + 1]
          /\ Answer("requeue")
    /\ UNCHANGED <<owner, source, camera>>

Requeue ==
    /\ callback.at = "requeue"
    /\ Answer(IF source.stopping THEN "idle" ELSE "submit")
    /\ UNCHANGED <<owner, source, camera, queue>>

Submit_Retries ==
    /\ callback.at = "submit"
    /\ camera.present /\ camera.state = "running"
    /\ camera' = [camera EXCEPT !.queued = @ \cup {callback.request}]
    /\ Answer("idle")
    /\ UNCHANGED <<owner, source, queue>>

\* queueRequest() fails on a camera that is gone, stopping or stopped.
Submit ==
    /\ callback.at = "submit"
    /\ IF camera.present /\ camera.state = "running"
       THEN /\ camera' = [camera EXCEPT !.queued = @ \cup {callback.request}]
            /\ Answer("idle")
       ELSE UNCHANGED camera /\ Answer("catch")
    /\ UNCHANGED <<owner, source, queue>>

Catch_Quiet ==
    /\ callback.at = "catch"
    /\ Answer("idle")
    /\ UNCHANGED <<owner, source, camera, queue>>

Catch ==
    /\ callback.at = "catch"
    /\ Answer(IF source.stopping THEN "idle" ELSE "report")
    /\ UNCHANGED <<owner, source, camera, queue>>

\* frames_.fail()
Failed == [queue EXCEPT !.error = TRUE, !.frames = <<>>]

Report ==
    /\ callback.at = "report"
    /\ queue' = Failed
    /\ Answer("idle")
    /\ UNCHANGED <<owner, source, camera>>

-----------------------------------------------------------------------------
(* The camera's connection and the reader *)

Unplug ==
    /\ camera.present
    /\ camera' = [camera EXCEPT !.present = FALSE]
    /\ UNCHANGED <<owner, source, callback, queue>>

\* disconnected(), on the thread of completed(), if the signal is connected.
Disconnected ==
    /\ ~camera.present /\ ~camera.reported
    /\ callback.at = "idle"
    /\ camera' = [camera EXCEPT !.reported = TRUE]
    /\ queue' = IF camera.buffers THEN Failed ELSE queue
    /\ UNCHANGED <<owner, source, callback>>

\* A read that returns a frame; otherwise it throws or returns none.  No one
\* reads during start().
Read ==
    /\ \/ owner.at \in {"idle", "capturing"}
       \/ owner.at \in StopPlace /\ owner.then \in {"idle", "destroy"}
    /\ ~queue.error
    /\ queue.frames # <<>>
    /\ queue' = [queue EXCEPT !.frames = Tail(@)]
    /\ UNCHANGED <<owner, source, camera, callback>>

-----------------------------------------------------------------------------
OwnerStep ==
    \/ Halt \/ Drain \/ Drained \/ Close \/ Release
    \/ Configure \/ Reset \/ Run
    \/ \E request \in Requests : Feed(request)

CallbackStep ==
    \/ Enter \/ Validate \/ Push \/ Requeue \/ Submit \/ Catch \/ Report
    \/ Disconnected

Next ==
    \/ CallSource
    \/ OwnerStep
    \/ CallbackStep
    \/ \E request \in Requests : Complete(request)
    \/ Unplug
    \/ Read

(***************************************************************************)
(* Both threads are scheduled.  Nothing makes the owner call, the sensor   *)
(* deliver, or the reader read.                                            *)
(***************************************************************************)
Fairness == WF_vars(OwnerStep) /\ WF_vars(CallbackStep)

Spec == Init /\ [][Next]_vars /\ Fairness

-----------------------------------------------------------------------------
(* Safety *)

\* The buffers, their mappings and the configuration exist for as long as a
\* callback may use them, across failed starts, stops and the destructor.
\* (stop, release, completed)
BuffersOutliveCallbacks ==
    callback.at \notin {"idle", "enter"} => camera.buffers

\* No frame of an earlier start, and none before the exposure has settled, is
\* left for the reader: a probe measures its own exposure, and the capture
\* starts without the probes' frames.  (start, completed, reset)
FramesAreCurrent ==
    \A i \in 1..Len(queue.frames) :
        /\ queue.frames[i].start = owner.start
        /\ queue.frames[i].matching >= Settle

\* The queue holds the newest frames handed over, without a hole.  (push, read)
QueueHoldsNewest ==
    \A i \in 1..Len(queue.frames) :
        queue.frames[i].serial = queue.serial - Len(queue.frames) + i

\* Unless an error stops its reader, the queue holds what the reader may rely on.
\* (CameraQueue, completed)
QueueInv == queue.error \/ (FramesAreCurrent /\ QueueHoldsNewest)

\* A capture never starves silently.  While it runs, each request is the
\* camera's or the callback's and the camera is connected, or the reader is told:
\* also if the camera disconnects during start(), which clears the queue's
\* error.  (start, completed, disconnected)
NothingLostSilently ==
    owner.at = "capturing" /\ ~queue.error =>
        /\ camera.queued \cup (IF callback.at = "idle" THEN {} ELSE {callback.request})
              = Requests
        /\ ~camera.reported

(***************************************************************************)
(* The strengthening of the invariants above that every step preserves.    *)
(***************************************************************************)
\* The camera runs between Run and Drained, with its buffers in place, and only
\* then is there a callback.
CameraIsWhereOwnerThinks ==
    /\ source.running <=> camera.state # "stopped"
    /\ camera.state # "stopped" => camera.buffers
    /\ callback.at # "idle" => camera.state # "stopped"
    /\ owner.at \in {"drain", "feed", "capturing"} => camera.state = "running"
    /\ owner.at = "drained" <=> camera.state = "stopping"
    /\ owner.at \in {"close", "idle", "destroyed"} \cup (StartPlace \ {"feed"}) =>
           camera.state = "stopped"
    /\ owner.at \in {"reset", "run"} => camera.buffers

\* What start() finds and leaves at each of its places.
StartIsInOrder ==
    /\ owner.at = "release" => owner.then # "idle"
    /\ owner.at \in {"release", "configure"} => queue.frames = <<>>
    /\ owner.at = "run" => source.settled = 0
    /\ owner.at # "feed" => owner.fed = {}
    /\ owner.at \in {"run", "feed", "capturing"} => ~source.stopping

\* No more frames in a row are counted as settled than the sensor delivered; a
\* callback about to hand over a frame has counted enough.
CountersAreHonest ==
    \/ queue.error
    \/ /\ callback.at \in {"idle", "requeue", "submit"} =>
              source.stopping \/ source.settled <= camera.matching
       /\ callback.at \in {"enter", "body"} =>
              \/ camera.matching = 0
              \/ AtMost(Settle, source.settled + 1) <= camera.matching
              \/ source.stopping /\ callback.at = "enter"
       /\ callback.at = "push" => camera.matching = Settle /\ source.settled = Settle

\* Each request queued so far is with the camera or the callback, and a camera
\* reported gone never starts.
RequestsAreKept ==
    /\ camera.reported => ~camera.present
    /\ owner.at \in {"feed", "capturing"} /\ ~queue.error =>
           /\ ~camera.reported
           /\ (IF owner.at = "feed" THEN owner.fed ELSE Requests) \subseteq
                 camera.queued \cup (IF callback.at = "idle" THEN {} ELSE {callback.request})

\* The inductive invariant of the capture.
\* (LibcameraSource, CameraQueue)
CaptureInv ==
    /\ TypeOK
    /\ CameraIsWhereOwnerThinks
    /\ StartIsInOrder
    /\ CountersAreHonest
    /\ RequestsAreKept
    /\ QueueInv

(* Liveness *)

\* stop(), start() and the destructor return, whatever the callback is doing.
\* (stop, start)
CallsReturn ==
    owner.at \in StopPlace \cup StartPlace ~> owner.at \in {"idle", "capturing", "destroyed"}
=============================================================================
