------------------------- MODULE CameraCaptureProofs -------------------------
(***************************************************************************)
(* The safety properties of CameraCapture, for every set of requests, size *)
(* of the queue and thresholds, and without a bound on starts or frames;   *)
(* and what CaptureSetup promises of the sensors it takes and releases, of *)
(* the exposure it chooses and of the rows it pairs.                       *)
(***************************************************************************)
EXTENDS CameraCapture, CaptureSetup, WellFoundedInduction, TLAPS

-----------------------------------------------------------------------------
\* What the numbers of the capture are.
LEMMA Numbers ==
    ASSUME TypeOK
    PROVE  /\ QueueSize \in Nat \ {0} /\ Settle \in Nat \ {0} /\ Patience \in Nat
           /\ Requests # {}
           /\ owner.start \in Nat /\ camera.stamp \in Nat /\ source.previous \in Nat
           /\ camera.matching \in 0..Settle /\ source.settled \in 0..Settle
           /\ source.received \in 0..Patience /\ queue.serial \in Nat
           /\ queue.frames \in Seq(Frame)
  BY CameraAssumption DEF TypeOK, Owner, Source, Camera, Queue

\* A capped count stays within its cap.
LEMMA Capped ==
    ASSUME NEW bound \in Nat, NEW n \in Nat
    PROVE  /\ AtMost(bound, n) \in 0..bound /\ 0 \in 0..bound
  BY DEF AtMost

\* push() keeps the queue within its size: the new frame is the last, and the
\* others keep their order.  (push)
LEMMA KeptFrames ==
    ASSUME NEW frames \in Seq(Frame), Len(frames) <= QueueSize, NEW frame \in Frame
    PROVE  LET kept == Kept(frames, frame) IN
           /\ kept \in Seq(Frame)
           /\ Len(kept) \in 1..QueueSize
           /\ kept[Len(kept)] = frame
           /\ \E dropped \in {0, 1} :
                 /\ Len(kept) = Len(frames) - dropped + 1
                 /\ \A i \in 1..(Len(kept) - 1) : kept[i] = frames[i + dropped]
<1>1. QueueSize \in Nat \ {0} /\ Len(frames) \in Nat
  BY CameraAssumption
<1>2. \A q \in Seq(Frame) : /\ Append(q, frame) \in Seq(Frame)
                            /\ Len(q) \in Nat /\ Len(Append(q, frame)) = Len(q) + 1
                            /\ Append(q, frame)[Len(q) + 1] = frame
                            /\ \A i \in 1..Len(q) : Append(q, frame)[i] = q[i]
  OBVIOUS
<1>3. CASE Len(frames) = QueueSize
  <2>. DEFINE q == Tail(frames)
              n == Len(frames)
  <2>1. /\ q \in Seq(Frame) /\ Len(q) = n - 1 /\ \A i \in 1..Len(q) : q[i] = frames[i + 1]
    <3>1. frames # <<>>
      BY <1>1, <1>3
    <3>. QED BY <3>1
  <2>2. Kept(frames, frame) = Append(q, frame)
    BY <1>3 DEF Kept
  <2>3. n \in Nat \ {0} /\ n = QueueSize
    BY <1>1, <1>3
  <2>. HIDE DEF q, n
  <2>4. /\ Len(Append(q, frame)) = n - 1 + 1 /\ Len(Append(q, frame)) = n
        /\ Append(q, frame)[n] = frame
        /\ \A i \in 1..(n - 1) : Append(q, frame)[i] = frames[i + 1]
    BY <1>2, <2>1, <2>3
  <2>5. Append(q, frame) \in Seq(Frame)
    BY <1>2, <2>1
  <2>. QED BY <2>2, <2>3, <2>4, <2>5 DEF n
<1>4. CASE Len(frames) # QueueSize
  <2>. DEFINE n == Len(frames)
  <2>1. Kept(frames, frame) = Append(frames, frame) /\ n \in Nat /\ n + 1 <= QueueSize
    BY <1>1, <1>4 DEF Kept
  <2>2. /\ Append(frames, frame) \in Seq(Frame)
        /\ Len(Append(frames, frame)) = n + 1
        /\ Append(frames, frame)[n + 1] = frame
        /\ \A i \in 1..n : Append(frames, frame)[i] = frames[i]
    BY <1>2
  <2>. HIDE DEF n
  <2>3. Len(Append(frames, frame)) = n - 0 + 1 /\ Len(Append(frames, frame)) \in 1..QueueSize
    BY <1>1, <2>1, <2>2
  <2>4. \A i \in 1..(n + 1 - 1) : Append(frames, frame)[i] = frames[i + 0]
    BY <2>1, <2>2
  <2>. QED BY <2>1, <2>2, <2>3, <2>4 DEF n
<1>. QED BY <1>3, <1>4

-----------------------------------------------------------------------------
(***************************************************************************)
(* What the records become.                                                *)
(***************************************************************************)
Place == StopPlace \cup StartPlace \cup {"idle", "capturing", "destroyed"}

LEMMA OwnerTypes ==
    ASSUME NEW o \in Owner
    PROVE  /\ \A p \in Place : [o EXCEPT !.at = p] \in Owner
           /\ \A then \in {"idle", "start", "abandon", "destroy"} :
                 [o EXCEPT !.at = "halt", !.then = then, !.fed = {}] \in Owner
           /\ [o EXCEPT !.at = "reset", !.start = @ + 1] \in Owner
           /\ [o EXCEPT !.at = "capturing", !.fed = {}] \in Owner
           /\ \A fed \in SUBSET Requests : [o EXCEPT !.fed = fed] \in Owner
<1>1. \A p \in Place : [o EXCEPT !.at = p] \in Owner
  BY DEF Owner, Place
<1>2. \A then \in {"idle", "start", "abandon", "destroy"} :
         [o EXCEPT !.at = "halt", !.then = then, !.fed = {}] \in Owner
  BY DEF Owner, StopPlace
<1>3. [o EXCEPT !.at = "reset", !.start = @ + 1] \in Owner
  <2>1. o.start + 1 \in Nat
    BY DEF Owner
  <2>. QED BY <2>1 DEF Owner, StartPlace
<1>4. [o EXCEPT !.at = "capturing", !.fed = {}] \in Owner
  BY DEF Owner
<1>5. \A fed \in SUBSET Requests : [o EXCEPT !.fed = fed] \in Owner
  BY DEF Owner
<1>. QED BY <1>1, <1>2, <1>3, <1>4, <1>5

LEMMA CameraTypes ==
    ASSUME NEW c \in Camera
    PROVE  /\ [c EXCEPT !.state = "stopping"] \in Camera
           /\ [c EXCEPT !.state = "stopped", !.queued = {}] \in Camera
           /\ [c EXCEPT !.state = "running", !.matching = 0] \in Camera
           /\ \A b \in BOOLEAN : [c EXCEPT !.buffers = b] \in Camera
           /\ \A r \in Requests : [c EXCEPT !.queued = @ \cup {r}] \in Camera
           /\ \A r \in Requests, stamp \in Nat, m \in 0..Settle :
                 [c EXCEPT !.queued = @ \ {r}, !.stamp = stamp, !.matching = m] \in Camera
           /\ [c EXCEPT !.present = FALSE] \in Camera
           /\ [c EXCEPT !.reported = TRUE] \in Camera
<1>1. 0 \in 0..Settle
  BY CameraAssumption
<1>2. /\ [c EXCEPT !.state = "stopping"] \in Camera
      /\ [c EXCEPT !.state = "stopped", !.queued = {}] \in Camera
      /\ [c EXCEPT !.present = FALSE] \in Camera
      /\ [c EXCEPT !.reported = TRUE] \in Camera
  BY DEF Camera
<1>3. [c EXCEPT !.state = "running", !.matching = 0] \in Camera
  BY <1>1 DEF Camera
<1>4. \A b \in BOOLEAN : [c EXCEPT !.buffers = b] \in Camera
  BY DEF Camera
<1>5. \A r \in Requests : [c EXCEPT !.queued = @ \cup {r}] \in Camera
  BY DEF Camera
<1>6. \A r \in Requests, stamp \in Nat, m \in 0..Settle :
         [c EXCEPT !.queued = @ \ {r}, !.stamp = stamp, !.matching = m] \in Camera
  BY DEF Camera
<1>. QED BY <1>2, <1>3, <1>4, <1>5, <1>6

LEMMA CallbackTypes ==
    ASSUME NEW c \in Callback
    PROVE  /\ \A p \in {"idle", "enter", "body", "push", "requeue", "submit", "catch", "report"} :
                 [c EXCEPT !.at = p] \in Callback
           /\ \A r \in Requests : [at |-> "enter", request |-> r] \in Callback
  BY DEF Callback

LEMMA QueueTypes ==
    ASSUME NEW q \in Queue, Len(q.frames) <= QueueSize
    PROVE  /\ NewQueue(FALSE) \in Queue /\ NewQueue(FALSE).frames = <<>>
           /\ [q EXCEPT !.closed = TRUE, !.frames = <<>>] \in Queue
           /\ [q EXCEPT !.closed = TRUE, !.frames = <<>>].frames = <<>>
           /\ [q EXCEPT !.error = TRUE, !.frames = <<>>] \in Queue
           /\ [q EXCEPT !.error = TRUE, !.frames = <<>>].frames = <<>>
           /\ q.frames # <<>> =>
                 /\ [q EXCEPT !.frames = Tail(@)] \in Queue
                 /\ [q EXCEPT !.frames = Tail(@)].frames = Tail(q.frames)
                 /\ Len(Tail(q.frames)) <= QueueSize
           /\ \A frame \in Frame :
                 LET r == [q EXCEPT !.frames = Kept(@, frame), !.serial = @ + 1]
                 IN  r \in Queue /\ r.frames = Kept(q.frames, frame)
                     /\ Len(r.frames) <= QueueSize
<1>1. q.frames \in Seq(Frame) /\ QueueSize \in Nat
  BY CameraAssumption DEF Queue
<1>2. NewQueue(FALSE) \in Queue /\ NewQueue(FALSE).frames = <<>>
  BY DEF NewQueue, Queue
<1>3. /\ [q EXCEPT !.closed = TRUE, !.frames = <<>>] \in Queue
      /\ [q EXCEPT !.closed = TRUE, !.frames = <<>>].frames = <<>>
      /\ [q EXCEPT !.error = TRUE, !.frames = <<>>] \in Queue
      /\ [q EXCEPT !.error = TRUE, !.frames = <<>>].frames = <<>>
  <2>1. <<>> \in Seq(Frame)
    OBVIOUS
  <2>. QED BY <2>1 DEF Queue
<1>4. ASSUME q.frames # <<>>
      PROVE  /\ [q EXCEPT !.frames = Tail(@)] \in Queue
             /\ [q EXCEPT !.frames = Tail(@)].frames = Tail(q.frames)
             /\ Len(Tail(q.frames)) <= QueueSize
  <2>1. /\ Tail(q.frames) \in Seq(Frame) /\ Len(Tail(q.frames)) = Len(q.frames) - 1
        /\ Len(q.frames) \in Nat
    BY <1>1, <1>4
  <2>2. Len(Tail(q.frames)) <= QueueSize
    BY <1>1, <2>1
  <2>. QED BY <2>1, <2>2 DEF Queue
<1>5. ASSUME NEW frame \in Frame
      PROVE  LET r == [q EXCEPT !.frames = Kept(@, frame), !.serial = @ + 1]
             IN  r \in Queue /\ r.frames = Kept(q.frames, frame) /\ Len(r.frames) <= QueueSize
  <2>1. Kept(q.frames, frame) \in Seq(Frame) /\ Len(Kept(q.frames, frame)) <= QueueSize
    <3>1. /\ Kept(q.frames, frame) \in Seq(Frame)
          /\ Len(Kept(q.frames, frame)) \in 1..QueueSize
      BY <1>1, KeptFrames
    <3>. QED BY <1>1, <3>1
  <2>2. q.serial + 1 \in Nat
    BY DEF Queue
  <2>. QED BY <2>1, <2>2 DEF Queue
<1>. QED BY <1>2, <1>3, <1>4, <1>5

LEMMA SourceTypes ==
    ASSUME NEW s \in Source
    PROVE  /\ [s EXCEPT !.stopping = TRUE] \in Source
           /\ \A b \in BOOLEAN : [s EXCEPT !.running = b] \in Source
           /\ [s EXCEPT !.received = 0, !.settled = 0, !.previous = 0, !.stopping = FALSE]
                 \in Source
           /\ \A stamp \in Nat, counted \in 0..Patience, settled \in 0..Settle :
                 [s EXCEPT !.previous = stamp, !.received = counted, !.settled = settled]
                    \in Source
<1>1. 0 \in 0..Patience /\ 0 \in 0..Settle
  BY CameraAssumption
<1>2. /\ [s EXCEPT !.stopping = TRUE] \in Source
      /\ \A b \in BOOLEAN : [s EXCEPT !.running = b] \in Source
  BY DEF Source
<1>3. [s EXCEPT !.received = 0, !.settled = 0, !.previous = 0, !.stopping = FALSE] \in Source
  BY <1>1 DEF Source
<1>4. \A stamp \in Nat, counted \in 0..Patience, settled \in 0..Settle :
         [s EXCEPT !.previous = stamp, !.received = counted, !.settled = settled] \in Source
  BY DEF Source
<1>. QED BY <1>2, <1>3, <1>4

-----------------------------------------------------------------------------
\* Every step keeps the types.  (LibcameraSource, CameraQueue)
LEMMA TypeStep == ASSUME TypeOK, StartIsInOrder, [Next]_vars PROVE TypeOK'
<1>0. /\ owner \in Owner /\ source \in Source /\ camera \in Camera
      /\ callback \in Callback /\ queue \in Queue /\ Len(queue.frames) <= QueueSize
  BY DEF TypeOK
<1>. USE <1>0
<1>q. 0 <= QueueSize
  BY CameraAssumption
<1>1. CASE CallSource
  BY <1>1, OwnerTypes DEF CallSource, Call, TypeOK
<1>2. CASE Halt
  <2>1. (IF source.running THEN "drain" ELSE "close") \in Place
    BY DEF Place, StopPlace
  <2>. QED BY <1>2, <2>1, OwnerTypes, SourceTypes DEF Halt, TypeOK
<1>3. CASE Drain
  <2>1. "drained" \in Place
    BY DEF Place, StopPlace
  <2>. QED BY <1>3, <2>1, OwnerTypes, CameraTypes DEF Drain, TypeOK
<1>4. CASE Drained
  <2>1. "close" \in Place
    BY DEF Place, StopPlace
  <2>. QED BY <1>4, <2>1, OwnerTypes, CameraTypes, SourceTypes DEF Drained, TypeOK
<1>5. CASE Close
  <2>1. PICK p \in {"release", "idle"} : owner' = [owner EXCEPT !.at = p]
    BY <1>5 DEF Close
  <2>2. owner' \in Owner
    BY <2>1, OwnerTypes DEF Place, StartPlace
  <2>3. Len(<<>>) <= QueueSize
    BY <1>q
  <2>. QED BY <1>5, <2>2, <2>3, QueueTypes DEF Close, TypeOK
<1>6. CASE Release
  <2>1. owner.then \in {"start", "abandon", "destroy"}
    BY <1>6 DEF Release, StartIsInOrder, Owner
  <2>2. PICK p \in {"configure", "idle", "destroyed"} : owner' = [owner EXCEPT !.at = p]
    BY <1>6, <2>1 DEF Release
  <2>3. owner' \in Owner
    BY <2>2, OwnerTypes DEF Place, StartPlace
  <2>. QED BY <1>6, <2>3, CameraTypes DEF Release, TypeOK
<1>7. CASE Configure
  BY <1>7, OwnerTypes, CameraTypes DEF Configure, Abandon, Call, TypeOK
<1>8. CASE Reset
  <2>1. "run" \in Place
    BY DEF Place, StartPlace
  <2>2. Len(<<>>) <= QueueSize
    BY <1>q
  <2>. QED BY <1>8, <2>1, <2>2, OwnerTypes, SourceTypes, QueueTypes DEF Reset, TypeOK
<1>9. CASE Run
  <2>1. "feed" \in Place
    BY DEF Place, StartPlace
  <2>2. owner' \in Owner
    <3>1. \/ owner' = [owner EXCEPT !.at = "feed"]
          \/ owner' = [owner EXCEPT !.at = "halt", !.then = "abandon", !.fed = {}]
      BY <1>9 DEF Run, Abandon, Call
    <3>. QED BY <2>1, <3>1, OwnerTypes
  <2>3. camera' \in Camera /\ source' \in Source
    BY <1>9, CameraTypes, SourceTypes DEF Run
  <2>. QED BY <1>9, <2>2, <2>3 DEF Run, TypeOK
<1>10. ASSUME NEW request \in Requests, Feed(request) PROVE TypeOK'
  <2>1. owner.fed \cup {request} \in SUBSET Requests
    BY DEF Owner
  <2>2. camera' \in Camera
    BY <1>10, CameraTypes DEF Feed
  <2>3. owner' \in Owner
    BY <1>10, <2>1, OwnerTypes DEF Feed, Abandon, Call
  <2>. QED BY <1>10, <2>2, <2>3 DEF Feed, TypeOK
<1>11. CASE Enter \/ Requeue \/ Catch
  <2>1. callback' \in Callback
    BY <1>11, CallbackTypes DEF Enter, Requeue, Catch, Answer
  <2>. QED BY <1>11, <2>1 DEF Enter, Requeue, Catch, TypeOK
<1>12. CASE Validate
  <2>. DEFINE counted == AtMost(Patience, source.received + 1)
              settled == IF camera.matching = 0 THEN 0 ELSE AtMost(Settle, source.settled + 1)
  <2>0. /\ source.received + 1 \in Nat /\ source.settled + 1 \in Nat
        /\ Settle \in Nat /\ Patience \in Nat /\ camera.stamp \in Nat
    BY Numbers
  <2>1. counted \in 0..Patience /\ settled \in 0..Settle /\ camera.stamp \in Nat
    <3>0. \A n \in Nat : AtMost(Patience, n) \in 0..Patience
      BY <2>0, Capped
    <3>1. AtMost(Patience, source.received + 1) \in 0..Patience
      BY <2>0, <3>0
    <3>2. AtMost(Settle, source.settled + 1) \in 0..Settle /\ 0 \in 0..Settle
      BY <2>0, Capped
    <3>. QED BY <2>0, <3>1, <3>2
  <2>2. source' \in Source
    <3>1. \/ source' = source
          \/ source' = [source EXCEPT !.previous = camera.stamp, !.received = counted,
                                      !.settled = settled]
      BY <1>12 DEF Validate
    <3>. HIDE DEF counted, settled
    <3>2. [source EXCEPT !.previous = camera.stamp, !.received = counted,
                         !.settled = settled] \in Source
      BY <2>1, SourceTypes
    <3>. QED BY <3>1, <3>2
  <2>3. callback' \in Callback
    BY <1>12, CallbackTypes DEF Validate, Answer
  <2>. QED BY <1>12, <2>2, <2>3 DEF Validate, TypeOK
<1>13. CASE Push
  <2>1. [start |-> owner.start, matching |-> camera.matching, serial |-> queue.serial + 1]
           \in Frame
    BY Numbers DEF Frame
  <2>2. queue' \in Queue /\ Len(queue'.frames) <= QueueSize
    BY <1>13, <2>1, QueueTypes DEF Push
  <2>3. callback' \in Callback
    BY <1>13, CallbackTypes DEF Push, Answer
  <2>. QED BY <1>13, <2>2, <2>3 DEF Push, TypeOK
<1>14. CASE Submit
  <2>1. callback.request \in Requests
    BY DEF Callback
  <2>. QED BY <1>14, <2>1, CameraTypes, CallbackTypes DEF Submit, Answer, TypeOK
<1>15. CASE Report \/ Disconnected
  <2>1. queue' \in Queue /\ Len(queue'.frames) <= QueueSize
    <3>1. Len(<<>>) <= QueueSize
      BY <1>q
    <3>. QED BY <1>15, <3>1, QueueTypes DEF Report, Disconnected, Failed
  <2>2. callback' \in Callback /\ camera' \in Camera
    BY <1>15, CallbackTypes, CameraTypes DEF Report, Disconnected, Answer
  <2>. QED BY <1>15, <2>1, <2>2 DEF Report, Disconnected, TypeOK
<1>16. ASSUME NEW request \in Requests, Complete(request) PROVE TypeOK'
  <2>1. PICK stamp \in {camera.stamp, camera.stamp + 1}, matches \in BOOLEAN :
           camera' = [camera EXCEPT
                        !.queued = @ \ {request}, !.stamp = stamp,
                        !.matching = IF matches THEN AtMost(Settle, @ + 1) ELSE 0]
    BY <1>16 DEF Complete
  <2>0. camera.matching + 1 \in Nat /\ Settle \in Nat /\ camera.stamp \in Nat
    BY Numbers
  <2>2. stamp \in Nat /\ (IF matches THEN AtMost(Settle, camera.matching + 1) ELSE 0) \in 0..Settle
    <3>1. AtMost(Settle, camera.matching + 1) \in 0..Settle /\ 0 \in 0..Settle
      BY <2>0, Capped
    <3>. QED BY <2>0, <3>1
  <2>3. camera' \in Camera
    BY <2>1, <2>2, CameraTypes
  <2>. QED BY ZenonT(60), <1>16, <2>3, CallbackTypes DEF Complete, TypeOK
<1>17. CASE Unplug
  BY <1>17, CameraTypes DEF Unplug, TypeOK
<1>18. CASE Read
  <2>1. queue' \in Queue /\ Len(queue'.frames) <= QueueSize
    BY <1>18, QueueTypes DEF Read
  <2>. QED BY <1>18, <2>1 DEF Read, TypeOK
<1>19. CASE UNCHANGED vars
  BY <1>19 DEF vars, TypeOK
<1>. QED BY <1>1, <1>2, <1>3, <1>4, <1>5, <1>6, <1>7, <1>8, <1>9, <1>10, <1>11, <1>12, <1>13,
            <1>14, <1>15, <1>16, <1>17, <1>18, <1>19 DEF Next, OwnerStep, CallbackStep

-----------------------------------------------------------------------------
(***************************************************************************)
(* What the steps do to the fields, and what they leave alone.             *)
(***************************************************************************)
\* A step of the callback's, of the connection's or of the reader's leaves the
\* owner where it is, and all of the source but the counters.
LEMMA OwnerStays ==
    ASSUME TypeOK,
           \/ CallbackStep \/ Unplug \/ Read
           \/ \E request \in Requests : Complete(request)
    PROVE  /\ owner' = owner
           /\ source'.stopping = source.stopping /\ source'.running = source.running
           /\ camera'.state = camera.state /\ camera'.buffers = camera.buffers
<1>0. source \in Source /\ camera \in Camera
  BY DEF TypeOK
<1>1. CASE CallbackStep
  <2>1. CASE Validate
    BY <1>0, <2>1 DEF Validate, Source
  <2>2. CASE Submit
    BY <1>0, <2>2 DEF Submit, Camera
  <2>3. CASE Disconnected
    BY <1>0, <2>3 DEF Disconnected, Camera
  <2>4. CASE Enter \/ Push \/ Requeue \/ Catch \/ Report
    BY <2>4 DEF Enter, Push, Requeue, Catch, Report
  <2>. QED BY <1>1, <2>1, <2>2, <2>3, <2>4 DEF CallbackStep
<1>2. CASE Unplug \/ Read
  BY <1>0, <1>2 DEF Unplug, Read, Camera
<1>3. ASSUME NEW request \in Requests, Complete(request)
      PROVE  /\ owner' = owner /\ source' = source
             /\ camera'.state = camera.state /\ camera'.buffers = camera.buffers
  BY <1>0, <1>3 DEF Complete, Camera
<1>. QED BY <1>1, <1>2, <1>3

\* The owner's steps leave the callback alone, and all but Drained, Run and Feed
\* leave the camera's requests.
LEMMA CallbackStays ==
    ASSUME TypeOK, CallSource \/ OwnerStep
    PROVE  /\ callback' = callback
           /\ camera'.present = camera.present /\ camera'.reported = camera.reported
           /\ camera'.stamp = camera.stamp
<1>0. camera \in Camera
  BY DEF TypeOK
<1>1. CASE CallSource \/ Halt \/ Close \/ Reset
  BY <1>1 DEF CallSource, Halt, Close, Reset
<1>2. CASE Drain \/ Drained \/ Release \/ Configure \/ Run
  BY <1>0, <1>2 DEF Drain, Drained, Release, Configure, Run, Camera
<1>3. ASSUME NEW request \in Requests, Feed(request)
      PROVE  /\ callback' = callback
             /\ camera'.present = camera.present /\ camera'.reported = camera.reported
             /\ camera'.stamp = camera.stamp
  BY <1>0, <1>3 DEF Feed, Camera
<1>. QED BY <1>1, <1>2, <1>3 DEF OwnerStep

\* A callback begins only by Complete.
LEMMA CallbackBegins ==
    ASSUME TypeOK, callback.at = "idle", CallbackStep \/ Unplug \/ Read
    PROVE  callback' = callback
  BY DEF CallbackStep, Enter, Validate, Push, Requeue, Submit, Catch, Report, Disconnected,
         Unplug, Read

-----------------------------------------------------------------------------
\* The camera is where the owner thinks it is.  (start, stop, release)
LEMMA CameraStep ==
    ASSUME TypeOK, CameraIsWhereOwnerThinks, StartIsInOrder, [Next]_vars
    PROVE  CameraIsWhereOwnerThinks'
<1>0. owner \in Owner /\ source \in Source /\ camera \in Camera
  BY DEF TypeOK
<1>. USE DEF CameraIsWhereOwnerThinks, StartPlace
<1>1. CASE CallSource
  BY ZenonT(60), <1>0, <1>1 DEF CallSource, Call, Owner
<1>2. CASE Halt
  BY <1>0, <1>2 DEF Halt, Owner, Source, Camera
<1>3. CASE Drain
  BY <1>0, <1>3 DEF Drain, Owner, Camera
<1>4. CASE Drained
  BY <1>0, <1>4 DEF Drained, Owner, Camera, Source
<1>5. CASE Close
  BY <1>0, <1>5 DEF Close, Owner
<1>6. CASE Release
  <2>1. PICK p \in {"configure", "idle", "destroyed"} : owner' = [owner EXCEPT !.at = p]
    BY <1>0, <1>6 DEF Release, StartIsInOrder, Owner
  <2>2. owner'.at = p
    BY <1>0, <2>1 DEF Owner
  <2>. QED BY <1>0, <1>6, <2>2 DEF Release, Camera
<1>7. CASE Configure
  BY ZenonT(60), <1>0, <1>7 DEF Configure, Abandon, Call, Owner, Camera
<1>8. CASE Reset
  BY <1>0, <1>8 DEF Reset, Owner, Source
<1>9. CASE Run
  BY ZenonT(60), <1>0, <1>9 DEF Run, Abandon, Call, Owner, Source, Camera
<1>10. ASSUME NEW request \in Requests, Feed(request) PROVE CameraIsWhereOwnerThinks'
  <2>1. owner'.at \in {"feed", "capturing", "halt"} /\ camera'.state = camera.state
        /\ camera'.buffers = camera.buffers /\ source' = source /\ callback' = callback
    BY <1>0, <1>10 DEF Feed, Abandon, Call, Owner, Camera
  <2>2. owner.at = "feed"
    BY <1>10 DEF Feed
  <2>. QED BY <2>1, <2>2
<1>11. ASSUME NEW request \in Requests, Complete(request) PROVE CameraIsWhereOwnerThinks'
  <2>1. camera.state # "stopped"
    BY <1>11 DEF Complete
  <2>. QED BY <1>11, <2>1, OwnerStays
<1>12. CASE CallbackStep \/ Unplug \/ Read
  <2>1. callback'.at # "idle" => callback.at # "idle"
    BY <1>12, CallbackBegins
  <2>. QED BY <1>12, <2>1, OwnerStays
<1>13. CASE UNCHANGED vars
  BY <1>13 DEF vars
<1>. QED BY <1>1, <1>2, <1>3, <1>4, <1>5, <1>6, <1>7, <1>8, <1>9, <1>10, <1>11, <1>12, <1>13
         DEF Next, OwnerStep

\* A stopped camera has no callback, so the counters, the queue's error and its
\* frames stand still, but for a reader and a disconnection.
LEMMA StoppedStands ==
    ASSUME TypeOK, CameraIsWhereOwnerThinks, camera.state = "stopped",
           \/ CallbackStep \/ Unplug \/ Read
           \/ \E request \in Requests : Complete(request)
    PROVE  /\ source' = source
           /\ queue.frames = <<>> => queue'.frames = <<>>
<1>1. callback.at = "idle"
  BY DEF CameraIsWhereOwnerThinks
<1>2. queue \in Queue
  BY DEF TypeOK
<1>3. CASE Disconnected \/ Unplug \/ Read
  BY <1>2, <1>3 DEF Disconnected, Unplug, Read, Failed, Queue
<1>. QED BY <1>1, <1>3 DEF CallbackStep, Enter, Validate, Push, Requeue, Submit, Catch, Report,
                       Complete

\* start() is in order at each of its places.  (start, configure, reset)
LEMMA StartStep ==
    ASSUME TypeOK, CameraIsWhereOwnerThinks, StartIsInOrder, [Next]_vars
    PROVE  StartIsInOrder'
<1>0. owner \in Owner /\ source \in Source /\ queue \in Queue
  BY DEF TypeOK
<1>. USE DEF StartIsInOrder
<1>1. CASE CallSource
  BY <1>0, <1>1 DEF CallSource, Call, Owner
<1>2. CASE Halt
  BY <1>0, <1>2 DEF Halt, Owner
<1>3. CASE Drain
  BY <1>0, <1>3 DEF Drain, Owner
<1>4. CASE Drained
  BY <1>0, <1>4 DEF Drained, Owner
<1>5. CASE Close
  <2>1. queue'.frames = <<>> /\ source' = source
    BY <1>0, <1>5 DEF Close, Queue
  <2>2. /\ owner'.at \in {"release", "idle"} /\ owner'.then = owner.then
        /\ owner'.fed = owner.fed /\ (owner'.at = "release" => owner.then # "idle")
    BY <1>0, <1>5 DEF Close, Owner
  <2>3. owner.at = "close"
    BY <1>5 DEF Close
  <2>. QED BY <2>1, <2>2, <2>3
<1>6. CASE Release
  <2>1. PICK p \in {"configure", "idle", "destroyed"} : owner' = [owner EXCEPT !.at = p]
    BY <1>0, <1>6 DEF Release, Owner
  <2>2. owner'.at = p /\ owner'.fed = owner.fed
    BY <1>0, <2>1 DEF Owner
  <2>. QED BY <1>6, <2>2 DEF Release
<1>7. CASE Configure
  BY <1>0, <1>7 DEF Configure, Abandon, Call, Owner
<1>8. CASE Reset
  BY <1>0, <1>8 DEF Reset, Owner, Source
<1>9. CASE Run
  BY <1>0, <1>9 DEF Run, Abandon, Call, Owner, Source
<1>10. ASSUME NEW request \in Requests, Feed(request) PROVE StartIsInOrder'
  <2>1. /\ owner.at = "feed" /\ source' = source
        /\ \/ owner'.at \in {"capturing", "halt"} /\ owner'.fed = {}
           \/ owner'.at = "feed"
    BY <1>0, <1>10 DEF Feed, Abandon, Call, Owner
  <2>. QED BY <2>1
<1>11. CASE \/ CallbackStep \/ Unplug \/ Read
            \/ \E request \in Requests : Complete(request)
  <2>1. /\ owner' = owner /\ source'.stopping = source.stopping
    BY <1>11, OwnerStays
  <2>2. ASSUME owner.at \in {"release", "configure", "run"}
        PROVE  /\ source' = source
               /\ queue.frames = <<>> => queue'.frames = <<>>
    <3>1. camera.state = "stopped"
      BY <2>2 DEF CameraIsWhereOwnerThinks, StartPlace
    <3>. QED BY <1>11, <3>1, StoppedStands
  <2>. QED BY <2>1, <2>2
<1>12. CASE UNCHANGED vars
  BY <1>12 DEF vars
<1>. QED BY <1>1, <1>2, <1>3, <1>4, <1>5, <1>6, <1>7, <1>8, <1>9, <1>10, <1>11, <1>12
         DEF Next, OwnerStep

\* Every request stays with the camera or its callback until the reader is told.
\* (start, completed, disconnected)
LEMMA RequestsStep ==
    ASSUME TypeOK, CameraIsWhereOwnerThinks, StartIsInOrder, RequestsAreKept, [Next]_vars
    PROVE  RequestsAreKept'
<1>0. owner \in Owner /\ source \in Source /\ camera \in Camera /\ queue \in Queue
      /\ callback \in Callback
  BY DEF TypeOK
<1>. DEFINE capturing == owner.at \in {"feed", "capturing"}
<1>1. CASE CallSource \/ Halt \/ Drain \/ Drained \/ Close \/ Release \/ Configure \/ Reset
  <2>1. owner'.at \notin {"feed", "capturing"}
    <3>1. CASE CallSource \/ Halt \/ Drain \/ Drained
      BY <1>0, <3>1 DEF CallSource, Call, Halt, Drain, Drained, Owner
    <3>2. CASE Close
      BY <1>0, <3>2 DEF Close, Owner
    <3>3. CASE Release
      <4>1. PICK p \in {"configure", "idle", "destroyed"} : owner' = [owner EXCEPT !.at = p]
        BY <1>0, <3>3 DEF Release, Owner, StartIsInOrder
      <4>. QED BY <1>0, <4>1 DEF Owner
    <3>4. CASE Configure \/ Reset
      BY <1>0, <3>4 DEF Configure, Abandon, Call, Reset, Owner
    <3>. QED BY <1>1, <3>1, <3>2, <3>3, <3>4
  <2>2. camera'.present = camera.present /\ camera'.reported = camera.reported
    BY <1>1, CallbackStays DEF OwnerStep
  <2>. QED BY <2>1, <2>2 DEF RequestsAreKept
<1>2. CASE Run
  <2>1. camera'.present = camera.present /\ camera'.reported = camera.reported
    BY <1>2, CallbackStays DEF OwnerStep
  <2>2. CASE owner' = [owner EXCEPT !.at = "feed"] /\ camera.present
    <3>1. owner'.at = "feed" /\ owner'.fed = {}
      BY <1>0, <1>2, <2>2 DEF Run, Owner, StartIsInOrder
    <3>. QED BY <2>1, <2>2, <3>1 DEF RequestsAreKept
  <2>3. CASE Abandon
    <3>1. owner'.at = "halt"
      BY <1>0, <2>3 DEF Abandon, Call, Owner
    <3>. QED BY <2>1, <3>1 DEF RequestsAreKept
  <2>. QED BY <1>2, <2>2, <2>3 DEF Run
<1>3. ASSUME NEW request \in Requests, Feed(request) PROVE RequestsAreKept'
  <2>1. camera'.present = camera.present /\ camera'.reported = camera.reported
        /\ callback' = callback /\ queue' = queue /\ owner.at = "feed"
    BY <1>3, CallbackStays DEF OwnerStep, Feed
  <2>2. CASE Abandon
    <3>1. owner'.at = "halt"
      BY <1>0, <2>2 DEF Abandon, Call, Owner
    <3>. QED BY <2>1, <3>1 DEF RequestsAreKept
  <2>3. CASE ~Abandon
    <3>1. camera'.queued = camera.queued \cup {request}
      BY <1>0, <1>3, <2>3 DEF Feed, Camera
    <3>2. \/ owner.fed \cup {request} = Requests /\ owner'.at = "capturing"
          \/ owner'.at = "feed" /\ owner'.fed = owner.fed \cup {request}
      BY <1>0, <1>3, <2>1, <2>3 DEF Feed, Owner
    <3>. QED BY <2>1, <3>1, <3>2 DEF RequestsAreKept
  <2>. QED BY <2>2, <2>3
<1>4. ASSUME NEW request \in Requests, Complete(request) PROVE RequestsAreKept'
  <2>1. /\ callback.at = "idle" /\ callback'.at = "enter" /\ callback'.request = request
        /\ owner' = owner /\ queue' = queue
    BY <1>4 DEF Complete
  <2>2. /\ camera'.queued = camera.queued \ {request}
        /\ camera'.present = camera.present /\ camera'.reported = camera.reported
    BY <1>0, <1>4 DEF Complete, Camera
  <2>. QED BY <2>1, <2>2 DEF RequestsAreKept
<1>5. CASE Enter \/ Requeue \/ Catch
  <2>1. owner' = owner /\ camera' = camera /\ queue' = queue
    BY <1>5 DEF Enter, Requeue, Catch
  <2>2. /\ callback'.request = callback.request
        /\ ~source.stopping => callback'.at # "idle"
    BY <1>0, <1>5 DEF Enter, Requeue, Catch, Answer, Callback
  <2>. QED BY <2>1, <2>2 DEF RequestsAreKept, StartIsInOrder
<1>6. CASE Validate \/ Push
  <2>1. owner' = owner /\ camera' = camera
    BY <1>6 DEF Validate, Push
  <2>2. callback'.request = callback.request /\ callback'.at # "idle"
        /\ queue'.error = queue.error
    BY <1>0, <1>6 DEF Validate, Push, Answer, Callback, Queue
  <2>. QED BY <2>1, <2>2 DEF RequestsAreKept
<1>7. CASE Submit
  <2>1. owner' = owner /\ queue' = queue /\ callback.at = "submit"
    BY <1>7 DEF Submit
  <2>2. /\ camera'.present = camera.present /\ camera'.reported = camera.reported
        /\ \/ camera'.queued = camera.queued \cup {callback.request} /\ callback'.at = "idle"
           \/ camera' = camera /\ callback'.at = "catch" /\ callback'.request = callback.request
    BY <1>0, <1>7 DEF Submit, Answer, Callback, Camera
  <2>. QED BY <2>1, <2>2 DEF RequestsAreKept
<1>8. CASE Report
  BY <1>0, <1>8 DEF Report, Failed, RequestsAreKept, Queue
<1>9. CASE Disconnected
  <2>1. owner' = owner /\ callback' = callback /\ ~camera.present
    BY <1>9 DEF Disconnected
  <2>2. camera'.present = camera.present /\ camera'.queued = camera.queued
    BY <1>0, <1>9 DEF Disconnected, Camera
  <2>3. capturing => queue'.error
    <3>1. capturing => camera.buffers
      BY DEF CameraIsWhereOwnerThinks
    <3>. QED BY <1>0, <1>9, <3>1 DEF Disconnected, Failed, Queue
  <2>. QED BY <2>1, <2>2, <2>3 DEF RequestsAreKept
<1>10. CASE Unplug
  BY <1>0, <1>10 DEF Unplug, RequestsAreKept, Camera
<1>11. CASE Read
  BY <1>0, <1>11 DEF Read, RequestsAreKept, Queue
<1>12. CASE UNCHANGED vars
  BY <1>12 DEF vars, RequestsAreKept
<1>. QED BY <1>1, <1>2, <1>3, <1>4, <1>5, <1>6, <1>7, <1>8, <1>9, <1>10, <1>11, <1>12
         DEF Next, OwnerStep, CallbackStep

\* CountersAreHonest of the values it depends on: the queue's error, the place of
\* the callback, the stopping flag, the count of settled frames and the camera's.
Honest(error, place, stopping, settled, matching) ==
    \/ error
    \/ /\ place \in {"idle", "requeue", "submit"} => stopping \/ settled <= matching
       /\ place \in {"enter", "body"} =>
              \/ matching = 0
              \/ AtMost(Settle, settled + 1) <= matching
              \/ stopping /\ place = "enter"
       /\ place = "push" => matching = Settle /\ settled = Settle

\* The counts of a callback are true to the camera.  (completed, reset)
LEMMA CountersStep ==
    ASSUME TypeOK, CameraIsWhereOwnerThinks, StartIsInOrder, CountersAreHonest, [Next]_vars
    PROVE  CountersAreHonest'
<1>0. /\ source \in Source /\ camera \in Camera /\ queue \in Queue /\ callback \in Callback
      /\ Settle \in Nat \ {0} /\ camera.matching \in 0..Settle /\ source.settled \in 0..Settle
  BY Numbers DEF TypeOK
<1>h. Honest(queue.error, callback.at, source.stopping, source.settled, camera.matching)
  BY DEF Honest, CountersAreHonest
<1>. SUFFICES Honest(queue'.error, callback'.at, source'.stopping, source'.settled,
                     camera'.matching)
  BY DEF Honest, CountersAreHonest
<1>1. CASE CallSource \/ Drain \/ Drained \/ Close \/ Release \/ Configure
            \/ \E request \in Requests : Feed(request)
  <2>1. callback' = callback
    BY <1>1, CallbackStays DEF OwnerStep
  <2>2. queue'.error = queue.error
    BY <1>0, <1>1 DEF CallSource, Drain, Drained, Close, Release, Configure, Feed, Queue
  <2>3. source'.stopping = source.stopping /\ source'.settled = source.settled
    BY <1>0, <1>1 DEF CallSource, Drain, Drained, Close, Release, Configure, Feed, Source
  <2>4. camera'.matching = camera.matching
    <3>1. CASE CallSource \/ Drain \/ Drained \/ Close \/ Release \/ Configure
      BY <1>0, <3>1 DEF CallSource, Drain, Drained, Close, Release, Configure, Camera
    <3>2. ASSUME NEW request \in Requests, Feed(request)
          PROVE  camera'.matching = camera.matching
      BY <1>0, <3>2 DEF Feed, Camera
    <3>. QED BY <1>1, <3>1, <3>2
  <2>. QED BY <1>h, <2>1, <2>2, <2>3, <2>4
<1>2. CASE Halt
  <2>1. /\ source'.stopping /\ source'.settled = source.settled
        /\ callback' = callback /\ queue' = queue /\ camera' = camera
    BY <1>0, <1>2 DEF Halt, Source
  <2>. QED BY <1>h, <2>1 DEF Honest
<1>3. CASE Reset \/ Run
  <2>1. callback.at = "idle" /\ callback' = callback
    BY <1>3, CallbackStays DEF CameraIsWhereOwnerThinks, StartPlace, OwnerStep, Reset, Run
  <2>2. source'.settled = 0
    BY <1>0, <1>3 DEF Reset, Run, Source, StartIsInOrder
  <2>3. camera'.matching \in Nat
    <3>1. camera'.matching \in {camera.matching, 0}
      BY <1>0, <1>3 DEF Reset, Run, Camera
    <3>. QED BY <1>0, <3>1
  <2>. QED BY <2>1, <2>2, <2>3 DEF Honest
<1>4. ASSUME NEW request \in Requests, Complete(request)
      PROVE  Honest(queue'.error, callback'.at, source'.stopping, source'.settled,
                    camera'.matching)
  <2>1. /\ callback.at = "idle" /\ callback'.at = "enter" /\ source' = source /\ queue' = queue
        /\ camera'.matching \in {0, AtMost(Settle, camera.matching + 1)}
    BY <1>0, <1>4 DEF Complete, Camera
  <2>2. /\ source.settled + 1 \in Nat /\ camera.matching + 1 \in Nat
        /\ source.settled <= camera.matching => source.settled + 1 <= camera.matching + 1
    BY <1>0
  <2>3. source.settled <= camera.matching =>
          AtMost(Settle, source.settled + 1) <= AtMost(Settle, camera.matching + 1)
    <3>1. ASSUME NEW n \in Nat, NEW m \in Nat, n <= m
          PROVE  AtMost(Settle, n) <= AtMost(Settle, m)
      BY <1>0, <3>1 DEF AtMost
    <3>. QED BY <2>2, <3>1
  <2>. QED BY <1>h, <2>1, <2>3 DEF Honest
<1>5. CASE Enter \/ Requeue \/ Catch \/ Submit \/ Report
  <2>1. source' = source /\ camera'.matching = camera.matching
    BY <1>0, <1>5 DEF Enter, Requeue, Catch, Submit, Report, Camera
  <2>2. CASE Enter
    BY <1>0, <1>h, <2>1, <2>2 DEF Enter, Answer, Callback, Honest
  <2>3. CASE Requeue \/ Submit
    BY <1>0, <1>h, <2>1, <2>3 DEF Requeue, Submit, Answer, Callback, Honest
  <2>4. CASE Catch
    BY <1>0, <2>1, <2>4 DEF Catch, Answer, Callback, Honest
  <2>5. CASE Report
    BY <1>0, <2>5 DEF Report, Failed, Queue, Honest
  <2>. QED BY <1>5, <2>2, <2>3, <2>4, <2>5
<1>6. CASE Validate
  <2>. DEFINE settled == IF camera.matching = 0 THEN 0 ELSE AtMost(Settle, source.settled + 1)
              place == IF AtMost(Patience, source.received + 1) >= Patience /\ settled < Settle
                       THEN "catch"
                       ELSE IF AtMost(Patience, source.received + 1) > Warmup /\ settled >= Settle
                       THEN "push" ELSE "requeue"
  <2>1. callback.at = "body" /\ queue' = queue /\ camera' = camera
    BY <1>6 DEF Validate
  <2>2. \/ callback'.at = "catch"
        \/ /\ callback'.at = place
           /\ source'.settled = settled /\ source'.stopping = source.stopping
    BY <1>0, <1>6 DEF Validate, Answer, Callback, Source
  <2>3. place \in {"catch", "push", "requeue"} /\ (place = "push" => settled >= Settle)
    OBVIOUS
  <2>4. settled \in 0..Settle
    <3>1. source.settled + 1 \in Nat
      BY <1>0
    <3>2. AtMost(Settle, source.settled + 1) \in 0..Settle /\ 0 \in 0..Settle
      BY <1>0, <3>1, Capped
    <3>. QED BY <3>2
  <2>5. queue.error \/ settled <= camera.matching
    BY <1>0, <1>h, <2>1 DEF Honest
  <2>. HIDE DEF settled, place
  <2>6. place = "push" => settled = Settle /\ (settled <= camera.matching => camera.matching = Settle)
    BY <1>0, <2>3, <2>4
  <2>. QED BY <2>1, <2>2, <2>3, <2>5, <2>6 DEF Honest
<1>7. CASE Push
  <2>1. /\ callback.at = "push" /\ source' = source /\ camera' = camera
        /\ callback'.at \in {"catch", "requeue"} /\ queue'.error = queue.error
    BY <1>0, <1>7 DEF Push, Answer, Callback, Queue
  <2>. QED BY <1>0, <1>h, <2>1 DEF Honest
<1>8. CASE Disconnected
  <2>1. source' = source /\ camera'.matching = camera.matching /\ callback' = callback
    BY <1>0, <1>8 DEF Disconnected, Camera
  <2>2. queue' = queue \/ queue'.error
    BY <1>0, <1>8 DEF Disconnected, Failed, Queue
  <2>. QED BY <1>h, <2>1, <2>2 DEF Honest
<1>9. CASE Unplug \/ Read \/ UNCHANGED vars
  <2>1. /\ source' = source /\ camera'.matching = camera.matching /\ callback' = callback
        /\ queue'.error = queue.error
    BY <1>0, <1>9 DEF Unplug, Read, vars, Camera, Queue
  <2>. QED BY <1>h, <2>1
<1>. QED BY <1>1, <1>2, <1>3, <1>4, <1>5, <1>6, <1>7, <1>8, <1>9
         DEF Next, OwnerStep, CallbackStep

-----------------------------------------------------------------------------
\* What QueueInv says of the frames of a queue with this serial, in this start.
CurrentFrames(frames, start, serial) ==
    \A i \in 1..Len(frames) :
        /\ frames[i].start = start
        /\ frames[i].matching >= Settle
        /\ frames[i].serial = serial - Len(frames) + i

\* An empty queue says nothing; taking the oldest frame off keeps it, and so does
\* pushing a frame of this start and the next serial.  (push, read)
LEMMA FramesStayCurrent ==
    ASSUME NEW frames \in Seq(Frame), Len(frames) <= QueueSize, NEW start, NEW serial \in Nat,
           CurrentFrames(frames, start, serial)
    PROVE  /\ frames # <<>> => CurrentFrames(Tail(frames), start, serial)
           /\ \A frame \in Frame :
                 /\ frame.start = start /\ frame.matching = Settle
                 /\ frame.serial = serial + 1
                 => CurrentFrames(Kept(frames, frame), start, serial + 1)
<1>1. ASSUME frames # <<>> PROVE CurrentFrames(Tail(frames), start, serial)
  <2>. DEFINE n == Len(frames)
              q == Tail(frames)
  <2>1. n \in Nat /\ Len(q) = n - 1 /\ \A i \in 1..Len(q) : q[i] = frames[i + 1]
    BY <1>1
  <2>2. \A i \in 1..n : /\ frames[i].start = start /\ frames[i].matching >= Settle
                        /\ frames[i].serial = serial - n + i
    BY DEF CurrentFrames
  <2>. HIDE DEF n, q
  <2>3. ASSUME NEW i \in 1..Len(q)
        PROVE  /\ q[i].start = start /\ q[i].matching >= Settle
               /\ q[i].serial = serial - Len(q) + i
    <3>1. i + 1 \in 1..n /\ q[i] = frames[i + 1] /\ serial - n + (i + 1) = serial - Len(q) + i
      BY <2>1
    <3>. QED BY <2>2, <3>1
  <2>. QED BY <2>3 DEF CurrentFrames, q
<1>2. ASSUME NEW frame \in Frame, frame.start = start, frame.matching = Settle,
             frame.serial = serial + 1
      PROVE  CurrentFrames(Kept(frames, frame), start, serial + 1)
  <2>. DEFINE n == Len(frames)
              q == Kept(frames, frame)
              m == Len(q)
  <2>1. m \in 1..QueueSize /\ q[m] = frame
    BY KeptFrames
  <2>2. PICK dropped \in {0, 1} : /\ m = n - dropped + 1
                                  /\ \A i \in 1..(m - 1) : q[i] = frames[i + dropped]
    BY KeptFrames
  <2>3. \A i \in 1..n : /\ frames[i].start = start /\ frames[i].matching >= Settle
                        /\ frames[i].serial = serial - n + i
    BY DEF CurrentFrames
  <2>4. n \in Nat /\ QueueSize \in Nat /\ Settle \in Nat
    BY CameraAssumption
  <2>. HIDE DEF n, m
  <2>5. ASSUME NEW i \in 1..m
        PROVE  /\ q[i].start = start /\ q[i].matching >= Settle
               /\ q[i].serial = serial + 1 - m + i
    <3>1. CASE i = m
      <4>1. serial + 1 - m + m = serial + 1
        BY <2>1, <2>4
      <4>. QED BY <1>2, <2>1, <2>4, <3>1, <4>1
    <3>2. CASE i # m
      <4>1. i \in 1..(m - 1) /\ i + dropped \in 1..n
        BY <2>1, <2>2, <2>4, <3>2
      <4>2. serial - n + (i + dropped) = serial + 1 - m + i
        BY <2>1, <2>2, <2>4
      <4>. QED BY <2>2, <2>3, <4>1, <4>2
    <3>. QED BY <3>1, <3>2
  <2>. QED BY <2>5 DEF CurrentFrames, m
<1>. QED BY <1>1, <1>2

\* The queue holds what the reader may rely on.  (CameraQueue, completed)
LEMMA QueueStep ==
    ASSUME TypeOK, CameraIsWhereOwnerThinks, StartIsInOrder, CountersAreHonest, QueueInv,
           [Next]_vars
    PROVE  QueueInv'
<1>0. /\ owner \in Owner /\ queue \in Queue /\ queue.frames \in Seq(Frame)
      /\ Len(queue.frames) <= QueueSize /\ queue.serial \in Nat
  BY Numbers DEF TypeOK
<1>h. queue.error \/ CurrentFrames(queue.frames, owner.start, queue.serial)
  BY DEF QueueInv, FramesAreCurrent, QueueHoldsNewest, CurrentFrames
<1>. SUFFICES queue'.error \/ CurrentFrames(queue'.frames, owner'.start, queue'.serial)
  BY DEF QueueInv, FramesAreCurrent, QueueHoldsNewest, CurrentFrames
<1>e. \A q, start, serial : q = <<>> => CurrentFrames(q, start, serial)
  BY DEF CurrentFrames
<1>1. CASE CallSource \/ Halt \/ Drain \/ Drained \/ Release \/ Run
            \/ \E request \in Requests : Feed(request)
  <2>1. queue' = queue
    BY <1>1 DEF CallSource, Halt, Drain, Drained, Release, Run, Feed
  <2>2. owner'.start = owner.start
    <3>1. CASE CallSource \/ Halt \/ Drain \/ Drained
      BY <1>0, <3>1 DEF CallSource, Call, Halt, Drain, Drained, Owner
    <3>2. CASE Release \/ Run
      BY <1>0, <3>2 DEF Release, Run, Abandon, Call, Owner
    <3>3. ASSUME NEW request \in Requests, Feed(request) PROVE owner'.start = owner.start
      BY <1>0, <3>3 DEF Feed, Abandon, Call, Owner
    <3>. QED BY <1>1, <3>1, <3>2, <3>3
  <2>. QED BY <1>h, <2>1, <2>2
<1>2. CASE Close
  <2>1. queue'.frames = <<>>
    BY <1>0, <1>2 DEF Close, Queue
  <2>. QED BY <1>e, <2>1
<1>3. CASE Configure
  <2>1. queue'.frames = <<>>
    BY <1>3 DEF Configure, StartIsInOrder
  <2>. QED BY <1>e, <2>1
<1>4. CASE Reset
  <2>1. queue'.frames = <<>>
    BY <1>4 DEF Reset, NewQueue
  <2>. QED BY <1>e, <2>1
<1>5. CASE Report \/ Disconnected
  <2>1. (queue' = queue /\ owner' = owner) \/ queue'.error
    BY <1>0, <1>5 DEF Report, Disconnected, Failed, Queue
  <2>. QED BY <1>h, <2>1
<1>6. CASE Push
  <2>1. owner' = owner
    BY <1>6 DEF Push
  <2>2. CASE queue' = queue
    BY <1>h, <2>1, <2>2
  <2>3. CASE queue' # queue
    <3>. DEFINE frame == [start |-> owner.start, matching |-> camera.matching,
                          serial |-> queue.serial + 1]
    <3>1. /\ frame \in Frame /\ frame.start = owner.start
          /\ frame.matching = camera.matching /\ frame.serial = queue.serial + 1
      BY Numbers DEF Frame
    <3>2. queue' = [queue EXCEPT !.frames = Kept(@, frame), !.serial = @ + 1]
      BY <1>6, <2>3 DEF Push
    <3>3. queue.error \/ camera.matching = Settle
      BY <1>6 DEF Push, CountersAreHonest
    <3>. HIDE DEF frame
    <3>4. /\ queue'.error = queue.error /\ queue'.frames = Kept(queue.frames, frame)
          /\ queue'.serial = queue.serial + 1
      BY <1>0, <3>2 DEF Queue
    <3>5. queue.error \/ CurrentFrames(Kept(queue.frames, frame), owner.start, queue.serial + 1)
      BY <1>0, <1>h, <3>1, <3>3, FramesStayCurrent
    <3>. QED BY <2>1, <3>4, <3>5
  <2>. QED BY <2>2, <2>3
<1>7. CASE Read
  <2>1. /\ owner' = owner /\ queue.frames # <<>> /\ queue'.frames = Tail(queue.frames)
        /\ queue'.serial = queue.serial /\ ~queue.error
    BY <1>0, <1>7 DEF Read, Queue
  <2>. QED BY <1>0, <1>h, <2>1, FramesStayCurrent
<1>8. CASE \/ Enter \/ Validate \/ Requeue \/ Submit \/ Catch \/ Unplug
           \/ (\E request \in Requests : Complete(request)) \/ UNCHANGED vars
  <2>1. queue' = queue /\ owner' = owner
    BY <1>8 DEF Enter, Validate, Requeue, Submit, Catch, Unplug, Complete, vars
  <2>. QED BY <1>h, <2>1
<1>. QED BY <1>1, <1>2, <1>3, <1>4, <1>5, <1>6, <1>7, <1>8 DEF Next, OwnerStep, CallbackStep

-----------------------------------------------------------------------------
\* The invariant holds initially.  (LibcameraSource)
LEMMA CaptureInit == Init => CaptureInv
<1>. SUFFICES ASSUME Init PROVE CaptureInv
  OBVIOUS
<1>1. PICK request \in Requests : callback = [at |-> "idle", request |-> request]
  BY DEF Init
<1>2. callback \in Callback /\ callback.at = "idle"
  BY <1>1 DEF Callback
<1>3. TypeOK
  <2>1. owner \in Owner
    BY DEF Init, Owner
  <2>2. source \in Source
    BY CameraAssumption DEF Init, Source
  <2>3. camera \in Camera
    BY CameraAssumption DEF Init, Camera
  <2>4. queue \in Queue /\ Len(queue.frames) <= QueueSize
    BY CameraAssumption DEF Init, Queue, NewQueue
  <2>. QED BY <1>2, <2>1, <2>2, <2>3, <2>4 DEF TypeOK
<1>4. CameraIsWhereOwnerThinks /\ StartIsInOrder /\ RequestsAreKept
  BY <1>2 DEF Init, CameraIsWhereOwnerThinks, StartIsInOrder, RequestsAreKept, StartPlace
<1>5. CountersAreHonest
  BY <1>2 DEF Init, CountersAreHonest
<1>6. QueueInv
  BY DEF Init, NewQueue, QueueInv, FramesAreCurrent, QueueHoldsNewest
<1>. QED BY <1>3, <1>4, <1>5, <1>6 DEF CaptureInv

\* The inductive invariant of the capture holds in every behaviour.
\* (LibcameraSource, CameraQueue)
THEOREM CaptureIsInOrder == Spec => []CaptureInv
<1>1. CaptureInv /\ [Next]_vars => CaptureInv'
  BY TypeStep, CameraStep, StartStep, CountersStep, RequestsStep, QueueStep DEF CaptureInv
<1>. QED BY <1>1, CaptureInit, PTL DEF Spec

\* A reader that is not stopped by an error reads frames of this start, taken
\* after the exposure settled, the newest without a hole.  (push, read, reset)
THEOREM ReaderGetsCurrentFrames == Spec => []QueueInv
<1>1. CaptureInv => QueueInv
  BY DEF CaptureInv
<1>. QED BY <1>1, CaptureIsInOrder, PTL

\* No callback uses the buffers after release() destroyed them.
\* (completed, release)
THEOREM NoUseAfterRelease == Spec => []BuffersOutliveCallbacks
<1>1. CaptureInv => BuffersOutliveCallbacks
  BY DEF CaptureInv, CameraIsWhereOwnerThinks, BuffersOutliveCallbacks
<1>. QED BY <1>1, CaptureIsInOrder, PTL

\* A capture without an error has all its requests under way and its camera
\* connected.  (start, completed, disconnected)
THEOREM CaptureNeverStarvesSilently == Spec => []NothingLostSilently
<1>1. CaptureInv => NothingLostSilently
  <2>. SUFFICES ASSUME CaptureInv, owner.at = "capturing", ~queue.error
                PROVE  /\ camera.queued
                            \cup (IF callback.at = "idle" THEN {} ELSE {callback.request})
                            = Requests
                       /\ ~camera.reported
    BY DEF NothingLostSilently
  <2>1. camera.queued \subseteq Requests /\ callback.request \in Requests
    BY DEF CaptureInv, TypeOK, Camera, Callback
  <2>. QED BY <2>1 DEF CaptureInv, RequestsAreKept
<1>. QED BY <1>1, CaptureIsInOrder, PTL


-----------------------------------------------------------------------------
(***************************************************************************)
(* CaptureSetup: the sensors of one capture after another.                *)
(***************************************************************************)

\* The types of the IMU's object under each assignment of the constructor and of
\* disable().
LEMMA ObjectTypes ==
    ASSUME NEW o \in Object
    PROVE  /\ \A place \in ImuPlace : [o EXCEPT !.at = place] \in Object
           /\ \A place \in ImuPlace, next \in 1..3 :
                 [o EXCEPT !.at = place, !.next = next] \in Object
           /\ \A next \in 1..3, seen \in SUBSET Device :
                 [o EXCEPT !.at = "unwinding", !.next = next, !.foundOn = seen] \in Object
           /\ \A ready \in SUBSET Device : [o EXCEPT !.ready = ready] \in Object
           /\ \A n \in 0..2, taken \in SUBSET Device :
                 [o EXCEPT !.at = "disabled", !.buffers = n, !.taken = taken] \in Object
           /\ \A n \in 0..2 :
                 [o EXCEPT !.at = "unwinding", !.buffers = n, !.next = 1] \in Object
           /\ \A next \in 1..3, jammed \in SUBSET Device, taken \in SUBSET Device :
                 [o EXCEPT !.next = next, !.jammed = jammed, !.taken = taken] \in Object
<1>1. \A place \in ImuPlace : [o EXCEPT !.at = place] \in Object
  BY DEF Object
<1>2. \A place \in ImuPlace, next \in 1..3 :
         [o EXCEPT !.at = place, !.next = next] \in Object
  BY DEF Object
<1>3. \A next \in 1..3, seen \in SUBSET Device :
         [o EXCEPT !.at = "unwinding", !.next = next, !.foundOn = seen] \in Object
  BY DEF Object, ImuPlace
<1>4. \A ready \in SUBSET Device : [o EXCEPT !.ready = ready] \in Object
  BY DEF Object
<1>5. \A n \in 0..2, taken \in SUBSET Device :
         [o EXCEPT !.at = "disabled", !.buffers = n, !.taken = taken] \in Object
  BY DEF Object, ImuPlace
<1>6. \A n \in 0..2 : [o EXCEPT !.at = "unwinding", !.buffers = n, !.next = 1] \in Object
  <2>. 1 \in 1..3
    OBVIOUS
  <2>. QED BY DEF Object, ImuPlace
<1>7. \A next \in 1..3, jammed \in SUBSET Device, taken \in SUBSET Device :
         [o EXCEPT !.next = next, !.jammed = jammed, !.taken = taken] \in Object
  BY DEF Object
<1>. QED BY <1>1, <1>2, <1>3, <1>4, <1>5, <1>6, <1>7

\* A new object, which keeps what could not be switched off.
LEMMA NewObject ==
    ASSUME NEW jammed \in SUBSET Device
    PROVE  /\ NewImu \in Object
           /\ \A place \in ImuPlace : [NewImu EXCEPT !.at = place, !.jammed = jammed] \in Object
           /\ \A order \in {<<"accel", "gyro">>, <<"gyro", "accel">>} :
                 [NewImu EXCEPT !.at = "found", !.order = order, !.jammed = jammed] \in Object
<1>1. NewImu \in Object
  BY DEF Object, NewImu, ImuPlace
<1>2. \A place \in ImuPlace : [NewImu EXCEPT !.at = place, !.jammed = jammed] \in Object
  BY <1>1 DEF Object
<1>3. \A order \in {<<"accel", "gyro">>, <<"gyro", "accel">>} :
         [NewImu EXCEPT !.at = "found", !.order = order, !.jammed = jammed] \in Object
  BY <1>1 DEF Object, ImuPlace
<1>. QED BY <1>1, <1>2, <1>3

\* The two devices, in either order.
LEMMA OrderIsAll ==
    ASSUME NEW order \in {<<"accel", "gyro">>, <<"gyro", "accel">>}
    PROVE  /\ order[1] \in Device /\ order[2] \in Device /\ order[1] # order[2]
           /\ Device = {order[1], order[2]}
  BY DEF Device

-----------------------------------------------------------------------------
\* What the invariant says of the devices.
DevicesInv ==
    /\ buffer \in [Device -> {"off", "own", "other"}] /\ imu \in Object
    /\ OwnAreOwed /\ LoopsInOrder /\ RefusedAtOnce /\ FoundOnUntouched

\* It implies the parts that are stated for their own sake.
LEMMA DevicesAreReleased ==
    ASSUME DevicesInv PROVE NothingLeftOn /\ ConfiguredBeforeEnabled
  BY DEF DevicesInv, NothingLeftOn, ConfiguredBeforeEnabled, OwnAreOwed, LoopsInOrder

\* The fields of the object, and which device a loop is at.
LEMMA DeviceValues ==
    ASSUME DevicesInv
    PROVE  /\ imu.at \in ImuPlace /\ imu.next \in 1..3 /\ imu.buffers \in 0..2
           /\ imu.ready \subseteq Device /\ imu.foundOn \subseteq Device
           /\ imu.taken = {} /\ imu.jammed \subseteq Device
           /\ imu.order \in {<<"accel", "gyro">>, <<"gyro", "accel">>}
           /\ Device = {imu.order[1], imu.order[2]} /\ imu.order[1] # imu.order[2]
           /\ imu.next <= 2 => Current \in Device /\ \A i \in 1..2 : imu.order[i] = Current => i = imu.next
<1>1. /\ imu.at \in ImuPlace /\ imu.next \in 1..3 /\ imu.buffers \in 0..2
      /\ imu.ready \subseteq Device /\ imu.foundOn \subseteq Device
      /\ imu.taken = {} /\ imu.jammed \subseteq Device
      /\ imu.order \in {<<"accel", "gyro">>, <<"gyro", "accel">>}
  BY DEF DevicesInv, Object, FoundOnUntouched
<1>2. Device = {imu.order[1], imu.order[2]} /\ imu.order[1] # imu.order[2]
  BY <1>1, OrderIsAll
<1>3. ASSUME imu.next <= 2
      PROVE  Current \in Device /\ \A i \in 1..2 : imu.order[i] = Current => i = imu.next
  <2>1. imu.next = 1 \/ imu.next = 2
    BY <1>1, <1>3
  <2>. QED BY <1>2, <2>1 DEF Current
<1>. QED BY <1>1, <1>2, <1>3

LEMMA ThrowsKeeps == ASSUME DevicesInv, Throws PROVE DevicesInv'
<1>1. imu' \in Object
  <2>. 1 \in 1..3 /\ "unwinding" \in ImuPlace
    BY DEF ImuPlace
  <2>. QED BY ObjectTypes DEF DevicesInv, Throws
<1>2. /\ imu'.at = "unwinding" /\ imu'.next = 1 /\ imu'.buffers = imu.buffers
      /\ imu'.order = imu.order /\ imu'.jammed = imu.jammed /\ imu'.foundOn = imu.foundOn
      /\ imu'.taken = imu.taken /\ imu'.ready = imu.ready
  BY DEF DevicesInv, Throws, Object
<1>3. buffer' = buffer
  BY DEF Throws
<1>4. OwnAreOwed'
  <2>. SUFFICES ASSUME NEW d \in Device, buffer[d] = "own", d \notin imu.jammed
                PROVE  \E i \in 1..imu.buffers : imu.order[i] = d /\ 1 <= i
    BY <1>2, <1>3 DEF OwnAreOwed
  <2>. QED BY DEF DevicesInv, OwnAreOwed
<1>5. RefusedAtOnce'
  BY <1>2 DEF DevicesInv, RefusedAtOnce, Throws
<1>. QED BY <1>1, <1>2, <1>3, <1>4, <1>5 DEF DevicesInv, LoopsInOrder, FoundOnUntouched

LEMMA DiscoverKeeps == ASSUME DevicesInv, Discover PROVE DevicesInv'
<1>1. PICK order \in {<<"accel", "gyro">>, <<"gyro", "accel">>} :
         imu' = [NewImu EXCEPT !.at = "found", !.order = order, !.jammed = imu.jammed]
  BY DEF Discover
<1>2. imu' \in Object
  BY <1>1, NewObject, DeviceValues
<1>3. /\ imu'.at = "found" /\ imu'.next = 1 /\ imu'.buffers = 0 /\ imu'.jammed = imu.jammed
      /\ imu'.foundOn = {} /\ imu'.taken = {}
  BY <1>1 DEF NewImu
<1>4. buffer' = buffer /\ imu.at = "none"
  BY DEF Discover
<1>5. NothingLeftOn
  BY DevicesAreReleased
<1>. QED BY <1>2, <1>3, <1>4, <1>5
       DEF DevicesInv, NothingLeftOn, OwnAreOwed, LoopsInOrder, RefusedAtOnce, FoundOnUntouched

\* A buffer that is on is left to its owner.
LEMMA CheckIdleKeeps == ASSUME DevicesInv, CheckIdle PROVE DevicesInv'
<1>0. /\ imu.at = "found" /\ buffer' = buffer /\ imu.next \in 1..2 /\ imu.buffers = 0
      /\ Current \in Device /\ imu.foundOn = {} /\ imu \in Object
  BY DeviceValues DEF DevicesInv, CheckIdle, LoopsInOrder, RefusedAtOnce
<1>1. \/ imu' = [imu EXCEPT !.at = "unwinding", !.next = 1, !.foundOn = @ \cup {Current}]
      \/ imu.next = 2 /\ imu' = [imu EXCEPT !.at = "checked", !.next = 1]
      \/ imu.next = 1 /\ imu' = [imu EXCEPT !.at = "found", !.next = 2]
  BY <1>0 DEF CheckIdle, Onwards
<1>2. imu' \in Object
  <2>. {1, 2} \subseteq 1..3 /\ imu.foundOn \cup {Current} \in SUBSET Device
       /\ {"checked", "found"} \subseteq ImuPlace
    BY <1>0 DEF ImuPlace
  <2>1. [imu EXCEPT !.at = "unwinding", !.next = 1, !.foundOn = @ \cup {Current}] \in Object
    BY <1>0, ObjectTypes
  <2>2. \A next \in 1..3, place \in ImuPlace :
           [imu EXCEPT !.at = place, !.next = next] \in Object
    BY <1>0, ObjectTypes
  <2>3. /\ [imu EXCEPT !.at = "checked", !.next = 1] \in Object
        /\ [imu EXCEPT !.at = "found", !.next = 2] \in Object
    BY <2>2
  <2>. QED BY <1>1, <2>1, <2>3
<1>3. /\ \/ imu'.at = "unwinding" /\ imu'.next = 1
         \/ imu'.at = "checked" /\ imu'.next = 1 /\ imu'.foundOn = {}
         \/ imu'.at = "found" /\ imu'.next = 2 /\ imu'.foundOn = {}
      /\ imu'.buffers = 0 /\ imu'.jammed = imu.jammed /\ imu'.taken = imu.taken
  BY <1>0, <1>1 DEF Object
<1>. QED BY <1>0, <1>2, <1>3
       DEF DevicesInv, OwnAreOwed, LoopsInOrder, RefusedAtOnce, FoundOnUntouched

LEMMA CheckGravityKeeps == ASSUME DevicesInv, CheckGravity PROVE DevicesInv'
<1>0. /\ imu.at = "checked" /\ buffer' = buffer /\ imu.next = 1 /\ imu.buffers = 0
      /\ imu.foundOn = {} /\ imu \in Object /\ imu' = [imu EXCEPT !.at = "still"]
  BY DEF DevicesInv, CheckGravity, LoopsInOrder, RefusedAtOnce
<1>1. imu' \in Object
  BY <1>0, ObjectTypes DEF ImuPlace
<1>2. /\ imu'.at = "still" /\ imu'.next = 1 /\ imu'.buffers = 0 /\ imu'.jammed = imu.jammed
      /\ imu'.foundOn = {} /\ imu'.taken = imu.taken
  BY <1>0 DEF Object
<1>. QED BY <1>0, <1>1, <1>2
       DEF DevicesInv, OwnAreOwed, LoopsInOrder, RefusedAtOnce, FoundOnUntouched

\* A buffer is remembered before it is switched off.
LEMMA PrepareKeeps == ASSUME DevicesInv, Prepare PROVE DevicesInv'
<1>0. /\ imu.at = "still" /\ imu.next \in 1..2 /\ imu.buffers = imu.next - 1
      /\ Current \in Device /\ imu.foundOn = {} /\ imu.taken = {} /\ imu \in Object
      /\ buffer \in [Device -> {"off", "own", "other"}]
      /\ buffer' = [buffer EXCEPT ![Current] = "off"]
      /\ imu' = [imu EXCEPT !.at = "disabled", !.buffers = imu.next, !.taken = {}]
  <2>1. /\ imu.at = "still" /\ imu.next \in 1..2 /\ imu.buffers = imu.next - 1
        /\ Current \in Device /\ imu.foundOn = {} /\ imu.taken = {} /\ imu \in Object
        /\ buffer \in [Device -> {"off", "own", "other"}]
    BY DeviceValues DEF DevicesInv, Prepare, LoopsInOrder, RefusedAtOnce
  <2>2. imu.taken \cup (imu.foundOn \cap {Current}) = {}
    BY <2>1
  <2>. QED BY <2>1, <2>2 DEF Prepare
<1>1. imu' \in Object
  <2>. imu.next \in 0..2 /\ {} \in SUBSET Device
    BY <1>0
  <2>. QED BY <1>0, ObjectTypes
<1>2. /\ imu'.at = "disabled" /\ imu'.next = imu.next /\ imu'.buffers = imu.next
      /\ imu'.order = imu.order /\ imu'.ready = imu.ready /\ imu'.jammed = imu.jammed
      /\ imu'.foundOn = {} /\ imu'.taken = {}
  BY <1>0 DEF Object
<1>3. /\ buffer' \in [Device -> {"off", "own", "other"}]
      /\ \A d \in Device : buffer'[d] = "own" => buffer[d] = "own"
  BY <1>0
<1>4. OwnAreOwed'
  <2>. SUFFICES ASSUME NEW d \in Device, buffer[d] = "own", d \notin imu.jammed
                PROVE  \E i \in 1..imu.next : imu.order[i] = d
    BY <1>2, <1>3 DEF OwnAreOwed
  <2>. QED BY <1>0 DEF DevicesInv, OwnAreOwed
<1>5. LoopsInOrder'
  BY <1>0, <1>2 DEF DevicesInv, LoopsInOrder
<1>. QED BY <1>1, <1>2, <1>3, <1>4, <1>5 DEF DevicesInv, RefusedAtOnce, FoundOnUntouched

LEMMA PrepareThrowsKeeps == ASSUME DevicesInv, PrepareThrows PROVE DevicesInv'
<1>0. /\ imu.at = "still" /\ imu.next \in 1..2 /\ imu.buffers = imu.next - 1
      /\ imu.foundOn = {} /\ imu.taken = {} /\ imu \in Object /\ buffer' = buffer
      /\ imu' = [imu EXCEPT !.at = "unwinding", !.buffers = imu.next, !.next = 1]
  BY DeviceValues DEF DevicesInv, PrepareThrows, LoopsInOrder, RefusedAtOnce
<1>1. imu' \in Object
  <2>. imu.next \in 0..2
    BY <1>0
  <2>. QED BY <1>0, ObjectTypes
<1>2. /\ imu'.at = "unwinding" /\ imu'.next = 1 /\ imu'.buffers = imu.next
      /\ imu'.order = imu.order /\ imu'.jammed = imu.jammed
      /\ imu'.foundOn = {} /\ imu'.taken = {}
  BY <1>0 DEF Object
<1>3. OwnAreOwed'
  <2>. SUFFICES ASSUME NEW d \in Device, buffer[d] = "own", d \notin imu.jammed
                PROVE  \E i \in 1..imu.next : imu.order[i] = d /\ 1 <= i
    BY <1>0, <1>2 DEF OwnAreOwed
  <2>. QED BY <1>0 DEF DevicesInv, OwnAreOwed
<1>. QED BY <1>0, <1>1, <1>2, <1>3 DEF DevicesInv, LoopsInOrder, RefusedAtOnce, FoundOnUntouched

\* The second device makes all of them ready.
LEMMA ConfigureKeeps == ASSUME DevicesInv, ConfigureDevice PROVE DevicesInv'
<1>. DEFINE ready == imu.ready \cup {Current}
<1>0. /\ imu.at = "disabled" /\ imu.next \in 1..2 /\ imu.buffers = imu.next
      /\ Current \in Device /\ imu.foundOn = {} /\ imu \in Object /\ buffer' = buffer
      /\ imu.taken = {}
  BY DeviceValues DEF DevicesInv, ConfigureDevice, LoopsInOrder, RefusedAtOnce
<1>. DEFINE place == IF imu.next = 1 THEN "still" ELSE "enabling"
            next == IF imu.next = 1 THEN 2 ELSE 1
<1>1. /\ place \in ImuPlace /\ next \in 1..2
      /\ \/ imu.next = 1 /\ place = "still" /\ next = 2
         \/ imu.next = 2 /\ place = "enabling" /\ next = 1
      /\ Onwards("still", "enabling") = [imu EXCEPT !.at = place, !.next = next]
  <2>1. /\ place \in ImuPlace /\ next \in 1..2
        /\ \/ imu.next = 1 /\ place = "still" /\ next = 2
           \/ imu.next = 2 /\ place = "enabling" /\ next = 1
    BY <1>0 DEF ImuPlace
  <2>2. Onwards("still", "enabling") = [imu EXCEPT !.at = place, !.next = next]
    <3>1. CASE imu.next = 1
      BY <3>1 DEF Onwards
    <3>2. CASE imu.next = 2
      BY <3>2 DEF Onwards
    <3>. QED BY <1>0, <3>1, <3>2
  <2>. QED BY <2>1, <2>2
<1>. HIDE DEF place, next
<1>. DEFINE o == [imu EXCEPT !.at = place, !.next = next]
<1>2. /\ ready \in SUBSET Device
      /\ imu.next = 1 => imu.order[1] \in ready
      /\ imu.next = 2 => ready = Device
  <2>1. imu.next = 2 => imu.order[1] \in imu.ready
    BY <1>0 DEF DevicesInv, LoopsInOrder
  <2>. QED BY <1>0, <2>1, DeviceValues DEF Current
<1>3. /\ imu' \in Object
      /\ \/ imu.next = 1 /\ imu'.at = "still" /\ imu'.next = 2
         \/ imu.next = 2 /\ imu'.at = "enabling" /\ imu'.next = 1
      /\ imu'.ready = ready /\ imu'.buffers = imu.buffers /\ imu'.order = imu.order
      /\ imu'.jammed = imu.jammed /\ imu'.foundOn = {} /\ imu'.taken = {}
  <2>0. next \in 1..3
    BY <1>1
  <2>1. o \in Object
    BY <1>0, <1>1, <2>0, ObjectTypes
  <2>2. /\ o.at = place /\ o.next = next /\ o.ready = imu.ready
        /\ o.buffers = imu.buffers /\ o.order = imu.order
        /\ o.jammed = imu.jammed /\ o.foundOn = {} /\ o.taken = {}
    BY <1>0 DEF Object
  <2>3. imu' = [o EXCEPT !.ready = ready]
    BY <1>1, <2>2 DEF ConfigureDevice, Configured
  <2>. HIDE DEF o, ready
  <2>4. imu' \in Object
    BY <1>2, <2>1, <2>3, ObjectTypes
  <2>5. /\ imu'.ready = ready /\ imu'.at = o.at /\ imu'.next = o.next
        /\ imu'.buffers = o.buffers /\ imu'.order = o.order
        /\ imu'.jammed = o.jammed /\ imu'.foundOn = o.foundOn /\ imu'.taken = o.taken
    BY <2>1, <2>3 DEF Object
  <2>. QED BY <1>0, <1>1, <2>2, <2>4, <2>5
<1>. HIDE DEF ready, o
<1>4. OwnAreOwed'
  BY <1>0, <1>3 DEF DevicesInv, OwnAreOwed
<1>5. LoopsInOrder'
  BY <1>0, <1>2, <1>3 DEF LoopsInOrder
<1>. QED BY <1>0, <1>3, <1>4, <1>5 DEF DevicesInv, RefusedAtOnce, FoundOnUntouched

\* Only a buffer that is remembered is switched on.
LEMMA EnableKeeps == ASSUME DevicesInv, Enable PROVE DevicesInv'
<1>0. /\ imu.at = "enabling" /\ imu.next \in 1..2 /\ imu.buffers = 2 /\ imu.ready = Device
      /\ Current \in Device /\ imu.foundOn = {} /\ imu.taken = {} /\ imu \in Object
      /\ buffer \in [Device -> {"off", "own", "other"}]
      /\ buffer' = [buffer EXCEPT ![Current] = "own"]
  BY DeviceValues DEF DevicesInv, Enable, LoopsInOrder, RefusedAtOnce
<1>1. \E place \in ImuPlace, next \in 1..2 :
        /\ \/ place = "unwinding" /\ next = 1
           \/ place = "held"
           \/ place = "enabling"
        /\ imu' = [imu EXCEPT !.at = place, !.next = next]
  BY DEF Enable, Onwards, ImuPlace
<1>2. /\ imu' \in Object /\ imu'.next \in 1..2
      /\ imu'.at \in {"unwinding", "held", "enabling"}
      /\ imu'.at = "unwinding" => imu'.next = 1
      /\ imu'.buffers = 2 /\ imu'.order = imu.order /\ imu'.ready = Device
      /\ imu'.jammed = imu.jammed /\ imu'.foundOn = {} /\ imu'.taken = {}
  <2>1. PICK place \in ImuPlace, next \in 1..2 :
          /\ \/ place = "unwinding" /\ next = 1
             \/ place = "held"
             \/ place = "enabling"
          /\ imu' = [imu EXCEPT !.at = place, !.next = next]
    BY <1>1
  <2>2. next \in 1..3
    OBVIOUS
  <2>3. imu' \in Object
    BY <1>0, <2>1, <2>2, ObjectTypes
  <2>. QED BY <1>0, <2>1, <2>3 DEF Object
<1>3. OwnAreOwed'
  <2>. SUFFICES ASSUME NEW d \in Device, buffer'[d] = "own", d \notin imu.jammed
                PROVE  \E i \in 1..2 : imu.order[i] = d /\ 1 <= i
    BY <1>2 DEF OwnAreOwed
  <2>. QED BY DeviceValues
<1>. QED BY <1>0, <1>2, <1>3 DEF DevicesInv, LoopsInOrder, RefusedAtOnce, FoundOnUntouched

\* disable() passes over one buffer: it is off, it was not ours, or it is jammed.
LEMMA DisableKeeps == ASSUME DevicesInv, DisableNext PROVE DevicesInv'
<1>0. /\ imu.at \in {"unwinding", "releasing"} /\ imu.next \in 1..2 /\ imu.next <= imu.buffers
      /\ imu.buffers \in 1..2 /\ Current \in Device /\ imu.foundOn = {} /\ imu.taken = {}
      /\ imu \in Object /\ imu.jammed \subseteq Device
      /\ buffer \in [Device -> {"off", "own", "other"}]
  BY DeviceValues DEF DevicesInv, DisableNext, Owed, RefusedAtOnce
<1>1. PICK jammed \in SUBSET Device :
        /\ imu' = [imu EXCEPT !.next = imu.next + 1, !.jammed = jammed, !.taken = {}]
        /\ \/ buffer' = [buffer EXCEPT ![Current] = "off"] /\ jammed = imu.jammed \ {Current}
           \/ buffer' = buffer /\ buffer[Current] # "own" /\ jammed = imu.jammed \ {Current}
           \/ buffer' = buffer /\ jammed = imu.jammed \cup {Current}
  <2>1. imu.taken \cup (imu.foundOn \cap {Current}) = {}
    BY <1>0
  <2>2. imu.jammed \ {Current} \in SUBSET Device /\ imu.jammed \cup {Current} \in SUBSET Device
    BY <1>0
  <2>3. PICK written \in BOOLEAN :
          /\ buffer' = IF written THEN [buffer EXCEPT ![Current] = "off"] ELSE buffer
          /\ imu' = [imu EXCEPT !.next = @ + 1,
                                !.jammed = IF written \/ buffer[Current] # "own"
                                           THEN @ \ {Current} ELSE @ \cup {Current},
                                !.taken = IF written THEN @ \cup (imu.foundOn \cap {Current})
                                          ELSE @]
    BY DEF DisableNext
  <2>4. CASE written
    BY <1>0, <2>1, <2>2, <2>3, <2>4
  <2>5. CASE ~written /\ buffer[Current] # "own"
    BY <1>0, <2>2, <2>3, <2>5
  <2>6. CASE ~written /\ buffer[Current] = "own"
    BY <1>0, <2>2, <2>3, <2>6
  <2>. QED BY <2>4, <2>5, <2>6
<1>2. imu' \in Object
  <2>. imu.next + 1 \in 1..3 /\ {} \in SUBSET Device
    BY <1>0
  <2>. QED BY <1>0, <1>1, ObjectTypes
<1>3. /\ imu'.at = imu.at /\ imu'.next = imu.next + 1 /\ imu'.buffers = imu.buffers
      /\ imu'.order = imu.order /\ imu'.jammed = jammed /\ imu'.foundOn = {} /\ imu'.taken = {}
  BY <1>0, <1>1 DEF Object
<1>4. buffer' \in [Device -> {"off", "own", "other"}]
  BY <1>0, <1>1
<1>5. OwnAreOwed'
  <2>. SUFFICES ASSUME NEW d \in Device, buffer'[d] = "own", d \notin jammed
                PROVE  \E i \in 1..imu.buffers : imu.order[i] = d /\ imu.next + 1 <= i
    BY <1>3 DEF OwnAreOwed
  <2>1. d # Current /\ buffer[d] = "own" /\ d \notin imu.jammed
    BY <1>0, <1>1
  <2>2. PICK i \in 1..imu.buffers : imu.order[i] = d /\ imu.next <= i
    BY <1>0, <2>1 DEF DevicesInv, OwnAreOwed
  <2>3. i # imu.next
    BY <2>1, <2>2 DEF Current
  <2>. QED BY <1>0, <2>2, <2>3
<1>. QED BY <1>0, <1>2, <1>3, <1>4, <1>5 DEF DevicesInv, LoopsInOrder, RefusedAtOnce, FoundOnUntouched

\* Then none is owed.
LEMMA DisabledKeeps == ASSUME DevicesInv, DisableDone PROVE DevicesInv'
<1>0. /\ imu.at \in {"unwinding", "releasing"} /\ imu.next > imu.buffers /\ buffer' = buffer
      /\ imu.next \in 1..3 /\ imu.buffers \in 0..2 /\ imu.jammed \in SUBSET Device
  BY DeviceValues DEF DisableDone, Owed
<1>1. PICK place \in {"failed", "none"} :
        imu' = [NewImu EXCEPT !.at = place, !.jammed = imu.jammed]
  BY DEF DisableDone
<1>2. imu' \in Object
  <2>. place \in ImuPlace
    BY DEF ImuPlace
  <2>. QED BY <1>0, <1>1, NewObject
<1>3. /\ imu'.at = place /\ imu'.next = 1 /\ imu'.buffers = 0 /\ imu'.jammed = imu.jammed
      /\ imu'.foundOn = {} /\ imu'.taken = {}
  BY <1>1 DEF NewImu
<1>4. OwnAreOwed'
  <2>. SUFFICES ASSUME NEW d \in Device, buffer[d] = "own" PROVE d \in imu.jammed
    BY <1>0, <1>3 DEF OwnAreOwed
  <2>. QED BY <1>0 DEF DevicesInv, OwnAreOwed
<1>. QED BY <1>0, <1>2, <1>3, <1>4 DEF DevicesInv, LoopsInOrder, RefusedAtOnce, FoundOnUntouched

LEMMA DestroyKeeps == ASSUME DevicesInv, Destroy PROVE DevicesInv'
<1>0. /\ imu.at = "held" /\ buffer' = buffer /\ imu.foundOn = {} /\ imu \in Object
      /\ imu' = [imu EXCEPT !.at = "releasing", !.next = 1]
  BY DEF DevicesInv, Destroy, RefusedAtOnce
<1>1. imu' \in Object
  <2>. 1 \in 1..3 /\ "releasing" \in ImuPlace
    BY DEF ImuPlace
  <2>. QED BY <1>0, ObjectTypes
<1>2. /\ imu'.at = "releasing" /\ imu'.next = 1 /\ imu'.buffers = imu.buffers
      /\ imu'.order = imu.order /\ imu'.jammed = imu.jammed /\ imu'.foundOn = {}
      /\ imu'.taken = imu.taken
  BY <1>0 DEF Object
<1>3. OwnAreOwed'
  <2>. SUFFICES ASSUME NEW d \in Device, buffer[d] = "own", d \notin imu.jammed
                PROVE  \E i \in 1..imu.buffers : imu.order[i] = d /\ 1 <= i
    BY <1>0, <1>2 DEF OwnAreOwed
  <2>. QED BY DEF DevicesInv, OwnAreOwed
<1>. QED BY <1>0, <1>1, <1>2, <1>3 DEF DevicesInv, LoopsInOrder, RefusedAtOnce, FoundOnUntouched

LEMMA OtherProgramKeeps == ASSUME DevicesInv, OtherProgram PROVE DevicesInv'
<1>1. /\ buffer' \in [Device -> {"off", "own", "other"}] /\ imu' = imu
      /\ \A d \in Device : buffer'[d] = "own" => buffer[d] = "own"
  BY DEF DevicesInv, OtherProgram
<1>. QED BY <1>1 DEF DevicesInv, OwnAreOwed, LoopsInOrder, RefusedAtOnce, FoundOnUntouched

\* Each step of the constructor and of the destructor.
LEMMA DevicesStep ==
    ASSUME DevicesInv, ConstructImu \/ DisableImu \/ Destroy \/ OtherProgram
    PROVE  DevicesInv'
  BY ThrowsKeeps, DiscoverKeeps, CheckIdleKeeps, CheckGravityKeeps, PrepareKeeps,
     PrepareThrowsKeeps, ConfigureKeeps, EnableKeeps, DisableKeeps, DisabledKeeps,
     DestroyKeeps, OtherProgramKeeps DEF ConstructImu, DisableImu

\* Which places of the object each of them is taken at and leads to.
LEMMA DevicesMove ==
    ASSUME DevicesInv
    PROVE  /\ ConstructImu => imu.at \notin {"held", "failed", "unwinding", "releasing"}
                              /\ imu'.at # "releasing"
           /\ DisableImu => /\ imu.at \in {"unwinding", "releasing"}
                            /\ imu'.at \in {imu.at, IF imu.at = "unwinding" THEN "failed" ELSE "none"}
           /\ Destroy => imu.at = "held" /\ imu'.at = "releasing"
<1>1. imu \in Object
  BY DEF DevicesInv
<1>2. ConstructImu => imu.at \notin {"held", "failed", "unwinding", "releasing"}
  BY DEF ConstructImu, Throws, Discover, CheckIdle, CheckGravity, Prepare, PrepareThrows,
         ConfigureDevice, Enable
<1>3. ConstructImu => imu'.at # "releasing"
  BY <1>1 DEF ConstructImu, Throws, Discover, CheckIdle, CheckGravity, Prepare, PrepareThrows,
         ConfigureDevice, Configured, Enable, Onwards, Object, NewImu
<1>4. DisableImu => /\ imu.at \in {"unwinding", "releasing"}
                    /\ imu'.at \in {imu.at, IF imu.at = "unwinding" THEN "failed" ELSE "none"}
  BY <1>1 DEF DisableImu, DisableNext, DisableDone, Object, NewImu
<1>5. Destroy => imu.at = "held" /\ imu'.at = "releasing"
  BY <1>1 DEF Destroy, Object
<1>. QED BY <1>2, <1>3, <1>4, <1>5

-----------------------------------------------------------------------------
\* A set of numbers has a least one, and Min is it.
LEMMA LeastOf ==
    ASSUME NEW T, T \subseteq Nat, T # {}
    PROVE  \E x \in T : \A y \in T : x <= y
<1>1. IsWellFoundedOn(OpToRel(<, Nat), Nat)
  BY NatLessThanWellFounded
<1>2. PICK x \in T : \A y \in T : ~ (<<y, x>> \in OpToRel(<, Nat))
  BY <1>1, WFMin
<1>3. \A y \in T : ~ (y < x)
  BY <1>2 DEF OpToRel
<1>. QED BY <1>3

LEMMA MinIsLeast ==
    ASSUME NEW T, T \subseteq Nat, T # {}
    PROVE  Min(T) \in T /\ \A y \in T : Min(T) <= y
<1>1. \E x \in T : \A y \in T : x <= y
  BY LeastOf
<1>. QED BY <1>1 DEF Min

LEMMA LeastIsMin ==
    ASSUME NEW T, T \subseteq Nat, NEW x \in T, \A y \in T : x <= y
    PROVE  Min(T) = x
<1>1. Min(T) \in T /\ \A y \in T : Min(T) <= y
  BY MinIsLeast
<1>2. Min(T) \in Nat /\ x \in Nat /\ Min(T) <= x /\ x <= Min(T)
  BY <1>1
<1>. QED BY <1>2

\* The same of the greatest.
LEMMA GreatestIsMax ==
    ASSUME NEW T, T \subseteq Nat, NEW x \in T, \A y \in T : y <= x
    PROVE  Max(T) = x
<1>1. Max(T) \in T /\ \A y \in T : Max(T) >= y
  BY DEF Max
<1>2. Max(T) \in Nat /\ x \in Nat /\ x <= Max(T) /\ Max(T) <= x
  BY <1>1
<1>. QED BY <1>2

LEMMA GreatestOf ==
    ASSUME NEW n \in Nat, NEW T, T \subseteq 1..n, T # {}
    PROVE  \E x \in T : \A y \in T : y <= x
<1>. DEFINE mirror == {n - x : x \in T}
<1>0. \A x \in T : x \in Nat /\ x <= n /\ n - x \in Nat
  OBVIOUS
<1>1. mirror \subseteq Nat /\ mirror # {}
  BY <1>0
<1>2. PICK m \in mirror : \A o \in mirror : m <= o
  <2>. HIDE DEF mirror
  <2>. QED BY <1>1, LeastOf
<1>3. PICK x \in T : m = n - x
  BY <1>2
<1>4. \A y \in T : n - x <= n - y
  BY <1>2, <1>3
<1>5. ASSUME NEW y \in T PROVE y <= x
  <2>1. n - x <= n - y
    BY <1>4
  <2>. QED BY <1>0, <2>1
<1>. QED BY <1>5

\* The mean of equal numbers.
LEMMA MeanOfEqual ==
    ASSUME NEW n \in Nat \ {0}, NEW c \in Nat
    PROVE  (n * c) \div n = c
  OBVIOUS

LEMMA OneMore ==
    ASSUME NEW n \in Nat, NEW c \in Nat
    PROVE  n * c \in Nat /\ (n + 1) * c = n * c + c
  OBVIOUS

-----------------------------------------------------------------------------
\* The types of a selection under each assignment of select_exposure and probe.
LEMMA SelectionTypes ==
    ASSUME NEW s \in Selection
    PROVE  /\ \A exposure \in Exposure :
                 [s EXCEPT !.at = "chosen", !.chosen = exposure] \in Selection
           /\ \A shutter \in Nat :
                 [s EXCEPT !.at = "probing", !.received = 0, !.turns = 0,
                           !.measured = NoMeasure, !.shutter = shutter] \in Selection
           /\ [s EXCEPT !.turns = @ + 1] \in Selection
           /\ \A count \in Nat, measured \in Measured :
                 [s EXCEPT !.received = count, !.measured = measured] \in Selection
           /\ \A results \in Seq(Result) :
                 [s EXCEPT !.at = "ready", !.results = results] \in Selection
           /\ \A best \in Result :
                 [s EXCEPT !.at = "comparing", !.compared = 0, !.usable = FALSE, !.best = best]
                    \in Selection
           /\ \A count \in Nat, best \in Result, usable \in BOOLEAN :
                 [s EXCEPT !.compared = count, !.best = best, !.usable = usable] \in Selection
<1>1. \A exposure \in Exposure :
         [s EXCEPT !.at = "chosen", !.chosen = exposure] \in Selection
  BY DEF Selection
<1>2. \A shutter \in Nat :
         [s EXCEPT !.at = "probing", !.received = 0, !.turns = 0,
                   !.measured = NoMeasure, !.shutter = shutter] \in Selection
  BY DEF Selection, NoMeasure, Measured
<1>3. [s EXCEPT !.turns = @ + 1] \in Selection
  BY DEF Selection
<1>4. \A count \in Nat, measured \in Measured :
         [s EXCEPT !.received = count, !.measured = measured] \in Selection
  BY DEF Selection
<1>5. \A results \in Seq(Result) :
         [s EXCEPT !.at = "ready", !.results = results] \in Selection
  BY DEF Selection
<1>6. \A best \in Result :
         [s EXCEPT !.at = "comparing", !.compared = 0, !.usable = FALSE, !.best = best]
            \in Selection
  BY DEF Selection
<1>7. \A count \in Nat, best \in Result, usable \in BOOLEAN :
         [s EXCEPT !.compared = count, !.best = best, !.usable = usable] \in Selection
  BY DEF Selection
<1>. QED BY <1>1, <1>2, <1>3, <1>4, <1>5, <1>6, <1>7

\* Selections that have not begun, or have failed.
LEMMA NewSelections ==
    /\ NewSelect \in Selection
    /\ [NewSelect EXCEPT !.at = "failed"] \in Selection
    /\ \A mode \in Mode : [NewSelect EXCEPT !.at = "ready", !.mode = mode] \in Selection
    /\ \A exposure \in Exposure :
          [NewSelect EXCEPT !.at = "chosen", !.chosen = exposure] \in Selection
<1>1. NewSelect \in Selection
  BY DEF NewSelect, Selection, Measured, NoMeasure, Result, NoResult, Exposure, NoExposure, Mode
<1>2. [NewSelect EXCEPT !.at = "failed"] \in Selection
  BY <1>1 DEF Selection
<1>3. \A mode \in Mode : [NewSelect EXCEPT !.at = "ready", !.mode = mode] \in Selection
  BY <1>1 DEF Selection
<1>4. \A exposure \in Exposure :
         [NewSelect EXCEPT !.at = "chosen", !.chosen = exposure] \in Selection
  BY <1>1, SelectionTypes
<1>. QED BY <1>1, <1>2, <1>3, <1>4

SensorType == [runs : BOOLEAN, sees : View, product : Nat]

\* What the steps do to each field: the values of a selection and its sensor, and
\* the values that a step derives from them.
LEMMA SelectionValues ==
    ASSUME SelectTypeOK
    PROVE  /\ select \in Selection /\ sensor \in SensorType
           /\ select.mode \in Mode /\ select.shutter \in Nat /\ select.received \in Nat
           /\ select.turns \in Nat /\ select.measured \in Measured
           /\ select.results \in Seq(Result) /\ select.compared \in Nat
           /\ select.best \in Result /\ select.usable \in BOOLEAN /\ select.chosen \in Exposure
           /\ select.measured.clipped \in Nat /\ select.measured.mean \in Nat
           /\ select.measured.frames \in Nat /\ select.measured.product \in Nat
           /\ Stopped \in SensorType /\ ~Stopped.runs
           /\ Left \subseteq Nat
<1>1. /\ select \in Selection /\ sensor \in SensorType
      /\ select.mode \in Mode /\ select.shutter \in Nat /\ select.received \in Nat
      /\ select.turns \in Nat /\ select.measured \in Measured
      /\ select.results \in Seq(Result) /\ select.compared \in Nat
      /\ select.best \in Result /\ select.usable \in BOOLEAN /\ select.chosen \in Exposure
  BY DEF SelectTypeOK, SensorType, Selection
<1>2. /\ select.measured.clipped \in Nat /\ select.measured.mean \in Nat
      /\ select.measured.frames \in Nat /\ select.measured.product \in Nat
  BY <1>1 DEF Measured
<1>3. Stopped \in SensorType /\ ~Stopped.runs
  BY DEF Stopped, SensorType, View, Dark
<1>4. Left \subseteq Nat
  BY ExposureAssumption DEF Left
<1>. QED BY <1>1, <1>2, <1>3, <1>4

-----------------------------------------------------------------------------
Sound == SelectTypeOK /\ ExposureIsSound

\* A selection that is not under way has nothing to answer for.
LEMMA NothingToAnswerFor ==
    ASSUME select'.results = <<>>, select'.mode # "sweep" \/ select'.at = "failed",
           select'.at \notin {"probing", "comparing"},
           select'.at = "chosen" => select'.mode = "fixed"
    PROVE  ExposureIsSound'
<1>1. ResultsAreSettled'
  BY DEF ResultsAreSettled
<1>2. SweepIsBest' /\ ProductIsKept'
  BY DEF SweepIsBest, ProductIsKept
<1>3. MeasuredWhatIsSeen' /\ SweepInOrder' /\ BestSoFar'
  BY DEF MeasuredWhatIsSeen, SweepInOrder, BestSoFar
<1>. QED BY <1>1, <1>2, <1>3 DEF ExposureIsSound

LEMMA BeginSelectSound == ASSUME Sound, BeginSelect PROVE Sound'
<1>1. CASE select' = [NewSelect EXCEPT !.at = "chosen",
                        !.chosen = [shutter |-> FixedShutter, gain |-> <<1, 1>>]]
  <2>1. [shutter |-> FixedShutter, gain |-> <<1, 1>>] \in Exposure
    BY ExposureAssumption DEF Exposure
  <2>2. select' \in Selection /\ sensor' = sensor
    BY <1>1, <2>1, NewSelections DEF BeginSelect
  <2>3. select'.at = "chosen" /\ select'.mode = "fixed" /\ select'.results = <<>>
    BY <1>1 DEF NewSelect
  <2>. QED BY <2>2, <2>3, NothingToAnswerFor DEF Sound, SelectTypeOK
<1>2. ASSUME NEW mode \in {"auto", "sweep"},
             select' = [NewSelect EXCEPT !.at = "ready", !.mode = mode]
      PROVE  Sound'
  <2>1. select' \in Selection /\ sensor' = sensor
    BY <1>2, NewSelections DEF BeginSelect, Mode
  <2>2. select'.at = "ready" /\ select'.mode = mode /\ select'.results = <<>>
        /\ select'.shutter = 0
    BY <1>2 DEF NewSelect
  <2>3. SweepInOrder'
    <3>1. {s \in Shutters : s <= MaxShutter /\ s <= 0} = {}
      <4>1. \A s \in Shutters : s \in Nat /\ s # 0
        BY ExposureAssumption
      <4>. QED BY <4>1
    <3>2. ToSet(select'.results) = {}
      BY <2>2 DEF ToSet
    <3>. QED BY <2>2, <3>1, <3>2 DEF SweepInOrder
  <2>. QED BY <2>1, <2>2, <2>3
         DEF Sound, SelectTypeOK, ExposureIsSound, ResultsAreSettled, SweepIsBest, ProductIsKept,
             MeasuredWhatIsSeen, BestSoFar
<1>. QED BY <1>1, <1>2 DEF BeginSelect

\* Every way to fail.
LEMMA FailureSound ==
    ASSUME Sound, select' = [NewSelect EXCEPT !.at = "failed"],
           sensor' = sensor \/ sensor' = Stopped
    PROVE  Sound'
<1>1. select' \in Selection /\ sensor' \in SensorType
  BY NewSelections, SelectionValues DEF Sound
<1>2. select'.at = "failed" /\ select'.results = <<>>
  BY DEF NewSelect
<1>. QED BY <1>1, <1>2, NothingToAnswerFor DEF Sound, SelectTypeOK, SensorType

\* The next probe is the shortest that is left.
LEMMA StartProbeSound == ASSUME Sound, StartProbe PROVE Sound' /\ select'.at = "probing"
<1>. DEFINE shutter == IF select.mode = "sweep" THEN Min(Left) ELSE select.shutter
<1>0. Sound /\ SelectTypeOK /\ select.at = "ready" /\ (select.mode = "sweep" => Left # {})
  BY DEF Sound, StartProbe
<1>1. /\ shutter \in Nat
      /\ select.mode = "sweep" => /\ shutter \in Shutters /\ shutter <= MaxShutter
                                  /\ shutter > select.shutter
                                  /\ \A s \in Left : shutter <= s
  <2>1. CASE select.mode = "sweep"
    <3>1. Min(Left) \in Left /\ \A s \in Left : Min(Left) <= s
      BY <1>0, <2>1, SelectionValues, MinIsLeast
    <3>. QED BY <1>0, <2>1, <3>1, SelectionValues DEF Left
  <2>2. CASE select.mode # "sweep"
    BY <1>0, <2>2, SelectionValues
  <2>. QED BY <2>1, <2>2
<1>2. select' = [select EXCEPT !.at = "probing", !.received = 0, !.turns = 0,
                               !.measured = NoMeasure, !.shutter = shutter]
  BY DEF StartProbe
<1>3. PICK clipped \in Clipped, mean \in Mean, product \in Product :
        sensor' = [runs |-> TRUE, sees |-> [clipped |-> clipped, mean |-> mean],
                   product |-> product]
  BY DEF StartProbe
<1>4. sensor' \in SensorType
  <2>1. Clipped \subseteq Nat /\ Mean \subseteq Nat /\ Product \subseteq Nat
    BY ExposureAssumption
  <2>. QED BY <1>3, <2>1 DEF SensorType, View
<1>. HIDE DEF shutter
<1>5. select' \in Selection
  BY <1>0, <1>1, <1>2, SelectionTypes, SelectionValues
<1>6. /\ select'.at = "probing" /\ select'.mode = select.mode /\ select'.received = 0
      /\ select'.measured.frames = 0 /\ select'.measured.clipped = 0
      /\ select'.measured.mean = 0
      /\ select'.results = select.results /\ select'.shutter = shutter
  BY <1>0, <1>2, SelectionValues DEF Selection, NoMeasure
<1>7. ResultsAreSettled'
  BY <1>0, <1>6 DEF Sound, ExposureIsSound, ResultsAreSettled
<1>8. MeasuredWhatIsSeen'
  <2>1. /\ sensor'.sees.clipped \in Clipped /\ sensor'.sees.mean \in Mean
        /\ sensor'.sees.clipped \in Nat /\ sensor'.sees.mean \in Nat
    BY <1>3, ExposureAssumption
  <2>2. 0 = 0 * sensor'.sees.clipped /\ 0 = 0 * sensor'.sees.mean
    BY <2>1
  <2>3. 0 <= ProbeFrames /\ SettleFrames \in Nat /\ ~(0 > SettleFrames)
    BY ExposureAssumption
  <2>. QED BY <1>6, <2>1, <2>2, <2>3 DEF MeasuredWhatIsSeen
<1>9. SweepInOrder'
  <2>. SUFFICES ASSUME select.mode = "sweep" PROVE SweepInOrder'
    BY <1>6 DEF SweepInOrder
  <2>1. {s \in Shutters : s <= MaxShutter /\ s < shutter}
          = {s \in Shutters : s <= MaxShutter /\ s <= select.shutter}
    <3>. Shutters \subseteq Nat /\ select.shutter \in Nat /\ MaxShutter \in Nat
      BY <1>0, ExposureAssumption, SelectionValues
    <3>1. \A s \in Shutters :
            s <= MaxShutter => (s < shutter <=> s <= select.shutter)
      BY <1>1 DEF Left
    <3>. QED BY <3>1
  <2>2. {r.shutter : r \in ToSet(select.results)}
          = {s \in Shutters : s <= MaxShutter /\ s <= select.shutter}
    BY <1>0 DEF Sound, ExposureIsSound, SweepInOrder
  <2>. QED BY <1>0, <1>1, <1>6, <2>1, <2>2 DEF Sound, ExposureIsSound, SweepInOrder
<1>. QED BY <1>4, <1>5, <1>6, <1>7, <1>8, <1>9
       DEF Sound, SelectTypeOK, SensorType, ExposureIsSound, SweepIsBest, ProductIsKept, BestSoFar

\* A settled frame adds what the sensor sees, any other nothing.
LEMMA ProbeFrameSound == ASSUME Sound, ProbeFrame PROVE Sound' /\ select'.at = "probing"
<1>0. /\ Sound /\ SelectTypeOK /\ select.at = "probing" /\ select.received < ProbeFrames
      /\ sensor' = sensor /\ MeasuredWhatIsSeen
  BY DEF Sound, ProbeFrame, ExposureIsSound
<1>. DEFINE count == select.received + 1
            turned == Turn(select)
<1>1. PICK unsettled \in {Dark, [clipped |-> 100, mean |-> 255]} :
        select' = [turned EXCEPT
                    !.received = count,
                    !.measured = IF Settled(count)
                                 THEN Consumed(@, IF count > SettleFrames THEN sensor.sees
                                                  ELSE unsettled,
                                               IF count > SettleFrames THEN sensor.product ELSE 0)
                                 ELSE @]
  BY DEF ProbeFrame
<1>2. /\ turned \in Selection /\ turned.at = "probing" /\ turned.mode = select.mode
      /\ turned.measured = select.measured /\ turned.results = select.results
      /\ turned.shutter = select.shutter
  <2>1. turned \in Selection
    BY <1>0, SelectionValues, SelectionTypes DEF Turn
  <2>. QED BY <1>0, <2>1, SelectionValues DEF Turn, Selection
<1>3. count \in Nat /\ SettleFrames \in Nat /\ ProbeFrames \in Nat
      /\ count <= ProbeFrames /\ select.received \in Nat
  <2>1. SettleFrames \in Nat /\ ProbeFrames \in Nat
    BY ExposureAssumption
  <2>2. select.received \in Nat
    BY <1>0, SelectionValues
  <2>. HIDE DEF turned
  <2>. QED BY <1>0, <2>1, <2>2
<1>. DEFINE measured == IF count > SettleFrames
                        THEN Consumed(select.measured, sensor.sees, sensor.product)
                        ELSE select.measured
<1>4. select' = [turned EXCEPT !.received = count, !.measured = measured]
  BY <1>1, <1>2 DEF Settled, Selection
<1>5. /\ sensor.sees.clipped \in Nat /\ sensor.sees.mean \in Nat /\ sensor.product \in Nat
      /\ select.measured \in Measured
      /\ select.measured.frames \in Nat /\ select.measured.clipped \in Nat
      /\ select.measured.mean \in Nat
  BY <1>0, SelectionValues DEF SensorType, View
<1>6. measured \in Measured
  BY <1>5 DEF Consumed, Measured
<1>. HIDE DEF turned
<1>7. select' \in Selection
  <2>. HIDE DEF count, measured
  <2>. QED BY <1>2, <1>3, <1>4, <1>6, SelectionTypes
<1>8. /\ select'.at = "probing" /\ select'.mode = select.mode /\ select'.received = count
      /\ select'.measured = measured
      /\ select'.results = select.results /\ select'.shutter = select.shutter
  <2>. HIDE DEF count, measured
  <2>. QED BY <1>2, <1>4 DEF Selection
<1>9. MeasuredWhatIsSeen'
  <2>1. /\ sensor.sees.clipped \in Clipped /\ sensor.sees.mean \in Mean
        /\ select.measured.frames = IF select.received > SettleFrames
                                    THEN select.received - SettleFrames ELSE 0
        /\ select.measured.clipped = select.measured.frames * sensor.sees.clipped
        /\ select.measured.mean = select.measured.frames * sensor.sees.mean
    BY <1>0 DEF MeasuredWhatIsSeen
  <2>2. CASE count > SettleFrames
    <3>1. /\ measured.frames = select.measured.frames + 1
          /\ measured.clipped = select.measured.clipped + sensor.sees.clipped
          /\ measured.mean = select.measured.mean + sensor.sees.mean
      BY <2>2 DEF Consumed
    <3>2. measured.frames = count - SettleFrames
      BY <1>3, <2>1, <2>2, <3>1
    <3>3. /\ (select.measured.frames + 1) * sensor.sees.clipped
               = select.measured.frames * sensor.sees.clipped + sensor.sees.clipped
          /\ (select.measured.frames + 1) * sensor.sees.mean
               = select.measured.frames * sensor.sees.mean + sensor.sees.mean
      BY <1>5, OneMore, Zenon
    <3>4. /\ measured.clipped = measured.frames * sensor.sees.clipped
          /\ measured.mean = measured.frames * sensor.sees.mean
      <4>. HIDE DEF measured
      <4>. QED BY <2>1, <3>1, <3>3, Zenon
    <3>. HIDE DEF measured
    <3>. QED BY <1>0, <1>3, <1>8, <2>1, <2>2, <3>2, <3>4 DEF MeasuredWhatIsSeen
  <2>3. CASE ~(count > SettleFrames)
    <3>1. measured = select.measured /\ ~(select.received > SettleFrames)
      BY <1>3, <2>3
    <3>. QED BY <1>0, <1>3, <1>8, <2>1, <2>3, <3>1 DEF MeasuredWhatIsSeen
  <2>. QED BY <2>2, <2>3
<1>10. ResultsAreSettled' /\ SweepInOrder'
  BY <1>0, <1>8 DEF Sound, ExposureIsSound, ResultsAreSettled, SweepInOrder
<1>. QED BY <1>0, <1>7, <1>8, <1>9, <1>10
       DEF Sound, SelectTypeOK, SensorType, ExposureIsSound, SweepIsBest, ProductIsKept, BestSoFar

LEMMA ProbeWaitsSound == ASSUME Sound, ProbeWaits PROVE Sound' /\ select'.at = "probing"
<1>0. Sound /\ SelectTypeOK /\ select.at = "probing" /\ sensor' = sensor /\ select' = Turn(select)
  BY DEF Sound, ProbeWaits
<1>1. select' \in Selection
  BY <1>0, SelectionValues, SelectionTypes DEF Turn
<1>2. /\ select'.at = "probing" /\ select'.mode = select.mode
      /\ select'.received = select.received /\ select'.measured = select.measured
      /\ select'.results = select.results /\ select'.shutter = select.shutter
  BY <1>0, SelectionValues DEF Turn, Selection
<1>3. MeasuredWhatIsSeen' /\ ResultsAreSettled' /\ SweepInOrder'
  BY <1>0, <1>2 DEF Sound, ExposureIsSound, ResultsAreSettled, SweepInOrder, MeasuredWhatIsSeen
<1>. QED BY <1>0, <1>1, <1>2, <1>3
       DEF Sound, SelectTypeOK, ExposureIsSound, SweepIsBest, ProductIsKept, BestSoFar

\* An exposure in range keeps its product.
LEMMA ProductKept ==
    ASSUME NEW product \in Nat, ProductInRange(product)
    PROVE  LET exposure == FromProduct(product)
           IN  /\ exposure \in Exposure
               /\ exposure.shutter \in 1..MaxShutter
               /\ exposure.gain = <<product, 2 * exposure.shutter>>
               /\ 2 * exposure.shutter <= product
               /\ product <= 16 * (2 * exposure.shutter)
<1>. DEFINE whole == product \div 2
            shutter == IF whole < MaxShutter THEN whole ELSE MaxShutter
<1>1. MaxShutter \in Nat \ {0} /\ 2 <= product /\ product <= 2 * 16 * MaxShutter
  BY ExposureAssumption DEF ProductInRange
<1>2. whole \in Nat /\ whole >= 1 /\ 2 * whole <= product /\ product <= 2 * whole + 1
  BY <1>1
<1>. HIDE DEF whole
<1>3. shutter \in 1..MaxShutter /\ 2 * shutter <= product /\ product <= 16 * (2 * shutter)
  BY <1>1, <1>2
<1>4. FromProduct(product) = [shutter |-> shutter, gain |-> <<product, 2 * shutter>>]
  BY DEF FromProduct, whole
<1>. HIDE DEF shutter
<1>5. shutter \in Nat /\ 2 * shutter \in Nat
  BY <1>1, <1>3
<1>6. [shutter |-> shutter, gain |-> <<product, 2 * shutter>>] \in Exposure
  BY <1>5 DEF Exposure
<1>. QED BY <1>3, <1>4, <1>6

\* A finished probe measures the exposure, or adds the sweep's next result.
LEMMA MeasuredSound ==
    ASSUME Sound, select.at = "probing", select.mode = "auto", sensor' = Stopped,
           ProductInRange(select.measured.product),
           select' = Choose(FromProduct(select.measured.product))
    PROVE  Sound'
<1>. DEFINE product == select.measured.product
            exposure == FromProduct(select.measured.product)
<1>0. /\ Sound /\ SelectTypeOK /\ product \in Nat /\ sensor' \in SensorType
      /\ select \in Selection
  BY SelectionValues DEF Sound
<1>1. /\ exposure \in Exposure
      /\ exposure.shutter \in 1..MaxShutter
      /\ exposure.gain = <<product, 2 * exposure.shutter>>
      /\ 2 * exposure.shutter <= product
      /\ product <= 16 * (2 * exposure.shutter)
  BY <1>0, ProductKept
<1>. HIDE DEF exposure
<1>2. select' = [select EXCEPT !.at = "chosen", !.chosen = exposure]
  BY DEF Choose, exposure
<1>3. select' \in Selection
  <2>1. \A e \in Exposure : [select EXCEPT !.at = "chosen", !.chosen = e] \in Selection
    BY <1>0, SelectionTypes
  <2>. QED BY <1>1, <1>2, <2>1
<1>4. /\ select'.at = "chosen" /\ select'.mode = "auto" /\ select'.chosen = exposure
      /\ select'.measured.product = product /\ select'.results = select.results
  BY <1>0, <1>2, SelectionValues DEF Selection
<1>5. ProductIsKept'
  <2>. HIDE DEF product
  <2>1. exposure.shutter \in Nat /\ MaxShutter' = MaxShutter
    BY <1>1, ExposureAssumption
  <2>2. 2 * exposure.shutter * product = product * (2 * exposure.shutter)
    BY <1>0, <2>1
  <2>3. exposure.gain[1] = product /\ exposure.gain[2] = 2 * exposure.shutter
    BY <1>1
  <2>. QED BY <1>1, <1>4, <2>2, <2>3 DEF ProductIsKept
<1>6. ResultsAreSettled'
  BY <1>0, <1>4 DEF Sound, ExposureIsSound, ResultsAreSettled
<1>. QED BY <1>0, <1>3, <1>4, <1>5, <1>6
       DEF Sound, SelectTypeOK, SensorType, ExposureIsSound, SweepIsBest, SweepInOrder,
           MeasuredWhatIsSeen, BestSoFar

\* The mean over a probe's frames is what the sensor saw.
LEMMA AveragedIsSeen ==
    ASSUME Sound, select.at = "probing", select.received = ProbeFrames
    PROVE  /\ Averaged \in Result
           /\ Averaged.shutter = select.shutter
           /\ Averaged.clipped \in Clipped /\ Averaged.mean \in Mean
<1>. DEFINE n == select.measured.frames
<1>0. SelectTypeOK /\ MeasuredWhatIsSeen
  BY DEF Sound, ExposureIsSound
<1>1. SettleFrames \in Nat /\ ProbeFrames \in Nat /\ SettleFrames < ProbeFrames
  BY ExposureAssumption
<1>2. n = ProbeFrames - SettleFrames
  BY <1>0, <1>1 DEF MeasuredWhatIsSeen
<1>3. n \in Nat \ {0}
  BY <1>1, <1>2
<1>4. /\ sensor.sees.clipped \in Clipped /\ sensor.sees.mean \in Mean
      /\ select.measured.clipped = n * sensor.sees.clipped
      /\ select.measured.mean = n * sensor.sees.mean
  BY <1>0 DEF MeasuredWhatIsSeen
<1>. HIDE DEF n
<1>5. sensor.sees.clipped \in Nat /\ sensor.sees.mean \in Nat
  BY <1>0, SelectionValues DEF SensorType, View
<1>6. /\ (n * sensor.sees.clipped) \div n = sensor.sees.clipped
      /\ (n * sensor.sees.mean) \div n = sensor.sees.mean
  BY <1>3, <1>5, MeanOfEqual
<1>7. Averaged = [shutter |-> select.shutter, clipped |-> sensor.sees.clipped,
                  mean |-> sensor.sees.mean]
  BY <1>4, <1>6, Zenon DEF Averaged, n
<1>8. select.shutter \in Nat
  BY <1>0, SelectionValues
<1>. QED BY <1>4, <1>5, <1>7, <1>8 DEF Result

LEMMA SweptSound ==
    ASSUME Sound, select.at = "probing", select.mode = "sweep", sensor' = Stopped,
           select.received = ProbeFrames,
           select' = [select EXCEPT !.at = "ready", !.results = Append(@, Averaged)]
    PROVE  Sound'
<1>. DEFINE old == select.results
            next == Append(select.results, Averaged)
<1>0. /\ Sound /\ SelectTypeOK /\ old \in Seq(Result) /\ sensor' \in SensorType
      /\ select.shutter \in Nat /\ select \in Selection
  BY SelectionValues DEF Sound
<1>1. /\ Averaged \in Result
      /\ Averaged.shutter = select.shutter
      /\ Averaged.clipped \in Clipped /\ Averaged.mean \in Mean
  BY <1>0, AveragedIsSeen
<1>2. /\ next \in Seq(Result) /\ Len(next) = Len(old) + 1 /\ Len(old) \in Nat
      /\ next[Len(old) + 1] = Averaged
      /\ \A i \in 1..Len(old) : next[i] = old[i]
  BY <1>0, <1>1
<1>. HIDE DEF next
<1>3. select' = [select EXCEPT !.at = "ready", !.results = next]
  BY <1>0, SelectionValues DEF Selection, next
<1>4. select' \in Selection
  <2>1. \A results \in Seq(Result) :
          [select EXCEPT !.at = "ready", !.results = results] \in Selection
    BY <1>0, SelectionTypes
  <2>. QED BY <1>2, <1>3, <2>1
<1>5. /\ select'.at = "ready" /\ select'.mode = "sweep" /\ select'.results = next
      /\ select'.shutter = select.shutter
  BY <1>0, <1>3, SelectionValues DEF Selection
<1>6. ResultsAreSettled'
  <2>1. \A i \in 1..Len(old) : old[i].clipped \in Clipped /\ old[i].mean \in Mean
    BY <1>0 DEF Sound, ExposureIsSound, ResultsAreSettled
  <2>2. ASSUME NEW i \in 1..Len(next)
        PROVE  next[i].clipped \in Clipped /\ next[i].mean \in Mean
    <3>1. CASE i \in 1..Len(old)
      BY <1>2, <2>1, <3>1
    <3>2. CASE i = Len(old) + 1
      BY <1>1, <1>2, <3>2
    <3>. QED BY <1>2, <3>1, <3>2
  <2>. QED BY <1>5, <2>2 DEF ResultsAreSettled
<1>7. SweepInOrder'
  <2>. DEFINE upTo == {s \in Shutters : s <= MaxShutter /\ s <= select.shutter}
              below == {s \in Shutters : s <= MaxShutter /\ s < select.shutter}
  <2>1. /\ {r.shutter : r \in ToSet(old)} = below
        /\ \A i, j \in 1..Len(old) : i < j => old[i].shutter < old[j].shutter
        /\ select.shutter \in Shutters /\ select.shutter <= MaxShutter
    BY <1>0 DEF Sound, ExposureIsSound, SweepInOrder
  <2>2. ToSet(next) = ToSet(old) \union {Averaged}
    <3>1. DOMAIN next = 1..(Len(old) + 1) /\ DOMAIN old = 1..Len(old)
      BY <1>0, <1>2
    <3>2. \A i \in DOMAIN next : next[i] \in ToSet(old) \union {Averaged}
      BY <1>2, <3>1 DEF ToSet
    <3>3. \A i \in DOMAIN old : old[i] \in ToSet(next)
      BY <1>2, <3>1 DEF ToSet
    <3>4. Averaged \in ToSet(next)
      BY <1>2, <3>1 DEF ToSet
    <3>. QED BY <3>2, <3>3, <3>4 DEF ToSet
  <2>3. {r.shutter : r \in ToSet(next)} = {r.shutter : r \in ToSet(old)} \union {select.shutter}
    BY <1>1, <2>2
  <2>4. upTo = below \union {select.shutter}
    <3>1. \A s \in Shutters : s \in Nat
      BY ExposureAssumption
    <3>. QED BY <1>0, <2>1, <3>1
  <2>5. \A i, j \in 1..Len(next) : i < j => next[i].shutter < next[j].shutter
    <3>1. \A i \in 1..Len(old) : old[i].shutter < select.shutter
      <4>1. \A i \in 1..Len(old) : old[i] \in ToSet(old)
        BY <1>0 DEF ToSet
      <4>2. \A i \in 1..Len(old) : old[i].shutter \in below
        <5>. HIDE DEF below
        <5>. QED BY <2>1, <4>1
      <4>. QED BY <4>2
    <3>. SUFFICES ASSUME NEW i \in 1..Len(next), NEW j \in 1..Len(next), i < j
                  PROVE  next[i].shutter < next[j].shutter
      OBVIOUS
    <3>2. i \in 1..Len(old)
      BY <1>2
    <3>3. CASE j \in 1..Len(old)
      BY <1>2, <2>1, <3>2, <3>3
    <3>4. CASE j = Len(old) + 1
      BY <1>1, <1>2, <3>1, <3>2, <3>4
    <3>. QED BY <1>2, <3>3, <3>4
  <2>. QED BY <1>5, <2>1, <2>3, <2>4, <2>5 DEF SweepInOrder
<1>. QED BY <1>0, <1>4, <1>5, <1>6, <1>7
       DEF Sound, SelectTypeOK, SensorType, ExposureIsSound, SweepIsBest, ProductIsKept,
           MeasuredWhatIsSeen, BestSoFar

LEMMA ProbeDoneSound == ASSUME Sound, ProbeDone PROVE Sound' /\ ~sensor'.runs
<1>0. Sound /\ SelectTypeOK /\ select.at = "probing" /\ select.received = ProbeFrames
      /\ sensor' = Stopped /\ ~sensor'.runs
  BY SelectionValues DEF Sound, ProbeDone, Cleaned
<1>1. CASE /\ select.mode = "auto"
           /\ select' = IF ProductInRange(select.measured.product)
                        THEN Choose(FromProduct(select.measured.product))
                        ELSE [NewSelect EXCEPT !.at = "failed"]
  <2>1. CASE ProductInRange(select.measured.product)
    BY <1>0, <1>1, <2>1, MeasuredSound
  <2>2. CASE ~ProductInRange(select.measured.product)
    BY <1>0, <1>1, <2>2, FailureSound
  <2>. QED BY <2>1, <2>2
<1>2. CASE /\ select.mode = "sweep"
           /\ select' = [select EXCEPT !.at = "ready", !.results = Append(@, Averaged)]
  BY <1>0, <1>2, SweptSound
<1>. QED BY <1>0, <1>1, <1>2 DEF ProbeDone

\* The comparison begins with the first result, having looked at none.
LEMMA BeginCompareSound == ASSUME Sound, BeginCompare PROVE Sound'
<1>0. Sound /\ SelectTypeOK /\ select.at = "ready" /\ select.mode = "sweep" /\ Left = {}
      /\ select.results # <<>> /\ sensor' = sensor /\ select.results \in Seq(Result)
  BY SelectionValues DEF Sound, BeginCompare
<1>. DEFINE first == select.results[1]
<1>1. first \in Result
  BY <1>0
<1>. HIDE DEF first
<1>2. select' = [select EXCEPT !.at = "comparing", !.compared = 0, !.usable = FALSE, !.best = first]
  BY DEF BeginCompare, first
<1>3. select' \in Selection
  BY <1>0, <1>1, <1>2, SelectionValues, SelectionTypes
<1>4. /\ select'.at = "comparing" /\ select'.mode = "sweep" /\ select'.results = select.results
      /\ select'.shutter = select.shutter /\ select'.compared = 0 /\ select'.usable = FALSE
      /\ select'.best = first
  BY <1>0, <1>2, SelectionValues DEF Selection
<1>5. ResultsAreSettled'
  BY <1>0, <1>4 DEF Sound, ExposureIsSound, ResultsAreSettled
<1>6. SweepInOrder'
  BY <1>0, <1>4 DEF Sound, ExposureIsSound, SweepInOrder, Left
<1>7. BestSoFar'
  <2>1. {select'.results[i] : i \in 1..select'.compared} = {}
    BY <1>4
  <2>2. select'.best = select'.results[1]
    BY <1>4 DEF first
  <2>3. 0 <= Len(select'.results)
    BY <1>0, <1>4
  <2>4. \A r \in {select'.results[i] : i \in 1..select'.compared} : FALSE
    BY <2>1
  <2>5. select'.usable = (\E r \in {select'.results[i] : i \in 1..select'.compared} : Usable(r))
    BY <1>4, <2>1
  <2>. QED BY <1>4, <2>2, <2>3, <2>4, <2>5 DEF BestSoFar
<1>. QED BY <1>0, <1>3, <1>4, <1>5, <1>6, <1>7
       DEF Sound, SelectTypeOK, ExposureIsSound, SweepIsBest, ProductIsKept, MeasuredWhatIsSeen

\* One more result is compared; its shutter is longer than those before it.
LEMMA CompareSound == ASSUME Sound, Compare PROVE Sound'
<1>. DEFINE n == select.compared
            result == select.results[select.compared + 1]
            better == Better(result, select.best, select.usable)
            best == IF better THEN result ELSE select.best
            usable == select.usable \/ Usable(result)
            seen == {select.results[i] : i \in 1..select.compared}
<1>0. /\ Sound /\ SelectTypeOK /\ select \in Selection /\ select.at = "comparing"
      /\ n < Len(select.results) /\ n \in Nat /\ select.results \in Seq(Result)
      /\ sensor' = sensor /\ select.best \in Result /\ select.usable \in BOOLEAN
      /\ BestSoFar /\ SweepInOrder
  BY SelectionValues DEF Sound, Compare, ExposureIsSound
<1>1. result \in Result /\ best \in Result /\ usable \in BOOLEAN
  BY <1>0
<1>2. select' = [select EXCEPT !.compared = n + 1, !.best = best, !.usable = usable]
  BY <1>0 DEF Compare, Selection
<1>3. select.mode = "sweep"
  BY <1>0 DEF BestSoFar
<1>4. \A r \in seen : r \in Result /\ r.shutter < result.shutter
  <2>1. ASSUME NEW i \in 1..n
        PROVE  /\ select.results[i] \in Result
               /\ select.results[i].shutter < result.shutter
    <3>1. i \in 1..Len(select.results) /\ n + 1 \in 1..Len(select.results) /\ i < n + 1
      BY <1>0
    <3>. QED BY <1>0, <1>3, <3>1 DEF SweepInOrder
  <2>. QED BY <2>1
<1>5. {select.results[i] : i \in 1..(n + 1)} = seen \union {result}
  <2>1. 1..(n + 1) = (1..n) \union {n + 1}
    BY <1>0
  <2>. QED BY <2>1
<1>6. /\ n = 0 => seen = {} /\ select.best = result
      /\ n > 0 => select.best \in seen
      /\ select.usable = (\E r \in seen : Usable(r))
      /\ select.usable => Usable(select.best)
      /\ \A r \in seen :
            \/ select.usable /\ (Usable(r) => r.mean <= select.best.mean)
            \/ ~select.usable /\ select.best.clipped <= r.clipped
      /\ \A r \in seen :
            (/\ select.usable => Usable(r) /\ r.mean = select.best.mean
             /\ ~select.usable => r.clipped = select.best.clipped)
               => select.best.shutter <= r.shutter
  <2>1. n = 0 => seen = {} /\ select.best = result
    BY <1>0 DEF BestSoFar
  <2>2. n > 0 => select.best \in seen
    BY <1>0 DEF BestSoFar
  <2>. HIDE DEF result, n
  <2>3. /\ select.usable = (\E r \in seen : Usable(r))
        /\ select.usable => Usable(select.best)
    BY <1>0 DEF BestSoFar
  <2>4. \A r \in seen :
            \/ select.usable /\ (Usable(r) => r.mean <= select.best.mean)
            \/ ~select.usable /\ select.best.clipped <= r.clipped
    BY <1>0 DEF BestSoFar
  <2>5. \A r \in seen :
            (/\ select.usable => Usable(r) /\ r.mean = select.best.mean
             /\ ~select.usable => r.clipped = select.best.clipped)
               => select.best.shutter <= r.shutter
    BY <1>0 DEF BestSoFar
  <2>. QED BY <2>1, <2>2, <2>3, <2>4, <2>5
<1>7. /\ select'.at = "comparing" /\ select'.mode = "sweep" /\ select'.results = select.results
      /\ select'.shutter = select.shutter /\ select'.compared = n + 1 /\ select'.usable = usable
      /\ select'.best = best
  <2>. HIDE DEF best, usable, n
  <2>. QED BY <1>0, <1>2, <1>3 DEF Selection
<1>8. select' \in Selection
  <2>1. n + 1 \in Nat
    BY <1>0
  <2>. HIDE DEF best, usable, n
  <2>. QED BY <1>0, <1>1, <1>2, <2>1, SelectionTypes
<1>9. ResultsAreSettled' /\ SweepInOrder'
  <2>1. ResultsAreSettled'
    BY <1>0, <1>7 DEF Sound, ExposureIsSound, ResultsAreSettled
  <2>2. SweepInOrder'
    BY <1>0, <1>3, <1>7 DEF SweepInOrder, Left
  <2>. QED BY <2>1, <2>2
<1>10. BestSoFar'
  <2>. DEFINE both == seen \union {result}
  <2>a. n = 0 \/ n > 0
    BY <1>0
  <2>b. /\ result.shutter \in Nat /\ result.clipped \in Nat /\ result.mean \in Nat
        /\ select.best.shutter \in Nat /\ select.best.clipped \in Nat /\ select.best.mean \in Nat
        /\ \A r \in seen : r.shutter \in Nat /\ r.clipped \in Nat /\ r.mean \in Nat
    BY <1>0, <1>1, <1>4 DEF Result
  <2>c. best = IF better THEN result ELSE select.best
    OBVIOUS
  <2>d. better <=> \/ Usable(result) /\ (~select.usable \/ result.mean > select.best.mean)
                   \/ ~Usable(result) /\ ~select.usable /\ result.clipped < select.best.clipped
    BY DEF Better
  <2>e. usable <=> select.usable \/ Usable(result)
    OBVIOUS
  <2>. HIDE DEF better, best, usable, result, seen
  <2>1. best \in both
    BY <1>6, <2>a, <2>c
  <2>2. usable = (\E r \in both : Usable(r))
    <3>1. usable <=> (\E r \in both : Usable(r))
      BY <1>6, <2>e
    <3>2. usable \in BOOLEAN /\ (\E r \in both : Usable(r)) \in BOOLEAN
      BY <1>1
    <3>. QED BY <3>1, <3>2
  <2>3. usable => Usable(best)
    BY <1>6, <2>c, <2>d, <2>e
  <2>4. \A r \in both : \/ usable /\ (Usable(r) => r.mean <= best.mean)
                        \/ ~usable /\ best.clipped <= r.clipped
    <3>1. ASSUME NEW r \in seen
          PROVE  \/ usable /\ (Usable(r) => r.mean <= best.mean)
                 \/ ~usable /\ best.clipped <= r.clipped
      BY <1>6, <2>b, <2>c, <2>d, <2>e
    <3>2. \/ usable /\ (Usable(result) => result.mean <= best.mean)
          \/ ~usable /\ best.clipped <= result.clipped
      BY <2>b, <2>c, <2>d, <2>e
    <3>. QED BY <3>1, <3>2
  <2>5. \A r \in both :
           (/\ usable => Usable(r) /\ r.mean = best.mean
            /\ ~usable => r.clipped = best.clipped)
              => best.shutter <= r.shutter
    <3>1. ASSUME NEW r \in seen,
                 usable => Usable(r) /\ r.mean = best.mean,
                 ~usable => r.clipped = best.clipped
          PROVE  best.shutter <= r.shutter
      BY <1>6, <2>b, <2>c, <2>d, <2>e, <3>1
    <3>2. best.shutter <= result.shutter
      <4>1. n = 0 => best = result
        BY <1>6, <2>c
      <4>2. n > 0 => best = result \/ best.shutter < result.shutter
        BY <1>4, <1>6, <2>c
      <4>. QED BY <2>a, <2>b, <4>1, <4>2, <2>c
    <3>. QED BY <3>1, <3>2
  <2>6. n + 1 <= Len(select.results) /\ n + 1 > 0
    BY <1>0
  <2>7. {select'.results[i] : i \in 1..select'.compared} = both
    BY <1>5, <1>7
  <2>. HIDE DEF both, n
  <2>. QED BY <1>7, <2>1, <2>2, <2>3, <2>4, <2>5, <2>6, <2>7 DEF BestSoFar
<1>. QED BY <1>0, <1>7, <1>8, <1>9, <1>10
       DEF Sound, SelectTypeOK, ExposureIsSound, SweepIsBest, ProductIsKept, MeasuredWhatIsSeen

\* Having compared them all, the best so far is the best.
LEMMA EndSweepSound == ASSUME Sound, EndSweep PROVE Sound'
<1>. DEFINE exposure == [shutter |-> select.best.shutter, gain |-> <<1, 1>>]
            all == ToSet(select.results)
            usable == {r \in all : Usable(r)}
            best == IF usable # {} THEN {r \in usable : \A o \in usable : o.mean <= r.mean}
                    ELSE {r \in all : \A o \in all : r.clipped <= o.clipped}
<1>0. /\ Sound /\ SelectTypeOK /\ select \in Selection /\ select.at = "comparing"
      /\ select.compared = Len(select.results) /\ select.results \in Seq(Result)
      /\ sensor' = sensor /\ select.best \in Result /\ select.usable \in BOOLEAN
      /\ select' = Choose(exposure) /\ BestSoFar /\ SweepInOrder
  BY SelectionValues DEF Sound, EndSweep, ExposureIsSound
<1>1. select.mode = "sweep" /\ Left = {} /\ select.results # <<>>
  BY <1>0 DEF BestSoFar, SweepInOrder
<1>2. select'.results = select.results /\ select'.mode = "sweep" /\ select'.at = "chosen"
      /\ select'.shutter = select.shutter
      /\ select'.chosen.shutter = select.best.shutter
  BY <1>0, <1>1 DEF Choose, Selection
<1>3. select' \in Selection
  <2>1. exposure \in Exposure
    BY <1>0 DEF Exposure, Result
  <2>. HIDE DEF exposure
  <2>. QED BY <1>0, <2>1, SelectionTypes DEF Choose
<1>4. all = {select.results[i] : i \in 1..Len(select.results)}
  BY <1>0 DEF ToSet
<1>5. all \subseteq Result
  BY <1>0, <1>4
<1>6. /\ select.best \in all
      /\ select.usable = (\E r \in all : Usable(r))
      /\ select.usable => Usable(select.best)
      /\ \A r \in all :
            \/ select.usable /\ (Usable(r) => r.mean <= select.best.mean)
            \/ ~select.usable /\ select.best.clipped <= r.clipped
      /\ \A r \in all :
            (/\ select.usable => Usable(r) /\ r.mean = select.best.mean
             /\ ~select.usable => r.clipped = select.best.clipped)
               => select.best.shutter <= r.shutter
  <2>1. Len(select.results) > 0
    BY <1>0, <1>1
  <2>. HIDE DEF all
  <2>. QED BY <1>0, <1>4, <2>1 DEF BestSoFar
<1>. HIDE DEF all
<1>7. \A r \in all : r.shutter \in Nat /\ r.clipped \in Nat /\ r.mean \in Nat
  BY <1>5 DEF Result
<1>8. select.best \in best /\ \A r \in best : r \in all /\ select.best.shutter <= r.shutter
  <2>1. CASE select.usable
    <3>1. usable # {} /\ select.best \in usable
      BY <1>6, <2>1
    <3>2. \A o \in usable : o.mean <= select.best.mean
      BY <1>6, <2>1
    <3>3. ASSUME NEW r \in usable, \A o \in usable : o.mean <= r.mean
          PROVE  r.mean = select.best.mean
      <4>1. r.mean <= select.best.mean /\ select.best.mean <= r.mean
        BY <3>1, <3>2, <3>3
      <4>. QED BY <1>6, <1>7, <4>1
    <3>4. ASSUME NEW r \in usable, \A o \in usable : o.mean <= r.mean
          PROVE  r \in all /\ select.best.shutter <= r.shutter
      BY <1>6, <2>1, <3>3, <3>4
    <3>. QED BY <3>1, <3>2, <3>4
  <2>2. CASE ~select.usable
    <3>1. usable = {}
      BY <1>6, <2>2
    <3>2. \A o \in all : select.best.clipped <= o.clipped
      BY <1>6, <2>2
    <3>3. ASSUME NEW r \in all, \A o \in all : r.clipped <= o.clipped
          PROVE  r.clipped = select.best.clipped
      <4>1. r.clipped <= select.best.clipped /\ select.best.clipped <= r.clipped
        BY <1>6, <3>2, <3>3
      <4>. QED BY <1>6, <1>7, <4>1
    <3>4. ASSUME NEW r \in all, \A o \in all : r.clipped <= o.clipped
          PROVE  select.best.shutter <= r.shutter
      BY <1>6, <2>2, <3>3, <3>4
    <3>. QED BY <1>6, <3>1, <3>2, <3>4
  <2>. QED BY <1>0, <2>1, <2>2
<1>. HIDE DEF best
<1>9. select.best.shutter = Min({r.shutter : r \in best})
  <2>. DEFINE shutters == {r.shutter : r \in best}
  <2>1. shutters \subseteq Nat /\ select.best.shutter \in shutters
    BY <1>7, <1>8
  <2>2. \A s \in shutters : select.best.shutter <= s
    BY <1>8
  <2>. HIDE DEF shutters
  <2>3. Min(shutters) = select.best.shutter
    BY <2>1, <2>2, LeastIsMin
  <2>. QED BY <2>3 DEF shutters
<1>10. {r.shutter : r \in all} = {s \in Shutters : s <= MaxShutter}
  <2>1. {r.shutter : r \in all} = {s \in Shutters : s <= MaxShutter /\ s <= select.shutter}
    BY <1>0, <1>1 DEF SweepInOrder, all
  <2>2. \A s \in Shutters : s \in Nat
    BY ExposureAssumption
  <2>3. select.shutter \in Nat
    BY <1>0 DEF Selection
  <2>4. \A s \in Shutters : s <= MaxShutter => s <= select.shutter
    BY <1>1, <2>2, <2>3 DEF Left
  <2>. QED BY <2>1, <2>4
<1>11. SweepIsBest'
  BY <1>2, <1>9, <1>10 DEF SweepIsBest, best, all
<1>12. ResultsAreSettled' /\ SweepInOrder'
  <2>1. ResultsAreSettled'
    BY <1>0, <1>2 DEF Sound, ExposureIsSound, ResultsAreSettled
  <2>2. SweepInOrder'
    BY <1>0, <1>1, <1>2 DEF SweepInOrder, Left
  <2>. QED BY <2>1, <2>2
<1>. QED BY <1>0, <1>2, <1>3, <1>11, <1>12
       DEF Sound, SelectTypeOK, ExposureIsSound, ProductIsKept, MeasuredWhatIsSeen, BestSoFar

\* A selection keeps its soundness, and the camera runs while it probes only.
\* (select_exposure, probe)
LEMMA SelectionStep ==
    ASSUME Sound, sensor.runs => select.at = "probing", SelectStep
    PROVE  Sound' /\ (sensor'.runs => select'.at = "probing")
<1>1. CASE BeginSelect
  BY <1>1, BeginSelectSound DEF BeginSelect
<1>2. CASE NothingToSweep
  BY <1>2, FailureSound DEF NothingToSweep
<1>3. CASE StartProbe
  BY <1>3, StartProbeSound
<1>4. CASE ProbeFrame
  BY <1>4, ProbeFrameSound
<1>5. CASE ProbeWaits
  BY <1>5, ProbeWaitsSound
<1>6. CASE ProbeFails
  BY <1>6, FailureSound, SelectionValues DEF ProbeFails, Cleaned, Sound
<1>7. CASE ProbeDone
  BY <1>7, ProbeDoneSound
<1>8. CASE BeginCompare
  BY <1>8, BeginCompareSound DEF BeginCompare
<1>9. CASE Compare
  BY <1>9, CompareSound DEF Compare
<1>10. CASE EndSweep
  BY <1>10, EndSweepSound DEF EndSweep
<1>. QED BY <1>1, <1>2, <1>3, <1>4, <1>5, <1>6, <1>7, <1>8, <1>9, <1>10 DEF SelectStep

-----------------------------------------------------------------------------
(* The record layout and the scale *)

LEMMA RoundUpIs ==
    ASSUME NEW n \in Nat, NEW w \in {2, 8}
    PROVE  /\ RoundUp(n, w) \in Nat /\ RoundUp(n, w) % w = 0
           /\ n <= RoundUp(n, w) /\ RoundUp(n, w) < n + w
<1>1. CASE w = 2
  BY <1>1 DEF RoundUp
<1>2. CASE w = 8
  BY <1>2 DEF RoundUp
<1>. QED BY <1>1, <1>2

LEMMA PlacedFits ==
    ASSUME NEW layout, layout.end \in Nat, layout.offsets \in [Channel -> Nat],
           NEW channel \in Channel
    PROVE  LET next == Placed(layout, channel)
               offset == Placed(layout, channel).offsets[channel]
           IN  /\ next.offsets \in [Channel -> Nat] /\ offset \in Nat
               /\ next.end \in Nat /\ next.end = offset + Width[channel]
               /\ offset % Width[channel] = 0 /\ layout.end <= offset
               /\ \A c \in Channel : c # channel => next.offsets[c] = layout.offsets[c]
<1>. DEFINE offset == RoundUp(layout.end, Width[channel])
<1>1. Width[channel] \in {2, 8}
  BY DEF Width, Channel
<1>2. offset \in Nat /\ offset % Width[channel] = 0 /\ layout.end <= offset
  BY <1>1, RoundUpIs
<1>. HIDE DEF offset
<1>3. Placed(layout, channel) = [offsets |-> [layout.offsets EXCEPT ![channel] = offset],
                                end |-> offset + Width[channel]]
  BY DEF Placed, offset
<1>4. offset + Width[channel] \in Nat
  BY <1>1, <1>2
<1>. QED BY <1>2, <1>3, <1>4

\* The four fields are aligned and follow each other.  (load_layout)
LEMMA LayoutFits ==
    ASSUME NEW scan \in [1..4 -> Channel], IsInjective(scan)
    PROVE  LET fields == Layout(scan).offsets
               last == fields[scan[4]] + Width[scan[4]]
           IN  /\ \A i \in 1..4 : fields[scan[i]] % Width[scan[i]] = 0
               /\ \A i \in 1..3 : fields[scan[i]] + Width[scan[i]] <= fields[scan[i + 1]]
               /\ last \in Nat /\ Layout(scan).end = last
<1>. DEFINE l1 == Placed(NoLayout, scan[1])
            l2 == Placed(l1, scan[2])
            l3 == Placed(l2, scan[3])
            l4 == Placed(l3, scan[4])
<1>1. /\ scan[1] \in Channel /\ scan[2] \in Channel /\ scan[3] \in Channel
      /\ scan[4] \in Channel
      /\ scan[1] # scan[2] /\ scan[1] # scan[3] /\ scan[1] # scan[4]
      /\ scan[2] # scan[3] /\ scan[2] # scan[4] /\ scan[3] # scan[4]
  BY DEF IsInjective
<1>2. NoLayout.end \in Nat /\ NoLayout.offsets \in [Channel -> Nat]
  BY DEF NoLayout
<1>3. /\ l1.offsets \in [Channel -> Nat] /\ l1.offsets[scan[1]] \in Nat
      /\ l1.end \in Nat /\ l1.end = l1.offsets[scan[1]] + Width[scan[1]]
      /\ l1.offsets[scan[1]] % Width[scan[1]] = 0
  BY <1>1, <1>2, PlacedFits
<1>. HIDE DEF l1
<1>4. /\ l2.offsets \in [Channel -> Nat] /\ l2.offsets[scan[2]] \in Nat
      /\ l2.end \in Nat /\ l2.end = l2.offsets[scan[2]] + Width[scan[2]]
      /\ l2.offsets[scan[2]] % Width[scan[2]] = 0 /\ l1.end <= l2.offsets[scan[2]]
      /\ \A c \in Channel : c # scan[2] => l2.offsets[c] = l1.offsets[c]
  BY <1>1, <1>3, PlacedFits
<1>. HIDE DEF l2
<1>5. /\ l3.offsets \in [Channel -> Nat] /\ l3.offsets[scan[3]] \in Nat
      /\ l3.end \in Nat /\ l3.end = l3.offsets[scan[3]] + Width[scan[3]]
      /\ l3.offsets[scan[3]] % Width[scan[3]] = 0 /\ l2.end <= l3.offsets[scan[3]]
      /\ \A c \in Channel : c # scan[3] => l3.offsets[c] = l2.offsets[c]
  BY <1>1, <1>4, PlacedFits
<1>. HIDE DEF l3
<1>6. /\ l4.offsets \in [Channel -> Nat] /\ l4.offsets[scan[4]] \in Nat
      /\ l4.end \in Nat /\ l4.end = l4.offsets[scan[4]] + Width[scan[4]]
      /\ l4.offsets[scan[4]] % Width[scan[4]] = 0 /\ l3.end <= l4.offsets[scan[4]]
      /\ \A c \in Channel : c # scan[4] => l4.offsets[c] = l3.offsets[c]
  BY <1>1, <1>5, PlacedFits
<1>7. Layout(scan) = l4
  BY DEF Layout, l1, l2, l3
<1>. HIDE DEF l4
<1>8. /\ l4.offsets[scan[1]] = l1.offsets[scan[1]] /\ l4.offsets[scan[2]] = l2.offsets[scan[2]]
      /\ l4.offsets[scan[3]] = l3.offsets[scan[3]]
  BY <1>1, <1>4, <1>5, <1>6
<1>9. \A i \in 1..4 : l4.offsets[scan[i]] % Width[scan[i]] = 0
  <2>1. \A i \in 1..4 : i = 1 \/ i = 2 \/ i = 3 \/ i = 4
    OBVIOUS
  <2>. QED BY <1>3, <1>4, <1>5, <1>6, <1>8, <2>1
<1>10. \A i \in 1..3 : l4.offsets[scan[i]] + Width[scan[i]] <= l4.offsets[scan[i + 1]]
  <2>1. \A i \in 1..3 : i = 1 \/ i = 2 \/ i = 3
    OBVIOUS
  <2>2. /\ l4.offsets[scan[1]] + Width[scan[1]] <= l4.offsets[scan[2]]
        /\ l4.offsets[scan[2]] + Width[scan[2]] <= l4.offsets[scan[3]]
        /\ l4.offsets[scan[3]] + Width[scan[3]] <= l4.offsets[scan[4]]
    BY <1>3, <1>4, <1>5, <1>6, <1>8
  <2>3. 1 + 1 = 2 /\ 2 + 1 = 3 /\ 3 + 1 = 4
    OBVIOUS
  <2>. QED BY <2>1, <2>2, <2>3
<1>. QED BY <1>6, <1>7, <1>9, <1>10

\* Neither of the scales offered is nearer.  (select_scale)
LEMMA NearestScale ==
    ASSUME NEW scales \in [1..2 -> Scale]
    PROVE  \A i \in 1..2 : Distance(SelectScale(scales)) <= Distance(scales[i])
<1>0. scales[1] \in Scale /\ scales[2] \in Scale
  OBVIOUS
<1>1. /\ scales[1] \in Nat \ {0} /\ scales[2] \in Nat \ {0} /\ TargetScale \in Nat
  BY <1>0, DeviceAssumption
<1>2. \A s \in Nat : Distance(s) \in Nat
  BY <1>1 DEF Distance
<1>3. Nearer(0, scales[1]) = scales[1]
  BY DEF Nearer
<1>4. SelectScale(scales) = IF Distance(scales[2]) < Distance(scales[1]) THEN scales[2]
                            ELSE scales[1]
  BY <1>1, <1>3 DEF SelectScale, Nearer
<1>5. \A i \in 1..2 : i = 1 \/ i = 2
  OBVIOUS
<1>6. Distance(scales[1]) \in Nat /\ Distance(scales[2]) \in Nat
  BY <1>1, <1>2
<1>. QED BY <1>4, <1>5, <1>6

\* A device that is read as it was found is read right.
LEMMA ReadRight == ReadAsFound => RecordsDecodable /\ ScaleIsNearest
<1>. SUFFICES ASSUME ReadAsFound, imu.ready # {} PROVE RecordsDecodable /\ ScaleIsNearest
  BY DEF RecordsDecodable, ScaleIsNearest
<1>1. driver \in Driver /\ format = FormatOf(driver)
  BY DEF ReadAsFound
<1>2. driver.scan \in [1..4 -> Channel] /\ IsInjective(driver.scan)
      /\ driver.scales \in [1..2 -> Scale]
  BY <1>1 DEF Driver
<1>3. /\ format.offsets = Layout(driver.scan).offsets
      /\ format.bytes = RoundUp(Layout(driver.scan).end, 8)
      /\ format.scale = SelectScale(driver.scales)
  BY <1>1 DEF FormatOf
<1>. DEFINE last == format.offsets[driver.scan[4]] + Width[driver.scan[4]]
<1>4. /\ \A i \in 1..4 : format.offsets[driver.scan[i]] % Width[driver.scan[i]] = 0
      /\ \A i \in 1..3 : format.offsets[driver.scan[i]] + Width[driver.scan[i]]
                            <= format.offsets[driver.scan[i + 1]]
      /\ last \in Nat /\ Layout(driver.scan).end = last
  BY <1>2, <1>3, LayoutFits
<1>. HIDE DEF last
<1>5. format.bytes % 8 = 0 /\ last <= format.bytes /\ format.bytes < last + 8
  BY <1>3, <1>4, RoundUpIs
<1>6. RecordsDecodable
  BY <1>4, <1>5 DEF RecordsDecodable, last
<1>7. ScaleIsNearest
  BY <1>2, <1>3, NearestScale DEF ScaleIsNearest
<1>. QED BY <1>6, <1>7

\* What was found does not change until the next device is looked for.
LEMMA ReadAsFoundStep ==
    ASSUME imu \in Object, ReadAsFound, ConstructImu \/ DisableImu \/ Destroy \/ OtherProgram
    PROVE  ReadAsFound'
<1>. USE DEF ReadAsFound
<1>1. CASE Throws
  BY <1>1 DEF Throws, Object
<1>2. CASE Discover
  BY <1>2 DEF Discover, NewImu
<1>3. CASE CheckIdle
  <2>1. imu'.at \in {"unwinding", "found", "checked"} /\ imu'.ready = imu.ready
        /\ driver' = driver /\ format' = format /\ imu.at = "found"
    BY <1>3 DEF CheckIdle, Onwards, Object
  <2>. QED BY <2>1
<1>4. CASE CheckGravity
  BY <1>4 DEF CheckGravity, Object
<1>5. CASE Prepare
  BY <1>5 DEF Prepare, Object
<1>6. CASE PrepareThrows
  BY <1>6 DEF PrepareThrows, Object
<1>7. CASE ConfigureDevice
  <2>1. driver \in Driver /\ driver' = driver /\ format' = FormatOf(driver)
    BY <1>7 DEF ConfigureDevice
  <2>2. imu'.at \in {"still", "enabling"}
    BY <1>7 DEF ConfigureDevice, Configured, Onwards, Object
  <2>. QED BY <2>1, <2>2
<1>8. CASE Enable
  <2>1. imu'.ready = imu.ready /\ driver' = driver /\ format' = format /\ imu.at = "enabling"
    BY <1>8 DEF Enable, Onwards, Object
  <2>. QED BY <2>1
<1>9. CASE DisableNext
  <2>1. imu'.ready = imu.ready /\ imu'.at = imu.at /\ driver' = driver /\ format' = format
    BY <1>9 DEF DisableNext, Object
  <2>. QED BY <2>1
<1>10. CASE DisableDone
  BY <1>10 DEF DisableDone, NewImu
<1>11. CASE Destroy
  BY <1>11 DEF Destroy, Object
<1>12. CASE OtherProgram
  BY <1>12 DEF OtherProgram
<1>. QED BY <1>1, <1>2, <1>3, <1>4, <1>5, <1>6, <1>7, <1>8, <1>9, <1>10, <1>11, <1>12
       DEF ConstructImu, DisableImu

-----------------------------------------------------------------------------
(* The rows of the two sensors *)

\* Where a time falls among rows in order.
Falls(rows, t, k) ==
    k \in 1..Len(rows) /\ rows[k] <= t /\ (k < Len(rows) => t < rows[k + 1])

LEMMA RowsAreTimes ==
    ASSUME NEW rows \in Seq(Time)
    PROVE  /\ Len(rows) \in Nat /\ DOMAIN rows = 1..Len(rows)
           /\ \A i \in 1..Len(rows) : rows[i] \in Time /\ rows[i] \in Nat
           /\ rows # <<>> => Len(rows) > 0 /\ Last(rows) = rows[Len(rows)]
  BY PairingAssumption DEF Time, Last

LEMMA FallsSomewhere ==
    ASSUME NEW rows \in Seq(Time), rows # <<>>, Increasing(rows), NEW t \in Time, rows[1] <= t
    PROVE  \E k \in 1..Len(rows) : Falls(rows, t, k) /\ Cut(rows, t) = SubSeq(rows, k, Len(rows))
<1>0. Len(rows) \in Nat /\ Len(rows) > 0 /\ t \in Nat /\ \A i \in 1..Len(rows) : rows[i] \in Nat
  BY RowsAreTimes, PairingAssumption DEF Time
<1>. DEFINE T == Passed(rows, t)
<1>1. T \subseteq 1..Len(rows) /\ T # {} /\ T \subseteq Nat /\ \A i \in T : rows[i] <= t
  <2>1. 1 \in T
    BY <1>0 DEF Passed
  <2>. QED BY <1>0, <2>1 DEF Passed
<1>2. PICK k \in T : \A i \in T : i <= k
  <2>. HIDE DEF T
  <2>. QED BY <1>0, <1>1, GreatestOf
<1>3. Max(T) = k
  <2>. HIDE DEF T
  <2>. QED BY <1>1, <1>2, GreatestIsMax
<1>4. k < Len(rows) => t < rows[k + 1]
  <2>. SUFFICES ASSUME k < Len(rows), ~(t < rows[k + 1]) PROVE FALSE
    OBVIOUS
  <2>1. k + 1 \in 1..Len(rows) /\ rows[k + 1] <= t
    BY <1>0, <1>1
  <2>2. k + 1 \in T
    BY <2>1 DEF Passed
  <2>. QED BY <1>0, <1>1, <1>2, <2>2
<1>5. Cut(rows, t) = SubSeq(rows, k, Len(rows))
  BY <1>3 DEF Cut
<1>. QED BY <1>1, <1>4, <1>5 DEF Falls

\* What the row at t is made of.
LEMMA ReferenceIs ==
    ASSUME NEW rows \in Seq(Time), Increasing(rows), NEW t \in Time,
           NEW k \in 1..Len(rows), Falls(rows, t, k)
    PROVE  Reference(rows, t) = Interpolated(t, rows[k], IF k < Len(rows) THEN rows[k + 1]
                                                       ELSE rows[k])
<1>0. /\ Len(rows) \in Nat /\ t \in Nat /\ \A i \in 1..Len(rows) : rows[i] \in Nat
      /\ Range(rows) = {rows[i] : i \in 1..Len(rows)}
  <2>1. Len(rows) \in Nat /\ DOMAIN rows = 1..Len(rows)
        /\ \A i \in 1..Len(rows) : rows[i] \in Nat
    BY RowsAreTimes
  <2>2. Range(rows) = {rows[i] : i \in 1..Len(rows)}
    BY <2>1 DEF Range
  <2>3. t \in Nat
    BY PairingAssumption DEF Time
  <2>. QED BY <2>1, <2>2, <2>3
<1>1. \A i \in 1..Len(rows) : /\ i < k => rows[i] < rows[k]
                              /\ i > k => rows[k] < rows[i]
                              /\ i > k => k + 1 \in 1..Len(rows) /\ rows[k + 1] <= rows[i]
  <2>. SUFFICES ASSUME NEW i \in 1..Len(rows)
                PROVE  /\ i < k => rows[i] < rows[k]
                       /\ i > k => rows[k] < rows[i]
                       /\ i > k => k + 1 \in 1..Len(rows) /\ rows[k + 1] <= rows[i]
    OBVIOUS
  <2>1. (i < k => rows[i] < rows[k]) /\ (i > k => rows[k] < rows[i])
    BY DEF Increasing
  <2>2. CASE i > k
    <3>1. k + 1 \in 1..Len(rows) /\ (i = k + 1 \/ k + 1 < i)
      BY <1>0, <2>2
    <3>. QED BY <1>0, <2>1, <2>2, <3>1 DEF Increasing
  <2>. QED BY <2>1, <2>2
<1>5. rows[k] <= t /\ rows[k] \in Nat
  BY <1>0 DEF Falls
<1>6. ASSUME NEW i \in 1..Len(rows), i <= k PROVE rows[i] <= t
  <2>1. i = k \/ rows[i] < rows[k]
    BY <1>1, <1>6
  <2>. QED BY <1>0, <1>5, <2>1
<1>. DEFINE upTo == {a \in Range(rows) : a <= t}
            later == {a \in Range(rows) : a > t}
<1>2. Max(upTo) = rows[k]
  <2>1. upTo \subseteq Nat /\ rows[k] \in upTo
    BY <1>0 DEF Falls
  <2>2. \A a \in upTo : a <= rows[k]
    <3>. SUFFICES ASSUME NEW i \in 1..Len(rows), rows[i] <= t PROVE rows[i] <= rows[k]
      BY <1>0
    <3>1. i < k \/ i = k \/ i > k
      OBVIOUS
    <3>2. i > k => FALSE
      <4>1. i > k => k < Len(rows) /\ rows[k + 1] <= rows[i] /\ t < rows[k + 1]
                    /\ rows[k + 1] \in Nat
        BY <1>0, <1>1 DEF Falls
      <4>. QED BY <1>0, <4>1
    <3>3. i < k => rows[i] <= rows[k]
      <4>1. i < k => rows[i] < rows[k]
        BY <1>1
      <4>. QED BY <1>0, <4>1
    <3>. QED BY <1>0, <3>1, <3>2, <3>3
  <2>. HIDE DEF upTo
  <2>. QED BY <2>1, <2>2, GreatestIsMax
<1>3. CASE k < Len(rows)
  <2>1. later \subseteq Nat /\ rows[k + 1] \in later
    BY <1>0, <1>3 DEF Falls
  <2>2. \A a \in later : rows[k + 1] <= a
    <3>. SUFFICES ASSUME NEW i \in 1..Len(rows), rows[i] > t PROVE rows[k + 1] <= rows[i]
      BY <1>0
    <3>1. ~(i <= k)
      BY <1>0, <1>5, <1>6
    <3>. QED BY <1>1, <3>1
  <2>3. Min(later) = rows[k + 1] /\ later # {}
    <3>. HIDE DEF later
    <3>. QED BY <2>1, <2>2, LeastIsMin
  <2>. QED BY <1>2, <1>3, <2>3 DEF Reference
<1>4. CASE ~(k < Len(rows))
  <2>1. later = {}
    <3>. SUFFICES ASSUME NEW i \in 1..Len(rows), rows[i] > t PROVE FALSE
      BY <1>0
    <3>1. i <= k
      BY <1>0, <1>4
    <3>. QED BY <1>0, <1>5, <1>6, <3>1
  <2>. QED BY <1>2, <1>4, <2>1 DEF Reference
<1>. QED BY <1>3, <1>4

LEMMA Joined ==
    ASSUME NEW rows \in Seq(Time), NEW batch \in Seq(Time)
    PROVE  /\ rows \o batch \in Seq(Time)
           /\ Len(rows \o batch) = Len(rows) + Len(batch)
           /\ Len(rows) \in Nat /\ Len(batch) \in Nat
           /\ \A i \in 1..Len(rows) : (rows \o batch)[i] = rows[i]
           /\ \A i \in 1..Len(batch) : (rows \o batch)[Len(rows) + i] = batch[i]
           /\ \A i \in (Len(rows) + 1)..(Len(rows) + Len(batch)) :
                 (rows \o batch)[i] = batch[i - Len(rows)]
  OBVIOUS

LEMMA StillIncreasing ==
    ASSUME NEW rows \in Seq(Time), NEW batch \in Seq(Time),
           Increasing(rows), Increasing(batch), Later(rows, batch)
    PROVE  Increasing(rows \o batch)
<1>. DEFINE all == rows \o batch
<1>0. /\ Len(all) = Len(rows) + Len(batch) /\ Len(rows) \in Nat /\ Len(batch) \in Nat
      /\ \A i \in 1..Len(rows) : all[i] = rows[i] /\ rows[i] \in Nat
      /\ \A i \in (Len(rows) + 1)..(Len(rows) + Len(batch)) : all[i] = batch[i - Len(rows)]
      /\ \A i \in 1..Len(batch) : batch[i] \in Nat
  BY Joined, RowsAreTimes
<1>. HIDE DEF all
<1>. SUFFICES ASSUME NEW i \in 1..Len(all), NEW j \in 1..Len(all), i < j PROVE all[i] < all[j]
  BY DEF Increasing, all
<1>1. CASE j <= Len(rows)
  <2>1. i \in 1..Len(rows) /\ j \in 1..Len(rows)
    BY <1>0, <1>1
  <2>. QED BY <1>0, <2>1 DEF Increasing
<1>2. CASE i > Len(rows)
  <2>. DEFINE m == i - Len(rows)
              n == j - Len(rows)
  <2>1. m \in 1..Len(batch) /\ n \in 1..Len(batch) /\ m < n
    BY <1>0, <1>2
  <2>2. all[i] = batch[m] /\ all[j] = batch[n]
    <3>1. /\ i \in (Len(rows) + 1)..(Len(rows) + Len(batch))
          /\ j \in (Len(rows) + 1)..(Len(rows) + Len(batch))
      BY <1>0, <1>2
    <3>. QED BY <1>0, <3>1
  <2>. HIDE DEF m, n
  <2>. QED BY <2>1, <2>2 DEF Increasing
<1>3. CASE i <= Len(rows) /\ j > Len(rows)
  <2>. DEFINE n == j - Len(rows)
  <2>1. i \in 1..Len(rows) /\ n \in 1..Len(batch) /\ 1 \in 1..Len(batch)
        /\ Len(rows) \in 1..Len(rows)
    BY <1>0, <1>3
  <2>2. all[i] = rows[i] /\ all[j] = batch[n]
    BY <1>0, <1>3, <2>1
  <2>. HIDE DEF n
  <2>3. rows # <<>> /\ batch # <<>>
    BY <2>1
  <2>4. rows[Len(rows)] < batch[1]
    BY <2>3 DEF Later, Last
  <2>5. rows[i] <= rows[Len(rows)]
    <3>1. i = Len(rows) \/ i < Len(rows)
      BY <1>0, <2>1
    <3>. QED BY <1>0, <2>1, <3>1 DEF Increasing
  <2>6. batch[1] <= batch[n]
    <3>1. n = 1 \/ 1 < n
      BY <1>0, <2>1
    <3>. QED BY <1>0, <2>1, <3>1 DEF Increasing
  <2>. QED BY SMTT(30), <1>0, <2>1, <2>2, <2>4, <2>5, <2>6
<1>. QED BY <1>0, <1>1, <1>2, <1>3

\* A row that lies within the rows received is not changed by those to come.
LEMMA SameLater ==
    ASSUME NEW rows \in Seq(Time), NEW batch \in Seq(Time), rows # <<>>,
           Increasing(rows), Increasing(rows \o batch),
           NEW t \in Time, rows[1] <= t, t <= Last(rows),
           NEW row \in ImuRow, Same(row, Reference(rows, t))
    PROVE  Same(row, Reference(rows \o batch, t))
<1>. DEFINE all == rows \o batch
<1>0. /\ Len(all) = Len(rows) + Len(batch) /\ Len(rows) \in Nat /\ Len(batch) \in Nat
      /\ all \in Seq(Time)
      /\ \A i \in 1..Len(rows) : all[i] = rows[i] /\ rows[i] \in Nat
      /\ \A i \in 1..Len(all) : all[i] \in Nat
      /\ t \in Nat
      /\ Last(rows) = rows[Len(rows)]
  <2>1. /\ Len(all) = Len(rows) + Len(batch) /\ Len(rows) \in Nat /\ Len(batch) \in Nat
        /\ all \in Seq(Time)
        /\ \A i \in 1..Len(rows) : all[i] = rows[i]
    BY Joined
  <2>. HIDE DEF all
  <2>2. /\ \A i \in 1..Len(rows) : rows[i] \in Nat
        /\ \A i \in 1..Len(all) : all[i] \in Nat
        /\ Last(rows) = rows[Len(rows)]
    BY <2>1, RowsAreTimes
  <2>3. t \in Nat
    BY PairingAssumption DEF Time
  <2>. QED BY <2>1, <2>2, <2>3
<1>. HIDE DEF all
<1>1. PICK k \in 1..Len(rows) : Falls(rows, t, k)
  BY FallsSomewhere
<1>2. Reference(rows, t) = Interpolated(t, rows[k], IF k < Len(rows) THEN rows[k + 1]
                                                   ELSE rows[k])
  BY <1>1, ReferenceIs
<1>3. CASE k < Len(rows)
  <2>1. k \in 1..Len(all) /\ k < Len(all) /\ k + 1 \in 1..Len(rows)
    BY <1>0, <1>3
  <2>2. Falls(all, t, k) /\ all[k] = rows[k] /\ all[k + 1] = rows[k + 1]
    BY <1>0, <1>1, <1>3, <2>1 DEF Falls
  <2>3. Reference(all, t) = Interpolated(t, all[k], IF k < Len(all) THEN all[k + 1] ELSE all[k])
    BY <1>0, <2>1, <2>2, ReferenceIs DEF all
  <2>. QED BY <1>2, <1>3, <2>1, <2>2, <2>3 DEF all
<1>4. CASE ~(k < Len(rows))
  <2>1. k = Len(rows) /\ rows[k] = t
    BY <1>0, <1>1, <1>4 DEF Falls
  <2>2. Reference(rows, t) = [at |-> t, value |-> Acceleration(t), parts |-> 1]
    BY <1>2, <1>4, <2>1 DEF Interpolated
  <2>3. Acceleration(t) \in Nat
    BY <1>0 DEF Acceleration
  <2>4. row.at = t /\ row.value = Acceleration(t) * row.parts
    <3>1. row.value * 1 = Acceleration(t) * row.parts /\ row.at = t
      BY <2>2 DEF Same
    <3>. QED BY <3>1 DEF ImuRow
  <2>5. k \in 1..Len(all) /\ all[k] = t
    BY <1>0, <2>1
  <2>6. CASE k < Len(all)
    <3>. DEFINE next == all[k + 1]
    <3>1. k + 1 \in 1..Len(all) /\ t < next /\ next \in Nat
      <4>1. k + 1 \in 1..Len(all) /\ k < k + 1
        BY <1>0, <2>6
      <4>. QED BY <1>0, <2>5, <4>1 DEF Increasing, all
    <3>2. Falls(all, t, k)
      BY <1>0, <2>5, <3>1 DEF Falls
    <3>3. Reference(all, t) = Interpolated(t, t, next)
      BY <1>0, <2>5, <2>6, <3>2, ReferenceIs DEF all
    <3>. HIDE DEF next
    <3>4. Reference(all, t) = [at |-> t,
             value |-> Acceleration(t) * (next - t) + Acceleration(next) * (t - t),
             parts |-> next - t]
      BY <1>0, <3>1, <3>3 DEF Interpolated
    <3>5. Acceleration(next) * (t - t) = 0
      <4>1. t - t = 0 /\ Acceleration(next) \in Nat
        BY <1>0, <3>1 DEF Acceleration
      <4>. QED BY <4>1
    <3>6. Reference(all, t).value = Acceleration(t) * (next - t)
          /\ Reference(all, t).parts = next - t /\ Reference(all, t).at = t
      <4>1. Acceleration(t) * (next - t) \in Nat
        BY <2>3, <1>0, <3>1
      <4>. QED BY <3>4, <3>5, <4>1
    <3>7. (Acceleration(t) * row.parts) * (next - t) = (Acceleration(t) * (next - t)) * row.parts
      <4>1. row.parts \in Nat /\ next - t \in Nat
        BY <1>0, <3>1 DEF ImuRow
      <4>2. \A a, p, d \in Nat : (a * p) * d = (a * d) * p
        OBVIOUS
      <4>. QED BY <2>3, <4>1, <4>2
    <3>. QED BY <2>4, <3>6, <3>7 DEF Same, all
  <2>7. CASE ~(k < Len(all))
    <3>1. Falls(all, t, k)
      BY <1>0, <2>5, <2>7 DEF Falls
    <3>2. Reference(all, t) = Interpolated(t, t, t)
      BY <1>0, <2>5, <2>7, <3>1, ReferenceIs DEF all
    <3>. QED BY <2>2, <3>2 DEF Interpolated, all
  <2>. QED BY <2>6, <2>7
<1>. QED BY <1>3, <1>4

-----------------------------------------------------------------------------
(* The loop of imu_thread *)

PairingSound == PairingTypeOK /\ PairedAsRecorded /\ QueuesHold

\* The lengths and the elements of the queues and of what was received.
LEMMA PairingValues ==
    ASSUME PairingSound
    PROVE  /\ received.accel \in Seq(Time) /\ received.gyro \in Seq(Time)
           /\ accelQueue \in Seq(Time) /\ gyroQueue \in Seq(Time) /\ imuQueue \in Seq(ImuRow)
           /\ Len(received.accel) \in Nat /\ Len(received.gyro) \in Nat
           /\ Len(accelQueue) \in Nat /\ Len(gyroQueue) \in Nat /\ Len(imuQueue) \in Nat
           /\ Done \in Nat /\ Done <= Len(received.gyro) /\ Len(imuQueue) <= Done
           /\ Skipped \in Nat /\ Skipped + Len(imuQueue) = Done
           /\ Len(gyroQueue) = Len(received.gyro) - Done
<1>1. /\ received.accel \in Seq(Time) /\ received.gyro \in Seq(Time)
      /\ accelQueue \in Seq(Time) /\ gyroQueue \in Seq(Time) /\ imuQueue \in Seq(ImuRow)
  BY DEF PairingSound, PairingTypeOK
<1>2. /\ Len(received.accel) \in Nat /\ Len(received.gyro) \in Nat
      /\ Len(accelQueue) \in Nat /\ Len(gyroQueue) \in Nat /\ Len(imuQueue) \in Nat
  BY <1>1
<1>3. Len(gyroQueue) <= Len(received.gyro) /\ Len(imuQueue) <= Done
      /\ Done <= Len(received.gyro)
  BY DEF PairingSound, QueuesHold, PairedAsRecorded
<1>4. Done \in Nat /\ Len(gyroQueue) = Len(received.gyro) - Done
  BY <1>2, <1>3 DEF Done
<1>. HIDE DEF Done
<1>5. Skipped \in Nat /\ Skipped + Len(imuQueue) = Done
  BY <1>2, <1>3, <1>4 DEF Skipped
<1>. QED BY <1>1, <1>2, <1>3, <1>4, <1>5

\* What is read is appended; the rows made are those of the longer recording too.
LEMMA ReadRowsSound ==
    ASSUME PairingSound, NEW accel \in Rows, NEW gyro \in Rows, ReadRows(accel, gyro)
    PROVE  PairingSound'
<1>. DEFINE A == received.accel
            G == received.gyro
            allA == received.accel \o accel
            allG == received.gyro \o gyro
<1>1. accel \in Seq(Time) /\ gyro \in Seq(Time) /\ Increasing(accel) /\ Increasing(gyro)
  BY PairingAssumption DEF Rows
<1>2. /\ A \in Seq(Time) /\ G \in Seq(Time)
      /\ accelQueue \in Seq(Time) /\ gyroQueue \in Seq(Time) /\ imuQueue \in Seq(ImuRow)
      /\ Len(A) \in Nat /\ Len(G) \in Nat
      /\ Len(accelQueue) \in Nat /\ Len(gyroQueue) \in Nat /\ Len(imuQueue) \in Nat
      /\ Done \in Nat /\ Done <= Len(G) /\ Len(imuQueue) <= Done
      /\ Skipped \in Nat /\ Skipped + Len(imuQueue) = Done
      /\ Len(gyroQueue) = Len(G) - Done
  BY PairingValues
<1>3. /\ accelQueue' = accelQueue \o accel /\ gyroQueue' = gyroQueue \o gyro
      /\ received'.accel = allA /\ received'.gyro = allG
      /\ imuQueue' = imuQueue /\ pairing' = "pairing"
      /\ received' \in [accel : Seq(Time), gyro : Seq(Time)]
      /\ Later(A, accel) /\ Later(G, gyro)
      /\ Len(accelQueue) + Len(accel) <= QueueLimit
      /\ Len(gyroQueue) + Len(gyro) <= QueueLimit
  <2>1. allA \in Seq(Time) /\ allG \in Seq(Time)
    BY <1>1, <1>2, Joined
  <2>2. received' = [accel |-> allA, gyro |-> allG]
    BY DEF ReadRows
  <2>. HIDE DEF allA, allG
  <2>3. received'.accel = allA /\ received'.gyro = allG
        /\ received' \in [accel : Seq(Time), gyro : Seq(Time)]
    BY <2>1, <2>2
  <2>. QED BY <2>3 DEF ReadRows
<1>4. /\ allA \in Seq(Time) /\ Len(allA) = Len(A) + Len(accel) /\ Len(accel) \in Nat
      /\ \A i \in 1..Len(A) : allA[i] = A[i]
      /\ \A i \in 1..Len(accel) : allA[Len(A) + i] = accel[i]
      /\ allG \in Seq(Time) /\ Len(allG) = Len(G) + Len(gyro) /\ Len(gyro) \in Nat
      /\ \A i \in 1..Len(G) : allG[i] = G[i]
      /\ \A i \in 1..Len(gyro) : allG[Len(G) + i] = gyro[i]
  BY <1>1, <1>2, Joined
<1>5. /\ accelQueue' \in Seq(Time) /\ Len(accelQueue') = Len(accelQueue) + Len(accel)
      /\ \A i \in 1..Len(accelQueue) : accelQueue'[i] = accelQueue[i]
      /\ \A i \in (Len(accelQueue) + 1)..(Len(accelQueue) + Len(accel)) :
            accelQueue'[i] = accel[i - Len(accelQueue)]
      /\ gyroQueue' \in Seq(Time) /\ Len(gyroQueue') = Len(gyroQueue) + Len(gyro)
      /\ \A i \in 1..Len(gyroQueue) : gyroQueue'[i] = gyroQueue[i]
      /\ \A i \in (Len(gyroQueue) + 1)..(Len(gyroQueue) + Len(gyro)) :
            gyroQueue'[i] = gyro[i - Len(gyroQueue)]
  <2>1. /\ accelQueue \o accel \in Seq(Time)
        /\ Len(accelQueue \o accel) = Len(accelQueue) + Len(accel)
        /\ \A i \in 1..Len(accelQueue) : (accelQueue \o accel)[i] = accelQueue[i]
        /\ \A i \in (Len(accelQueue) + 1)..(Len(accelQueue) + Len(accel)) :
              (accelQueue \o accel)[i] = accel[i - Len(accelQueue)]
    BY <1>1, <1>2, Joined
  <2>2. /\ gyroQueue \o gyro \in Seq(Time)
        /\ Len(gyroQueue \o gyro) = Len(gyroQueue) + Len(gyro)
        /\ \A i \in 1..Len(gyroQueue) : (gyroQueue \o gyro)[i] = gyroQueue[i]
        /\ \A i \in (Len(gyroQueue) + 1)..(Len(gyroQueue) + Len(gyro)) :
              (gyroQueue \o gyro)[i] = gyro[i - Len(gyroQueue)]
    BY <1>1, <1>2, Joined
  <2>3. accelQueue' = accelQueue \o accel /\ gyroQueue' = gyroQueue \o gyro
    BY <1>3
  <2>. QED BY <2>1, <2>2, <2>3, Zenon
<1>6. Increasing(A) /\ Increasing(G) /\ Increasing(allA) /\ Increasing(allG)
  BY <1>1, <1>2, <1>3, StillIncreasing DEF PairingSound, QueuesHold
<1>7. Done' = Done /\ Skipped' = Skipped
  <2>1. Done' = Done
    BY <1>2, <1>3, <1>4, <1>5 DEF Done
  <2>. QED BY <1>3, <2>1 DEF Skipped
<1>8. PairingTypeOK'
  BY <1>2, <1>3, <1>5 DEF PairingTypeOK
<1>. HIDE DEF allA, allG
<1>9. QueuesHold'
  <2>. DEFINE gone == Len(A) - Len(accelQueue)
  <2>1. /\ Len(accelQueue) <= Len(A)
        /\ \A i \in 1..Len(accelQueue) : accelQueue[i] = A[gone + i]
        /\ A # <<>> => accelQueue # <<>>
        /\ gone > 0 => Done > 0 /\ accelQueue[1] <= G[Done]
        /\ \A i \in 1..Len(gyroQueue) : gyroQueue[i] = G[Done + i]
    BY DEF PairingSound, QueuesHold
  <2>2. gone \in Nat /\ gone = Len(allA) - Len(accelQueue')
        /\ gone + Len(accelQueue) = Len(A)
    BY <1>2, <1>4, <1>5, <2>1
  <2>. HIDE DEF gone
  <2>3. ASSUME NEW i \in 1..Len(accelQueue') PROVE accelQueue'[i] = allA[gone + i]
    <3>1. CASE i \in 1..Len(accelQueue)
      <4>1. gone + i \in 1..Len(A)
        BY <1>2, <2>2, <3>1
      <4>. QED BY <1>4, <1>5, <2>1, <3>1, <4>1
    <3>2. CASE i \notin 1..Len(accelQueue)
      <4>. DEFINE j == i - Len(accelQueue)
      <4>1. /\ i \in (Len(accelQueue) + 1)..(Len(accelQueue) + Len(accel))
            /\ j \in 1..Len(accel) /\ gone + i = Len(A) + j
        BY <1>2, <1>4, <1>5, <2>2, <3>2
      <4>2. accelQueue'[i] = accel[j]
        BY <1>5, <4>1
      <4>3. allA[Len(A) + j] = accel[j]
        <5>. HIDE DEF j
        <5>. QED BY <1>4, <4>1
      <4>. QED BY <4>1, <4>2, <4>3
    <3>. QED BY <3>1, <3>2
  <2>4. ASSUME NEW i \in 1..Len(gyroQueue') PROVE gyroQueue'[i] = allG[Done + i]
    <3>1. CASE i \in 1..Len(gyroQueue)
      <4>1. Done + i \in 1..Len(G)
        BY <1>2, <3>1
      <4>. QED BY <1>4, <1>5, <2>1, <3>1, <4>1
    <3>2. CASE i \notin 1..Len(gyroQueue)
      <4>. DEFINE j == i - Len(gyroQueue)
      <4>0. i \in Nat /\ Len(gyroQueue) \in Nat /\ Len(gyro) \in Nat /\ Len(G) \in Nat
            /\ Done \in Nat /\ Len(gyroQueue) = Len(G) - Done
            /\ 1 <= i /\ i <= Len(gyroQueue) + Len(gyro) /\ ~(i <= Len(gyroQueue))
        BY SMTT(30), <1>2, <1>4, <1>5, <3>2
      <4>1. /\ i \in (Len(gyroQueue) + 1)..(Len(gyroQueue) + Len(gyro))
            /\ j \in 1..Len(gyro) /\ Done + i = Len(G) + j
        BY <4>0
      <4>2. gyroQueue'[i] = gyro[j]
        BY <1>5, <4>1
      <4>3. allG[Len(G) + j] = gyro[j]
        <5>. HIDE DEF j
        <5>. QED BY <1>4, <4>1
      <4>. QED BY <4>1, <4>2, <4>3
    <3>. QED BY <3>1, <3>2
  <2>5. allA # <<>> => accelQueue' # <<>>
    <3>1. A = <<>> \/ Len(accelQueue) > 0
      BY <1>2, <2>1
    <3>2. accelQueue' = <<>> => Len(accelQueue') = 0
      OBVIOUS
    <3>3. Len(allA) = 0 => allA = <<>>
      BY <1>4
    <3>4. A = <<>> => Len(A) = 0
      OBVIOUS
    <3>. QED BY <1>2, <1>4, <1>5, <3>1, <3>2, <3>3, <3>4
  <2>6. gone > 0 => Done > 0 /\ accelQueue'[1] <= allG[Done]
    <3>. SUFFICES ASSUME gone > 0 PROVE Done > 0 /\ accelQueue'[1] <= allG[Done]
      OBVIOUS
    <3>1. Done > 0 /\ accelQueue[1] <= G[Done] /\ Done \in 1..Len(G)
      BY <1>2, <2>1
    <3>2. 1 \in 1..Len(accelQueue)
      <4>1. A # <<>>
        BY <1>2, <2>2
      <4>. QED BY <1>2, <2>1, <4>1
    <3>. QED BY <1>4, <1>5, <3>1, <3>2
  <2>7. Len(accelQueue') <= Len(allA) /\ Len(gyroQueue') <= Len(allG)
    BY SMTT(30), <1>2, <1>4, <1>5, <2>1
  <2>. QED BY <1>3, <1>5, <1>6, <1>7, <2>2, <2>3, <2>4, <2>5, <2>6, <2>7 DEF QueuesHold
<1>10. PairedAsRecorded'
  <2>1. /\ Done > 0 => A # <<>>
        /\ \A i \in 1..Skipped : G[i] < A[1]
        /\ \A i \in 1..Len(imuQueue) :
              /\ A[1] <= G[Skipped + i] /\ G[Skipped + i] <= Last(A)
              /\ Same(imuQueue[i], Reference(A, G[Skipped + i]))
    BY DEF PairingSound, PairedAsRecorded
  <2>2. A # <<>> => allA # <<>> /\ allA[1] = A[1] /\ Last(A) <= Last(allA)
    <3>. SUFFICES ASSUME A # <<>> PROVE allA # <<>> /\ allA[1] = A[1] /\ Last(A) <= Last(allA)
      OBVIOUS
    <3>1. Len(A) > 0 /\ Last(A) = A[Len(A)] /\ Len(A) \in 1..Len(A) /\ 1 \in 1..Len(A)
          /\ A[Len(A)] \in Nat
      BY <1>2, RowsAreTimes
    <3>2. Len(allA) > 0 /\ allA # <<>>
      BY <1>2, <1>4, <3>1
    <3>3. Last(allA) = allA[Len(allA)] /\ allA[Len(allA)] \in Nat
          /\ allA[Len(A)] = A[Len(A)]
      <4>1. Last(allA) = allA[Len(allA)] /\ Len(allA) \in 1..Len(allA)
        BY <1>4, <3>2, RowsAreTimes
      <4>2. allA[Len(allA)] \in Nat
        BY <1>4, <4>1, RowsAreTimes
      <4>. QED BY <1>4, <3>1, <4>1, <4>2
    <3>4. Len(A) = Len(allA) \/ Len(A) < Len(allA)
      BY <1>2, <1>4
    <3>5. Len(A) \in 1..Len(allA) /\ Len(allA) \in 1..Len(allA)
      BY SMTT(30), <1>2, <1>4, <3>1
    <3>6. allA[Len(A)] = allA[Len(allA)] \/ allA[Len(A)] < allA[Len(allA)]
      BY <1>6, <3>4, <3>5 DEF Increasing
    <3>7. allA[1] = A[1]
      BY <1>4, <3>1
    <3>8. Last(A) <= Last(allA)
      BY <3>1, <3>3, <3>6
    <3>. QED BY <3>2, <3>7, <3>8
  <2>3. \A i \in 1..Skipped : allG[i] < allA[1]
    <3>. SUFFICES ASSUME NEW i \in 1..Skipped PROVE allG[i] < allA[1]
      OBVIOUS
    <3>1. i \in 1..Len(G) /\ Done > 0
      BY <1>2
    <3>. QED BY <1>4, <2>1, <2>2, <3>1
  <2>4. ASSUME NEW i \in 1..Len(imuQueue)
        PROVE  /\ allA[1] <= allG[Skipped + i] /\ allG[Skipped + i] <= Last(allA)
               /\ Same(imuQueue[i], Reference(allA, allG[Skipped + i]))
    <3>. DEFINE t == G[Skipped + i]
    <3>1. Skipped + i \in 1..Len(G) /\ Done > 0
      BY <1>2
    <3>2. allG[Skipped + i] = t /\ t \in Time /\ t \in Nat /\ A # <<>>
      BY <1>2, <1>4, <2>1, <3>1, RowsAreTimes
    <3>3. A[1] <= t /\ t <= Last(A) /\ Same(imuQueue[i], Reference(A, t))
      BY <2>1
    <3>4. imuQueue[i] \in ImuRow
      BY <1>2
    <3>. HIDE DEF t
    <3>5. Same(imuQueue[i], Reference(allA, t))
      BY <1>1, <1>2, <1>6, <3>2, <3>3, <3>4, SameLater DEF allA
    <3>6. t <= Last(allA)
      <4>1. Last(A) \in Nat /\ Last(allA) \in Nat
        <5>1. Len(A) \in 1..Len(A) /\ Len(allA) \in 1..Len(allA)
          <6>1. A # <<>> /\ allA # <<>>
            BY <2>2, <3>2
          <6>2. Len(A) > 0 /\ Len(A) \in Nat
            BY <1>2, <6>1, RowsAreTimes
          <6>3. Len(allA) > 0 /\ Len(allA) \in Nat
            BY <1>4, <6>1, RowsAreTimes
          <6>. QED BY <6>2, <6>3
        <5>. QED BY <1>2, <1>4, <2>2, <3>2, <5>1, RowsAreTimes
      <4>. QED BY <2>2, <3>2, <3>3, <4>1
    <3>. QED BY <2>2, <3>2, <3>3, <3>5, <3>6
  <2>5. Len(imuQueue) <= Done /\ Done <= Len(allG) /\ (Done > 0 => allA # <<>>)
    BY <1>2, <1>4, <2>1, <2>2
  <2>. QED BY <1>3, <1>7, <2>3, <2>4, <2>5 DEF PairedAsRecorded
<1>. QED BY <1>8, <1>9, <1>10 DEF PairingSound

\* A gyroscope row is dropped only before the first acceleration, and otherwise
\* leaves with the acceleration that all the rows received give it.
LEMMA PairRowSound == ASSUME PairingSound, PairRow PROVE PairingSound'
<1>. DEFINE A == received.accel
            G == received.gyro
            t == gyroQueue[1]
            gone == Len(received.accel) - Len(accelQueue)
<1>1. /\ A \in Seq(Time) /\ G \in Seq(Time)
      /\ accelQueue \in Seq(Time) /\ gyroQueue \in Seq(Time) /\ imuQueue \in Seq(ImuRow)
      /\ Len(A) \in Nat /\ Len(G) \in Nat
      /\ Len(accelQueue) \in Nat /\ Len(gyroQueue) \in Nat /\ Len(imuQueue) \in Nat
      /\ Done \in Nat /\ Done <= Len(G) /\ Len(imuQueue) <= Done
      /\ Skipped \in Nat /\ Skipped + Len(imuQueue) = Done
      /\ Len(gyroQueue) = Len(G) - Done
  BY PairingValues
<1>2. /\ gyroQueue # <<>> /\ accelQueue # <<>> /\ Last(accelQueue) >= t
      /\ gyroQueue' = Tail(gyroQueue) /\ received' = received /\ pairing' = pairing
      /\ pairing = "pairing"
  BY DEF PairRow, Reached
<1>3. /\ Len(accelQueue) <= QueueLimit /\ Len(gyroQueue) <= QueueLimit
      /\ Increasing(A) /\ Increasing(G)
      /\ Len(accelQueue) <= Len(A) /\ Len(gyroQueue) <= Len(G)
      /\ \A i \in 1..Len(accelQueue) : accelQueue[i] = A[gone + i]
      /\ gone > 0 => Done > 0 /\ accelQueue[1] <= G[Done]
      /\ \A i \in 1..Len(gyroQueue) : gyroQueue[i] = G[Done + i]
  BY DEF PairingSound, QueuesHold
<1>4. /\ Done > 0 => A # <<>>
      /\ \A i \in 1..Skipped : G[i] < A[1]
      /\ \A i \in 1..Len(imuQueue) :
            /\ A[1] <= G[Skipped + i] /\ G[Skipped + i] <= Last(A)
            /\ Same(imuQueue[i], Reference(A, G[Skipped + i]))
  BY DEF PairingSound, PairedAsRecorded
<1>5. /\ Len(gyroQueue) > 0 /\ Len(accelQueue) > 0 /\ A # <<>>
      /\ Done + 1 \in 1..Len(G) /\ t = G[Done + 1] /\ t \in Time /\ t \in Nat
      /\ gone \in Nat /\ gone + Len(accelQueue) = Len(A)
  <2>1. Len(gyroQueue) > 0 /\ Len(accelQueue) > 0
    BY <1>1, <1>2, RowsAreTimes
  <2>2. 1 \in 1..Len(gyroQueue) /\ Done + 1 \in 1..Len(G)
    BY <1>1, <2>1
  <2>3. gone \in Nat /\ gone + Len(accelQueue) = Len(A)
    BY <1>1, <1>3
  <2>4. A # <<>>
    BY <1>1, <2>1, <2>3
  <2>5. t \in Time /\ t \in Nat
    BY <1>1, <2>2, RowsAreTimes
  <2>. QED BY <1>3, <2>1, <2>2, <2>3, <2>4, <2>5
<1>6. /\ gyroQueue' \in Seq(Time) /\ Len(gyroQueue') = Len(gyroQueue) - 1
      /\ \A i \in 1..Len(gyroQueue') : gyroQueue'[i] = G[Done + 1 + i]
  <2>1. /\ gyroQueue' \in Seq(Time) /\ Len(gyroQueue') = Len(gyroQueue) - 1
        /\ \A i \in 1..Len(gyroQueue') : gyroQueue'[i] = gyroQueue[i + 1]
    BY <1>1, <1>2
  <2>2. ASSUME NEW i \in 1..Len(gyroQueue') PROVE gyroQueue'[i] = G[Done + 1 + i]
    <3>1. i + 1 \in 1..Len(gyroQueue) /\ Done + (i + 1) = Done + 1 + i
      BY <1>1, <2>1
    <3>. QED BY <1>3, <2>1, <3>1
  <2>. QED BY <2>1, <2>2
<1>7. Done' = Done + 1
  BY <1>1, <1>2, <1>6 DEF Done
<1>8. Len(gyroQueue') <= QueueLimit /\ Len(gyroQueue') <= Len(G)
  BY <1>1, <1>3, <1>6, PairingAssumption
<1>9. Last(A) \in Nat /\ A[1] \in Nat /\ Last(A) = A[Len(A)] /\ Last(accelQueue) = Last(A)
      /\ accelQueue[1] \in Nat
  <2>1. Len(A) \in 1..Len(A) /\ 1 \in 1..Len(A) /\ Len(accelQueue) \in 1..Len(accelQueue)
        /\ 1 \in 1..Len(accelQueue)
    BY <1>1, <1>5
  <2>2. Last(A) = A[Len(A)] /\ Last(accelQueue) = accelQueue[Len(accelQueue)]
    BY <1>2, <1>5 DEF Last
  <2>3. accelQueue[Len(accelQueue)] = A[Len(A)]
    <3>. HIDE DEF gone
    <3>. QED BY <1>3, <1>5, <2>1
  <2>. QED BY <1>1, <2>1, <2>2, <2>3, RowsAreTimes
<1>. HIDE DEF gone, t
<1>10. CASE t < accelQueue[1]
  <2>1. accelQueue' = accelQueue /\ imuQueue' = imuQueue
    BY <1>10 DEF PairRow, t
  <2>2. ~(gone > 0)
    <3>. SUFFICES ASSUME gone > 0 PROVE FALSE
      OBVIOUS
    <3>1. Done \in 1..Len(G) /\ Done < Done + 1 /\ accelQueue[1] <= G[Done]
      BY <1>1, <1>3
    <3>2. G[Done] < t /\ G[Done] \in Nat
      BY <1>1, <1>3, <1>5, <3>1, RowsAreTimes DEF Increasing
    <3>3. t \in Nat /\ accelQueue[1] \in Nat
      BY <1>5, <1>9
    <3>. QED BY <1>10, <3>1, <3>2, <3>3
  <2>3. t < A[1]
    <3>1. gone = 0 /\ 1 \in 1..Len(accelQueue)
      BY <1>1, <1>5, <2>2
    <3>. QED BY <1>3, <1>10, <3>1
  <2>4. Len(imuQueue) = 0
    <3>. SUFFICES ASSUME Len(imuQueue) > 0 PROVE FALSE
      BY <1>1
    <3>1. Len(imuQueue) \in 1..Len(imuQueue) /\ Skipped + Len(imuQueue) = Done
          /\ Done \in 1..Len(G) /\ Done < Done + 1
      BY <1>1
    <3>2. A[1] <= G[Done]
      BY <1>4, <3>1
    <3>3. G[Done] < t /\ G[Done] \in Nat
      BY <1>1, <1>3, <1>5, <3>1, RowsAreTimes DEF Increasing
    <3>4. A[1] \in Nat /\ t \in Nat
      BY <1>5, <1>9
    <3>. QED BY <2>3, <3>2, <3>3, <3>4
  <2>5. Skipped' = Done + 1 /\ Skipped = Done
    BY <1>1, <1>7, <2>1, <2>4 DEF Skipped
  <2>6. \A i \in 1..(Done + 1) : G[i] < A[1]
    <3>. SUFFICES ASSUME NEW i \in 1..(Done + 1) PROVE G[i] < A[1]
      OBVIOUS
    <3>1. i \in 1..Skipped \/ i = Done + 1
      BY <1>1, <2>5
    <3>. QED BY <1>4, <1>5, <2>3, <3>1
  <2>7. PairedAsRecorded'
    <3>1. Len(imuQueue') <= Done + 1 /\ Done + 1 <= Len(G) /\ Len(imuQueue') = 0
      BY <1>1, <1>5, <2>1, <2>4
    <3>. QED BY <1>2, <1>5, <1>7, <2>5, <2>6, <3>1 DEF PairedAsRecorded
  <2>8. QueuesHold'
    <3>1. ~(Len(A) - Len(accelQueue) > 0)
      BY <2>2 DEF gone
    <3>. QED BY <1>2, <1>3, <1>6, <1>7, <1>8, <2>1, <3>1 DEF QueuesHold, gone
  <2>9. PairingTypeOK'
    BY <1>2, <1>6, <2>1 DEF PairingSound, PairingTypeOK
  <2>. QED BY <2>7, <2>8, <2>9 DEF PairingSound
<1>11. CASE ~(t < accelQueue[1])
  <2>1. accelQueue[1] <= t
    BY SMTT(30), <1>5, <1>9, <1>11
  <2>2. Increasing(accelQueue)
    <3>. SUFFICES ASSUME NEW i \in 1..Len(accelQueue), NEW j \in 1..Len(accelQueue), i < j
                  PROVE  accelQueue[i] < accelQueue[j]
      BY DEF Increasing
    <3>1. gone + i \in 1..Len(A) /\ gone + j \in 1..Len(A) /\ gone + i < gone + j
      BY SMTT(30), <1>1, <1>5
    <3>2. A[gone + i] < A[gone + j]
      BY <1>3, <3>1 DEF Increasing
    <3>. QED BY <1>3, <3>2
  <2>3. PICK k \in 1..Len(accelQueue) :
          /\ Falls(accelQueue, t, k)
          /\ Cut(accelQueue, t) = SubSeq(accelQueue, k, Len(accelQueue))
    BY <1>1, <1>2, <1>5, <2>1, <2>2, FallsSomewhere
  <2>. DEFINE cut == SubSeq(accelQueue, k, Len(accelQueue))
              row == Interpolated(t, cut[1], IF Len(cut) >= 2 THEN cut[2] ELSE cut[1])
  <2>4. accelQueue' = cut /\ imuQueue' = Append(imuQueue, row)
    BY <1>11, <2>3 DEF PairRow, t
  <2>5. /\ cut \in Seq(Time) /\ Len(cut) = Len(accelQueue) - k + 1
        /\ \A i \in 1..Len(cut) : cut[i] = accelQueue[k + i - 1]
    <3>1. k \in Nat /\ 1 <= k /\ k <= Len(accelQueue)
      BY <1>1
    <3>. QED BY <1>1, <3>1
  <2>. HIDE DEF cut
  <2>6. /\ k \in Nat /\ k >= 1 /\ Len(cut) >= 1 /\ Len(cut) \in Nat
        /\ cut[1] = accelQueue[k]
        /\ Len(cut) >= 2 <=> k < Len(accelQueue)
        /\ k < Len(accelQueue) => cut[2] = accelQueue[k + 1]
    <3>1. /\ k \in Nat /\ k >= 1 /\ k <= Len(accelQueue)
          /\ Len(cut) >= 1 /\ Len(cut) \in Nat /\ 1 \in 1..Len(cut)
          /\ Len(cut) >= 2 <=> k < Len(accelQueue)
          /\ k < Len(accelQueue) => 2 \in 1..Len(cut)
          /\ k + 1 - 1 = k /\ k + 2 - 1 = k + 1
      BY <1>1, <2>5
    <3>. QED BY <2>5, <3>1
  <2>. DEFINE place == gone + k
  <2>7. /\ place \in 1..Len(A) /\ A[place] = accelQueue[k]
        /\ place < Len(A) <=> k < Len(accelQueue)
        /\ k < Len(accelQueue) => A[place + 1] = accelQueue[k + 1]
    <3>1. /\ place \in 1..Len(A)
          /\ place < Len(A) <=> k < Len(accelQueue)
          /\ k < Len(accelQueue) => k + 1 \in 1..Len(accelQueue)
          /\ place + 1 = gone + (k + 1)
      <4>1. /\ Len(accelQueue) \in Nat /\ gone \in Nat /\ gone + Len(accelQueue) = Len(A)
            /\ k \in Nat /\ 1 <= k /\ k <= Len(accelQueue) /\ Len(A) \in Nat
        BY <1>1, <1>5
      <4>. HIDE DEF A
      <4>. QED BY <4>1
    <3>. QED BY <1>3, <3>1
  <2>. HIDE DEF place
  <2>8. Falls(A, t, place)
    BY <2>3, <2>7 DEF Falls
  <2>9. row = Reference(A, t)
    <3>1. Reference(A, t) = Interpolated(t, A[place], IF place < Len(A) THEN A[place + 1]
                                                     ELSE A[place])
      BY <1>1, <1>3, <1>5, <2>7, <2>8, ReferenceIs
    <3>. QED BY <2>6, <2>7, <3>1
  <2>10. row \in ImuRow
    <3>1. /\ accelQueue[k] \in Nat /\ accelQueue[k] <= t
          /\ k < Len(accelQueue) => accelQueue[k + 1] \in Nat /\ t < accelQueue[k + 1]
      <4>1. k < Len(accelQueue) => k + 1 \in 1..Len(accelQueue)
        BY <1>1, <2>6
      <4>. QED BY <1>1, <2>3, <4>1, RowsAreTimes DEF Falls
    <3>2. \A x \in Nat : Acceleration(x) \in Nat
      BY DEF Acceleration
    <3>3. CASE k < Len(accelQueue)
      <4>. DEFINE t0 == accelQueue[k]
                  t1 == accelQueue[k + 1]
      <4>0. t0 \in Nat /\ t1 \in Nat /\ t \in Nat /\ t0 <= t /\ t < t1
        BY <1>5, <3>1, <3>3
      <4>2. row = Interpolated(t, t0, t1)
        BY <2>6, <3>3
      <4>. HIDE DEF t0, t1
      <4>1. t1 - t \in Nat /\ t - t0 \in Nat /\ t1 - t0 \in Nat /\ t1 # t0
        BY <4>0
      <4>3. Acceleration(t0) * (t1 - t) + Acceleration(t1) * (t - t0) \in Nat
        <5>1. Acceleration(t0) \in Nat /\ Acceleration(t1) \in Nat
          BY <3>2, <4>0
        <5>2. \A a, b, c, d \in Nat : a * b + c * d \in Nat
          OBVIOUS
        <5>. QED BY <4>1, <5>1, <5>2
      <4>4. row = [at |-> t, parts |-> t1 - t0,
                   value |-> Acceleration(t0) * (t1 - t) + Acceleration(t1) * (t - t0)]
        <5>. HIDE DEF row
        <5>. QED BY <4>1, <4>2 DEF Interpolated
      <4>. HIDE DEF row
      <4>. QED BY <4>0, <4>1, <4>3, <4>4 DEF ImuRow
    <3>4. CASE ~(k < Len(accelQueue))
      <4>1. row = Interpolated(t, accelQueue[k], accelQueue[k])
        BY <2>6, <3>4
      <4>2. row = [at |-> t, value |-> Acceleration(accelQueue[k]), parts |-> 1]
        <5>. HIDE DEF row
        <5>. QED BY <4>1 DEF Interpolated
      <4>3. Acceleration(accelQueue[k]) \in Nat /\ t \in Nat
        BY <1>5, <3>1, <3>2
      <4>. HIDE DEF row
      <4>. QED BY <4>2, <4>3 DEF ImuRow
    <3>. QED BY <3>3, <3>4
  <2>11. Same(row, Reference(A, t))
    BY <2>9 DEF Same
  <2>. HIDE DEF row
  <2>12. /\ imuQueue' \in Seq(ImuRow) /\ Len(imuQueue') = Len(imuQueue) + 1
         /\ imuQueue'[Len(imuQueue) + 1] = row
         /\ \A i \in 1..Len(imuQueue) : imuQueue'[i] = imuQueue[i]
    BY <1>1, <2>4, <2>10
  <2>13. Skipped' = Skipped
    BY <1>1, <1>7, <2>12 DEF Skipped
  <2>14. A[1] <= t /\ t <= Last(A)
    <3>1. t <= Last(A)
      BY <1>2, <1>5, <1>9 DEF t
    <3>2. A[1] <= A[place]
      <4>1. place = 1 \/ 1 < place
        BY <1>1, <2>7
      <4>2. 1 \in 1..Len(A) /\ A[place] \in Nat
        BY <1>1, <2>7, RowsAreTimes
      <4>. QED BY <1>3, <1>9, <2>7, <4>1, <4>2 DEF Increasing
    <3>3. A[place] <= t /\ A[place] \in Nat
      BY <1>1, <2>7, <2>8, RowsAreTimes DEF Falls
    <3>4. A[1] \in Nat /\ t \in Nat
      BY <1>5, <1>9
    <3>. QED BY <3>1, <3>2, <3>3, <3>4
  <2>15. PairedAsRecorded'
    <3>1. ASSUME NEW i \in 1..Len(imuQueue')
          PROVE  /\ A[1] <= G[Skipped + i] /\ G[Skipped + i] <= Last(A)
                 /\ Same(imuQueue'[i], Reference(A, G[Skipped + i]))
      <4>1. CASE i \in 1..Len(imuQueue)
        BY <1>4, <2>12, <4>1
      <4>2. CASE i = Len(imuQueue) + 1
        <5>1. Skipped + i = Done + 1
          BY <1>1, <4>2
        <5>. QED BY <1>5, <2>11, <2>12, <2>14, <4>2, <5>1
      <4>. QED BY <1>1, <2>12, <4>1, <4>2
    <3>2. Len(imuQueue') <= Done + 1 /\ Done + 1 <= Len(G)
      BY <1>1, <1>5, <2>12
    <3>. QED BY <1>2, <1>4, <1>5, <1>7, <2>13, <3>1, <3>2 DEF PairedAsRecorded
  <2>16. QueuesHold'
    <3>. DEFINE left == Len(A) - Len(accelQueue')
    <3>1. Len(accelQueue') = Len(cut) /\ accelQueue' = cut
      BY <2>4
    <3>2. left = gone + k - 1 /\ left \in Nat
      <4>1. /\ Len(accelQueue) \in Nat /\ gone \in Nat /\ gone + Len(accelQueue) = Len(A)
            /\ k \in Nat /\ 1 <= k /\ k <= Len(accelQueue) /\ Len(A) \in Nat
            /\ Len(accelQueue') = Len(accelQueue) - k + 1
        BY <1>1, <1>5, <2>5, <3>1
      <4>. HIDE DEF A
      <4>. QED BY <4>1
    <3>. HIDE DEF left
    <3>3. ASSUME NEW i \in 1..Len(accelQueue') PROVE accelQueue'[i] = A[left + i]
      <4>1. /\ k + i - 1 \in 1..Len(accelQueue)
            /\ left + i = gone + (k + i - 1)
        BY <1>1, <1>5, <2>5, <2>6, <3>1, <3>2
      <4>. QED BY <1>3, <2>5, <3>1, <4>1
    <3>4. accelQueue' # <<>>
      BY <2>6, <3>1
    <3>5. Done + 1 > 0 /\ accelQueue'[1] <= G[Done + 1]
      <4>1. accelQueue[k] <= t
        BY <2>3 DEF Falls
      <4>. QED BY <1>1, <1>5, <2>6, <3>1, <4>1
    <3>6. Len(accelQueue') <= QueueLimit /\ Len(accelQueue') <= Len(A)
      <4>1. Len(cut) <= Len(accelQueue)
        BY <1>1, <2>5, <2>6
      <4>. QED BY <1>1, <1>3, <2>6, <3>1, <4>1, PairingAssumption
    <3>. QED BY <1>2, <1>3, <1>6, <1>7, <1>8, <3>3, <3>4, <3>5, <3>6 DEF QueuesHold, left
  <2>17. PairingTypeOK'
    BY <1>1, <1>2, <1>6, <2>4, <2>5, <2>12 DEF PairingSound, PairingTypeOK
  <2>. QED BY <2>15, <2>16, <2>17 DEF PairingSound
<1>. QED BY <1>10, <1>11

\* The thread goes back to reading when the accelerometer is behind.
LEMMA PairingDoneSound == ASSUME PairingSound, PairingDone PROVE PairingSound'
<1>1. /\ accelQueue' = accelQueue /\ gyroQueue' = gyroQueue /\ imuQueue' = imuQueue
      /\ received' = received /\ pairing' = "reading" /\ ~Reached
  BY DEF PairingDone
<1>2. PairingTypeOK' /\ QueuesHold' /\ Done' = Done /\ Skipped' = Skipped
  BY <1>1 DEF PairingSound, PairingTypeOK, QueuesHold, Done, Skipped
<1>3. ASSUME received.accel # <<>>, NEW i \in (Done + 1)..Len(received.gyro)
      PROVE  Last(received.accel) < received.gyro[i]
  <2>. DEFINE A == received.accel
              G == received.gyro
              gone == Len(received.accel) - Len(accelQueue)
  <2>1. /\ A \in Seq(Time) /\ G \in Seq(Time)
        /\ accelQueue \in Seq(Time) /\ gyroQueue \in Seq(Time)
        /\ Len(A) \in Nat /\ Len(G) \in Nat
        /\ Len(accelQueue) \in Nat /\ Len(gyroQueue) \in Nat /\ Done \in Nat
        /\ Len(gyroQueue) = Len(G) - Done
    BY PairingValues
  <2>2. /\ accelQueue # <<>> /\ Increasing(G)
        /\ \A j \in 1..Len(accelQueue) : accelQueue[j] = A[gone + j]
        /\ \A j \in 1..Len(gyroQueue) : gyroQueue[j] = G[Done + j]
    BY <1>3 DEF PairingSound, QueuesHold
  <2>3. 1 \in 1..Len(gyroQueue) /\ gyroQueue # <<>> /\ Done + 1 \in 1..Len(G)
        /\ i \in 1..Len(G)
    BY <2>1
  <2>4. gyroQueue[1] = G[Done + 1] /\ G[Done + 1] \in Nat /\ G[i] \in Nat
    BY <2>1, <2>2, <2>3, RowsAreTimes
  <2>5. Len(accelQueue) \in 1..Len(accelQueue) /\ gone + Len(accelQueue) = Len(A)
        /\ Len(A) > 0
    BY <1>3, <2>1, <2>2, RowsAreTimes
  <2>6. Last(accelQueue) = Last(A) /\ Last(A) \in Nat
    <3>1. accelQueue[Len(accelQueue)] = A[Len(A)]
      <4>. HIDE DEF gone
      <4>. QED BY <2>2, <2>5
    <3>. QED BY <1>3, <2>1, <2>2, <2>5, <3>1, RowsAreTimes
  <2>7. Last(A) < G[Done + 1]
    BY <1>1, <2>2, <2>3, <2>4, <2>6 DEF Reached
  <2>8. i = Done + 1 \/ Done + 1 < i
    BY <2>1
  <2>. QED BY <2>2, <2>3, <2>4, <2>6, <2>7, <2>8 DEF Increasing
<1>4. PairedAsRecorded'
  BY <1>1, <1>2, <1>3 DEF PairingSound, PairedAsRecorded
<1>. QED BY <1>2, <1>4 DEF PairingSound

\* A thread that has thrown pairs no more, and the next begins without rows.
LEMMA PairingFailsSound == ASSUME PairingSound, PairingFails PROVE PairingSound'
  BY DEF PairingSound, PairingFails, PairingTypeOK, PairedAsRecorded, QueuesHold, Done, Skipped

LEMMA PairingStays == ASSUME PairingSound, UNCHANGED pairingVars PROVE PairingSound'
  BY DEF PairingSound, pairingVars, PairingTypeOK, PairedAsRecorded, QueuesHold, Done, Skipped

LEMMA PairingStarts == PairingInit => PairingSound
<1>. SUFFICES ASSUME PairingInit PROVE PairingSound
  OBVIOUS
<1>1. PairingTypeOK
  BY DEF PairingInit, PairingTypeOK
<1>2. /\ received.accel = <<>> /\ received.gyro = <<>> /\ accelQueue = <<>> /\ gyroQueue = <<>>
      /\ imuQueue = <<>> /\ Len(<<>>) = 0
  BY DEF PairingInit
<1>3. Done = 0 /\ Skipped = 0
  <2>1. Len(received.gyro) = 0 /\ Len(gyroQueue) = 0 /\ Len(imuQueue) = 0
    BY <1>2
  <2>. QED BY <2>1 DEF Done, Skipped
<1>4. QueuesHold /\ PairedAsRecorded
  BY <1>2, <1>3, PairingAssumption DEF QueuesHold, PairedAsRecorded, Increasing
<1>. QED BY <1>1, <1>4 DEF PairingSound

LEMMA ThreadEndsSound == ThreadEnds => PairingSound'
<1>. SUFFICES ASSUME ThreadEnds PROVE PairingSound'
  OBVIOUS
<1>1. PairingTypeOK'
  BY DEF ThreadEnds, PairingTypeOK
<1>2. /\ received'.accel = <<>> /\ received'.gyro = <<>> /\ accelQueue' = <<>>
      /\ gyroQueue' = <<>> /\ imuQueue' = <<>> /\ Len(<<>>) = 0
  BY DEF ThreadEnds
<1>3. Done' = 0 /\ Skipped' = 0
  <2>1. Len(received'.gyro) = 0 /\ Len(gyroQueue') = 0 /\ Len(imuQueue') = 0
    BY <1>2
  <2>. QED BY <2>1 DEF Done, Skipped
<1>4. QueuesHold' /\ PairedAsRecorded'
  BY <1>2, <1>3, PairingAssumption DEF QueuesHold, PairedAsRecorded, Increasing
<1>. QED BY <1>1, <1>4 DEF PairingSound

\* Each turn of the thread.  (imu_thread)
LEMMA PairingStep == ASSUME PairingSound, ReadImu PROVE PairingSound'
  BY ReadRowsSound, PairRowSound, PairingDoneSound, PairingFailsSound DEF ReadImu

-----------------------------------------------------------------------------
\* The other variables of the devices.
LEMMA DriverStep ==
    ASSUME driver \in Driver \cup {NoDriver}, DOMAIN format = DOMAIN NoFormat,
           ConstructImu \/ DisableImu \/ Destroy \/ OtherProgram
    PROVE  driver' \in Driver \cup {NoDriver} /\ DOMAIN format' = DOMAIN NoFormat
<1>1. driver' \in Driver \cup {NoDriver}
  BY DEF ConstructImu, Throws, Discover, CheckIdle, CheckGravity, Prepare, PrepareThrows,
         ConfigureDevice, Enable, DisableImu, DisableNext, DisableDone, Destroy, OtherProgram
<1>2. format' = format \/ format' = NoFormat \/ ConfigureDevice
  BY DEF ConstructImu, Throws, Discover, CheckIdle, CheckGravity, Prepare, PrepareThrows,
         Enable, DisableImu, DisableNext, DisableDone, Destroy, OtherProgram
<1>3. ConfigureDevice => DOMAIN format' = DOMAIN NoFormat
  <2>. SUFFICES ASSUME ConfigureDevice PROVE DOMAIN format' = DOMAIN NoFormat
    OBVIOUS
  <2>. DEFINE offsets == Layout(driver.scan).offsets
              bytes == RoundUp(Layout(driver.scan).end, 8)
              scale == SelectScale(driver.scales)
  <2>1. format' = [offsets |-> offsets, bytes |-> bytes, scale |-> scale]
    BY DEF ConfigureDevice, FormatOf
  <2>. HIDE DEF offsets, bytes, scale
  <2>. QED BY <2>1 DEF NoFormat
<1>. QED BY <1>1, <1>2, <1>3

\* The invariant is what it says of the devices, of the selection and of the order
\* of a capture.
Capture == [at : Step, attempts : 1..MaxAttempts]

DriverTypeOK == driver \in Driver \cup {NoDriver} /\ DOMAIN format = DOMAIN NoFormat

LEMMA ReleasedIs ==
    SensorsAreReleased <=> /\ capture \in Capture /\ DriverTypeOK
                           /\ DevicesInv /\ SelectTypeOK /\ CameraInUse /\ HeldWhileUsed
  BY DevicesAreReleased
     DEF SensorsAreReleased, SetupTypeOK, ImuTypeOK, DevicesInv, Capture, DriverTypeOK

LEMMA ReleasedIsNext ==
    SensorsAreReleased' <=> /\ capture' \in Capture /\ DriverTypeOK'
                            /\ DevicesInv' /\ SelectTypeOK' /\ CameraInUse' /\ HeldWhileUsed'
<1>1. DevicesInv' => NothingLeftOn' /\ ConfiguredBeforeEnabled'
  BY DEF DevicesInv, NothingLeftOn, ConfiguredBeforeEnabled, OwnAreOwed, LoopsInOrder
<1>. QED BY <1>1 DEF SensorsAreReleased, SetupTypeOK, ImuTypeOK, DevicesInv, Capture, DriverTypeOK

LEMMA SensorsInit == SetupInit => SensorsAreReleased
<1>. SUFFICES ASSUME SetupInit PROVE SensorsAreReleased
  OBVIOUS
<1>1. DevicesInv
  <2>1. imu \in Object /\ imu.at = "none" /\ imu.next = 1 /\ imu.buffers = 0
        /\ imu.foundOn = {} /\ imu.taken = {}
    <3>1. {} \in SUBSET Device
      OBVIOUS
    <3>. QED BY <3>1, NewObject DEF SetupInit, ImuInit, NewImu
  <2>2. buffer = [d \in Device |-> "off"]
    BY DEF SetupInit, ImuInit
  <2>. QED BY <2>1, <2>2
         DEF DevicesInv, OwnAreOwed, LoopsInOrder, RefusedAtOnce, FoundOnUntouched
<1>2. SelectTypeOK /\ ~sensor.runs /\ select.at = "none"
  BY NewSelections DEF SetupInit, ExposureInit, SelectTypeOK, NewSelect, Stopped, View, Dark
<1>3. capture \in Capture /\ capture.at = "selecting"
  <2>. 1 \in 1..MaxAttempts
    BY AttemptAssumption
  <2>. QED BY DEF SetupInit, Capture, Step
<1>4. imu.at = "none" /\ DriverTypeOK
  BY DEF SetupInit, ImuInit, NewImu, DriverTypeOK
<1>. QED BY <1>1, <1>2, <1>3, <1>4, ReleasedIs DEF CameraInUse, HeldWhileUsed

\* The kernel takes nothing of ours over.
LEMMA KilledKeeps ==
    ASSUME SensorsAreReleased, Killed PROVE SensorsAreReleased'
<1>1. DevicesInv'
  <2>1. imu' \in Object /\ imu'.at = "none" /\ imu'.next = 1 /\ imu'.buffers = 0
        /\ imu'.foundOn = {} /\ imu'.taken = {}
    <3>1. {} \in SUBSET Device
      OBVIOUS
    <3>. QED BY <3>1, NewObject DEF Killed, NewImu
  <2>2. buffer' \in [Device -> {"off", "own", "other"}] /\ \A d \in Device : buffer'[d] # "own"
    <3>1. buffer \in [Device -> {"off", "own", "other"}]
      BY ReleasedIs DEF DevicesInv
    <3>. QED BY <3>1 DEF Killed
  <2>. QED BY <2>1, <2>2
         DEF DevicesInv, OwnAreOwed, LoopsInOrder, RefusedAtOnce, FoundOnUntouched
<1>2. SelectTypeOK' /\ ~sensor'.runs /\ select'.at = "none"
  BY NewSelections DEF Killed, SelectTypeOK, NewSelect, Stopped, View, Dark
<1>3. capture' \in Capture /\ capture'.at = "released"
  BY ReleasedIs DEF Killed, Goto, Capture, Step
<1>4. imu'.at = "none" /\ DriverTypeOK'
  BY DEF Killed, NewImu, DriverTypeOK
<1>. QED BY <1>1, <1>2, <1>3, <1>4, ReleasedIsNext DEF CameraInUse, HeldWhileUsed

\* Where a step of the main thread leads.
LEMMA GotoStep ==
    ASSUME capture \in Capture, NEW place \in Step, Goto(place)
    PROVE  capture' \in Capture /\ capture'.at = place
  BY DEF Goto, Capture

LEMMA SensorsStep ==
    ASSUME SensorsAreReleased, ExposureIsSound, [SetupNext]_setupVars
    PROVE  SensorsAreReleased'
<1>0. /\ capture \in Capture /\ DriverTypeOK
      /\ DevicesInv /\ SelectTypeOK /\ CameraInUse /\ HeldWhileUsed
  BY ReleasedIs
<1>. DEFINE Still == buffer' = buffer /\ driver' = driver /\ imu' = imu /\ format' = format
<1>1. ASSUME Still PROVE DevicesInv' /\ DriverTypeOK'
  BY <1>0, <1>1 DEF DevicesInv, OwnAreOwed, LoopsInOrder, RefusedAtOnce, FoundOnUntouched,
                    DriverTypeOK
<1>2. ASSUME ConstructImu \/ DisableImu \/ Destroy \/ OtherProgram
      PROVE  DevicesInv' /\ DriverTypeOK'
  BY <1>0, <1>2, DevicesStep, DriverStep DEF DriverTypeOK
<1>3. ASSUME select' = select, sensor' = sensor PROVE SelectTypeOK'
  BY <1>0, <1>3 DEF SelectTypeOK
<1>4. CASE UNCHANGED setupVars
  <2>1. Still /\ select' = select /\ sensor' = sensor /\ capture' = capture
    BY <1>4 DEF setupVars, deviceVars, exposureVars
  <2>. QED BY <1>0, <1>1, <1>3, <2>1, ReleasedIsNext DEF CameraInUse, HeldWhileUsed
<1>5. CASE SelectExposure
  <2>1. Still /\ capture' = capture /\ capture.at = "selecting" /\ SelectStep
    BY <1>5 DEF SelectExposure, deviceVars
  <2>2. SelectTypeOK' /\ (sensor'.runs => select'.at = "probing")
    BY <1>0, <2>1, SelectionStep DEF CameraInUse, Sound
  <2>. QED BY <1>0, <1>1, <2>1, <2>2, ReleasedIsNext DEF CameraInUse, HeldWhileUsed
<1>6. CASE Selected
  <2>1. Still /\ sensor' = sensor /\ ~sensor.runs /\ select' = NewSelect /\ imu.at = "none"
    BY <1>0, <1>6 DEF Selected, deviceVars, CameraInUse, HeldWhileUsed
  <2>2. capture' \in Capture /\ capture'.at \in {"preparing", "released"}
    BY <1>0, <1>6, GotoStep DEF Selected, Step
  <2>3. SelectTypeOK' /\ select'.at = "none"
    BY <1>0, <2>1, NewSelections DEF SelectTypeOK, NewSelect
  <2>. QED BY <1>1, <2>1, <2>2, <2>3, ReleasedIsNext DEF CameraInUse, HeldWhileUsed
<1>7. CASE PrepareRecording
  <2>1. Still /\ sensor' = sensor /\ select' = select /\ imu.at = "none" /\ select.at = "none"
        /\ ~sensor.runs
    BY <1>0, <1>7 DEF PrepareRecording, deviceVars, exposureVars, HeldWhileUsed, CameraInUse
  <2>2. capture' \in Capture /\ capture'.at \in {"constructing", "released"}
    BY <1>0, <1>7, GotoStep DEF PrepareRecording, Step
  <2>. QED BY <1>1, <1>3, <2>1, <2>2, ReleasedIsNext DEF CameraInUse, HeldWhileUsed
<1>8. CASE ConstructDevices
  <2>1. /\ capture' = capture /\ capture.at = "constructing" /\ sensor' = sensor
        /\ select' = select /\ (ConstructImu \/ DisableImu)
    BY <1>8 DEF ConstructDevices, exposureVars
  <2>2. imu'.at # "releasing"
    BY <1>0, <2>1, DevicesMove DEF HeldWhileUsed
  <2>. QED BY <1>0, <1>2, <1>3, <2>1, <2>2, ReleasedIsNext DEF CameraInUse, HeldWhileUsed
<1>9. CASE Constructed
  <2>1. capture.at = "constructing" /\ sensor' = sensor /\ select' = select
        /\ select.at = "none" /\ ~sensor.runs
    BY <1>0, <1>9 DEF Constructed, exposureVars, HeldWhileUsed, CameraInUse
  <2>2. CASE imu.at = "held" /\ Goto("saving") /\ UNCHANGED deviceVars
    <3>1. Still /\ capture' \in Capture /\ capture'.at = "saving"
      BY <1>0, <2>2, GotoStep DEF deviceVars, Step
    <3>. QED BY <1>1, <1>3, <2>1, <2>2, <3>1, ReleasedIsNext DEF CameraInUse, HeldWhileUsed
  <2>3. CASE /\ imu.at = "failed" /\ Goto("released")
             /\ imu' = [imu EXCEPT !.at = "none"]
             /\ UNCHANGED <<buffer, driver, format>>
    <3>1. capture' \in Capture /\ capture'.at = "released"
      BY <1>0, <2>3, GotoStep DEF Step
    <3>2. imu' \in Object
      BY <1>0, <2>3, ObjectTypes DEF DevicesInv, ImuPlace
    <3>3. /\ imu'.at = "none" /\ imu'.next = imu.next /\ imu'.buffers = imu.buffers
          /\ imu'.order = imu.order /\ imu'.jammed = imu.jammed /\ imu'.taken = imu.taken
          /\ imu'.foundOn = imu.foundOn
      BY <1>0, <2>3 DEF DevicesInv, Object
    <3>4. DevicesInv'
      BY <1>0, <2>3, <3>2, <3>3
         DEF DevicesInv, OwnAreOwed, LoopsInOrder, RefusedAtOnce, FoundOnUntouched
    <3>5. DriverTypeOK'
      BY <1>0, <2>3 DEF DriverTypeOK
    <3>. QED BY <1>3, <2>1, <3>1, <3>3, <3>4, <3>5, ReleasedIsNext DEF CameraInUse, HeldWhileUsed
  <2>. QED BY <1>9, <2>2, <2>3 DEF Constructed
<1>10. CASE SaveMetadata
  <2>1. Still /\ sensor' = sensor /\ select' = select /\ imu.at = "held" /\ select.at = "none"
        /\ ~sensor.runs
    BY <1>0, <1>10 DEF SaveMetadata, deviceVars, exposureVars, HeldWhileUsed, CameraInUse
  <2>2. capture' \in Capture /\ capture'.at \in {"starting", "releasing"}
    BY <1>0, <1>10, GotoStep DEF SaveMetadata, Step
  <2>. QED BY <1>1, <1>3, <2>1, <2>2, ReleasedIsNext DEF CameraInUse, HeldWhileUsed
<1>11. CASE StartCamera
  <2>1. PICK started \in BOOLEAN : /\ sensor' = [sensor EXCEPT !.runs = started]
                                   /\ Goto(IF started THEN "running" ELSE "releasing")
    BY <1>11 DEF StartCamera
  <2>2. Still /\ select' = select /\ imu.at = "held" /\ select.at = "none"
    BY <1>0, <1>11 DEF StartCamera, deviceVars, HeldWhileUsed
  <2>3. capture' \in Capture /\ capture'.at = IF started THEN "running" ELSE "releasing"
    BY <1>0, <2>1, GotoStep DEF Step
  <2>4. SelectTypeOK' /\ sensor'.runs = started
    BY <1>0, <2>1, <2>2 DEF SelectTypeOK
  <2>. QED BY <1>1, <2>2, <2>3, <2>4, ReleasedIsNext DEF CameraInUse, HeldWhileUsed
<1>12. CASE CaptureImu
  <2>1. Still /\ select' = select /\ sensor' = sensor /\ capture' = capture
    BY <1>12 DEF CaptureImu, deviceVars, exposureVars
  <2>. QED BY <1>0, <1>1, <1>3, <2>1, ReleasedIsNext DEF CameraInUse, HeldWhileUsed
<1>13. CASE EndCapture
  <2>1. Still /\ select' = select /\ sensor' = Stopped /\ imu.at = "held" /\ select.at = "none"
    BY <1>0, <1>13 DEF EndCapture, deviceVars, HeldWhileUsed
  <2>2. capture' \in Capture /\ capture'.at = "releasing"
    BY <1>0, <1>13, GotoStep DEF EndCapture, Step
  <2>3. SelectTypeOK' /\ ~sensor'.runs
    BY <1>0, <2>1 DEF SelectTypeOK, Stopped, View, Dark
  <2>. QED BY <1>1, <2>1, <2>2, <2>3, ReleasedIsNext DEF CameraInUse, HeldWhileUsed
<1>14. CASE ReleaseDevices
  <2>1. /\ capture' = capture /\ capture.at = "releasing" /\ sensor' = sensor
        /\ select' = select /\ (Destroy \/ DisableImu)
    BY <1>14 DEF ReleaseDevices, exposureVars
  <2>2. imu'.at \in {"releasing", "none"}
    BY <1>0, <2>1, DevicesMove DEF HeldWhileUsed
  <2>. QED BY <1>0, <1>2, <1>3, <2>1, <2>2, ReleasedIsNext DEF CameraInUse, HeldWhileUsed
<1>15. CASE Released
  <2>1. Still /\ sensor' = sensor /\ select' = select /\ imu.at = "none" /\ select.at = "none"
        /\ ~sensor.runs
    BY <1>0, <1>15 DEF Released, deviceVars, exposureVars, HeldWhileUsed, CameraInUse
  <2>2. capture' \in Capture /\ capture'.at = "released"
    BY <1>0, <1>15, GotoStep DEF Released, Step
  <2>. QED BY <1>1, <1>3, <2>1, <2>2, ReleasedIsNext DEF CameraInUse, HeldWhileUsed
<1>16. CASE Again
  <2>1. Still /\ sensor' = sensor /\ select' = select /\ imu.at = "none" /\ select.at = "none"
        /\ ~sensor.runs
    BY <1>0, <1>16 DEF Again, deviceVars, exposureVars, HeldWhileUsed, CameraInUse
  <2>2. capture' \in Capture /\ capture'.at = "selecting"
    <3>1. capture.attempts + 1 \in 1..MaxAttempts
      BY <1>0, <1>16, AttemptAssumption DEF Again, Capture
    <3>. QED BY <1>16, <3>1 DEF Again, Capture, Step
  <2>. QED BY <1>1, <1>3, <2>1, <2>2, ReleasedIsNext DEF CameraInUse, HeldWhileUsed
<1>17. CASE Killed
  BY <1>17, KilledKeeps
<1>18. CASE OtherPrograms
  <2>1. /\ capture' = capture /\ sensor' = sensor /\ select' = select /\ OtherProgram
        /\ imu' = imu
    BY <1>18 DEF OtherPrograms, OtherProgram, exposureVars
  <2>. QED BY <1>0, <1>2, <1>3, <2>1, ReleasedIsNext DEF CameraInUse, HeldWhileUsed
<1>. QED BY <1>4, <1>5, <1>6, <1>7, <1>8, <1>9, <1>10, <1>11, <1>12, <1>13, <1>14, <1>15, <1>16,
            <1>17, <1>18 DEF SetupNext

\* What the exposure is chosen by is touched by the selection only.
LEMMA ExposureStays ==
    ASSUME ExposureIsSound, select' = select, sensor' = sensor \/ select.at # "probing"
    PROVE  ExposureIsSound'
<1>1. ResultsAreSettled' /\ SweepIsBest' /\ ProductIsKept'
  BY DEF ExposureIsSound, ResultsAreSettled, SweepIsBest, ProductIsKept
<1>2. MeasuredWhatIsSeen'
  BY DEF ExposureIsSound, MeasuredWhatIsSeen
<1>3. SweepInOrder' /\ BestSoFar'
  BY ZenonT(60) DEF ExposureIsSound, SweepInOrder, BestSoFar, Left
<1>. QED BY <1>1, <1>2, <1>3 DEF ExposureIsSound

LEMMA ExposureStep ==
    ASSUME SensorsAreReleased, ExposureIsSound, [SetupNext]_setupVars
    PROVE  ExposureIsSound'
<1>0. SelectTypeOK /\ CameraInUse /\ HeldWhileUsed /\ Sound
  BY ReleasedIs DEF Sound
<1>1. ASSUME UNCHANGED exposureVars PROVE ExposureIsSound'
  BY <1>1, ExposureStays DEF exposureVars
<1>2. ASSUME select' = NewSelect PROVE ExposureIsSound'
  <2>1. select'.results = <<>> /\ select'.mode = "fixed" /\ select'.at = "none"
    BY <1>2 DEF NewSelect
  <2>. QED BY <2>1, NothingToAnswerFor
<1>3. CASE UNCHANGED setupVars
  BY <1>1, <1>3 DEF setupVars
<1>4. CASE SelectExposure
  <2>1. SelectStep /\ capture.at = "selecting"
    BY <1>4 DEF SelectExposure
  <2>. QED BY <1>0, <2>1, SelectionStep DEF CameraInUse, Sound
<1>5. CASE Selected \/ Killed
  BY <1>2, <1>5 DEF Selected, Killed
<1>6. CASE StartCamera \/ EndCapture
  <2>1. select' = select /\ select.at # "probing"
    BY <1>0, <1>6 DEF StartCamera, EndCapture, HeldWhileUsed
  <2>. QED BY <2>1, ExposureStays
<1>7. CASE PrepareRecording \/ ConstructDevices \/ Constructed \/ SaveMetadata \/ CaptureImu
           \/ ReleaseDevices \/ Released \/ Again \/ OtherPrograms
  BY <1>1, <1>7 DEF PrepareRecording, ConstructDevices, Constructed, SaveMetadata, CaptureImu,
                    ReleaseDevices, Released, Again, OtherPrograms
<1>. QED BY <1>3, <1>4, <1>5, <1>6, <1>7 DEF SetupNext

LEMMA ExposureStarts == SetupInit => ExposureIsSound
<1>. SUFFICES ASSUME SetupInit PROVE ExposureIsSound
  OBVIOUS
<1>1. select.results = <<>> /\ select.mode = "fixed" /\ select.at = "none"
  BY DEF SetupInit, ExposureInit, NewSelect
<1>. QED BY <1>1 DEF ExposureIsSound, ResultsAreSettled, SweepIsBest, ProductIsKept,
                     MeasuredWhatIsSeen, SweepInOrder, BestSoFar

\* The rows and what they are read with, through the steps of run_capture.
LEMMA RowsAre == RowsArePaired <=> PairingSound /\ ReadAsFound
  BY ReadRight DEF RowsArePaired, PairingSound

LEMMA RowsStart == SetupInit => RowsArePaired
<1>. SUFFICES ASSUME SetupInit PROVE RowsArePaired
  OBVIOUS
<1>1. PairingSound
  BY PairingStarts DEF SetupInit
<1>2. ReadAsFound
  BY DEF SetupInit, ImuInit, NewImu, ReadAsFound
<1>. QED BY <1>1, <1>2, RowsAre

LEMMA RowsStep ==
    ASSUME SensorsAreReleased, RowsArePaired, [SetupNext]_setupVars
    PROVE  PairingSound' /\ ReadAsFound'
<1>0. PairingSound /\ ReadAsFound /\ imu \in Object
  BY RowsAre, ReleasedIs DEF DevicesInv
<1>1. UNCHANGED pairingVars => PairingSound'
  BY <1>0, PairingStays
<1>2. UNCHANGED deviceVars => ReadAsFound'
  BY <1>0 DEF deviceVars, ReadAsFound
<1>3. CASE UNCHANGED setupVars
  BY <1>1, <1>2, <1>3 DEF setupVars
<1>4. CASE SelectExposure \/ Selected \/ PrepareRecording \/ SaveMetadata \/ StartCamera
           \/ Released \/ Again
  BY <1>1, <1>2, <1>4 DEF SelectExposure, Selected, PrepareRecording, SaveMetadata, StartCamera,
                          Released, Again
<1>5. CASE ConstructDevices \/ ReleaseDevices \/ OtherPrograms
  <2>1. UNCHANGED pairingVars /\ (ConstructImu \/ DisableImu \/ Destroy \/ OtherProgram)
    BY <1>5 DEF ConstructDevices, ReleaseDevices, OtherPrograms
  <2>. QED BY <1>0, <1>1, <2>1, ReadAsFoundStep
<1>6. CASE Constructed
  <2>1. UNCHANGED pairingVars
    BY <1>6 DEF Constructed
  <2>2. CASE UNCHANGED deviceVars
    BY <1>1, <1>2, <2>1, <2>2
  <2>3. CASE imu' = [imu EXCEPT !.at = "none"] /\ UNCHANGED <<buffer, driver, format>>
    <3>1. imu'.at = "none" /\ imu'.ready = imu.ready /\ driver' = driver /\ format' = format
      BY <1>0, <2>3 DEF Object
    <3>2. ReadAsFound'
      BY <1>0, <3>1 DEF ReadAsFound
    <3>. QED BY <1>1, <2>1, <3>2
  <2>. QED BY <1>6, <2>2, <2>3 DEF Constructed
<1>7. CASE CaptureImu
  BY <1>0, <1>2, <1>7, PairingStep DEF CaptureImu
<1>8. CASE EndCapture
  BY <1>2, <1>8, ThreadEndsSound DEF EndCapture
<1>9. CASE Killed
  <2>1. ReadAsFound'
    BY <1>9 DEF Killed, NewImu, ReadAsFound
  <2>. QED BY <1>9, <2>1, ThreadEndsSound DEF Killed
<1>. QED BY <1>3, <1>4, <1>5, <1>6, <1>7, <1>8, <1>9 DEF SetupNext

LEMMA SetupSafe == SetupSpec => [](SensorsAreReleased /\ ExposureIsSound)
<1>1. SetupInit => SensorsAreReleased /\ ExposureIsSound
  BY SensorsInit, ExposureStarts
<1>2. SensorsAreReleased /\ ExposureIsSound /\ [SetupNext]_setupVars
        => (SensorsAreReleased /\ ExposureIsSound)'
  BY SensorsStep, ExposureStep
<1>. QED BY <1>1, <1>2, PTL DEF SetupSpec

\* Nothing of the sensors is left on by a failure, and none is touched that was
\* not ours.  (ImuDevices, run_capture)
THEOREM SensorsReleased == SetupSpec => []SensorsAreReleased
  BY SetupSafe, PTL

\* A sweep ends with the best of all its settled results, and a measured exposure
\* keeps the product the camera settled on.  (select_exposure, probe)
THEOREM ExposureChosenWell == SetupSpec => []ExposureIsSound
  BY SetupSafe, PTL

\* However the reads of the two sensors fall, the rows made are those of the whole
\* recording, decoded as the driver lays them out.  (imu_thread, load_layout)
THEOREM RowsPaired == SetupSpec => []RowsArePaired
<1>. DEFINE rows == PairingSound /\ ReadAsFound
<1>1. SetupInit => rows
  BY RowsStart, RowsAre
<1>2. SensorsAreReleased /\ rows /\ [SetupNext]_setupVars => rows'
  BY RowsStep, RowsAre
<1>3. rows => RowsArePaired
  BY RowsAre
<1>. HIDE DEF rows
<1>. QED BY <1>1, <1>2, <1>3, SensorsReleased, PTL DEF SetupSpec
=============================================================================
