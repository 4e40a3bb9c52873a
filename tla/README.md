# A TLA+ verification of the flight program

This directory models the native flight application of this repository
(`src/*.cpp`, `src/*.h`, `src/openvins_runner/`): a program on a Raspberry Pi
that reads a camera and an accelerometer and a gyroscope, runs the OpenVINS
estimator on them, and sends position and velocity to an ArduPilot flight
controller over MAVLink; and the part of the controller's firmware, archived
under `results/flight-review-2026-09-15/`, that receives them. The
modules are translated from the C++ source; `PROJECT.json` maps each definition
to the lines it stands for. Paths below are relative to the repository.

    flight controller <= serial line => MavlinkLink ( FlightSession )
                                            ^  publish, poll, start/end_session
                        SessionStore <-- run_flight / run_capture  (main thread)
                                            ^  LatestEstimate      |  start, stop
                  CaptureWorker: SensorRunner threads <--- read --- LibcameraSource
                       ^ read      |  submit                          ^ completed()
                   ImuDevices  Recording ( writer thread )       libcamera's thread

    flight controller: messages --> SelectVelPosFusion, FuseVelPosNED (EKF3 core)

## 1. The system

### Components, their state and what makes them correct

| Component | State | Operations | Correct if |
|---|---|---|---|
| **Session policy** `flight_session.*` | state, generation, last heartbeat, armed, evidence of a measurement, timers and attempts of the alignment request, reset byte | start, heartbeat, tick, can_publish, alignment_due, alignment_sent, measurement_sent, acknowledge, fail | armed publication rests on an alignment accepted for this generation and unbroken contact; a request is made on fresh evidence, is resolved in bounded time and is never parked; a restart meets no unanswered request |
| **MAVLink link** `mavlink_link.*` | the stream, one packet being sent and how far, its deadline, the heartbeat schedule, the session | start_session, end_session, publish, poll, state | packets stay whole; measurement bytes leave only under the permission of the moment, fresh and in order; the heartbeat is not starved; no exception escapes |
| **Session store** `session_store.*` | lock file, counter file, temporary file | constructor, reserve_reset | successive sessions carry different bytes across crashes and power losses; the file always parses |
| **Flight application** `flight_application.cpp` | generation, estimator, camera, capture worker, mailbox, error and stop flags, backoff | run_flight, run_capture, CaptureWorker | no pose during cleanup; every capture is preceded by a disarmed controller; estimators are not reused; the completion marker and the exit status are true; a signal ends the process |
| **Latest-estimate mailbox** `estimator_runner.h` | one slot under a mutex | store, load | it never offers another generation's estimate |
| **Recording** `recording.*` | a bounded queue, a byte count, flags; a status shared with the application; the process's writer slot; files | constructor, submit, worker, close | what counts as complete is complete; any recording is a prefix; close() returns even over a stuck disk; one writer at a time |
| **Camera source** `libcamera_source.cpp`, `camera_queue.h` | libcamera objects, buffers and requests, stopping/running flags, counters; a queue of four frames with an error | start, stop, read, completed, disconnected, release | nothing is released under a callback; frames of a probe do not leak into the capture; a fault is never silent; stop() returns |
| **Exposure selection** `camera_capture.*` | none | select_exposure, probe, camera_timestamp, copy_mono_frame | the best usable exposure is chosen; a probe always stops the camera |
| **Sensor runner** `openvins_runner/sensor_runner.cpp` | queues of frames, IMU rows and estimates, coverage times, stop flags, the recording | imu_thread, meta_thread, frame_thread, camera_thread, update_thread, run | measurements reach the estimator in time order; the first error stops every thread; a stalled sensor ends the capture |
| **IMU pairing** (in imu_thread) | the unpaired rows of both sensors | one turn of the loop | what is made is what the whole recording would give, however the reads fell |
| **IMU devices** `imu_device.cpp` | the devices found, the buffers taken, record layout and scale; the kernel's buffers | constructor, disable, destructor | a failure half-way leaves no device of ours on and touches none of another program's |
| **EKF fusion** `AP_NavEKF3_PosVelFusion.cpp` (archived) | flags and observations kept over calls, the last source, receiver and generation, the state's frame | SelectVelPosFusion, FuseVelPosNED | nothing stale is fused; a position meets a state in its own frame, and so does a height given beside it; what the flight review claims of the vertical velocity |
| **Serial port** `serial_port.cpp` | a descriptor | read, write | a partial write is reported, never hidden |
| **Estimate validation** `estimate.cpp` | none | validate_estimate | generation, order, age, finiteness |
| **Frames**, **configuration**, **service entry** | none | | pure algebra, parsing and start-up |

### How they interact

- The main thread owns everything that outlives a capture. It calls the link's
  methods directly; the link calls its session. No other thread touches either.
- A capture worker thread runs the estimator and its sensor threads. It shares
  with the main thread a stop flag, a done flag, an exception pointer read after
  done, the mailbox, and the camera (one reader, one owner).
- libcamera's thread calls `completed()` and `disconnected()`; both meet the
  other threads in the camera queue and in the atomic `stopping_`.
- Sensor threads submit records to the recording; its writer thread shares the
  state with them under a mutex and reports through a shared status.
- The main thread configures the IMU and selects the exposure before the worker
  starts, and releases both in the reverse order whichever step failed.
- The process meets its predecessors through the counter file, and the flight
  controller through a lossy serial line whose acknowledgments do not say what
  they acknowledge.

### What is hard

Partial writes with permission changing under them; a communication loop that
is late by any amount; retries answered by the reply to an earlier attempt;
crashes between system calls; a stuck disk at shutdown; callbacks during stop();
threads that wait on one condition variable for three reasons; flags of the
firmware that outlive the call that set them; a signal at any moment. `PROJECT.json` lists each of these under "hazards" with
the line at which it bites and the property that covers it.

## 2. The modules

| Module | What it is |
|---|---|
| `SessionPolicy` | the methods of FlightSession as operators on the record of its fields, used by FlightSession, MavlinkLink and SessionStore |
| `FlightSession` | state machine: any order of those methods, any delays |
| `SessionPolicyProofs`, `FlightSessionProofs` | lemmas on the methods; the theorems of FlightSession and of the exchange |
| `MavlinkLink` | the link with its transmit buffer, a clock, a faulty stream and the messages of the controller |
| `LinkContract` | abstract specification of the link, without time |
| `MavlinkLinkContract` | the refinement mapping from MavlinkLink to LinkContract |
| `MavlinkLinkProofs` | the theorems of MavlinkLink, and that it implements the contract |
| `SessionStore` | processes, the lock, the system calls of reserve_reset, crashes and power losses |
| `SessionStoreProofs` | its theorems |
| `AlignmentProtocol` | FlightSession, with every call of its loop, against a controller over a lossy line |
| `Recording` | producers, writer, close(), stuck files, over several captures |
| `RecordingProofs` | its theorems |
| `FlightApplication` | run_flight and run_capture on top of LinkContract |
| `FlightApplicationProofs` | its theorems, and those of the capture it runs, `SensorRunner` |
| `CameraCapture` | LibcameraSource and CameraQueue against libcamera's callbacks |
| `CameraCaptureProofs` | its theorems, and those of `CaptureSetup` |
| `SensorRunner` | run(): its worker threads, their queues, the supervisor, the first error |
| `ImuDevices` | the constructor and destructor of ImuDevices, a failure at each file operation, another program at the same buffers |
| `ImuPairing` | the pairing of imu_thread, rows arriving in any batches |
| `ExposureSelect` | select_exposure and probe |
| `CaptureSetup` | composes the three: the sensors of one capture after another, in the order of run_flight and run_capture |
| `ExtNavFusion` | SelectVelPosFusion and FuseVelPosNED of the archived firmware, one core |
| `MCExtNavFusion` | its instance for TLC: the five source sets, and the receivers as a symmetry set |
| `ExtNavFusionProofs` | its theorems |

### Reading them against the code

*Fields and variables.* A C++ object is a record variable whose fields have the
names of the members. An empty optional time is `NoTime`; an empty generation is
`NoGeneration`. The two ends of `run_flight`'s wait loops and the calls in
between are values of a place (`app.at`, `owner.at`, `phase`, `pc`).

*Grain.* A method of the session or the link is one step because one thread
calls them. `poll()` is several steps, since it reads any number of messages:
it begins, receives messages one at a time, and ends in one of the ways the code
ends; nothing else happens in between. In `Recording` and `CameraCapture` a
block under a mutex is one step and each access to an atomic or to the outside
is one more. In `SensorRunner` a thread's step is one critical section, one call
of the estimator or one wait; a wait on the condition variable has its timeout, so
a thread that may go on can always do so. In `ImuDevices` a file operation is one
step. `ExtNavFusion` has one step for SelectVelPosFusion up to its call of
FuseVelPosNED and one for that call. In `FlightApplication` code between two calls that may throw, or
that another thread can observe, is one step.

*History variables* (`history`, `wire`, `usage`, `granted`, `latest`, `fed`,
`received`, `fused`, some fields named so) record what happened without looking at the policy; properties compare
them with what the code believes.

*Slips.* An operator `X_Slip` just before `X` is `X` with one plausible slip: a
reset left out, a test in the wrong order, a limit forgotten. Nothing uses it;
it documents the defect that the property guards against, and
`PROJECT.json` "mutants" says which. Replacing `X` by it makes TLC find the
property violated.

### Abstractions worth knowing

- A packet is `PacketSize` units; what MAVLink puts in the bytes, coordinate
  frames and covariances are left out. An estimate is a generation, a timestamp
  and whether the numeric checks of `validate_estimate` pass.
- "Written" means accepted by the serial driver, as in the code. What is still in
  the kernel's buffer or on the wire is beyond what the program can withdraw.
- `SessionStore`: a system call that fails throws out of `run_flight`, which for
  the files is the same as dying there. A file whose content was not synced may
  hold anything after a power loss; a rename that was not synced may be undone.
- `Recording`: a record is its stream, size and number. A file operation may stop
  for ever (`GetStuck`) and may return later.
- `FlightApplication` uses the promise of the link, not the link: time, attempts
  and the transmit buffer's bytes are replaced by the choices LinkContract allows.
  The worker is what `CaptureWorker` sees of it: it posts estimates, and ends by
  returning or throwing.
- `CameraCapture`: the requested exposure is fixed (automatic exposure is the
  case in which every frame matches). The external assumptions on libcamera are
  the ones the source states: `stop()` waits for a callback in progress, a
  stopping or missing camera refuses requests, disconnected signals are not
  delivered, and a request completes as cancelled (line 247) only while the camera is
  being stopped or has gone.
- `SensorRunner`: OpenVINS is the sequence of what it is fed. Time is counted in
  ticks within which the supervisor looks once; every other thread may be slow. A
  worker's exception and its setting of the stop flag are one step. The low-pass
  filter, images and the text of estimates are left out. The legacy runner reads its
  frames from FIFOs, the flight program from the camera source: both are in the
  module.
- `ImuPairing`: a row is its timestamp, and the acceleration is a curve of time, so
  a wrong pairing shows as a wrong interval or weight.
- `ImuDevices`: the layout is that of two bytes per axis and eight for the
  timestamp, in any order of the channels. Another program may switch a free buffer
  on between our check and our taking it (`imu_device.cpp:154`); nothing in sysfs
  forbids it, and the property speaks of the buffers found on at the check. A killed
  process, or a write that fails in `disable()`, leaves a buffer on; a later
  constructor then refuses, as the code does.
- `ExposureSelect`: the image of a frame is its brightness and its clipped share.
- `ExtNavFusion`: a measurement, a height too, is the frame it is given in (sensor with
  its receiver or generation). `frame` is what the position states were last *set* in:
  fusing a height of another frame pulls the state, but is no reset and leaves `frame`.
  Innovation tests and timeouts are choices, as are the changes of the
  aiding mode. At most one external sample per call; the source set does not change
  twice between two calls; the magnetometer's one-step slip (lines 510-515) is part
  of the gap between two calls. Range finder, beacon, body odometry, setLatLng and
  resetHeightDatum are not sources or calls of this vehicle.

## 3. The runs

| Run | States | Question and bounds |
|---|---|---|
| `flight_session` | 283,462 | any order of calls on one session. Two generations, eight ticks: the timeouts are 3 (heartbeat), 2 (alignment), 4 (progress), so an alignment, a lost controller, a retry and a restart fit one after another |
| `mavlink_link` | 336,454 | the link over a stream that takes any part of a packet (two units, so a packet is untouched, half sent or whole) and may fail; and every step of it as a step of LinkContract. Two generations, three ticks: a queued packet can outlive its deadline and the heartbeat period |
| `session_store` | 14,116 | two processes, six reservations, a byte of three values so that it wraps |
| `alignment_prompt` | 325,075 | answers within the alignment timeout: alignment is genuine, and a restart meets nothing outstanding |
| `alignment_late` | finding | answers later than the timeout, see below |
| `recording` | 178,327 | two captures over a disk that may stay stuck, two producers, records of three sizes around the byte limit (smaller, equal, larger), two of each producer. The byte limit is always met before the limit on the number of records; the theorems cover both |
| `flight_application` | 60,663 | a capture and its restart, every place a call may throw, a signal and a link failure at any time |
| `camera_capture` | 393,496 | two starts on two buffers, a queue of two, thresholds 1/2/4 instead of 10/3/60: the queue overflows, the exposure settles, is lost and settles again, and patience runs out |
| `sensor_runner` | 535,916 | either kind of frames, a sensor that falls silent, an error in any thread, a stop by the caller; four ticks, so each limit of one tick can pass after the last sample; queues of one row and one frame, so both overflow |
| `sensor_left_frames` | finding | the frames left when the images end, see below |
| `capture_setup` | 351,450 | two attempts, every file operation failing, another program, a process killed anywhere; three shutters with one beyond the limit; four rows in batches of two against a queue of three |
| `ext_nav_fusion` | 75,272 | five source sets: the flights' first and second (GPS; the program's position and vertical velocity over the barometer), everything from the program, its height beside GPS, and the receiver's height beside its position, so that each axis changes with and without another; two receivers (alike, hence a symmetry), two generations; the space is finite without a bound on steps. What a call does not look at is given one value (`LooksAt`) |

The `MaxNow`, `MaxGeneration`, `MaxReservations`, `MaxRecords`, `Captures`,
`MaxStarts` and `MaxStamp` constants bound what the code leaves unbounded (time,
restarts, input). They stop the environment, never a response of the code.
`CHECK_DEADLOCK FALSE` is stated where the program ends: the process exits
(`FlightApplication`), the last recording is closed (`Recording`), the source is
destroyed (`CameraCapture`), `run()` has returned (`SensorRunner`), the last attempt
is over (`CaptureSetup`).

### What the properties say

*FlightSession.* `ArmedPublicationIsAligned`: publishing while armed implies an
acceptance of the current generation and no gap in the heartbeats since, even
when the loop was delayed across the gap and the first thing it handles is the
late heartbeat. `RequestResolvedInTime` (progress reports do not extend a request
for ever), `RestartOnlyWhenAnswered`, and the inductive invariant `SessionInv`, whose
parts also say that attempts remain while the session may still ask, that a request
follows a measurement of this generation and contact, and that none is outstanding to
an armed controller.

*MavlinkLink.* `PacketsStayWhole`, `MeasurementsArriveFresh`, `NothingEscapes`
(alignment that is due when queued may not be due when its last byte leaves, and
`alignment_sent` throws a `logic_error` that `poll` would not catch; the link
withdraws it first), `MeasurementsOrdered`, and the inductive invariant `LinkInv`,
which adds that the buffer, the session and the wire agree, that an alignment command
is buffered only for a started session, and that a buffered measurement never holds up the link's own heartbeat for longer than the age limit.
`KeepsContract` is the refinement.

*SessionStore.* `SuccessiveSessionsDiffer`; `LinkByteIsReserved`: `run_flight`
discards what `reserve_reset` returns after the first session and lets the session
increment its own byte, and the two stay equal; and the inductive invariant
`StoreInv`: the counter file always parses, the latest session's byte is durable and
not handed out again, one process reserves at a time.

*AlignmentProtocol.* `ExchangeInv` (a session that is aligned was aligned by the
controller, for this generation), `AnswerMeetsItsRequest`,
`NothingOutstandingAtRestart`.

*Recording.* `CompleteMeansAllWritten`, `OneLiveWriter`, `RecordingInv` (how the
threads, the queue, the status and the files agree; with `NoHoleOnDisk`, that what is on
disk of a stream is a prefix, and `BytesMatchQueue`),
`LateFinishNeverCompletes` (a writer that returns after close() gave up on it does
not turn the recording complete), `CloseReturns`, `WriterEnds`.

*FlightApplication.* `NoPoseDuringCleanup`, `CaptureStartsClean` (a capture begins
with an estimator that has run none, on a controller that was still disarmed after the
exposure had been chosen),
`OutcomeIsEarned` (completion marker and exit status), and `ProcessEnds`: a signal,
or a failed link, ends the process.

*CameraCapture.* `BuffersOutliveCallbacks`, the inductive invariant `CaptureInv` (with
`QueueInv`: the queue holds frames of the running start only, settled, the newest
without a hole),
`NothingLostSilently` (each request is the camera's or a callback's, or the reader
is told, also when the camera disconnects inside start(), which clears the
queue's error: then `camera_->start()` is what refuses), `CallsReturn`.

*SensorRunner.* `RunnerInv`, the inductive invariant, whose first parts are
`RowsAreFedOnce` (every row once and in order although the queue changes hands without
the lock) and `FramesWaitForRows` (a frame is fed only after a row later than it by the
offset then calibrated). `FramesAccounted`: under load the oldest frames give way,
none is both dropped and fed. `FirstErrorReported`: run() returns with no thread left
and throws the first exception. `CaptureEnds`: a native capture with a silent sensor
ends.

*CaptureSetup.* `SensorsAreReleased`, `ExposureIsSound`, `RowsArePaired`, each the
conjunction of parts stated in the component's own module, and each inductive: among the
parts are those that only say how far the loops have come.

*ExtNavFusion.* `VerticalNeedsHorizontal` is the flight review's sentence "A true
vertical flag alone never enables the vertical measurement update", with every switch
of sources and modes before it: the program's vertical velocity is never *fused* without
a horizontal source. It can still reach the state another way, by `ResetHeight` after a
height timeout, whatever is named for the velocities; the property adds that this needs a
source set that takes its height from the program, or from a GPS that has become stale
after one that did, and so cannot happen on the flights' barometric sets.
`FrameChangesReset`: a position is fused only into a state in its own frame, also when
the sample that announced a new generation passed while another source was in use. Of
heights it says what the code does: a change of their source always resets the state; a
new generation does when the program gives the position too, in absolute aiding, and then
its height is fused only in the position's generation, and a height state in step with
the position stays in step through generations and timeouts. `FusionInv`, the inductive invariant: nothing
fused is older than its call, although flags and observations are members that outlive
it, and a position is weighed with the error of its own sensor.

### Fairness

- `Recording`: each thread is scheduled (weak fairness per thread). The timeout of
  `close()` is strongly fair: `wait_for` with a predicate computes one deadline,
  which wakeups in between do not move. Nothing makes a stuck file operation
  return or a producer submit.
- `FlightApplication`: weak fairness of the main thread, whose waits are loops over
  `sleep_for` or have deadlines, and of the worker once its stop flag is set, whose
  threads wait with timeouts and look at the flag. Nothing makes the controller
  speak, an estimate appear, or a signal arrive.
- `CameraCapture`: weak fairness of the owner inside a call and of libcamera's
  thread inside a callback. Nothing makes the owner call or the sensor deliver.
- `SensorRunner`: weak fairness of each thread's next step, of the supervisor and of
  time. Nothing makes a sensor give anything: that `CaptureEnds` holds all the same is
  what the supervisor and the camera's limit are for. It is stated for the camera
  source; with FIFOs nothing notices a silent camera.
- The other specifications state safety only and assume no fairness.

### What the code does that its documents do not say

`alignment_late`: `flight_session.h:38-39` and `docs/cpp-migration.md:105` say that
restarting the estimator while an alignment command is outstanding is rejected,
because a `COMMAND_ACK` has no identifier to match it to its command. `start()`
looks at the session's state, and `acknowledge()` takes any acceptance for the
answer to the latest attempt. If the answer to attempt 1 arrives after its
timeout, attempt 2 is on its way, and the session becomes aligned and may restart
with that command outstanding. The model needs an answer delayed beyond the
alignment timeout (two seconds). In practice the restart waits at least five
seconds of backoff, and the same document names delayed duplicates as a limit of
the protocol; with prompt answers (`alignment_prompt`) the property holds.

`sensor_left_frames`: when the images end, `sensor_runner.cpp:470` says of the frames
that are still queued "give the IMU a second, then stop". The supervisor sees
`frames_done` within 20 ms and sets the stop flag, which `update_thread` tests before
it looks for coverage, so the frames are left at once. Only captures from FIFOs end
their images this way; the flight path is not affected.

Not findings, but good to know: `backoff = 5` (`flight_application.cpp:203`) is
reached only after a requested stop, so the retry delay does not return to five
seconds after a capture that ran for long. A heartbeat that is half sent when a
session is to start closes the link and ends the process with a failure, which the
service manager answers with a restart. The supervisor's time of the last IMU row is
written by `update_thread` when it feeds the row, so one camera update of more than two
seconds looks like a silent IMU and ends the capture. In the archived firmware the
height is reset for a new generation only when the position's source is external
navigation in absolute aiding (lines 637-643): beside another position source, or
without absolute aiding, the first heights of the new generation are fused into the old
one's height state. The same holds of a GPS height and its receiver (lines 617-632), and
the reset of a timed out position takes another receiver's fix and leaves the height. The
velocity's consistency test includes a vertical
observation of an earlier call when only the vertical axis has an external source; and
without aiding an external velocity is fused only in calls without a height.

## 4. The proofs

Every theorem is about `Spec` of its module, for every value of the constants that the
module's named assumption allows; the bounds of the runs are constants like the others.

### FlightSession

`FlightSessionProofs` assumes `PolicyAssumption` (the checks of the constructor) and
`SessionBounds`.

| Theorem | Statement |
|---|---|
| `TypeCorrect` | the session, clock and history keep their types |
| `SessionInvariant` | `SessionInv`, the inductive invariant |
| `AttemptsAlwaysRemain` | a session that may still ask has an attempt left |
| `ArmedPublicationSafe` | armed publication is aligned and in contact |
| `RequestsArePrimed` | a request follows a measurement of this generation and contact |
| `RequestsAreResolved` | a request is resolved within its limit |
| `FailureIsLatched` | nothing recovers a failed session |
| `RestartsAreAnswered` | a generation changes only after a final answer |

*The argument.* None of the properties is inductive. `ArmedPublicationIsAligned`
speaks of `CanPublish`, which looks at the clock and the state together; after a
gap, the state is still `Aligned` until a call ticks the session, so the invariant
`AlignmentInForce` is stated for a fresh controller only, and is preserved by a
heartbeat because `heartbeat()` ticks before it refreshes the contact. In the same
way `EvidenceIsCurrent` ties the evidence of a measurement to the contact it was
written in, `TimerRunsFromWrite` the running timer to the moment of the write, and
`UnansweredIsCounted` an unanswered command to a nonzero attempt count, which
`start()` tests. `SessionInv` is their conjunction with `TypeOK`,
`heartbeatTime <= now`, `AttemptsRemain`, `NoRequestWhileArmed` and
`IdleUntilStarted`; TLC checks it as an invariant of `flight_session`.

*The layout.* `SessionPolicyProofs` says what each method does to types and which
fields it leaves alone (`MutatorTypes`, `TickFrame`, `TickStates`, `HeartbeatType`,
`AcknowledgeType`); the link's proofs use it too. The invariant is restated as a
predicate of a session, a time and a history, and one lemma per method shows that the
method preserves it (`TickPreserves`, `HeartbeatPreserves`, `ResultPreserves`).
`SessionInvInit` and `SessionInvStep` have one step per action. The temporal theorems
combine these with PTL.

### The alignment exchange

Also in `FlightSessionProofs`, for any delays, losses and number of generations. All but
the first assume `AnswerDelay < AlignmentTimeout`, the condition of `alignment_prompt`;
`alignment_late` shows that they are false without it.

| Theorem | Statement |
|---|---|
| `ExchangeKeepsSession` | the exchange is a `FlightSession`: every theorem above holds of it |
| `ExchangeAgrees` | `ExchangeInv`, the inductive invariant |
| `AlignedIsGenuine` | an aligned session was aligned by the controller, for this generation |
| `AnswersMeetTheirRequests` | `AnswerMeetsItsRequest`, an action property |
| `RestartsFindTheLineClear` | `NothingOutstandingAtRestart`, an action property |

*The argument.* The wire carries no identifier, so it is time that tells commands apart. A
command is sent only when the one before it was answered or has timed out, so whatever is
on the line and is not the latest command is at least `AlignmentTimeout` older
(`OvertakenAreLate`), and its answer comes too late to be heard. `LatestIsLast` says that
nothing follows the latest command, or the final answer to it, so hearing that answer
leaves the line clear, and `SpacedOut` that a session which may ask anew, or be restarted,
has a line that is clear or left its last command time to be answered. The proof has two
sides: what the session's step makes of the invariant for any line (`SessionSide`), and
what the line's step makes of the order on it, each stated of values, not variables.

### MavlinkLink

| Theorem | Statement |
|---|---|
| `LinkInvariant` | `LinkInv`, the inductive invariant |
| `PacketsWhole` | `PacketsStayWhole` |
| `MeasurementsFresh` | `MeasurementsArriveFresh` |
| `NothingEscapesPoll` | `NothingEscapes` |
| `MeasurementsInOrder` | `MeasurementsOrdered`, an action property |
| `LinkKeepsContract` | `KeepsContract`: MavlinkLink implements LinkContract |

*The argument.* The wire is intact only because the buffer mirrors it: `wire.units` is
`link.offset` and `wire.partial` is `link.pending` while the link is open, so the next
bytes join on. They are fresh because a measurement's deadline is its own timestamp plus
the limit (`BufferInv`) and poll() withdraws what is past its deadline before it writes;
they are in order because `last_estimate_time_` bounds the last whole measurement, is
the timestamp of the one buffered, and is forgotten only when the generation grows
(`OrderInv`). `alignment_sent` finds its command due because what poll() sends was
eligible in that same poll. `DroppedBuffer` and `OutgoingBuffer` follow the buffer
through withdrawal and refill, `WireStep` the bytes, and one lemma per kind of step
preserves the invariant, restated as predicates of a buffer, a session and a wire.

*The refinement.* `Seen(session, link, now)` is the contract's view of the state. A
record of the contract's type is determined by its fields (`SeenFields`, `HereNext`), so
each step is proved by naming the record the contract's action leads to and showing that
its fields match the next state. `TickSeen`, `HeartbeatSeen` and `AcknowledgeSeen` map the
methods of the session to the sets of outcomes the contract leaves open: an expired
request is one of its choices. One lemma per action follows; writing a part of a
measurement is `SendMeasurement`, writing or withdrawing anything else `SendControl` or
nothing, the last byte of a command `RequestAlignment`, every failure `Close`. The
invariant is needed where the contract demands permission or a started session
(`Sending`), and where it says that no measurement bytes went out (`wire.partial`).
So what `FlightApplication` puts in the place of the class is a true abstraction of it.

### SessionStore

| Theorem | Statement |
|---|---|
| `StoreInvariant` | `StoreInv`, the inductive invariant |
| `LinkBytes` | `LinkByteIsReserved` |
| `SessionsDiffer` | `SuccessiveSessionsDiffer`, an action property |

for any number of processes, with deaths and power losses between any two system calls.
*The argument.* The counter only moves forward on disk: what a power loss may leave
(`disk.stable` and what is not yet synced) is always at or ahead of the byte of the
latest session, counted along the ring by the reservations made since; the next
reservation is one beyond it. A counter is renamed into place only after its content was
synced, and used only after the directory was, so no power loss leaves an unreadable one. `Ahead` and its lemmas count that distance without
arithmetic modulo the number of bytes.

### ExtNavFusion

| Theorem | Statement |
|---|---|
| `FusionInvariant` | `FusionInv`, the inductive invariant |
| `VerticalStays` | `VerticalNeedsHorizontal`, an action property |
| `FramesReset` | `FrameChangesReset`, an action property |

for any source sets, receivers and generations. *The argument.* SelectVelPosFusion is a
composition of stages, each an operator on a record of the core's members; one lemma per
stage carries "what is to be fused was selected in this call" and "the state is in the
frame of the source last noticed, or its reset is due" (`Anchored`) through it. A height
state in step with the position is in step again at the end of the stages (`InStep`,
`StaysInStep`): a height of the program beside its position is rebased with it, and one
that was reset for a change of source was reset to the same generation. `VerticalNeedsHorizontal` rests on
`Horizontal`: every stage that selects a velocity without a horizontal source replaces the
vertical observation with it; and the flags are all cleared when the call ends, so that
none is fused with an observation of an earlier call (`FusedIsOfThisCall`).

### Recording

| Theorem | Statement |
|---|---|
| `RecordingAgrees` | `RecordingInv`, the inductive invariant |
| `CompleteIsWritten` | `CompleteMeansAllWritten` |
| `PrefixOnDisk` | `NoHoleOnDisk` |
| `SingleWriter` | `OneLiveWriter` |
| `LateFinish` | `LateFinishNeverCompletes`, an action property |

for any streams, sizes, limits and number of captures, under `RecordingAssumption`. Of the
numbers of records only their order is used, so the bound `MaxRecords` plays no part.
*The argument.* `InOrder` follows the records of a stream from the producer through the
queue and the worker's hands to the file, each ahead of the next, and `NothingMissing` says
that none between them is lost: before a record in the queue as long as the worker writes,
and of all that was submitted until the recording fails. `TakeStep` needs both to find that
the head of the queue is the next record of its file. `StagesAgree` ties where the worker
and close() are to the failure, the `finished` flag and the report; that is why an empty
queue at `finish` means that all is written, and why a capture close() gave up on has
failed or exited, so that a late worker does not turn it complete. The slot is taken
exactly while one worker is live (`SlotInv`). One lemma per action follows; those in which
no record moves need only `CalmStep`. The byte count is proved apart, because none of the
other properties rests on it: `RunningTotals` states the sum without recursion, as running
totals that begin at zero and grow by each record's size, and submit() and the worker's
take move one end of them each.

### CameraCapture

| Theorem | Statement |
|---|---|
| `CaptureIsInOrder` | `CaptureInv`, the inductive invariant |
| `ReaderGetsCurrentFrames` | `QueueInv`, a part of it |
| `NoUseAfterRelease` | `BuffersOutliveCallbacks` |
| `CaptureNeverStarvesSilently` | `NothingLostSilently` |

for any requests, size of the queue and thresholds (`CameraAssumption`), without a bound
on starts or frames. *The argument.* `CameraIsWhereOwnerThinks` ties the place of the
owner in start(), stop(), abandon() and the destructor to what libcamera does at that
moment: the camera is stopped, and its callbacks returned, before anything is released,
also on the way out of a failed start. `CountersAreHonest` says that `settled_` counts no
more than the sensor delivered since `camera_->start()`, so a frame handed over is settled
in this start; `StartIsInOrder`, that the queue was reset and the counters cleared before
the requests are fed. `RequestsAreKept` follows each request from start() to the camera, to
the callback and back; a request can leave that circle only where the queue's error is
set, and nothing clears the error but the next start.

### FlightApplication

| Theorem | Statement |
|---|---|
| `QuietCleanup` | `NoPoseDuringCleanup` |
| `CleanStart` | `CaptureStartsClean` |
| `TrueOutcome` | `OutcomeIsEarned` |

for any number of generations and values of the reset byte (`ApplicationAssumption`).
*The argument.* The link is in the generation `run_flight` reserved and holds a
measurement only between the launch and end_session() (`LinkFollows`); for that, a call of
the link queues nothing unless it is publish(), and stays in its generation (`Quiet`, one
lemma per call of the contract). An estimator is marked used when a capture is launched;
on every way back to the choice of the exposure it has been dropped, or it has not run
(`EstimatorInv`). At `settle` an error of the worker is an error of the capture, and a
requested stop was requested (`WorkerInv`). With `LinkKeepsContract` this is a statement
about the application over `MavlinkLink` itself, as far as the contract's variables say.

### SensorRunner

| Theorem | Statement |
|---|---|
| `RunnerInvariant` | `RunnerInv`, the inductive invariant |
| `FramesAreAccounted` | `FramesAccounted`, a part of it |
| `FirstErrorIsReported` | `FirstErrorReported`, an action property |

for either kind of frames, any offsets, limits and sizes of the queues, without a bound on
samples (`RunnerAssumption`). They are in `FlightApplicationProofs`, with the program
that runs the capture. *The argument.* What the estimator was fed, what `update_thread`
took and what is queued make up what `imu_thread` handed over; each step moves one end of
one of them over (`RowsMove`), whatever the other threads do in between. For the frames
one order runs from those fed or dropped over the queue to the metadata that waits for its
image, and the last sample bounds them all (`FramesKeepTheirOrder`): without the metadata
in it the order of the queue is not inductive. It is stated of values (`FramesOrdered`),
so that a lemma each for `enqueue_frame` (`EnqueueKeepsOrder`), the pop and the feed
(`FeedKeepsOrder`) and a metadata record (`MetaKeepsOrder`) serves both kinds of frames.
That a frame is covered by a row that was fed, and not by the 0 `last_imu_ns` starts
with, needs `Start + offset >= 0`: the monotonic clock has passed any camera offset when
`run()` is called. `ErrorsAreKept` says that the thread of the error is over, so that
nothing can replace it before `run()` throws it.

### CaptureSetup

| Theorem | Statement |
|---|---|
| `SensorsReleased` | `SensorsAreReleased` |
| `ExposureChosenWell` | `ExposureIsSound` |
| `RowsPaired` | `RowsArePaired` |

The three are in `CameraCaptureProofs`. `SensorsReleased` holds for any scales, shutters
and number of attempts, with another program at the devices and the process killed
anywhere. *The argument.* The property is made inductive by `OwnAreOwed`, that `disable()` has
yet to come to every buffer of ours that is not jammed; by `LoopsInOrder`, which says at
each place of the constructor how many buffers are remembered and which devices are
configured (a buffer is remembered before it is switched off or on, also when that write
fails); and by `RefusedAtOnce`: a buffer found on is noticed before any is remembered, so
the handler, which disables what is in `buffers_`, does not come to it. `HeldWhileUsed` ties
the object to where `run_flight` and `run_capture` are. One lemma per file operation, and one
for the whole of `select_exposure` and `probe`, whose ways out all stop the camera.

`ExposureChosenWell`: the exposure of a sweep is the best of its results, and the result of
a shutter is what the sensor sees with it, for any shutters and any scenes; a measured
exposure is kept as it is. *The argument.* Frames count only after those that settle, and a
probe's scene stays the same, so the sums are the number of frames times what the sensor sees
(`MeasuredWhatIsSeen`) and the mean is exact. The shutters are tried in order
(`SweepInOrder`), so of two equal results the shorter one is kept, and the choice is the best
of the results compared so far (`BestSoFar`). The shutter tried next is the least of those
left; that there is one follows from the well-foundedness of the order on the numbers
(`LeastOf`).

`RowsPaired`: every row handed over is a gyroscope row with the acceleration interpolated
between its neighbours among all the rows received, in whatever batches they came, and none
is left out from the first acceleration on. *The argument.* The queues are ends of what was
received, and the accelerometer's begins with the last row that was passed (`QueuesHold`), so
the neighbours found in the queue are those in the whole recording, and a gyroscope row is
skipped only if it precedes every acceleration. A row already made is not changed by rows that
come later (`SameLater`), also when it falls on the last acceleration received. With it goes
`ReadAsFound`: the layout that the constructor computes from the kernel's description keeps
the channels apart and aligned (`LayoutFits`), and the scale it selects is the nearest one
offered (`NearestScale`).

### Only model-checked

Liveness (`CloseReturns`, `WriterEnds`, `ProcessEnds`, `CallsReturn`, `CaptureEnds`), which is
beyond the prover. All other properties of the passing runs are theorems.

## 5. Not modelled

- The estimator (OpenVINS), coordinate frames and covariances, the low-pass filter of
  the rows: numerical code without the control these modules are about.
- Parsing of the configuration, of arguments and of MAVLink frames, and the format of
  the files. The serial port: system calls; MavlinkLink relies on its contract (a part
  of the bytes, zero to retry, or an exception).
- The negotiation of the camera's raw mode, and the copying of pixels.
- Of the archived firmware: the mathematics of the filter, the other sensors, and
  `mode_auto.cpp`, the mission logic, which shares no state with this program.
- The simulation harness, calibration and deployment tools: not part of the
  program that flies.

## 6. Plan

Done in this order, the most important behaviour first: SessionPolicy and
FlightSession with their proofs; MavlinkLink; SessionStore; AlignmentProtocol;
Recording; LinkContract with its refinement and FlightApplication on top of it;
CameraCapture; SensorRunner; ImuDevices, ImuPairing and ExposureSelect with CaptureSetup;
ExtNavFusion; the proofs of ExtNavFusion, SessionStore, Recording, FlightApplication and
MavlinkLink, and that MavlinkLink implements LinkContract; the proofs of the alignment
exchange, of CameraCapture, of SensorRunner and of CaptureSetup.

To come:

1. An abstract capture worker (runs, then ends once stopped) that `SensorRunner`
   implements and on which `FlightApplication`'s fairness of the worker rests.
2. Legacy runs: that nothing notices a silent camera when its frames come from FIFOs,
   as a property of what the arguments promise.

## 7. Running

    tlc -config FlightSession.cfg FlightSession
    tlapm FlightSessionProofs.tla

The other runs are in `PROJECT.json`; each configuration names its bounds.
