----------------------------- MODULE CaptureSetup -----------------------------
(***************************************************************************)
(* The sensors of one capture after another, as run_flight and run_capture *)
(* of src/flight_application.cpp use them: the exposure is selected, the   *)
(* recording prepared, the IMU configured, the camera started, the IMU's   *)
(* rows paired, and everything released in the reverse order, whichever    *)
(* step failed.  The controller's side of these functions is in            *)
(* FlightApplication.                                                      *)
(***************************************************************************)
EXTENDS ImuDevices, ImuPairing, ExposureSelect

CONSTANT MaxAttempts    \* bound: captures that are attempted

ASSUME AttemptAssumption == MaxAttempts \in Nat \ {0}

VARIABLE capture        \* where the main thread is, and how often it began

setupVars == <<capture, deviceVars, pairingVars, exposureVars>>

Step == {"selecting", "preparing", "constructing", "saving", "starting", "running",
         "releasing", "released"}

SetupTypeOK ==
    /\ capture \in [at : Step, attempts : 1..MaxAttempts]
    /\ ImuTypeOK
    /\ SelectTypeOK

SetupInit ==
    /\ capture = [at |-> "selecting", attempts |-> 1]
    /\ ImuInit /\ PairingInit /\ ExposureInit

Goto(step) == capture' = [capture EXCEPT !.at = step]

SelectExposure ==
    /\ capture.at = "selecting"
    /\ SelectStep
    /\ UNCHANGED <<capture, deviceVars, pairingVars>>

\* select_exposure returned or threw, or the vehicle was armed meanwhile.
Selected ==
    /\ capture.at = "selecting"
    /\ \/ select.at = "chosen" /\ Goto("preparing")
       \/ select.at \in {"chosen", "failed"} /\ Goto("released")
    /\ select' = NewSelect
    /\ UNCHANGED <<sensor, deviceVars, pairingVars>>

\* The recording's directory and metadata.
PrepareRecording ==
    /\ capture.at = "preparing"
    /\ \E saved \in BOOLEAN : Goto(IF saved THEN "constructing" ELSE "released")
    /\ UNCHANGED <<deviceVars, pairingVars, exposureVars>>

ConstructDevices ==
    /\ capture.at = "constructing"
    /\ ConstructImu \/ DisableImu
    /\ UNCHANGED <<capture, pairingVars, exposureVars>>

Constructed ==
    /\ capture.at = "constructing"
    /\ \/ imu.at = "held" /\ Goto("saving") /\ UNCHANGED deviceVars
       \/ /\ imu.at = "failed" /\ Goto("released")
          /\ imu' = [imu EXCEPT !.at = "none"]
          /\ UNCHANGED <<buffer, driver, format>>
    /\ UNCHANGED <<pairingVars, exposureVars>>

\* From here on an error destroys the devices.
SaveMetadata ==
    /\ capture.at = "saving"
    /\ \E saved \in BOOLEAN : Goto(IF saved THEN "starting" ELSE "releasing")
    /\ UNCHANGED <<deviceVars, pairingVars, exposureVars>>

StartCamera ==
    /\ capture.at = "starting"
    /\ \E started \in BOOLEAN :
          /\ sensor' = [sensor EXCEPT !.runs = started]
          /\ Goto(IF started THEN "running" ELSE "releasing")
    /\ UNCHANGED <<select, deviceVars, pairingVars>>

CaptureImu ==
    /\ capture.at = "running"
    /\ ReadImu
    /\ UNCHANGED <<capture, deviceVars, exposureVars>>

\* A signal, an error or the end of the worker; the worker is joined and the
\* camera stopped before the devices go.
EndCapture ==
    /\ capture.at = "running"
    /\ pairing # "pairing"
    /\ Goto("releasing")
    /\ sensor' = Stopped
    /\ ThreadEnds
    /\ UNCHANGED <<select, deviceVars>>

ReleaseDevices ==
    /\ capture.at = "releasing"
    /\ Destroy \/ DisableImu
    /\ UNCHANGED <<capture, pairingVars, exposureVars>>

Released ==
    /\ capture.at = "releasing"
    /\ imu.at = "none"
    /\ Goto("released")
    /\ UNCHANGED <<deviceVars, pairingVars, exposureVars>>

\* The next attempt constructs everything anew.
Again ==
    /\ capture.at = "released"
    /\ capture.attempts < MaxAttempts
    /\ capture' = [at |-> "selecting", attempts |-> capture.attempts + 1]
    /\ UNCHANGED <<deviceVars, pairingVars, exposureVars>>

\* The process is killed: the kernel stops the camera, not the IMU's buffers.
Killed ==
    /\ capture.at # "released"
    /\ Goto("released")
    /\ buffer' = [d \in Device |-> IF buffer[d] = "own" THEN "other" ELSE buffer[d]]
    /\ imu' = NewImu /\ driver' = NoDriver /\ format' = NoFormat
    /\ select' = NewSelect /\ sensor' = Stopped
    /\ ThreadEnds

\* The selection does not look at the buffers, so nothing is lost by letting
\* other programs wait for it.
OtherPrograms ==
    /\ select.at = "none"
    /\ OtherProgram
    /\ UNCHANGED <<capture, pairingVars, exposureVars>>

SetupNext ==
    \/ SelectExposure \/ Selected \/ PrepareRecording
    \/ ConstructDevices \/ Constructed \/ SaveMetadata \/ StartCamera
    \/ CaptureImu \/ EndCapture \/ ReleaseDevices \/ Released \/ Again
    \/ Killed \/ OtherPrograms

SetupSpec == SetupInit /\ [][SetupNext]_setupVars

-----------------------------------------------------------------------------
(* Safety *)

\* The camera runs for a probe or for the capture only, and every way out of
\* either stops it.
CameraInUse == sensor.runs => select.at = "probing" \/ capture.at = "running"

\* The exposure is selected before, and the IMU held while, the capture uses them;
\* an attempt begins without what the one before it held.
HeldWhileUsed ==
    /\ select.at # "none" => capture.at = "selecting"
    /\ capture.at \in {"saving", "starting", "running"} => imu.at = "held"
    /\ capture.at \in {"selecting", "preparing", "released"} => imu.at = "none"
    /\ capture.at = "constructing" => imu.at # "releasing"
    /\ capture.at = "releasing" => imu.at \in {"held", "releasing", "none"}

\* Whatever step of configuring or enabling either device fails, no buffer of
\* ours is left on but one that could not be switched off; neither is enabled
\* before both are configured; one that was found on is left alone, by the
\* error handling too; and no attempt ends with the camera running.  The other
\* parts make it inductive.  (ImuDevices, run_capture)
SensorsAreReleased ==
    /\ SetupTypeOK
    /\ NothingLeftOn
    /\ ConfiguredBeforeEnabled
    /\ FoundOnUntouched
    /\ CameraInUse
    /\ OwnAreOwed /\ LoopsInOrder /\ RefusedAtOnce
    /\ HeldWhileUsed

\* The exposure a capture is given is the best of what the probes measured once
\* the sensor had settled, or keeps the product the camera settled on, within
\* the limits the camera is used with.  (select_exposure, probe)
ExposureIsSound ==
    /\ ResultsAreSettled /\ SweepIsBest /\ ProductIsKept
    /\ MeasuredWhatIsSeen /\ SweepInOrder /\ BestSoFar

\* The rows given to the estimator are those of the whole recording paired at
\* once, however the two sensors' reads fell; and they are read with offsets
\* that fit any order of the channels.  (imu_thread, load_layout, select_scale)
RowsArePaired ==
    /\ PairingTypeOK
    /\ PairedAsRecorded
    /\ QueuesHold
    /\ RecordsDecodable
    /\ ScaleIsNearest
    /\ ReadAsFound
=============================================================================
