------------------------------ MODULE ImuDevices ------------------------------
(***************************************************************************)
(* class ImuDevices of src/imu_device.cpp: the accelerometer's and the     *)
(* gyroscope's IIO buffers, found, checked, configured and enabled by the  *)
(* constructor through sysfs files, and disabled by the destructor.  Each  *)
(* file operation may fail.  Another program may use the same devices, and *)
(* a process that is killed leaves its buffers as they are.                *)
(*                                                                         *)
(* An operator X_Slip just before X is X with one slip put in, which TLC   *)
(* has to detect.                                                          *)
(***************************************************************************)
EXTENDS Naturals, Sequences, FiniteSets, SequencesExt

CONSTANTS
    Scale,          \* scales a driver may offer
    TargetScale     \* the scale wanted

ASSUME DeviceAssumption == Scale \subseteq Nat \ {0} /\ TargetScale \in Nat

VARIABLES
    buffer,     \* the kernel's buffers, and who switched each one on
    driver,     \* how the devices found lay out a record, and their scales
    imu,        \* the object
    format      \* what it decodes records with: offsets, bytes, scale

deviceVars == <<buffer, driver, imu, format>>

Device == {"accel", "gyro"}
Channel == {"x", "y", "z", "timestamp"}
Width == [c \in Channel |-> IF c = "timestamp" THEN 8 ELSE 2]

Driver == [scan : {s \in [1..4 -> Channel] : IsInjective(s)},
           scales : {s \in [1..2 -> Scale] : IsInjective(s)}]
NoDriver == [scan |-> <<>>, scales |-> <<>>]

ImuPlace == {"none", "found", "checked", "still", "disabled", "enabling", "held",
          "unwinding", "failed", "releasing"}

(***************************************************************************)
(* imu.order      devices_, in the order of the directory                  *)
(* imu.next       the device a loop of the constructor is at               *)
(* imu.buffers    how many of them are in buffers_                         *)
(* imu.ready      those configured and read back                           *)
(* imu.foundOn    those whose buffer was on when it was checked (history)  *)
(* imu.taken      those found on and yet switched off (history)            *)
(* imu.jammed     those of ours whose switching off failed (history)       *)
(***************************************************************************)
Object == [at : ImuPlace, order : {<<"accel", "gyro">>, <<"gyro", "accel">>},
           next : 1..3, buffers : 0..2, ready : SUBSET Device,
           foundOn : SUBSET Device, taken : SUBSET Device, jammed : SUBSET Device]

NewImu == [at |-> "none", order |-> <<"accel", "gyro">>, next |-> 1, buffers |-> 0,
           ready |-> {}, foundOn |-> {}, taken |-> {}, jammed |-> {}]

NoFormat == [offsets |-> [c \in Channel |-> 0], bytes |-> 0, scale |-> 0]

ImuTypeOK ==
    /\ buffer \in [Device -> {"off", "own", "other"}]
    /\ driver \in Driver \cup {NoDriver}
    /\ imu \in Object
    /\ DOMAIN format = DOMAIN NoFormat

ImuInit ==
    /\ buffer = [d \in Device |-> "off"]
    /\ driver = NoDriver
    /\ imu = NewImu
    /\ format = NoFormat

-----------------------------------------------------------------------------
(* The record layout and the scale *)

RoundUp(n, width) == ((n + width - 1) \div width) * width

Placed_Unaligned(layout, channel) ==
    [offsets |-> [layout.offsets EXCEPT ![channel] = layout.end],
     end |-> layout.end + Width[channel]]

\* One channel after the others, at the next multiple of its width.
Placed(layout, channel) ==
    LET offset == RoundUp(layout.end, Width[channel])
    IN  [offsets |-> [layout.offsets EXCEPT ![channel] = offset],
         end |-> offset + Width[channel]]

NoLayout == [offsets |-> [c \in Channel |-> 0], end |-> 0]

Layout(scan) ==
    Placed(Placed(Placed(Placed(NoLayout, scan[1]), scan[2]), scan[3]), scan[4])

Distance(scale) == IF scale < TargetScale THEN TargetScale - scale ELSE scale - TargetScale

Nearer(best, scale) ==
    IF best = 0 \/ Distance(scale) < Distance(best) THEN scale ELSE best

\* The nearest of the offered scales, the first of two as near.
SelectScale(scales) == Nearer(Nearer(0, scales[1]), scales[2])

\* What a record is read with.
FormatOf(found) ==
    [offsets |-> Layout(found.scan).offsets, bytes |-> RoundUp(Layout(found.scan).end, 8),
     scale |-> SelectScale(found.scales)]

-----------------------------------------------------------------------------
(* The constructor *)

Current == imu.order[imu.next]

\* An attribute is missing, unreadable, not writable or not what it should be:
\* the constructor catches, disables what is in buffers_, and throws again.
Throws ==
    /\ imu.at \in {"none", "found", "checked", "still", "disabled", "enabling"}
    /\ imu' = [imu EXCEPT !.at = "unwinding", !.next = 1]
    /\ UNCHANGED <<buffer, driver, format>>

\* One accelerometer and one gyroscope, in the order of the directory.
Discover ==
    /\ imu.at = "none"
    /\ \E order \in {<<"accel", "gyro">>, <<"gyro", "accel">>} :
          imu' = [NewImu EXCEPT !.at = "found", !.order = order, !.jammed = imu.jammed]
    /\ driver' \in Driver
    /\ UNCHANGED <<buffer, format>>

\* The next place of a loop over both devices that ends at place last.
Onwards(again, last) ==
    IF imu.next = 2 THEN [imu EXCEPT !.at = last, !.next = 1]
    ELSE [imu EXCEPT !.at = again, !.next = 2]

\* Refuse to take over enabled buffers.
CheckIdle ==
    /\ imu.at = "found"
    /\ IF buffer[Current] # "off"
       THEN imu' = [imu EXCEPT !.at = "unwinding", !.next = 1, !.foundOn = @ \cup {Current}]
       ELSE imu' = Onwards("found", "checked")
    /\ UNCHANGED <<buffer, driver, format>>

CheckGravity ==
    /\ imu.at = "checked"
    /\ imu' = [imu EXCEPT !.at = "still"]
    /\ UNCHANGED <<buffer, driver, format>>

\* Remember the buffer, and switch it off.
Prepare ==
    /\ imu.at = "still"
    /\ imu' = [imu EXCEPT !.at = "disabled", !.buffers = imu.next,
                          !.taken = @ \cup (imu.foundOn \cap {Current})]
    /\ buffer' = [buffer EXCEPT ![Current] = "off"]
    /\ UNCHANGED <<driver, format>>

\* The same, when the write fails after the buffer was remembered.
PrepareThrows ==
    /\ imu.at = "still"
    /\ imu' = [imu EXCEPT !.at = "unwinding", !.buffers = imu.next, !.next = 1]
    /\ UNCHANGED <<buffer, driver, format>>

Configured_OneByOne ==
    [imu EXCEPT !.at = "enabling", !.ready = @ \cup {Current}]

Configured ==
    [Onwards("still", "enabling") EXCEPT !.ready = @ \cup {Current}]

\* Clock, rate, scale, channels, watermark and length, each read back.
ConfigureDevice ==
    /\ imu.at = "disabled"
    /\ imu' = Configured
    /\ format' = FormatOf(driver)
    /\ UNCHANGED <<buffer, driver>>

Enable ==
    /\ imu.at = "enabling"
    /\ buffer' = [buffer EXCEPT ![Current] = "own"]
    /\ \E readBack \in BOOLEAN :
          imu' = IF readBack THEN Onwards("enabling", "held")
                 ELSE [imu EXCEPT !.at = "unwinding", !.next = 1]
    /\ UNCHANGED <<driver, format>>

-----------------------------------------------------------------------------
(* disable(), of the constructor's handler and of the destructor *)

Owed_All == IF imu.buffers = 0 THEN 2 ELSE imu.buffers

\* How many buffers disable() visits: those in buffers_.
Owed == imu.buffers

\* One buffer of the loop; a failed write is logged and the loop goes on.
DisableNext ==
    /\ imu.at \in {"unwinding", "releasing"}
    /\ imu.next <= Owed
    /\ \E written \in BOOLEAN :
          /\ buffer' = IF written THEN [buffer EXCEPT ![Current] = "off"] ELSE buffer
          /\ imu' = [imu EXCEPT !.next = @ + 1,
                                !.jammed = IF written \/ buffer[Current] # "own"
                                           THEN @ \ {Current} ELSE @ \cup {Current},
                                !.taken = IF written THEN @ \cup (imu.foundOn \cap {Current})
                                          ELSE @]
    /\ UNCHANGED <<driver, format>>

DisableDone ==
    /\ imu.at \in {"unwinding", "releasing"}
    /\ imu.next > Owed
    /\ imu' = [NewImu EXCEPT !.at = IF imu.at = "unwinding" THEN "failed" ELSE "none",
                             !.jammed = imu.jammed]
    /\ driver' = NoDriver /\ format' = NoFormat
    /\ UNCHANGED buffer

\* The end of the scope of the object.
Destroy ==
    /\ imu.at = "held"
    /\ imu' = [imu EXCEPT !.at = "releasing", !.next = 1]
    /\ UNCHANGED <<buffer, driver, format>>

ConstructImu ==
    \/ Throws \/ Discover \/ CheckIdle \/ CheckGravity
    \/ Prepare \/ PrepareThrows \/ ConfigureDevice \/ Enable

DisableImu == DisableNext \/ DisableDone

\* Another program switches a free buffer on, or its own off.
OtherProgram ==
    /\ \E d \in Device :
          \/ buffer[d] = "off" /\ buffer' = [buffer EXCEPT ![d] = "other"]
          \/ buffer[d] = "other" /\ buffer' = [buffer EXCEPT ![d] = "off"]
    /\ UNCHANGED <<driver, imu, format>>

-----------------------------------------------------------------------------
(* Parts of the properties *)

Bytes(offset, width) == offset..(offset + width - 1)

\* What a record is read with: aligned, separate fields in the driver's order,
\* all inside a record of whole eight bytes with less than eight to spare.
RecordsDecodable ==
    imu.ready # {} =>
        /\ \A i \in 1..4 : format.offsets[driver.scan[i]] % Width[driver.scan[i]] = 0
        /\ \A i \in 1..3 :
              format.offsets[driver.scan[i]] + Width[driver.scan[i]]
                  <= format.offsets[driver.scan[i + 1]]
        /\ format.bytes % 8 = 0
        /\ LET last == format.offsets[driver.scan[4]] + Width[driver.scan[4]]
           IN  last <= format.bytes /\ format.bytes < last + 8

\* No offered scale is nearer to the wanted one.
ScaleIsNearest ==
    imu.ready # {} => \A i \in 1..2 : Distance(format.scale) <= Distance(driver.scales[i])

\* A device that is configured was found, and is read as it was found.
ReadAsFound ==
    /\ imu.at \in {"found", "checked", "still", "disabled", "enabling", "held"}
          => driver \in Driver
    /\ imu.ready # {} => driver \in Driver /\ format = FormatOf(driver)

\* Neither buffer runs before both devices are configured.
ConfiguredBeforeEnabled ==
    imu.at \in {"enabling", "held"} /\ (\E d \in Device : buffer[d] = "own")
        => imu.ready = Device

\* A buffer found on is not switched off, not even by the handler.
FoundOnUntouched == imu.taken = {}

\* Nothing of ours runs once the object is gone, but a buffer whose switching
\* off failed.
NothingLeftOn ==
    imu.at \in {"none", "failed"} => \A d \in Device : buffer[d] = "own" => d \in imu.jammed

\* What makes them so.  disable() has yet to come to every buffer of ours.
OwnAreOwed ==
    \A d \in Device : buffer[d] = "own" =>
        \/ d \in imu.jammed
        \/ \E i \in 1..imu.buffers :
              imu.order[i] = d /\ (imu.at \in {"unwinding", "releasing"} => imu.next <= i)

\* How far buffers_ and the configuration are at each place of the constructor.
LoopsInOrder ==
    /\ imu.at \notin {"unwinding", "releasing"} => imu.next <= 2
    /\ imu.at = "checked" => imu.next = 1
    /\ imu.at \in {"none", "found", "checked", "failed"} => imu.buffers = 0
    /\ imu.at = "still" => imu.buffers = imu.next - 1
    /\ imu.at = "disabled" => imu.buffers = imu.next
    /\ imu.at \in {"enabling", "held"} => imu.buffers = 2 /\ imu.ready = Device
    /\ imu.at \in {"still", "disabled"} /\ imu.next = 2 => imu.order[1] \in imu.ready

\* A buffer found on is noticed before any is remembered.
RefusedAtOnce == imu.foundOn # {} => imu.at = "unwinding" /\ imu.buffers = 0
=============================================================================
