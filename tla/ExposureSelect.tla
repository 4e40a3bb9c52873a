---------------------------- MODULE ExposureSelect ----------------------------
(***************************************************************************)
(* select_exposure and probe of src/camera_capture.cpp: the exposure of a  *)
(* capture is fixed, measured from the camera's automatic control, or the  *)
(* best of a sweep of probes, each of which starts and stops the camera.   *)
(*                                                                         *)
(* The image of a frame is its mean brightness and its share of clipped    *)
(* pixels in hundredths.  X_Slip just before X is X with one slip put in,  *)
(* which TLC has to detect.                                                *)
(***************************************************************************)
EXTENDS Naturals, Sequences, FiniteSets, SequencesExt, FiniteSetsExt

CONSTANTS
    Shutters,       \* the sweep's shutters, ten of 20 to 4000 us
    MaxShutter,     \* config.max_shutter
    FixedShutter,   \* config.shutter
    Clipped, Mean,  \* what a frame of a probe may measure
    Product,        \* twice the shutter times the gain the camera may settle on
    SettleFrames,   \* frames a probe leaves aside (10)
    ProbeFrames,    \* frames a probe reads (13 and 40)
    ProbePatience   \* turns of the loop until the deadline (15 s)

ASSUME ExposureAssumption ==
    /\ Shutters \subseteq Nat \ {0} /\ {MaxShutter, FixedShutter} \subseteq Nat \ {0}
    /\ Clipped \subseteq 0..100 /\ Mean \subseteq Nat /\ Product \subseteq Nat
    /\ SettleFrames \in Nat /\ ProbeFrames \in Nat /\ SettleFrames < ProbeFrames
    /\ ProbePatience \in Nat

VARIABLES
    select,     \* select_exposure and the probe it is in
    sensor      \* whether the camera runs, and what its sensor sees

exposureVars == <<select, sensor>>

Mode == {"fixed", "auto", "sweep"}
Exposure == [shutter : Nat, gain : Nat \X Nat]
View == [clipped : Nat, mean : Nat]
Measured == [product : Nat, clipped : Nat, mean : Nat, frames : Nat]
Result == [shutter : Nat, clipped : Nat, mean : Nat]

NoExposure == [shutter |-> 0, gain |-> <<0, 1>>]
Dark == [clipped |-> 0, mean |-> 0]
NoMeasure == [product |-> 0, clipped |-> 0, mean |-> 0, frames |-> 0]
NoResult == [shutter |-> 0, clipped |-> 0, mean |-> 0]

(***************************************************************************)
(* select.at        none, ready for a probe, probing, comparing, chosen or *)
(*                  failed                                                 *)
(* select.shutter   of the sweep's probe                                   *)
(* select.received, select.turns   frames read and turns of probe's loop   *)
(* select.measured  what consume() has kept of the probe                   *)
(* select.results   of the sweep's probes so far                           *)
(* select.compared, select.best, select.usable   how far the last loop is  *)
(* sensor.sees      the scene under the running exposure                   *)
(***************************************************************************)
Selection == [at : {"none", "ready", "probing", "comparing", "chosen", "failed"},
              mode : Mode, shutter : Nat, received : Nat, turns : Nat,
              measured : Measured, results : Seq(Result),
              compared : Nat, best : Result, usable : BOOLEAN, chosen : Exposure]

NewSelect == [at |-> "none", mode |-> "fixed", shutter |-> 0, received |-> 0, turns |-> 0,
              measured |-> NoMeasure, results |-> <<>>,
              compared |-> 0, best |-> NoResult, usable |-> FALSE, chosen |-> NoExposure]

Stopped == [runs |-> FALSE, sees |-> Dark, product |-> 0]

SelectTypeOK ==
    /\ select \in Selection
    /\ sensor \in [runs : BOOLEAN, sees : View, product : Nat]

ExposureInit == select = NewSelect /\ sensor = Stopped

-----------------------------------------------------------------------------
(* The choice *)

\* The shutters the sweep has yet to probe; it goes through them in order.
Left == {s \in Shutters : s <= MaxShutter /\ s > select.shutter}

Usable(result) == result.clipped <= 1 /\ result.mean >= 15

Better_LeastClipped(result, chosen, usable) ==
    \/ Usable(result) /\ ~usable
    \/ result.clipped < chosen.clipped

\* Whether a result replaces the one chosen of those before it, one of which
\* was usable or none.
Better(result, chosen, usable) ==
    \/ Usable(result) /\ (~usable \/ result.mean > chosen.mean)
    \/ ~Usable(result) /\ ~usable /\ result.clipped < chosen.clipped

\* A measured product is usable; and the shutter, cut to whole microseconds and
\* to the limit, and the gain that keeps the product.
ProductInRange(product) == 2 <= product /\ product <= 2 * 16 * MaxShutter

FromProduct(product) ==
    LET whole == product \div 2
        shutter == IF whole < MaxShutter THEN whole ELSE MaxShutter
    IN  [shutter |-> shutter, gain |-> <<product, 2 * shutter>>]

-----------------------------------------------------------------------------
(* The probes *)

Choose(exposure) == [select EXCEPT !.at = "chosen", !.chosen = exposure]

\* select_exposure is called: a fixed exposure needs no probe.
BeginSelect ==
    /\ select.at = "none"
    /\ \/ select' = [NewSelect EXCEPT !.at = "chosen",
                        !.chosen = [shutter |-> FixedShutter, gain |-> <<1, 1>>]]
       \/ \E mode \in {"auto", "sweep"} : select' = [NewSelect EXCEPT !.at = "ready", !.mode = mode]
    /\ UNCHANGED sensor

\* max_shutter is below the shortest probe.
NothingToSweep ==
    /\ select.at = "ready" /\ select.mode = "sweep" /\ Left = {} /\ select.results = <<>>
    /\ select' = [NewSelect EXCEPT !.at = "failed"]
    /\ UNCHANGED sensor

\* camera.start() of the next probe.
StartProbe ==
    /\ select.at = "ready"
    /\ select.mode = "sweep" => Left # {}
    /\ \E clipped \in Clipped, mean \in Mean, product \in Product :
          /\ select.mode = "auto" => clipped = Min(Clipped) /\ mean = Min(Mean)
          /\ select.mode = "sweep" => product = Min(Product)
          /\ sensor' = [runs |-> TRUE, sees |-> [clipped |-> clipped, mean |-> mean],
                        product |-> product]
    /\ select' = [select EXCEPT !.at = "probing", !.received = 0, !.turns = 0,
                                !.measured = NoMeasure,
                                !.shutter = IF select.mode = "sweep" THEN Min(Left) ELSE @]

Turn(s) == [s EXCEPT !.turns = @ + 1]

Settled_Early(received) == received >= SettleFrames

Settled(received) == received > SettleFrames

\* consume() of a frame.
Consumed(measured, sees, product) ==
    [product |-> product, clipped |-> measured.clipped + sees.clipped,
     mean |-> measured.mean + sees.mean, frames |-> measured.frames + 1]

\* read() gives a frame: one that has not settled shows anything.
ProbeFrame ==
    LET received == select.received + 1
    IN  /\ select.at = "probing"
        /\ select.received < ProbeFrames /\ select.turns < ProbePatience
        /\ \E unsettled \in {Dark, [clipped |-> 100, mean |-> 255]} :
              LET sees == IF received > SettleFrames THEN sensor.sees ELSE unsettled
                  product == IF received > SettleFrames THEN sensor.product ELSE 0
              IN  select' = [Turn(select) EXCEPT
                    !.received = received,
                    !.measured = IF Settled(received) THEN Consumed(@, sees, product) ELSE @]
        /\ UNCHANGED sensor

\* read() times out.
ProbeWaits ==
    /\ select.at = "probing"
    /\ select.received < ProbeFrames /\ select.turns < ProbePatience
    /\ select' = Turn(select)
    /\ UNCHANGED sensor

Cleaned_OnSuccessOnly == IF select'.at = "failed" THEN sensor ELSE Stopped

\* camera.stop(), on every way out of probe.
Cleaned == Stopped

\* start(), pump(), read(), consume() or the deadline ends the probe.
ProbeFails ==
    /\ select.at \in {"ready", "probing"}
    /\ select' = [NewSelect EXCEPT !.at = "failed"]
    /\ sensor' = Cleaned

Averaged == [shutter |-> select.shutter,
             clipped |-> select.measured.clipped \div select.measured.frames,
             mean |-> select.measured.mean \div select.measured.frames]

\* The probe has read its frames: the exposure is measured, or the sweep goes on.
ProbeDone ==
    /\ select.at = "probing"
    /\ select.received = ProbeFrames
    /\ \/ /\ select.mode = "auto"
          /\ select' = IF ProductInRange(select.measured.product)
                       THEN Choose(FromProduct(select.measured.product))
                       ELSE [NewSelect EXCEPT !.at = "failed"]
       \/ /\ select.mode = "sweep"
          /\ select' = [select EXCEPT !.at = "ready", !.results = Append(@, Averaged)]
    /\ sensor' = Cleaned

\* The loop over the results.
BeginCompare ==
    /\ select.at = "ready" /\ select.mode = "sweep" /\ Left = {} /\ select.results # <<>>
    /\ select' = [select EXCEPT !.at = "comparing", !.compared = 0, !.usable = FALSE,
                                !.best = select.results[1]]
    /\ UNCHANGED sensor

Compare ==
    /\ select.at = "comparing" /\ select.compared < Len(select.results)
    /\ LET result == select.results[select.compared + 1]
       IN  select' = [select EXCEPT !.compared = @ + 1,
                        !.best = IF Better(result, @, select.usable) THEN result ELSE @,
                        !.usable = @ \/ Usable(result)]
    /\ UNCHANGED sensor

EndSweep ==
    /\ select.at = "comparing" /\ select.compared = Len(select.results)
    /\ select' = Choose([shutter |-> select.best.shutter, gain |-> <<1, 1>>])
    /\ UNCHANGED sensor

SelectStep ==
    \/ BeginSelect \/ NothingToSweep \/ StartProbe \/ ProbeFrame \/ ProbeWaits \/ ProbeFails
    \/ ProbeDone \/ BeginCompare \/ Compare \/ EndSweep

-----------------------------------------------------------------------------
(* Parts of the properties *)

\* The sweep probes every shutter up to the limit and ends with the brightest of
\* the exposures that clip at most one pixel in a hundred and are not too dark,
\* or with the least clipped; the shortest of equals.
SweepIsBest ==
    select.at = "chosen" /\ select.mode = "sweep" =>
        LET all == ToSet(select.results)
            usable == {r \in all : Usable(r)}
            best == IF usable # {} THEN {r \in usable : \A o \in usable : o.mean <= r.mean}
                    ELSE {r \in all : \A o \in all : r.clipped <= o.clipped}
        IN  /\ {r.shutter : r \in all} = {s \in Shutters : s <= MaxShutter}
            /\ select.chosen.shutter = Min({r.shutter : r \in best})

\* A measured exposure is kept as it is, with a shutter up to the limit and a
\* gain of one to sixteen.
ProductIsKept ==
    select.at = "chosen" /\ select.mode = "auto" =>
        LET gain == select.chosen.gain
        IN  /\ select.chosen.shutter \in 1..MaxShutter
            /\ gain[2] <= gain[1] /\ gain[1] <= 16 * gain[2]
            /\ 2 * select.chosen.shutter * gain[1] = select.measured.product * gain[2]

\* Each result is what the camera saw under its exposure, settled.
ResultsAreSettled ==
    \A i \in 1..Len(select.results) :
        select.results[i].clipped \in Clipped /\ select.results[i].mean \in Mean

\* What makes them so.  A running probe has kept what the settled frames show.
MeasuredWhatIsSeen ==
    select.at = "probing" =>
        /\ sensor.sees.clipped \in Clipped /\ sensor.sees.mean \in Mean
        /\ select.received <= ProbeFrames
        /\ select.measured.frames = IF select.received > SettleFrames
                                    THEN select.received - SettleFrames ELSE 0
        /\ select.measured.clipped = select.measured.frames * sensor.sees.clipped
        /\ select.measured.mean = select.measured.frames * sensor.sees.mean

\* A sweep has the results of the shutters it has been through, in order.
SweepInOrder ==
    select.mode = "sweep" /\ select.at # "failed" =>
        LET all == ToSet(select.results)
        IN  /\ {r.shutter : r \in all} = {s \in Shutters : s <= MaxShutter /\
                   IF select.at = "probing" THEN s < select.shutter ELSE s <= select.shutter}
            /\ \A i, j \in 1..Len(select.results) :
                  i < j => select.results[i].shutter < select.results[j].shutter
            /\ select.at = "probing" => select.shutter \in Shutters /\ select.shutter <= MaxShutter
            /\ select.at \in {"comparing", "chosen"} => Left = {} /\ select.results # <<>>

\* The best of the results compared so far, by the same measure.
BestSoFar ==
    select.at = "comparing" =>
        /\ select.mode = "sweep" /\ select.compared <= Len(select.results)
        /\ LET seen == {select.results[i] : i \in 1..select.compared}
           IN  /\ select.compared = 0 => select.best = select.results[1]
               /\ select.compared > 0 => select.best \in seen
               /\ select.usable = (\E r \in seen : Usable(r))
               /\ select.usable => Usable(select.best)
               /\ \A r \in seen :
                     \/ select.usable /\ (Usable(r) => r.mean <= select.best.mean)
                     \/ ~select.usable /\ select.best.clipped <= r.clipped
               /\ \A r \in seen :
                     (/\ select.usable => Usable(r) /\ r.mean = select.best.mean
                      /\ ~select.usable => r.clipped = select.best.clipped)
                        => select.best.shutter <= r.shutter
=============================================================================
