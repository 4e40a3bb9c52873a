----------------------------- MODULE ExtNavFusion -----------------------------
(***************************************************************************)
(* What the flight controller does with the positions and velocities this  *)
(* program sends: SelectVelPosFusion and FuseVelPosNED of the firmware the *)
(* flight review archived, one estimator core.  The pilot switches source  *)
(* sets, the program starts new generations (posReset), the GPS receiver   *)
(* in use and the aiding mode change between two calls.                    *)
(*                                                                         *)
(* A measurement is the frame it is given in; its numbers, the innovation  *)
(* tests and the timeouts are chosen.  Range finder, beacon, optical flow  *)
(* and body odometry are no source of this vehicle.  X_Y just before X is  *)
(* X with one slip put in.                                                 *)
(***************************************************************************)
EXTENDS Naturals

CONSTANTS
    SourceSets,     \* the source sets the vehicle is configured with, a source an axis
    Receivers,      \* GPS receivers
    MaxGeneration   \* bound: generations of the sending program

Source       == {"none", "gps", "extnav"}
HeightSource == {"none", "baro", "gps", "extnav"}

ASSUME FusionAssumption ==
    /\ SourceSets \subseteq
          [posxy : Source, velxy : Source, posz : HeightSource, velz : Source]
    /\ MaxGeneration \in Nat

VARIABLES
    at,         \* "idle", or inside SelectVelPosFusion before ("fuse") and after
                \* ("done") its call of FuseVelPosNED
    sources,    \* the active source set
    lane,       \* the core's members that outlive a call
    ext,        \* extNavDataDelayed's generation, and extNavDataToFuse
    frame,      \* what the position states were last set in: ne and d
    fuse,       \* fusePosData, fuseVelData, fuseVelVertData, fuseHgtData
    obs,        \* velPosObs: where each observation comes from
    fused       \* what this call fused, whose error weighed the position, and what
                \* it set the vertical velocity to besides

vars == <<at, sources, lane, ext, frame, fuse, obs, fused>>

Generation == 0..MaxGeneration
GpsFrame == {"gps"} \X Receivers
ExtFrame == {"extnav"} \X Generation
Held     == <<"held", 0>>       \* lastKnownPositionNE
OldPos   == <<"old", 0>>
NoPos    == <<"no", 0>>
Position == GpsFrame \cup ExtFrame \cup {Held}
Baro     == <<"baro", 0>>
Zero     == <<"zero", 0>>       \* the constant height of a set without a source
Height   == GpsFrame \cup ExtFrame \cup {Baro, Zero}
Speed    == {"gps", "extnav", "zero", "own"}

Lane  == [aiding : {"none", "relative", "absolute"}, last : Source,
          reset : BOOLEAN, gps : Receivers, extUsed : BOOLEAN,
          active : HeightSource, prev : HeightSource]
Frame == [ne : Position, d : Height]
Flags == [pos : BOOLEAN, vel : BOOLEAN, vert : BOOLEAN, hgt : BOOLEAN, still : BOOLEAN]
Obs   == [vxy : Speed \cup {"old"}, vz : Speed \cup {"old"},
          pos : Position \cup {OldPos}, hgt : Height \cup {OldPos}]

NoFlags == [pos |-> FALSE, vel |-> FALSE, vert |-> FALSE, hgt |-> FALSE, still |-> FALSE]
Old     == [vxy |-> "old", vz |-> "old", pos |-> OldPos, hgt |-> OldPos]
Nothing == [vxy |-> "no", vz |-> "no", pos |-> NoPos, hgt |-> NoPos,
            noise |-> "no", set |-> "no"]

TypeOK ==
    /\ at \in {"idle", "fuse", "done"}
    /\ sources \in SourceSets
    /\ lane \in Lane
    /\ ext \in [gen : Generation, toFuse : BOOLEAN]
    /\ frame \in Frame
    /\ fuse \in Flags
    /\ obs \in Obs
    /\ fused \in [vxy : Speed \cup {"old", "no"}, vz : Speed \cup {"old", "no"},
                  pos : Position \cup {OldPos, NoPos}, hgt : Height \cup {OldPos, NoPos},
                  noise : {"no", "assumed", "gps", "extnav"},
                  set : {"no", "gps", "extnav", "zero"}]

Init ==
    /\ at = "idle"
    /\ sources \in SourceSets
    /\ lane \in [aiding : {"none"}, last : Source, reset : {FALSE},
                 gps : Receivers, extUsed : {FALSE},
                 active : {"baro"}, prev : {"baro"}]
    /\ ext = [gen |-> 0, toFuse |-> FALSE]
    /\ frame = [ne |-> Held, d |-> Baro]
    /\ fuse = NoFlags
    /\ obs = Old
    /\ fused = Nothing

-----------------------------------------------------------------------------
(* SelectVelPosFusion.  s is the core while it runs; in is what reached the  *)
(* fusion horizon and what the vehicle does.                                 *)

Core == [lane |-> lane, frame |-> frame, fuse |-> fuse, obs |-> obs]

\* What one call finds.  At most one sample of the program passes the horizon
\* between two calls; the first of a generation carries posReset.
Input == [gps : Receivers \cup {"none"},        \* gpsDataToFuse and its receiver
          ext : {"none", "same", "reset"},      \* extNavDataToFuse, posReset
          speed : BOOLEAN,                      \* extNavVelToFuse
          baro : BOOLEAN,                       \* baroDataToFuse
          gpsUsable : BOOLEAN,                  \* the receiver's newest fix: under 500 ms
          gpsLost : BOOLEAN,                    \* old; over 2 s old or inaccurate
          extFresh : BOOLEAN,                   \* the program's: under 500 ms old
          place : {"flying", "still", "launch", "rolling"}]

Sampled(in) == in.ext # "none"
Generated(in) == IF in.ext = "reset" THEN ext.gen + 1 ELSE ext.gen
ExtAt(in) == <<"extnav", Generated(in)>>

\* The position source of the active set is compared with the last one seen.
SourceNoticed(s) ==
    IF sources.posxy = s.lane.last THEN s
    ELSE [s EXCEPT !.lane.reset = sources.posxy # "none", !.lane.last = sources.posxy]

ByGps(s, in) == in.gps # "none" /\ s.lane.aiding = "absolute" /\ sources.posxy = "gps"
ByExt(s, in) == Sampled(in) /\ s.lane.aiding = "absolute" /\ sources.posxy = "extnav"

\* Position, and for GPS velocity, of the selected position source (a receiver that
\* reports vertical velocity: useGpsVertVel).
PositionSelected(s, in) ==
    IF ByGps(s, in) THEN
        [s EXCEPT !.fuse.pos = TRUE, !.obs.pos = <<"gps", in.gps>>, !.lane.extUsed = FALSE,
                  !.fuse.vel = sources.velxy = "gps", !.fuse.vert = sources.velz = "gps",
                  !.obs.vxy = IF sources.velxy = "gps" THEN "gps" ELSE @,
                  !.obs.vz = IF sources.velz = "gps" THEN "gps" ELSE @]
    ELSE IF ByExt(s, in) THEN
        [s EXCEPT !.fuse.pos = TRUE, !.obs.pos = ExtAt(in), !.lane.extUsed = TRUE]
    ELSE s

\* The program's velocity: each axis on its own source, in every aiding mode.
SpeedSelected(s, in) ==
    LET xy == in.speed /\ sources.velxy = "extnav"
        z  == in.speed /\ sources.velz = "extnav"
    IN  [s EXCEPT !.fuse = [s.fuse EXCEPT !.vel = @ \/ xy, !.vert = @ \/ z],
                  !.obs = [s.obs EXCEPT !.vxy = IF xy THEN "extnav" ELSE @,
                                        !.vz = IF z THEN "extnav" ELSE @]]

\* selectHeightForFusion: the source, which stays as it was while the one named is
\* not usable ...
NamedHeight(s, in) ==
    IF (sources.posz = "gps" => in.gpsUsable) /\ (sources.posz = "extnav" => in.extFresh)
    THEN sources.posz ELSE s.lane.active

\* ... and falls back to the barometer when it is lost ...
ActiveHeight(s, in) ==
    LET named == NamedHeight(s, in)
        lost  == \/ named = "gps" /\ in.gpsLost
                 \/ named = "extnav" /\ ~in.extFresh
    IN  IF lost THEN "baro" ELSE named

\* ... its measurement, if one reached the horizon ...
HeightMeasured(active, in) ==
    CASE active = "extnav" -> Sampled(in)
      [] active = "gps"    -> in.gps # "none"
      [] active = "baro"   -> in.baro
      [] active = "none"   -> in.baro       \* at 14 Hz: as often as the barometer

HeightAt(active, in) ==
    CASE active = "extnav" -> ExtAt(in)
      [] active = "gps"    -> <<"gps", in.gps>>
      [] active = "baro"   -> Baro
      [] active = "none"   -> Zero

\* ... and a reset of the vertical position when the source changed: a height of
\* the same source in another frame (receiver, generation) does not reset it here.
HeightSelected(s, in) ==
    LET active == ActiveHeight(s, in)
        measured == HeightMeasured(active, in)
        height == HeightAt(active, in)
    IN  [lane  |-> [s.lane EXCEPT !.active = active, !.prev = IF measured THEN active ELSE @],
         frame |-> [s.frame EXCEPT !.d = IF measured /\ active # s.lane.prev THEN height ELSE @],
         fuse  |-> [s.fuse EXCEPT !.hgt = measured],
         obs   |-> [s.obs EXCEPT !.hgt = IF measured THEN height ELSE @]]

\* A new receiver, a new generation or a changed source: ResetPositionNE to the
\* sample, and ResetPositionD when it is the height reference too.
Rebased_PositionOnly(s, source) ==
    [s EXCEPT !.lane.reset = FALSE, !.frame.ne = s.obs.pos]

Rebased(s, source) ==
    [s EXCEPT !.lane.reset = FALSE,
              !.frame = [ne |-> s.obs.pos,
                         d |-> IF s.lane.active = source THEN s.obs.hgt ELSE s.frame.d]]

GpsRebased(s, in) ==
    IF ByGps(s, in) /\ (in.gps # s.lane.gps \/ s.lane.reset)
    THEN [Rebased(s, "gps") EXCEPT !.lane.gps = in.gps] ELSE s

ExtRebased_OnSourceOnly(s, in) ==
    IF ByExt(s, in) /\ s.lane.reset THEN Rebased(s, "extnav") ELSE s

ExtRebased(s, in) ==
    IF ByExt(s, in) /\ (in.ext = "reset" \/ s.lane.reset) THEN Rebased(s, "extnav") ELSE s

\* Without aiding the last position is held, a vehicle at rest has no velocity
\* and a launched fixed wing is not told one.
Unaided(s, in) ==
    IF ~s.fuse.hgt \/ s.lane.aiding # "none" THEN s
    ELSE CASE in.place = "launch" ->
              [s EXCEPT !.fuse = [s.fuse EXCEPT !.pos = FALSE, !.vel = FALSE, !.vert = FALSE],
                        !.obs = [s.obs EXCEPT !.vxy = "zero", !.vz = "own"]]
           [] in.place = "rolling" ->
              [s EXCEPT !.fuse = [s.fuse EXCEPT !.pos = FALSE, !.vel = TRUE, !.vert = TRUE],
                        !.obs = [s.obs EXCEPT !.vxy = "zero", !.vz = "own"]]
           [] in.place = "still" ->
              [s EXCEPT !.fuse = [s.fuse EXCEPT !.pos = TRUE, !.vel = TRUE, !.still = TRUE],
                        !.obs = [s.obs EXCEPT !.pos = Held, !.vxy = "zero", !.vz = "zero"]]
           [] in.place = "flying" ->
              [s EXCEPT !.fuse = [s.fuse EXCEPT !.pos = TRUE, !.vel = FALSE],
                        !.obs = [s.obs EXCEPT !.pos = Held]]

\* Aided, at rest and without a velocity for a second: zero velocity.
AtRest_KeepsVertical(s, in) ==
    IF s.fuse.hgt /\ s.lane.aiding # "none" /\ in.place = "still"
    THEN [s EXCEPT !.fuse = [s.fuse EXCEPT !.vel = TRUE, !.still = TRUE],
                   !.obs.vxy = "zero"]
    ELSE s

AtRest(s, in) ==
    IF s.fuse.hgt /\ s.lane.aiding # "none" /\ in.place = "still"
    THEN [s EXCEPT !.fuse = [s.fuse EXCEPT !.vel = TRUE, !.still = TRUE],
                   !.obs = [s.obs EXCEPT !.vxy = "zero", !.vz = "zero"]]
    ELSE s

Selected(s, in) ==
    LET cleared  == [s EXCEPT !.fuse = [s.fuse EXCEPT !.pos = FALSE, !.vel = FALSE, !.still = FALSE]]
        noticed  == SourceNoticed(cleared)
        measured == HeightSelected(SpeedSelected(PositionSelected(noticed, in), in), in)
        rebased  == ExtRebased(GpsRebased(measured, in), in)
    IN  AtRest(Unaided(rebased, in), in)

\* What the call does not look at is given one value.
LooksAt(in) ==
    /\ "gps" \notin {sources.posxy, sources.posz, lane.active} => in.gps = "none"
    /\ sources.posz # "gps" => in.gpsUsable
    /\ in.gpsLost => NamedHeight(Core, in) = "gps"
    /\ ~in.extFresh => "extnav" \in {sources.posz, NamedHeight(Core, in)}
    /\ in.baro => ActiveHeight(Core, in) \in {"baro", "none"}
    /\ in.place # "flying" => HeightMeasured(ActiveHeight(Core, in), in)
    /\ in.place \in {"launch", "rolling"} => lane.aiding = "none"
    /\ in.speed => "extnav" \in {sources.velxy, sources.velz}

Anything(f) == f.pos \/ f.vel \/ f.vert \/ f.hgt

SelectVelPosFusion(in) ==
    /\ at = "idle"
    /\ Generated(in) \in Generation
    /\ LooksAt(in)
    /\ ext' = [gen |-> Generated(in), toFuse |-> Sampled(in)]
    /\ LET s == Selected(Core, in)
       IN  /\ lane' = s.lane
           /\ frame' = s.frame
           /\ fuse' = s.fuse
           /\ IF Anything(s.fuse) THEN at' = "fuse" /\ obs' = s.obs
                                  ELSE UNCHANGED <<at, obs>>
    /\ UNCHANGED <<sources, fused>>

-----------------------------------------------------------------------------
(* FuseVelPosNED.  Each selected measurement is tested: "pass" fuses it,     *)
(* "fail" drops it, "reset" sets the state to it instead (after a timeout).  *)

\* ResetPosition(DEFAULT): the newest fix of the source if it is recent, which
\* for GPS may be of another receiver than the delayed one.
ResetTargets ==
    {frame.ne} \cup
    CASE lane.aiding # "absolute" -> {}
      [] sources.posxy = "gps"    -> GpsFrame
      [] sources.posxy = "extnav" -> {<<"extnav", ext.gen>>}
      [] OTHER                    -> {}

\* Whose error weighs the position.
PositionNoise ==
    CASE lane.aiding = "none" -> "assumed"
      [] lane.aiding # "none" /\ lane.extUsed -> "extnav"
      [] OTHER -> "gps"

\* The position is only ever failed while aiding; a reset of it may reset a
\* timed out velocity with it (dropVel).
PositionTested(f, verdict, dropVel) ==
    /\ verdict = "fail" => lane.aiding # "none"
    /\ dropVel => verdict = "reset"
    /\ verdict # "pass" => f.pos

\* The velocity is only reset while aided absolutely.
VelocityTested(f, verdict) ==
    /\ verdict = "reset" => lane.aiding = "absolute"
    /\ verdict # "pass" => f.vel

HeightTested(f, verdict) == verdict # "pass" => f.hgt

\* ResetHeight writes the vertical velocity too: the receiver's, or in flight the
\* program's when it is the height reference, or zero on the ground.
ResetHeight ==
    {"no", "zero"} \cup (IF sources.velz = "gps" THEN {"gps"} ELSE {})
                  \cup (IF lane.active = "extnav" THEN {"extnav"} ELSE {})

\* So does an accelerometer taken to be bad, with the receiver's.
VerticalSet(height) ==
    {"no"} \cup (IF height = "reset" THEN ResetHeight ELSE {})
          \cup (IF fuse.vert /\ sources.velz = "gps" /\ sources.posz # "gps"
                THEN {"gps"} ELSE {})

\* Vertical velocity is fused with the horizontal one only.
Fused(f, set) ==
    [vxy |-> IF f.vel THEN obs.vxy ELSE "no",
     vz  |-> IF f.vel /\ (f.vert \/ f.still) THEN obs.vz ELSE "no",
     pos |-> IF f.pos THEN obs.pos ELSE NoPos,
     hgt |-> IF f.hgt THEN obs.hgt ELSE NoPos,
     noise |-> IF f.pos THEN PositionNoise ELSE "no",
     set |-> set]

FuseVelPosNED(position, velocity, height, dropVel) ==
    LET reset == fuse.vel /\ ~dropVel   \* fuseVelData after the position's test
        kept  == [fuse EXCEPT !.pos = @ /\ position = "pass",
                              !.vel = reset /\ velocity = "pass",
                              !.hgt = @ /\ height = "pass"]
    IN  /\ at = "fuse"
        /\ PositionTested(fuse, position, dropVel)
        /\ VelocityTested([fuse EXCEPT !.vel = reset], velocity)
        /\ HeightTested(fuse, height)
        /\ \E ne \in IF position = "reset" THEN ResetTargets ELSE {frame.ne} :
              /\ frame' = [ne |-> ne, d |-> IF height = "reset" THEN obs.hgt ELSE frame.d]
              /\ lane' = IF position = "reset" /\ ne # frame.ne /\ ne \in GpsFrame
                         THEN [lane EXCEPT !.gps = ne[2]] ELSE lane
        /\ \E set \in VerticalSet(height) : fused' = Fused(kept, set)
        /\ at' = "done"
        /\ UNCHANGED <<sources, ext, fuse, obs>>

\* SelectVelPosFusion clears the flags behind the call; its observations are old
\* to the next one.
Cleared_KeepsVertical == [NoFlags EXCEPT !.vert = fuse.vert]

Cleared == NoFlags

Return ==
    /\ at = "done"
    /\ fuse' = Cleared
    /\ obs' = Old
    /\ fused' = Nothing
    /\ at' = "idle"
    /\ UNCHANGED <<sources, lane, ext, frame>>

-----------------------------------------------------------------------------
(* Outside this file: the pilot's source switch and the aiding mode.         *)

\* No pilot switches twice between two calls, which are milliseconds apart (a call
\* that a magnetometer fusion puts off by one time step included).
SetSources(set) ==
    /\ at = "idle"
    /\ sources.posxy = lane.last
    /\ set # sources
    /\ sources' = set
    /\ UNCHANGED <<at, lane, ext, frame, fuse, obs, fused>>

\* Absolute aiding starts on data of the position source and with ResetPosition.
StartAiding ==
    /\ at = "idle"
    /\ lane.aiding # "absolute"
    /\ \/ /\ sources.posxy = "extnav" /\ ext.toFuse
          /\ frame' = [frame EXCEPT !.ne = <<"extnav", ext.gen>>]
          /\ lane' = [lane EXCEPT !.aiding = "absolute"]
       \/ /\ sources.posxy = "gps"
          /\ \E r \in Receivers :
                /\ frame' = [frame EXCEPT !.ne = <<"gps", r>>]
                /\ lane' = [lane EXCEPT !.aiding = "absolute", !.gps = r]
    /\ UNCHANGED <<at, sources, ext, fuse, obs, fused>>

StopAiding(mode) ==
    /\ at = "idle"
    /\ lane.aiding # mode
    /\ lane' = [lane EXCEPT !.aiding = mode]
    /\ UNCHANGED <<at, sources, ext, frame, fuse, obs, fused>>

Verdict == {"pass", "fail", "reset"}

Next ==
    \/ \E in \in Input : SelectVelPosFusion(in)
    \/ \E p, v, h \in Verdict, drop \in BOOLEAN : FuseVelPosNED(p, v, h, drop)
    \/ Return
    \/ \E set \in SourceSets : SetSources(set)
    \/ StartAiding
    \/ \E mode \in {"none", "relative"} : StopAiding(mode)

Spec == Init /\ [][Next]_vars

-----------------------------------------------------------------------------

\* Everything fused was measured, or assumed, in that very call, although the
\* flags and observations are members that outlive it; and a fused position is
\* weighed with the error of the sensor it came from, although extNavUsedForPos
\* keeps its value over calls that select no position.
FusedIsOfThisCall ==
    /\ "old" \notin {fused.vxy, fused.vz} /\ OldPos \notin {fused.pos, fused.hgt}
    /\ fused.pos \in GpsFrame => fused.noise = "gps"
    /\ fused.pos \in ExtFrame => fused.noise = "extnav"

\* What SelectVelPosFusion leaves FuseVelPosNED in s, the core, on each of the
\* four axes.
Fresh(s) ==
    /\ s.fuse.vel => s.obs.vxy # "old"
    /\ s.fuse.vert => s.obs.vz # "old"
    /\ s.fuse.still => s.obs.vz # "old"
    /\ s.fuse.pos => s.obs.pos # OldPos
    /\ s.fuse.hgt => s.obs.hgt # OldPos

Weighed(s) ==
    s.fuse.pos =>
        \/ s.lane.aiding = "none" /\ s.obs.pos = Held
        \/ s.lane.aiding = "absolute" /\ s.obs.pos \in GpsFrame /\ ~s.lane.extUsed
        \/ s.lane.aiding = "absolute" /\ s.obs.pos \in ExtFrame /\ s.lane.extUsed

\* Position and height of the program are used together.
Joined(s) ==
    /\ s.lane.aiding = "absolute"
    /\ sources.posxy = "extnav"
    /\ s.lane.active = "extnav"

InFrame(s, generation) ==
    /\ s.fuse.pos => s.obs.pos \in {Held, s.frame.ne}
    /\ s.fuse.pos /\ s.lane.aiding = "absolute" /\ sources.posxy = "extnav" =>
          s.frame.ne = <<"extnav", generation>>
    /\ s.fuse.hgt => s.obs.hgt[1] = s.frame.d[1]
    /\ s.fuse.hgt /\ Joined(s) => s.obs.hgt = s.frame.ne

Horizontal(s) ==
    /\ s.fuse.vel /\ s.obs.vz = "extnav" => sources.velxy # "none"
    /\ s.lane.active = "extnav" => sources.posz \in {"gps", "extnav"}

HeightOf(source) == IF source = "none" THEN "zero" ELSE source

\* The state is in the frame of the source last noticed, unless its reset is due;
\* its height was set in a frame of the source last measured.
Anchored(s, generation) ==
    /\ s.lane.aiding = "absolute" /\ sources.posxy = s.lane.last /\ ~s.lane.reset =>
          /\ sources.posxy = "gps" => s.frame.ne = <<"gps", s.lane.gps>>
          /\ sources.posxy = "extnav" => s.frame.ne = <<"extnav", generation>>
    /\ s.frame.d[1] = HeightOf(s.lane.prev)

\* The inductive invariant.
FusionInv ==
    /\ TypeOK
    /\ at = "idle" => fuse = NoFlags /\ obs = Old
    /\ at = "fuse" =>
          Fresh(Core) /\ Weighed(Core) /\ InFrame(Core, ext.gen) /\ Horizontal(Core)
    /\ Anchored(Core, ext.gen)
    /\ FusedIsOfThisCall

\* The flight review's claim: the program's vertical velocity is never fused while no
\* source is named for the horizontal one, whatever the vehicle does and however the
\* source sets and the aiding mode were switched before.  The vertical velocity state
\* can still be set to it, by the reset of a timed out height, whatever is named for
\* the velocities; but not while a set names the barometer, or nothing, for height.
VerticalNeedsHorizontal ==
    [][at = "fuse" =>
          /\ fused'.vz = "extnav" => sources.velxy # "none"
          /\ fused'.set = "extnav" => sources.posz \in {"gps", "extnav"}]_vars

\* A position is fused only into a state in the same frame: a new generation, receiver
\* or source always resets the state first, even when the sample that announced it
\* passed while another source or mode was in use.  For heights the code promises less:
\* only a change of their source always resets the state.  A new generation resets it
\* when the program gives the position too, in absolute aiding; then a height is fused
\* only in the position's generation, and a height state in step with the position
\* stays in step with it.  A height fused beside another position source, or unaided,
\* may be of a newer generation or another receiver than the state was set in.
FrameChangesReset ==
    [][/\ at = "fuse" =>
             /\ fused'.pos \in GpsFrame \cup ExtFrame => fused'.pos = frame.ne
             /\ fused'.hgt # NoPos => fused'.hgt[1] = frame.d[1]
             /\ fused'.hgt # NoPos /\ Joined(Core) => fused'.hgt = frame.ne
       /\ Joined(Core) /\ frame.d = frame.ne /\ Joined(Core)' => frame'.d = frame'.ne]_vars

=============================================================================
