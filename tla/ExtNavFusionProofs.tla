-------------------------- MODULE ExtNavFusionProofs --------------------------
(***************************************************************************)
(* What ExtNavFusion fuses, for every choice of source sets, any number of *)
(* receivers and any number of generations.                                *)
(***************************************************************************)
EXTENDS ExtNavFusion, TLAPS

Cores == [lane : Lane, frame : Frame, fuse : Flags, obs : Obs]

\* An input some call can find.
Found(in) == in \in Input /\ Generated(in) \in Generation

\* What holds of the core from the choice of the position on ...
Selection(s, in) ==
    /\ s \in Cores
    /\ s.lane.last = sources.posxy
    /\ Fresh(s) /\ Weighed(s)
    /\ ~s.fuse.still
    /\ s.fuse.vel => sources.velxy # "none"
    /\ s.fuse.pos <=> ByGps(s, in) \/ ByExt(s, in)
    /\ s.fuse.pos => s.obs.pos = IF ByGps(s, in) THEN <<"gps", in.gps>> ELSE ExtAt(in)

\* ... and of its height from the choice of the height on.
Heights(s, in) ==
    /\ s.fuse.hgt =>
          /\ s.lane.prev = s.lane.active
          /\ s.obs.hgt \in Height /\ s.obs.hgt[1] = s.frame.d[1]
          /\ s.lane.active = "extnav" => Sampled(in) /\ s.obs.hgt = ExtAt(in)
    /\ s.lane.active = "gps" /\ in.gps # "none" => s.fuse.hgt
    /\ s.lane.active = "extnav" /\ Sampled(in) => s.fuse.hgt
    /\ s.lane.active = "extnav" => sources.posz \in {"gps", "extnav"}

\* The height state is the position's frame, or the height this call measured.
InStep(s) == s.frame.d = s.frame.ne \/ (s.fuse.hgt /\ s.frame.d = s.obs.hgt)

-----------------------------------------------------------------------------
(* SelectVelPosFusion stage by stage.  Each lemma says what a stage does to *)
(* a core s that the stages before it may have left.                        *)

\* A changed position source demands a reset before it is used.
LEMMA NoticedStage ==
    ASSUME NEW s \in Cores, sources \in SourceSets, s.fuse = NoFlags, s.obs = Old,
           Anchored(s, ext.gen)
    PROVE  /\ SourceNoticed(s) \in Cores
           /\ SourceNoticed(s).fuse = NoFlags /\ SourceNoticed(s).obs = Old
           /\ SourceNoticed(s).frame = s.frame
           /\ SourceNoticed(s).lane.last = sources.posxy
           /\ Anchored(SourceNoticed(s), ext.gen)
  BY FusionAssumption DEF SourceNoticed, Cores, Lane, Anchored

\* The position and speed that are selected are of this call.
LEMMA PositionStage ==
    ASSUME NEW s \in Cores, NEW in, Found(in), sources \in SourceSets,
           s.fuse = NoFlags, s.obs = Old, s.lane.last = sources.posxy,
           Anchored(s, ext.gen)
    PROVE  LET r == PositionSelected(s, in)
           IN  /\ Selection(r, in) /\ ~r.fuse.hgt /\ Anchored(r, ext.gen)
               /\ r.frame = s.frame
<1>. DEFINE r == PositionSelected(s, in)
<1>. USE DEF Cores
<1>1. s.lane \in Lane /\ s.frame \in Frame /\ s.fuse \in Flags /\ s.obs \in Obs
  OBVIOUS
<1>2. CASE ByGps(s, in)
  <2>1. in.gps \in Receivers
    BY <1>2 DEF ByGps, Found, Input
  <2>2. /\ r.lane = [s.lane EXCEPT !.extUsed = FALSE]
        /\ r.frame = s.frame
        /\ r.fuse = [NoFlags EXCEPT !.pos = TRUE, !.vel = sources.velxy = "gps",
                                    !.vert = sources.velz = "gps"]
        /\ r.obs = [Old EXCEPT !.pos = <<"gps", in.gps>>,
                               !.vxy = IF sources.velxy = "gps" THEN "gps" ELSE @,
                               !.vz = IF sources.velz = "gps" THEN "gps" ELSE @]
        /\ r = [lane |-> r.lane, frame |-> r.frame, fuse |-> r.fuse, obs |-> r.obs]
    BY <1>2 DEF PositionSelected, Flags, Obs, Lane, NoFlags, Old
  <2>3. r.lane \in Lane
    BY <2>2, <1>1 DEF Lane
  <2>4. r.fuse \in Flags
    BY <2>2 DEF Flags, NoFlags
  <2>5. r.obs \in Obs
    <3>1. <<"gps", in.gps>> \in Position
      BY <2>1 DEF Position, GpsFrame
    <3>2. (IF sources.velxy = "gps" THEN "gps" ELSE "old") \in Speed \cup {"old"}
      BY DEF Speed
    <3>3. (IF sources.velz = "gps" THEN "gps" ELSE "old") \in Speed \cup {"old"}
      BY DEF Speed
    <3>. QED BY <2>2, <3>1, <3>2, <3>3 DEF Obs, Old
  <2>6. r \in Cores
    BY <2>2, <2>3, <2>4, <2>5, <1>1
  <2>. QED BY <2>1, <2>2, <2>6, <1>1, <1>2
       DEF Selection, Fresh, Weighed, Anchored, ByGps, ByExt, NoFlags, Old, OldPos, GpsFrame, Lane
<1>3. CASE ~ByGps(s, in) /\ ByExt(s, in)
  <2>1. ExtAt(in) \in ExtFrame
    BY DEF ExtAt, ExtFrame, Found
  <2>2. /\ r.lane = [s.lane EXCEPT !.extUsed = TRUE]
        /\ r.frame = s.frame
        /\ r.fuse = [NoFlags EXCEPT !.pos = TRUE]
        /\ r.obs = [Old EXCEPT !.pos = ExtAt(in)]
        /\ r = [lane |-> r.lane, frame |-> r.frame, fuse |-> r.fuse, obs |-> r.obs]
    BY <1>3 DEF PositionSelected, Flags, Obs, Lane, NoFlags, Old
  <2>3. r.lane \in Lane
    BY <2>2, <1>1 DEF Lane
  <2>4. r.fuse \in Flags
    BY <2>2 DEF Flags, NoFlags
  <2>5. r.obs \in Obs
    BY <2>1, <2>2 DEF Obs, Old, Position
  <2>6. r \in Cores
    BY <2>2, <2>3, <2>4, <2>5, <1>1
  <2>. QED BY <2>1, <2>2, <2>6, <1>1, <1>3
       DEF Selection, Fresh, Weighed, Anchored, ByGps, ByExt, NoFlags, Old, OldPos, ExtFrame, Lane
<1>4. CASE ~ByGps(s, in) /\ ~ByExt(s, in)
  <2>1. r = s
    BY <1>4 DEF PositionSelected
  <2>. QED BY <2>1, <1>4 DEF Selection, Fresh, Weighed, NoFlags
<1>. QED BY <1>2, <1>3, <1>4

\* The speeds selected are of this call, and none is horizontal without a source.
LEMMA SpeedStage ==
    ASSUME NEW s, NEW in, Found(in), sources \in SourceSets, Selection(s, in)
    PROVE  LET r == SpeedSelected(s, in)
           IN  /\ Selection(r, in)
               /\ r.lane = s.lane /\ r.frame = s.frame /\ r.fuse.hgt = s.fuse.hgt
<1>. DEFINE r == SpeedSelected(s, in)
            xy == in.speed /\ sources.velxy = "extnav"
            z  == in.speed /\ sources.velz = "extnav"
<1>0. s \in [lane : Lane, frame : Frame, fuse : Flags, obs : Obs]
  BY DEF Selection, Cores
<1>1. /\ s.lane \in Lane /\ s.frame \in Frame /\ s.fuse \in Flags /\ s.obs \in Obs
      /\ xy \in BOOLEAN /\ z \in BOOLEAN
  BY <1>0 DEF Found, Input
<1>2. /\ r.lane = s.lane /\ r.frame = s.frame
      /\ r.fuse = [s.fuse EXCEPT !.vel = @ \/ xy, !.vert = @ \/ z]
      /\ r.obs = [s.obs EXCEPT !.vxy = IF xy THEN "extnav" ELSE @,
                               !.vz = IF z THEN "extnav" ELSE @]
  BY <1>0 DEF SpeedSelected
<1>3. r.fuse \in Flags
  BY <1>1, <1>2 DEF Flags
<1>4. r.obs \in Obs
  <2>1. (IF xy THEN "extnav" ELSE s.obs.vxy) \in Speed \cup {"old"}
    BY <1>1 DEF Speed, Obs
  <2>2. (IF z THEN "extnav" ELSE s.obs.vz) \in Speed \cup {"old"}
    BY <1>1 DEF Speed, Obs
  <2>. QED BY <1>1, <1>2, <2>1, <2>2 DEF Obs
<1>5. r \in Cores
  <2>1. \A f \in Flags, o \in Obs : [s EXCEPT !.fuse = f, !.obs = o] \in Cores
    BY <1>0 DEF Cores
  <2>. QED BY <1>2, <1>3, <1>4, <2>1 DEF SpeedSelected
<1>6. /\ r.fuse.pos = s.fuse.pos /\ r.fuse.hgt = s.fuse.hgt /\ r.fuse.still = s.fuse.still
      /\ r.fuse.vel = (s.fuse.vel \/ xy) /\ r.fuse.vert = (s.fuse.vert \/ z)
      /\ r.obs.pos = s.obs.pos /\ r.obs.hgt = s.obs.hgt
      /\ r.obs.vxy = IF xy THEN "extnav" ELSE s.obs.vxy
      /\ r.obs.vz = IF z THEN "extnav" ELSE s.obs.vz
  BY <1>1, <1>2 DEF Flags, Obs
<1>. QED BY <1>2, <1>5, <1>6 DEF Selection, Fresh, Weighed, ByGps, ByExt

\* A height that was measured is a height, of its source.
LEMMA MeasuredHeight ==
    ASSUME NEW in, Found(in), NEW active \in HeightSource, HeightMeasured(active, in)
    PROVE  HeightAt(active, in) \in Height /\ HeightAt(active, in)[1] = HeightOf(active)
<1>1. CASE active = "extnav"
  <2>1. ExtAt(in) \in ExtFrame /\ ExtAt(in)[1] = "extnav"
    BY DEF ExtAt, ExtFrame, Found
  <2>. QED BY <1>1, <2>1 DEF HeightAt, HeightOf, Height
<1>2. CASE active = "gps"
  <2>1. in.gps \in Receivers
    BY <1>2 DEF HeightMeasured, Found, Input
  <2>2. <<"gps", in.gps>> \in GpsFrame /\ <<"gps", in.gps>>[1] = "gps"
    BY <2>1 DEF GpsFrame
  <2>. QED BY <1>2, <2>2 DEF HeightAt, HeightOf, Height
<1>3. CASE active = "baro"
  BY <1>3 DEF HeightAt, HeightOf, Height, Baro
<1>4. CASE active = "none"
  BY <1>4 DEF HeightAt, HeightOf, Height, Zero
<1>. QED BY <1>1, <1>2, <1>3, <1>4 DEF HeightSource

\* The program is the active source only while a set names it or the receiver.
LEMMA HeightSources ==
    ASSUME NEW s, s.lane \in Lane, NEW in, sources \in SourceSets
    PROVE  /\ ActiveHeight(s, in) \in HeightSource
           /\ ActiveHeight(s, in) = "extnav" => sources.posz \in {"gps", "extnav"}
<1>1. NamedHeight(s, in) \in HeightSource
  BY FusionAssumption DEF NamedHeight, HeightSource, Lane
<1>2. NamedHeight(s, in) # sources.posz => sources.posz \in {"gps", "extnav"}
  BY DEF NamedHeight
<1>. QED BY <1>1, <1>2 DEF ActiveHeight, HeightSource

\* The height selected is of the active source, and the state is reset to it when
\* that changed.
LEMMA HeightStage ==
    ASSUME NEW s, NEW in, Found(in), sources \in SourceSets, Selection(s, in),
           Anchored(s, ext.gen), ~s.fuse.hgt
    PROVE  LET r == HeightSelected(s, in)
           IN  /\ Selection(r, in) /\ Heights(r, in) /\ Anchored(r, ext.gen)
               /\ r.frame.ne = s.frame.ne
               /\ s.frame.d = s.frame.ne => InStep(r)
<1>. DEFINE r == HeightSelected(s, in)
            active == ActiveHeight(s, in)
            measured == HeightMeasured(active, in)
            height == HeightAt(active, in)
<1>0. s \in [lane : Lane, frame : Frame, fuse : Flags, obs : Obs]
  BY DEF Selection, Cores
<1>1. s.lane \in Lane /\ s.frame \in Frame /\ s.fuse \in Flags /\ s.obs \in Obs
  BY <1>0
<1>2. active \in HeightSource /\ (active = "extnav" => sources.posz \in {"gps", "extnav"})
  BY <1>1, HeightSources
<1>3. measured \in BOOLEAN
  BY <1>2 DEF HeightMeasured, HeightSource, Found, Input, Sampled
<1>4. measured => height \in Height /\ height[1] = HeightOf(active)
  BY <1>2, MeasuredHeight
<1>5. /\ r.lane = [s.lane EXCEPT !.active = active,
                                 !.prev = IF measured THEN active ELSE @]
      /\ r.frame = [s.frame EXCEPT !.d = IF measured /\ active # s.lane.prev
                                         THEN height ELSE @]
      /\ r.fuse = [s.fuse EXCEPT !.hgt = measured]
      /\ r.obs = [s.obs EXCEPT !.hgt = IF measured THEN height ELSE @]
  BY <1>0 DEF HeightSelected
<1>6. r.lane \in Lane
  BY <1>1, <1>2, <1>5 DEF Lane
<1>7. r.frame \in Frame
  BY <1>1, <1>4, <1>5 DEF Frame
<1>8. r.fuse \in Flags
  BY <1>1, <1>3, <1>5 DEF Flags
<1>9. r.obs \in Obs
  BY <1>1, <1>4, <1>5 DEF Obs
<1>10. r \in Cores
  BY <1>6, <1>7, <1>8, <1>9 DEF Cores, HeightSelected
<1>11. /\ r.fuse.pos = s.fuse.pos /\ r.fuse.vel = s.fuse.vel /\ r.fuse.vert = s.fuse.vert
       /\ r.fuse.still = s.fuse.still /\ r.fuse.hgt = measured
       /\ r.obs.pos = s.obs.pos /\ r.obs.vxy = s.obs.vxy /\ r.obs.vz = s.obs.vz
       /\ r.obs.hgt = IF measured THEN height ELSE s.obs.hgt
       /\ r.frame.ne = s.frame.ne
       /\ r.frame.d = IF measured /\ active # s.lane.prev THEN height ELSE s.frame.d
       /\ r.lane.aiding = s.lane.aiding /\ r.lane.last = s.lane.last
       /\ r.lane.reset = s.lane.reset /\ r.lane.gps = s.lane.gps
       /\ r.lane.extUsed = s.lane.extUsed
       /\ r.lane.active = active /\ r.lane.prev = IF measured THEN active ELSE s.lane.prev
  BY <1>1, <1>5 DEF Flags, Obs, Frame, Lane
<1>. HIDE DEF r, active, measured, height
<1>12. measured => height # OldPos
  BY <1>2, <1>4 DEF OldPos, HeightOf, HeightSource
<1>13. Selection(r, in)
  BY <1>10, <1>11, <1>12 DEF Selection, Fresh, Weighed, ByGps, ByExt
<1>14. r.frame.d[1] = HeightOf(r.lane.prev)
  BY <1>3, <1>4, <1>11 DEF Anchored
<1>15. Anchored(r, ext.gen)
  BY <1>11, <1>14 DEF Anchored
<1>16. measured /\ active = "extnav" => Sampled(in) /\ height = ExtAt(in)
  BY DEF measured, height, HeightMeasured, HeightAt
<1>17. /\ active = "gps" /\ in.gps # "none" => measured
       /\ active = "extnav" /\ Sampled(in) => measured
  BY DEF measured, HeightMeasured
<1>18. Heights(r, in)
  BY <1>2, <1>3, <1>4, <1>11, <1>14, <1>16, <1>17 DEF Heights
<1>. QED BY <1>3, <1>11, <1>13, <1>15, <1>18 DEF r, InStep

\* A reset takes the state into the frame of the selected position and height.
LEMMA RebaseStage ==
    ASSUME NEW s, NEW in, Selection(s, in), Heights(s, in),
           s.frame.d[1] = HeightOf(s.lane.prev),
           NEW source \in {"gps", "extnav"},
           source = "gps" => ByGps(s, in) /\ in.gps \in Receivers,
           source = "extnav" => ByExt(s, in) /\ ExtAt(in) \in ExtFrame
    PROVE  LET r == Rebased(s, source)
           IN  /\ Selection(r, in) /\ Heights(r, in)
               /\ r.frame.ne = s.obs.pos /\ r.frame.d[1] = HeightOf(r.lane.prev)
               /\ r.frame.d = IF s.lane.active = source THEN s.obs.hgt ELSE s.frame.d
               /\ r.lane = [s.lane EXCEPT !.reset = FALSE]
               /\ r.fuse = s.fuse /\ r.obs = s.obs
<1>. DEFINE r == Rebased(s, source)
<1>0. s \in [lane : Lane, frame : Frame, fuse : Flags, obs : Obs]
  BY DEF Selection, Cores
<1>1. s.lane \in Lane /\ s.frame \in Frame /\ s.fuse \in Flags /\ s.obs \in Obs
  BY <1>0
<1>2. s.obs.pos \in Position
  BY DEF Selection, ByGps, ByExt, Position, GpsFrame
<1>3. s.lane.active = source => s.fuse.hgt
  BY DEF Heights, ByGps, ByExt
<1>. DEFINE d == IF s.lane.active = source THEN s.obs.hgt ELSE s.frame.d
<1>4. d \in Height /\ d[1] = s.frame.d[1]
  BY <1>1, <1>3 DEF Heights, Frame
<1>5. /\ r.lane = [s.lane EXCEPT !.reset = FALSE]
      /\ r.frame = [ne |-> s.obs.pos, d |-> d]
      /\ r.fuse = s.fuse /\ r.obs = s.obs
  BY <1>0 DEF Rebased
<1>6. r.lane \in Lane
  BY <1>1, <1>5 DEF Lane
<1>7. r.frame \in Frame
  BY <1>2, <1>4, <1>5 DEF Frame
<1>8. r \in Cores
  <2>1. \A l \in Lane, g \in Frame : [s EXCEPT !.lane = l, !.frame = g] \in Cores
    BY <1>0 DEF Cores
  <2>. QED BY <1>5, <1>6, <1>7, <2>1 DEF Rebased
<1>9. /\ r.lane.aiding = s.lane.aiding /\ r.lane.last = s.lane.last /\ ~r.lane.reset
      /\ r.lane.gps = s.lane.gps /\ r.lane.extUsed = s.lane.extUsed
      /\ r.lane.active = s.lane.active /\ r.lane.prev = s.lane.prev
      /\ r.frame.d = d /\ r.frame.ne = s.obs.pos
  BY <1>1, <1>5 DEF Lane
<1>. QED BY <1>4, <1>5, <1>8, <1>9 DEF Selection, Heights, Fresh, Weighed, ByGps, ByExt

\* A GPS position is in the frame of its receiver, which is the state's.
LEMMA GpsStage ==
    ASSUME NEW s, NEW in, Found(in), Selection(s, in), Heights(s, in), Anchored(s, ext.gen)
    PROVE  LET r == GpsRebased(s, in)
           IN  /\ Selection(r, in) /\ Heights(r, in) /\ Anchored(r, ext.gen)
               /\ ByGps(r, in) => r.frame.ne = r.obs.pos
               /\ sources.posxy # "gps" => r = s
<1>. DEFINE r == GpsRebased(s, in)
            t == Rebased(s, "gps")
<1>1. CASE ByGps(s, in) /\ (in.gps # s.lane.gps \/ s.lane.reset)
  <2>1. in.gps \in Receivers /\ s.obs.pos = <<"gps", in.gps>>
    BY <1>1 DEF ByGps, Found, Input, Selection
  <2>2. /\ Selection(t, in) /\ Heights(t, in)
        /\ t.frame.ne = s.obs.pos /\ t.frame.d[1] = HeightOf(t.lane.prev)
        /\ t.lane = [s.lane EXCEPT !.reset = FALSE]
        /\ t.fuse = s.fuse /\ t.obs = s.obs
    BY <1>1, <2>1, RebaseStage DEF Anchored
  <2>3. t \in [lane : Lane, frame : Frame, fuse : Flags, obs : Obs]
    BY <2>2 DEF Selection, Cores
  <2>4. t.lane \in Lane
    BY <2>3
  <2>5. /\ r.lane = [t.lane EXCEPT !.gps = in.gps]
        /\ r.frame = t.frame /\ r.fuse = t.fuse /\ r.obs = t.obs
    BY <1>1, <2>3 DEF GpsRebased
  <2>6. r.lane \in Lane
    BY <2>1, <2>4, <2>5 DEF Lane
  <2>7. r \in Cores
    <3>1. \A l \in Lane : [t EXCEPT !.lane = l] \in Cores
      BY <2>3 DEF Cores
    <3>. QED BY <1>1, <2>5, <2>6, <3>1 DEF GpsRebased
  <2>8. /\ r.lane.aiding = t.lane.aiding /\ r.lane.last = t.lane.last
        /\ r.lane.gps = in.gps /\ r.lane.extUsed = t.lane.extUsed
        /\ r.lane.active = t.lane.active /\ r.lane.prev = t.lane.prev
    BY <2>4, <2>5 DEF Lane
  <2>9. Selection(r, in) /\ Heights(r, in)
    BY <2>2, <2>5, <2>7, <2>8 DEF Selection, Heights, Fresh, Weighed, ByGps, ByExt
  <2>10. sources.posxy = "gps"
    BY <1>1 DEF ByGps
  <2>. QED BY <2>1, <2>2, <2>5, <2>8, <2>9, <2>10 DEF Anchored
<1>2. CASE ByGps(s, in) /\ ~(in.gps # s.lane.gps \/ s.lane.reset)
  <2>1. r = s
    BY <1>2 DEF GpsRebased
  <2>2. s.obs.pos = <<"gps", in.gps>> /\ s.lane.last = sources.posxy
    BY <1>2 DEF Selection
  <2>. QED BY <1>2, <2>1, <2>2 DEF Anchored, ByGps
<1>3. CASE ~ByGps(s, in)
  BY <1>3 DEF GpsRebased
<1>4. sources.posxy # "gps" => r = s
  BY DEF GpsRebased, ByGps
<1>. QED BY <1>1, <1>2, <1>3, <1>4

\* An external position is in the frame of its generation, which is the state's; and
\* so is the height state when the height is external too and was in step.
LEMMA ExtStage ==
    ASSUME NEW s, NEW in, Found(in), Selection(s, in), Heights(s, in), Anchored(s, ext.gen),
           ByGps(s, in) => s.frame.ne = s.obs.pos
    PROVE  LET r == ExtRebased(s, in)
           IN  /\ Selection(r, in) /\ Heights(r, in) /\ Anchored(r, Generated(in))
               /\ r.fuse.pos => r.frame.ne = r.obs.pos
               /\ Joined(r) /\ InStep(s) => r.frame.d = r.frame.ne
<1>. DEFINE r == ExtRebased(s, in)
            t == Rebased(s, "extnav")
<1>1. CASE ByExt(s, in) /\ (in.ext = "reset" \/ s.lane.reset)
  <2>1. ~ByGps(s, in) /\ s.obs.pos = ExtAt(in) /\ ExtAt(in) \in ExtFrame
    BY <1>1 DEF ByGps, ByExt, Found, Selection, ExtAt, ExtFrame
  <2>2. r = t
    BY <1>1 DEF ExtRebased
  <2>3. /\ Selection(t, in) /\ Heights(t, in)
        /\ t.frame.ne = s.obs.pos /\ t.frame.d[1] = HeightOf(t.lane.prev)
        /\ t.frame.d = IF s.lane.active = "extnav" THEN s.obs.hgt ELSE s.frame.d
        /\ t.lane = [s.lane EXCEPT !.reset = FALSE]
        /\ t.fuse = s.fuse /\ t.obs = s.obs
    BY <1>1, <2>1, RebaseStage DEF Anchored
  <2>4. sources.posxy = "extnav"
    BY <1>1 DEF ByExt
  <2>5. Selection(r, in) /\ Heights(r, in) /\ Anchored(r, Generated(in))
        /\ (r.fuse.pos => r.frame.ne = r.obs.pos)
    BY <2>1, <2>2, <2>3, <2>4 DEF Anchored, ExtAt
  <2>6. t.lane.active = s.lane.active
    BY <2>3 DEF Selection, Cores, Lane
  <2>7. s.lane.active = "extnav" => s.obs.hgt = ExtAt(in)
    BY <1>1 DEF ByExt, Heights
  <2>. QED BY <2>1, <2>2, <2>3, <2>5, <2>6, <2>7 DEF Joined
<1>2. CASE ByExt(s, in) /\ ~(in.ext = "reset" \/ s.lane.reset)
  <2>1. r = s /\ Generated(in) = ext.gen
    BY <1>2 DEF ExtRebased, Generated
  <2>2. ~ByGps(s, in) /\ s.obs.pos = ExtAt(in) /\ s.lane.last = sources.posxy
    BY <1>2 DEF Selection, ByGps, ByExt
  <2>3. s.frame.ne = ExtAt(in)
    BY <1>2, <2>1, <2>2 DEF Anchored, ByExt, ExtAt
  <2>4. Joined(s) /\ InStep(s) => s.frame.d = s.frame.ne
    BY <2>3 DEF Joined, InStep, Heights
  <2>. QED BY <1>2, <2>1, <2>2, <2>3, <2>4
<1>3. CASE ~ByExt(s, in)
  <2>1. r = s
    BY <1>3 DEF ExtRebased
  <2>2. Generated(in) = ext.gen \/ ~(s.lane.aiding = "absolute" /\ sources.posxy = "extnav")
    BY <1>3 DEF ByExt, Generated, Sampled
  <2>3. Joined(s) /\ InStep(s) => s.frame.d = s.frame.ne
    BY <1>3 DEF Joined, InStep, Heights, ByExt
  <2>. QED BY <1>3, <2>1, <2>2, <2>3 DEF Anchored, Selection
<1>. QED BY <1>1, <1>2, <1>3

\* Without aiding, and at rest, every observation that is put in is of this call and
\* is no velocity of the program.
LEMMA RestStage ==
    ASSUME NEW s, NEW in, Found(in), Selection(s, in), Heights(s, in),
           s.fuse.pos => s.frame.ne = s.obs.pos
    PROVE  LET gen == Generated(in)
               r == AtRest(Unaided(s, in), in)
           IN  /\ r \in Cores /\ Fresh(r) /\ Weighed(r) /\ InFrame(r, gen) /\ Horizontal(r)
               /\ r.lane = s.lane /\ r.frame = s.frame /\ (r.fuse.still => r.fuse.vel)
<1>. DEFINE gen == Generated(in)
            Kept(r) == /\ r \in Cores /\ Fresh(r) /\ Weighed(r) /\ InFrame(r, gen)
                       /\ Horizontal(r) /\ r.lane = s.lane /\ r.frame = s.frame
                       /\ (r.fuse.still => r.fuse.vel)
            u == Unaided(s, in)
<1>0. s \in [lane : Lane, frame : Frame, fuse : Flags, obs : Obs]
  BY DEF Selection, Cores
<1>1. /\ s.fuse \in Flags /\ s.obs \in Obs
      /\ in.place \in {"flying", "still", "launch", "rolling"}
  BY <1>0 DEF Found, Input
<1>2. \A f \in Flags, o \in Obs : [s EXCEPT !.fuse = f, !.obs = o] \in Cores
  BY <1>0 DEF Cores
<1>3. Kept(s) /\ ~s.fuse.still
  <2>1. s.lane.aiding = "absolute" /\ sources.posxy = "extnav" =>
            ~ByGps(s, in) /\ (Sampled(in) => ByExt(s, in))
    BY DEF ByGps, ByExt
  <2>2. s.lane.aiding = "absolute" /\ sources.posxy = "extnav" /\ s.fuse.pos =>
            s.frame.ne = ExtAt(in)
    BY <2>1 DEF Selection
  <2>3. s.fuse.hgt /\ Joined(s) => s.obs.hgt = s.frame.ne
    BY <2>1, <2>2 DEF Joined, Heights, Selection
  <2>4. InFrame(s, gen)
    BY <2>2, <2>3 DEF InFrame, Heights, ExtAt
  <2>5. Horizontal(s)
    BY DEF Horizontal, Selection, Heights
  <2>. QED BY <1>0, <2>4, <2>5 DEF Selection, Cores
<1>4. Kept(u)
  <2>1. CASE ~s.fuse.hgt \/ s.lane.aiding # "none"
    BY <1>3, <2>1 DEF Unaided
  <2>2. CASE s.fuse.hgt /\ s.lane.aiding = "none" /\ in.place = "launch"
    <3>1. /\ u.fuse = [s.fuse EXCEPT !.pos = FALSE, !.vel = FALSE, !.vert = FALSE]
          /\ u.obs = [s.obs EXCEPT !.vxy = "zero", !.vz = "own"]
          /\ u.lane = s.lane /\ u.frame = s.frame
          /\ u = [s EXCEPT !.fuse = u.fuse, !.obs = u.obs]
      BY <1>0, <2>2 DEF Unaided
    <3>2. u.fuse \in Flags /\ u.obs \in Obs
      BY <1>1, <3>1 DEF Flags, Obs, Speed, Position
    <3>3. u \in Cores
      BY <1>0, <3>1, <3>2 DEF Cores
    <3>. QED BY <1>1, <1>3, <2>2, <3>1, <3>3
         DEF Flags, Obs, Fresh, Weighed, InFrame, Joined, Horizontal, Held, OldPos
  <2>3. CASE s.fuse.hgt /\ s.lane.aiding = "none" /\ in.place = "rolling"
    <3>1. /\ u.fuse = [s.fuse EXCEPT !.pos = FALSE, !.vel = TRUE, !.vert = TRUE]
          /\ u.obs = [s.obs EXCEPT !.vxy = "zero", !.vz = "own"]
          /\ u.lane = s.lane /\ u.frame = s.frame
          /\ u = [s EXCEPT !.fuse = u.fuse, !.obs = u.obs]
      BY <1>0, <2>3 DEF Unaided
    <3>2. u.fuse \in Flags /\ u.obs \in Obs
      BY <1>1, <3>1 DEF Flags, Obs, Speed, Position
    <3>3. u \in Cores
      BY <1>0, <3>1, <3>2 DEF Cores
    <3>. QED BY <1>1, <1>3, <2>3, <3>1, <3>3
         DEF Flags, Obs, Fresh, Weighed, InFrame, Joined, Horizontal, Held, OldPos
  <2>4. CASE s.fuse.hgt /\ s.lane.aiding = "none" /\ in.place = "still"
    <3>1. /\ u.fuse = [s.fuse EXCEPT !.pos = TRUE, !.vel = TRUE, !.still = TRUE]
          /\ u.obs = [s.obs EXCEPT !.pos = Held, !.vxy = "zero", !.vz = "zero"]
          /\ u.lane = s.lane /\ u.frame = s.frame
          /\ u = [s EXCEPT !.fuse = u.fuse, !.obs = u.obs]
      BY <1>0, <2>4 DEF Unaided
    <3>2. u.fuse \in Flags /\ u.obs \in Obs
      BY <1>1, <3>1 DEF Flags, Obs, Speed, Position
    <3>3. u \in Cores
      BY <1>0, <3>1, <3>2 DEF Cores
    <3>. QED BY <1>1, <1>3, <2>4, <3>1, <3>3
         DEF Flags, Obs, Fresh, Weighed, InFrame, Joined, Horizontal, Held, OldPos
  <2>5. CASE s.fuse.hgt /\ s.lane.aiding = "none" /\ in.place = "flying"
    <3>1. /\ u.fuse = [s.fuse EXCEPT !.pos = TRUE, !.vel = FALSE]
          /\ u.obs = [s.obs EXCEPT !.pos = Held]
          /\ u.lane = s.lane /\ u.frame = s.frame
          /\ u = [s EXCEPT !.fuse = u.fuse, !.obs = u.obs]
      BY <1>0, <2>5 DEF Unaided
    <3>2. u.fuse \in Flags /\ u.obs \in Obs
      BY <1>1, <3>1 DEF Flags, Obs, Speed, Position
    <3>3. u \in Cores
      BY <1>0, <3>1, <3>2 DEF Cores
    <3>. QED BY <1>1, <1>3, <2>5, <3>1, <3>3
         DEF Flags, Obs, Fresh, Weighed, InFrame, Joined, Horizontal, Held, OldPos
  <2>. QED BY <1>1, <2>1, <2>2, <2>3, <2>4, <2>5
<1>5. CASE ~(s.fuse.hgt /\ s.lane.aiding # "none" /\ in.place = "still")
  <2>1. u.lane = s.lane
    BY <1>4
  <2>2. AtRest(u, in) = u
    <3>1. CASE s.lane.aiding = "none"
      BY <2>1, <3>1 DEF AtRest
    <3>2. CASE s.lane.aiding # "none"
      BY <1>5, <3>2 DEF AtRest, Unaided
    <3>. QED BY <3>1, <3>2
  <2>. QED BY <1>4, <2>2
<1>6. CASE s.fuse.hgt /\ s.lane.aiding # "none" /\ in.place = "still"
  <2>. DEFINE r == AtRest(s, in)
  <2>1. u = s
    BY <1>6 DEF Unaided
  <2>2. /\ r.fuse = [s.fuse EXCEPT !.vel = TRUE, !.still = TRUE]
        /\ r.obs = [s.obs EXCEPT !.vxy = "zero", !.vz = "zero"]
        /\ r.lane = s.lane /\ r.frame = s.frame
        /\ r = [s EXCEPT !.fuse = r.fuse, !.obs = r.obs]
    BY <1>0, <1>6 DEF AtRest
  <2>3. r.fuse \in Flags /\ r.obs \in Obs
    BY <1>1, <2>2 DEF Flags, Obs, Speed
  <2>4. r \in Cores
    BY <1>0, <2>2, <2>3 DEF Cores
  <2>. QED BY <1>1, <1>3, <2>1, <2>2, <2>4
       DEF Flags, Obs, Fresh, Weighed, InFrame, Joined, Horizontal
<1>. QED BY <1>5, <1>6

\* SelectVelPosFusion as a whole, from a core whose flags the call before cleared.
LEMMA SelectedStage ==
    ASSUME NEW s \in Cores, NEW in, Found(in), sources \in SourceSets, s.fuse = NoFlags,
           s.obs = Old, Anchored(s, ext.gen)
    PROVE  LET r == Selected(s, in)
           IN  /\ r \in Cores /\ Fresh(r) /\ Weighed(r) /\ InFrame(r, Generated(in))
               /\ Horizontal(r) /\ Anchored(r, Generated(in)) /\ (r.fuse.still => r.fuse.vel)
               /\ s.frame.d = s.frame.ne /\ Joined(r) => r.frame.d = r.frame.ne
<1>. DEFINE cleared  == [s EXCEPT !.fuse = [s.fuse EXCEPT !.pos = FALSE, !.vel = FALSE, !.still = FALSE]]
            noticed  == SourceNoticed(cleared)
            placed   == PositionSelected(noticed, in)
            moving   == SpeedSelected(placed, in)
            measured == HeightSelected(moving, in)
            gps      == GpsRebased(measured, in)
            rebased  == ExtRebased(gps, in)
<1>1. cleared = s
  <2>1. NoFlags.pos = FALSE /\ NoFlags.vel = FALSE /\ NoFlags.still = FALSE
    BY DEF NoFlags
  <2>2. [s.fuse EXCEPT !.pos = FALSE, !.vel = FALSE, !.still = FALSE] = s.fuse
    BY <2>1 DEF Flags, Cores
  <2>. QED BY <2>2 DEF Cores
<1>2. /\ noticed \in Cores /\ noticed.fuse = NoFlags /\ noticed.obs = Old
      /\ noticed.lane.last = sources.posxy /\ Anchored(noticed, ext.gen)
      /\ noticed.frame = s.frame
  <2>. HIDE DEF cleared
  <2>. QED BY <1>1, NoticedStage
<1>3. /\ Selection(placed, in) /\ ~placed.fuse.hgt /\ Anchored(placed, ext.gen)
      /\ placed.frame = s.frame
  <2>. HIDE DEF noticed
  <2>. QED BY <1>2, PositionStage
<1>4. /\ Selection(moving, in) /\ ~moving.fuse.hgt /\ Anchored(moving, ext.gen)
      /\ moving.frame = s.frame
  <2>. HIDE DEF placed
  <2>. QED BY <1>3, SpeedStage DEF Anchored
<1>5. /\ Selection(measured, in) /\ Heights(measured, in) /\ Anchored(measured, ext.gen)
      /\ s.frame.d = s.frame.ne => InStep(measured)
  <2>. HIDE DEF moving
  <2>. QED BY <1>4, HeightStage
<1>6. /\ Selection(gps, in) /\ Heights(gps, in) /\ Anchored(gps, ext.gen)
      /\ ByGps(gps, in) => gps.frame.ne = gps.obs.pos
      /\ sources.posxy # "gps" => gps = measured
  <2>. HIDE DEF measured
  <2>. QED BY <1>5, GpsStage
<1>7. /\ Selection(rebased, in) /\ Heights(rebased, in) /\ Anchored(rebased, Generated(in))
      /\ rebased.fuse.pos => rebased.frame.ne = rebased.obs.pos
      /\ Joined(rebased) /\ InStep(gps) => rebased.frame.d = rebased.frame.ne
  <2>. HIDE DEF gps
  <2>. QED BY <1>6, ExtStage
<1>8. Selected(s, in) = AtRest(Unaided(rebased, in), in)
  BY DEF Selected
<1>. HIDE DEF rebased, gps, measured
<1>9. s.frame.d = s.frame.ne /\ Joined(rebased) => rebased.frame.d = rebased.frame.ne
  BY <1>5, <1>6, <1>7 DEF Joined
<1>. QED BY <1>7, <1>8, <1>9, RestStage DEF Anchored, Joined

-----------------------------------------------------------------------------
(* The invariant.                                                           *)

\* It holds when the filter starts: nothing selected, nothing fused, the barometer's
\* height.
LEMMA InitHolds == Init => FusionInv
<1>. SUFFICES ASSUME Init PROVE FusionInv
  OBVIOUS
<1>1. ext \in [gen : Generation, toFuse : BOOLEAN]
  BY FusionAssumption DEF Init, Generation
<1>2. lane \in Lane /\ lane.aiding = "none" /\ lane.prev = "baro"
  BY DEF Init, Lane, HeightSource
<1>3. frame \in Frame /\ frame.d[1] = "baro"
  BY DEF Init, Frame, Position, Height, Baro
<1>4. fuse \in Flags /\ obs \in Obs
  BY DEF Init, NoFlags, Flags, Old, Obs
<1>5. /\ fused \in [vxy : Speed \cup {"old", "no"}, vz : Speed \cup {"old", "no"},
                    pos : Position \cup {OldPos, NoPos}, hgt : Height \cup {OldPos, NoPos},
                    noise : {"no", "assumed", "gps", "extnav"},
                    set : {"no", "gps", "extnav", "zero"}]
      /\ FusedIsOfThisCall
  BY DEF Init, Nothing, FusedIsOfThisCall, NoPos, OldPos, GpsFrame, ExtFrame
<1>6. TypeOK
  BY <1>1, <1>2, <1>3, <1>4, <1>5 DEF Init, TypeOK
<1>7. Anchored(Core, ext.gen)
  BY <1>2, <1>3 DEF Anchored, Core, HeightOf
<1>. QED BY <1>5, <1>6, <1>7 DEF Init, FusionInv

\* SelectVelPosFusion either calls FuseVelPosNED with a selection of this call or leaves
\* the flags cleared.
LEMMA SelectKeepsInv ==
    ASSUME FusionInv, NEW in \in Input, SelectVelPosFusion(in)
    PROVE  FusionInv'
<1>. DEFINE s == Selected(Core, in)
<1>0. /\ at = "idle" /\ Found(in) /\ sources \in SourceSets
      /\ Core \in Cores /\ Core.fuse = NoFlags /\ Core.obs = Old /\ Anchored(Core, ext.gen)
  BY DEF FusionInv, TypeOK, SelectVelPosFusion, Found, Core, Cores
<1>1. /\ s \in Cores /\ Fresh(s) /\ Weighed(s) /\ InFrame(s, Generated(in))
      /\ Horizontal(s) /\ Anchored(s, Generated(in)) /\ (s.fuse.still => s.fuse.vel)
  BY <1>0, SelectedStage
<1>2. /\ lane' = s.lane /\ frame' = s.frame /\ fuse' = s.fuse
      /\ IF Anything(s.fuse) THEN at' = "fuse" /\ obs' = s.obs ELSE UNCHANGED <<at, obs>>
      /\ ext' = [gen |-> Generated(in), toFuse |-> Sampled(in)]
      /\ UNCHANGED <<sources, fused>>
  BY DEF SelectVelPosFusion
<1>. HIDE DEF s
<1>3. /\ s.lane \in Lane /\ s.frame \in Frame /\ s.fuse \in Flags /\ s.obs \in Obs
  BY <1>1 DEF Cores
<1>4. TypeOK'
  <2>1. ext' \in [gen : Generation, toFuse : BOOLEAN]
    BY <1>0, <1>2 DEF Found, Sampled
  <2>. QED BY <1>0, <1>2, <1>3, <2>1 DEF FusionInv, TypeOK
<1>5. Anchored(Core, ext.gen)'
  BY <1>1, <1>2 DEF Anchored, Core
<1>6. FusedIsOfThisCall'
  BY <1>2 DEF FusionInv, FusedIsOfThisCall
<1>7. (at = "fuse" =>
          Fresh(Core) /\ Weighed(Core) /\ InFrame(Core, ext.gen) /\ Horizontal(Core))'
  BY <1>0, <1>1, <1>2 DEF Core, Fresh, Weighed, InFrame, Joined, Horizontal
<1>8. (at = "idle" => fuse = NoFlags /\ obs = Old)'
  BY <1>0, <1>1, <1>2, <1>3 DEF Anything, NoFlags, Flags, Core
<1>. QED BY <1>4, <1>5, <1>6, <1>7, <1>8 DEF FusionInv

\* FuseVelPosNED fuses no more than was selected; a position reset takes the
\* receiver it resets to along.
LEMMA FuseKeepsInv ==
    ASSUME FusionInv, NEW p \in Verdict, NEW v \in Verdict, NEW h \in Verdict,
           NEW drop \in BOOLEAN, FuseVelPosNED(p, v, h, drop)
    PROVE  FusionInv'
<1>. DEFINE kept == [fuse EXCEPT !.pos = @ /\ p = "pass", !.vel = fuse.vel /\ ~drop /\ v = "pass",
                                 !.hgt = @ /\ h = "pass"]
<1>0. /\ at = "fuse" /\ at' = "done" /\ UNCHANGED <<sources, ext, fuse, obs>>
  BY DEF FuseVelPosNED
<1>1. /\ fuse \in Flags /\ obs \in Obs /\ lane \in Lane /\ frame \in Frame
      /\ ext.gen \in Generation /\ Anchored(Core, ext.gen)
      /\ Fresh(Core) /\ Weighed(Core) /\ InFrame(Core, ext.gen)
  BY <1>0 DEF FusionInv, TypeOK
<1>2. PICK ne \in (IF p = "reset" THEN ResetTargets ELSE {frame.ne}) :
        /\ frame' = [ne |-> ne, d |-> IF h = "reset" THEN obs.hgt ELSE frame.d]
        /\ lane' = IF p = "reset" /\ ne # frame.ne /\ ne \in GpsFrame
                   THEN [lane EXCEPT !.gps = ne[2]] ELSE lane
  BY DEF FuseVelPosNED
<1>. PICK set \in VerticalSet(h) : fused' = Fused(kept, set)
  BY DEF FuseVelPosNED
<1>3. /\ kept \in Flags
      /\ kept.pos => fuse.pos
      /\ kept.vel => fuse.vel
      /\ kept.vert = fuse.vert /\ kept.still = fuse.still
      /\ kept.hgt => fuse.hgt
  BY <1>1 DEF Flags
<1>4. Anchored(Core, ext.gen)'
  <2>1. frame'.d[1] = frame.d[1]
    BY <1>0, <1>1, <1>2 DEF FuseVelPosNED, HeightTested, InFrame, Core
  <2>2. /\ lane'.aiding = lane.aiding /\ lane'.last = lane.last /\ lane'.reset = lane.reset
        /\ lane'.prev = lane.prev
    BY <1>1, <1>2 DEF Lane
  <2>3. ASSUME lane.aiding = "absolute", sources.posxy = "gps", frame.ne = <<"gps", lane.gps>>
        PROVE  frame'.ne = <<"gps", lane'.gps>>
    <3>1. CASE p = "reset" /\ ne # frame.ne
      <4>1. ne \in GpsFrame
        BY <1>2, <2>3, <3>1 DEF ResetTargets
      <4>2. lane'.gps = ne[2]
        BY <1>1, <1>2, <3>1, <4>1 DEF Lane
      <4>. QED BY <1>2, <4>1, <4>2 DEF GpsFrame
    <3>2. CASE ~(p = "reset" /\ ne # frame.ne)
      BY <1>2, <2>3, <3>2
    <3>. QED BY <3>1, <3>2
  <2>4. ASSUME lane.aiding = "absolute", sources.posxy = "extnav",
               frame.ne = <<"extnav", ext.gen>>
        PROVE  frame'.ne = <<"extnav", ext.gen>>
    BY <1>2, <2>4 DEF ResetTargets
  <2>. QED BY <1>0, <1>1, <2>1, <2>2, <2>3, <2>4 DEF Anchored, Core
<1>5. FusedIsOfThisCall'
  <2>1. /\ fused'.vxy = IF kept.vel THEN obs.vxy ELSE "no"
        /\ fused'.vz = IF kept.vel /\ (kept.vert \/ kept.still) THEN obs.vz ELSE "no"
        /\ fused'.pos = IF kept.pos THEN obs.pos ELSE NoPos
        /\ fused'.hgt = IF kept.hgt THEN obs.hgt ELSE NoPos
        /\ fused'.noise = IF kept.pos THEN PositionNoise ELSE "no"
    BY <1>0 DEF Fused
  <2>2. "old" \notin {fused'.vxy, fused'.vz} /\ fused'.hgt # OldPos
    BY <1>1, <1>3, <2>1 DEF Fresh, Core, OldPos, NoPos
  <2>3. CASE kept.pos
    <3>1. fused'.pos = obs.pos /\ fused'.noise = PositionNoise /\ obs.pos # OldPos
      BY <1>1, <1>3, <2>1, <2>3 DEF Fresh, Core
    <3>2. \/ obs.pos = Held
          \/ lane.aiding = "absolute" /\ obs.pos \in GpsFrame /\ ~lane.extUsed
          \/ lane.aiding = "absolute" /\ obs.pos \in ExtFrame /\ lane.extUsed
      BY <1>1, <1>3, <2>3 DEF Weighed, Core
    <3>. QED BY <2>2, <3>1, <3>2
         DEF FusedIsOfThisCall, PositionNoise, Held, GpsFrame, ExtFrame
  <2>4. CASE ~kept.pos
    BY <2>1, <2>2, <2>4 DEF FusedIsOfThisCall, NoPos, OldPos, GpsFrame, ExtFrame
  <2>. QED BY <2>3, <2>4
<1>6. TypeOK'
  <2>1. ne \in Position
    BY <1>1, <1>2 DEF ResetTargets, Frame, Position, ExtFrame
  <2>2. frame' \in Frame
    <3>1. h = "reset" => obs.hgt \in Height
      BY <1>0, <1>1 DEF FuseVelPosNED, HeightTested, Fresh, Core, Obs
    <3>. QED BY <1>1, <1>2, <2>1, <3>1 DEF Frame
  <2>3. lane' \in Lane
    BY <1>1, <1>2 DEF Lane, GpsFrame
  <2>4. fused' \in [vxy : Speed \cup {"old", "no"}, vz : Speed \cup {"old", "no"},
                    pos : Position \cup {OldPos, NoPos}, hgt : Height \cup {OldPos, NoPos},
                    noise : {"no", "assumed", "gps", "extnav"},
                    set : {"no", "gps", "extnav", "zero"}]
    <3>1. set \in {"no", "gps", "extnav", "zero"}
      BY DEF VerticalSet, ResetHeight
    <3>. QED BY <1>0, <1>1, <1>3, <3>1 DEF Fused, PositionNoise, Obs
  <2>. QED BY <1>0, <2>2, <2>3, <2>4 DEF FusionInv, TypeOK
<1>. QED BY <1>0, <1>4, <1>5, <1>6 DEF FusionInv

\* Behind the call flags and observations are put back.
LEMMA ReturnKeepsInv == FusionInv /\ Return => FusionInv'
  BY DEF FusionInv, TypeOK, Return, Cleared, NoFlags, Flags, Old, Obs, Nothing, Anchored, Core,
     FusedIsOfThisCall, NoPos, OldPos, GpsFrame, ExtFrame

\* A switched source is not the one last noticed until the next call.
LEMMA SetSourcesKeepsInv ==
    FusionInv /\ (\E set \in SourceSets : SetSources(set)) => FusionInv'
<1>. SUFFICES ASSUME FusionInv, NEW set \in SourceSets, SetSources(set) PROVE FusionInv'
  OBVIOUS
<1>. QED BY DEF FusionInv, TypeOK, SetSources, Anchored, Core, FusedIsOfThisCall

\* Absolute aiding starts in the frame of what it starts on.
LEMMA StartAidingKeepsInv == FusionInv /\ StartAiding => FusionInv'
<1>. SUFFICES ASSUME FusionInv, StartAiding PROVE FusionInv'
  OBVIOUS
<1>0. /\ lane \in Lane /\ frame \in Frame /\ ext.gen \in Generation /\ at = "idle"
      /\ frame.d[1] = HeightOf(lane.prev)
      /\ UNCHANGED <<at, sources, ext, fuse, obs, fused>>
  BY DEF FusionInv, TypeOK, Anchored, Core, StartAiding
<1>1. CASE /\ sources.posxy = "extnav"
           /\ frame' = [frame EXCEPT !.ne = <<"extnav", ext.gen>>]
           /\ lane' = [lane EXCEPT !.aiding = "absolute"]
  <2>1. frame' \in Frame /\ lane' \in Lane
    BY <1>0, <1>1 DEF Frame, Lane, Position, ExtFrame
  <2>2. Anchored(Core, ext.gen)'
    BY <1>0, <1>1 DEF Anchored, Core, Frame, Lane
  <2>. QED BY <1>0, <2>1, <2>2 DEF FusionInv, TypeOK, FusedIsOfThisCall
<1>2. ASSUME NEW r \in Receivers, sources.posxy = "gps",
             frame' = [frame EXCEPT !.ne = <<"gps", r>>],
             lane' = [lane EXCEPT !.aiding = "absolute", !.gps = r]
      PROVE  FusionInv'
  <2>1. frame' \in Frame /\ lane' \in Lane
    BY <1>0, <1>2 DEF Frame, Lane, Position, GpsFrame
  <2>2. Anchored(Core, ext.gen)'
    BY <1>0, <1>2 DEF Anchored, Core, Frame, Lane
  <2>. QED BY <1>0, <2>1, <2>2 DEF FusionInv, TypeOK, FusedIsOfThisCall
<1>. QED BY <1>1, <1>2 DEF StartAiding

\* Without absolute aiding no position but the held one is used.
LEMMA StopAidingKeepsInv ==
    FusionInv /\ (\E mode \in {"none", "relative"} : StopAiding(mode)) => FusionInv'
<1>. SUFFICES ASSUME FusionInv, NEW mode \in {"none", "relative"}, StopAiding(mode)
              PROVE  FusionInv'
  OBVIOUS
<1>1. /\ lane \in Lane /\ at = "idle" /\ frame.d[1] = HeightOf(lane.prev)
      /\ lane' = [lane EXCEPT !.aiding = mode]
      /\ UNCHANGED <<at, sources, ext, frame, fuse, obs, fused>>
  BY DEF FusionInv, TypeOK, Anchored, Core, StopAiding
<1>2. lane' \in Lane /\ Anchored(Core, ext.gen)'
  BY <1>1 DEF Lane, Anchored, Core
<1>. QED BY <1>1, <1>2 DEF FusionInv, TypeOK, FusedIsOfThisCall

\* Between two steps nothing changes.
LEMMA StutterKeepsInv == FusionInv /\ UNCHANGED vars => FusionInv'
  BY DEF FusionInv, TypeOK, vars, Fresh, Weighed, InFrame, Joined, Horizontal, Anchored, Core,
     FusedIsOfThisCall

-----------------------------------------------------------------------------

\* The core's invariant: SelectVelPosFusion hands FuseVelPosNED measurements of this
\* call only, a position with the error of its sensor, and the state stays in the
\* frame of the source last noticed.
THEOREM FusionInvariant == Spec => []FusionInv
<1>1. FusionInv /\ [Next]_vars => FusionInv'
  <2>. SUFFICES ASSUME FusionInv, [Next]_vars PROVE FusionInv'
    OBVIOUS
  <2>1. CASE \E in \in Input : SelectVelPosFusion(in)
    BY <2>1, SelectKeepsInv
  <2>2. CASE \E p, v, h \in Verdict, drop \in BOOLEAN : FuseVelPosNED(p, v, h, drop)
    BY <2>2, FuseKeepsInv
  <2>3. CASE Return
    BY <2>3, ReturnKeepsInv
  <2>4. CASE \E set \in SourceSets : SetSources(set)
    BY <2>4, SetSourcesKeepsInv
  <2>5. CASE StartAiding
    BY <2>5, StartAidingKeepsInv
  <2>6. CASE \E mode \in {"none", "relative"} : StopAiding(mode)
    BY <2>6, StopAidingKeepsInv
  <2>7. CASE UNCHANGED vars
    BY <2>7, StutterKeepsInv
  <2>. QED BY <2>1, <2>2, <2>3, <2>4, <2>5, <2>6, <2>7 DEF Next
<1>. QED BY InitHolds, <1>1, PTL DEF Spec

\* What a step of FuseVelPosNED fuses was selected.
LEMMA FusedWasSelected ==
    ASSUME FusionInv, [Next]_vars, at = "fuse"
    PROVE  \/ UNCHANGED vars
           \/ /\ fused'.vz # "no" => fuse.vel /\ fused'.vz = obs.vz
              /\ fused'.pos # NoPos => fuse.pos /\ fused'.pos = obs.pos
              /\ fused'.hgt # NoPos => fuse.hgt /\ fused'.hgt = obs.hgt
              /\ fused'.set = "extnav" => lane.active = "extnav"
<1>. SUFFICES ASSUME NEW p \in Verdict, NEW v \in Verdict, NEW h \in Verdict,
                     NEW drop \in BOOLEAN, FuseVelPosNED(p, v, h, drop)
              PROVE  /\ fused'.vz # "no" => fuse.vel /\ fused'.vz = obs.vz
                     /\ fused'.pos # NoPos => fuse.pos /\ fused'.pos = obs.pos
                     /\ fused'.hgt # NoPos => fuse.hgt /\ fused'.hgt = obs.hgt
                     /\ fused'.set = "extnav" => lane.active = "extnav"
  BY DEF Next, SelectVelPosFusion, Return, SetSources, StartAiding, StopAiding
<1>1. fuse \in Flags
  BY DEF FusionInv, TypeOK
<1>. DEFINE kept == [fuse EXCEPT !.pos = @ /\ p = "pass", !.vel = fuse.vel /\ ~drop /\ v = "pass",
                                 !.hgt = @ /\ h = "pass"]
<1>2. PICK set \in VerticalSet(h) : fused' = Fused(kept, set)
  BY DEF FuseVelPosNED
<1>3. set = "extnav" => lane.active = "extnav"
  BY DEF VerticalSet, ResetHeight
<1>. QED BY <1>1, <1>2, <1>3 DEF Fused, Flags

\* The flight review's claim, for every choice of source sets: no vertical velocity
\* of the program is fused while no source is named for the horizontal one, and the
\* vertical velocity is never set to it while the barometer is named for height.
THEOREM VerticalStays == Spec => VerticalNeedsHorizontal
<1>. DEFINE Step == at = "fuse" =>
                      /\ fused'.vz = "extnav" => sources.velxy # "none"
                      /\ fused'.set = "extnav" => sources.posz \in {"gps", "extnav"}
<1>1. FusionInv /\ [Next]_vars => [Step]_vars
  <2>. SUFFICES ASSUME FusionInv, [Next]_vars, at = "fuse", ~UNCHANGED vars
                PROVE  Step
    BY DEF vars
  <2>1. /\ fused'.vz # "no" => fuse.vel /\ fused'.vz = obs.vz
        /\ fused'.set = "extnav" => lane.active = "extnav"
    BY FusedWasSelected
  <2>2. Horizontal(Core)
    BY DEF FusionInv
  <2>. QED BY <2>1, <2>2 DEF Horizontal, Core
<1>. QED BY FusionInvariant, <1>1, PTL DEF Spec, VerticalNeedsHorizontal

\* While the program gives position and height, no step takes the height state out of
\* the position's frame.
LEMMA StaysInStep ==
    ASSUME FusionInv, [Next]_vars, Joined(Core), frame.d = frame.ne, Joined(Core)'
    PROVE  frame'.d = frame'.ne
<1>0. sources \in SourceSets /\ frame \in Frame /\ obs \in Obs
  BY DEF FusionInv, TypeOK
<1>1. ASSUME NEW in \in Input, SelectVelPosFusion(in) PROVE frame'.d = frame'.ne
  <2>. DEFINE s == Selected(Core, in)
  <2>1. /\ Found(in) /\ Core \in Cores /\ Core.fuse = NoFlags /\ Core.obs = Old
        /\ Anchored(Core, ext.gen) /\ Core.frame.d = Core.frame.ne
    BY <1>1 DEF FusionInv, TypeOK, SelectVelPosFusion, Found, Core, Cores
  <2>2. Joined(s) => s.frame.d = s.frame.ne
    BY <1>0, <2>1, SelectedStage
  <2>3. lane' = s.lane /\ frame' = s.frame /\ sources' = sources
    BY <1>1 DEF SelectVelPosFusion
  <2>. HIDE DEF s
  <2>. QED BY <2>2, <2>3 DEF Joined, Core
<1>2. ASSUME NEW p \in Verdict, NEW v \in Verdict, NEW h \in Verdict, NEW drop \in BOOLEAN,
             FuseVelPosNED(p, v, h, drop)
      PROVE  frame'.d = frame'.ne
  <2>1. PICK ne \in (IF p = "reset" THEN ResetTargets ELSE {frame.ne}) :
          frame' = [ne |-> ne, d |-> IF h = "reset" THEN obs.hgt ELSE frame.d]
    BY <1>2 DEF FuseVelPosNED
  <2>2. InFrame(Core, ext.gen)
    BY <1>2 DEF FusionInv, FuseVelPosNED
  <2>3. lane.aiding = "absolute" /\ sources.posxy = "extnav"
    BY DEF Joined, Core
  <2>4. p = "reset" => frame.ne = <<"extnav", ext.gen>>
    BY <1>2, <2>2, <2>3 DEF FuseVelPosNED, PositionTested, InFrame, Core
  <2>5. ne = frame.ne
    BY <2>1, <2>3, <2>4 DEF ResetTargets
  <2>6. h = "reset" => obs.hgt = frame.ne
    BY <1>2, <2>2 DEF FuseVelPosNED, HeightTested, InFrame, Core
  <2>. QED BY <2>1, <2>5, <2>6
<1>3. CASE Return \/ UNCHANGED vars
  BY <1>3 DEF Return, vars
<1>4. CASE \E set \in SourceSets : SetSources(set)
  BY <1>4 DEF SetSources
<1>5. CASE StartAiding
  BY <1>5 DEF StartAiding, Joined, Core
<1>6. CASE \E mode \in {"none", "relative"} : StopAiding(mode)
  BY <1>6 DEF StopAiding
<1>. QED BY <1>1, <1>2, <1>3, <1>4, <1>5, <1>6 DEF Next

\* For any number of receivers and generations: a position is fused only into a state
\* in its very frame, a height only into a state set from its source, and the height
\* the program gives beside the position only in the position's generation.
THEOREM FramesReset == Spec => FrameChangesReset
<1>. DEFINE Fuses == at = "fuse" =>
                       /\ fused'.pos \in GpsFrame \cup ExtFrame => fused'.pos = frame.ne
                       /\ fused'.hgt # NoPos => fused'.hgt[1] = frame.d[1]
                       /\ fused'.hgt # NoPos /\ Joined(Core) => fused'.hgt = frame.ne
            Stays == Joined(Core) /\ frame.d = frame.ne /\ Joined(Core)' => frame'.d = frame'.ne
<1>1. FusionInv /\ [Next]_vars => [Fuses]_vars
  <2>. SUFFICES ASSUME FusionInv, [Next]_vars, at = "fuse", ~UNCHANGED vars
                PROVE  Fuses
    BY DEF vars
  <2>1. /\ fused'.pos # NoPos => fuse.pos /\ fused'.pos = obs.pos
        /\ fused'.hgt # NoPos => fuse.hgt /\ fused'.hgt = obs.hgt
    BY FusedWasSelected
  <2>2. InFrame(Core, ext.gen)
    BY DEF FusionInv
  <2>3. \A f \in GpsFrame \cup ExtFrame : f # Held /\ f # NoPos
    BY DEF Held, NoPos, GpsFrame, ExtFrame
  <2>4. fused'.pos \in GpsFrame \cup ExtFrame => fused'.pos = frame.ne
    BY <2>1, <2>2, <2>3 DEF InFrame, Core
  <2>5. fused'.hgt # NoPos => fused'.hgt[1] = frame.d[1]
    BY <2>1, <2>2 DEF InFrame, Core
  <2>6. fused'.hgt # NoPos /\ Joined(Core) => fused'.hgt = frame.ne
    BY <2>1, <2>2 DEF InFrame, Core
  <2>. QED BY <2>4, <2>5, <2>6
<1>2. FusionInv /\ [Next]_vars => [Stays]_vars
  BY StaysInStep
<1>3. [Fuses]_vars /\ [Stays]_vars => [Fuses /\ Stays]_vars
  OBVIOUS
<1>. QED BY FusionInvariant, <1>1, <1>2, <1>3, PTL DEF Spec, FrameChangesReset
===============================================================================
