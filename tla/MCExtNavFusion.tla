----------------------------- MODULE MCExtNavFusion -----------------------------
(***************************************************************************)
(* ExtNavFusion for TLC: two source sets of the flights and the ones that  *)
(* would take the program's or the receiver's height beside them.  The GPS *)
(* receivers are alike.                                                    *)
(***************************************************************************)
EXTENDS ExtNavFusion, TLC

SourceSet(posxy, velxy, posz, velz) ==
    [posxy |-> posxy, velxy |-> velxy, posz |-> posz, velz |-> velz]

FlightSets == {
    SourceSet("gps", "gps", "baro", "gps"),             \* the flights' first set
    SourceSet("extnav", "none", "baro", "extnav"),      \* and second set
    SourceSet("extnav", "extnav", "extnav", "extnav"),  \* everything from the program
    SourceSet("gps", "none", "extnav", "extnav"),       \* its height beside GPS
    SourceSet("extnav", "none", "gps", "extnav")}       \* the receiver's height beside it

ReceiversAlike == Permutations(Receivers)
=============================================================================
