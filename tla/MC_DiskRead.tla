---------------------------- MODULE MC_DiskRead ----------------------------
(* A drive of a few cylinders: as in the code, the seek makes more steps   *)
(* than it has, and the cap lets through more than the seek.               *)
EXTENDS DiskRead

StepArguments == {1, 2}
MaxArguments  == {0, 3}
TrackRanges   == {<<0, 2>>, <<1, 4>>, <<3, 1>>, <<2, 5>>}

ASSUME FitsHere == DriveFits
=============================================================================
