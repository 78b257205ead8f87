---------------------------- MODULE MC_Analyzer ----------------------------
(* Short tracks for TLC: a line of sectors, one that meets the gap of the   *)
(* track, and one with a sector number the program does not know.           *)
EXTENDS Analyzer

Gap(n) == [cells |-> n]
Sector(s, n) == [sector |-> s, to_gap |-> n]

ShortTracks ==
  {<<Gap(1), Sector(0, 3), Sector(1, 2), Sector(2, 1), Gap(1), Sector(0, 3)>>,
   <<Gap(0), Sector(2, 1), Gap(2), Sector(0, 3), Sector(1, 2), Sector(2, 1)>>,
   <<Gap(1), Sector(3, 2), Sector(1, 1)>>}
=============================================================================
