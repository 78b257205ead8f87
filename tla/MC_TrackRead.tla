---------------------------- MODULE MC_TrackRead ----------------------------
(* The track sampler on a track of a few passes of its core loop.          *)
EXTENDS TrackRead

(* A ring that keeps up, and pulses at any distance: the code is at its    *)
(* longest, a pulse falls at every instruction.  A ring that refuses any   *)
(* byte of cells of both widths.                                           *)
SampledOrLossy ==
  {[min_gap |-> 4, max_gap |-> 6, overruns |-> FALSE, cells |-> {"word"}],
   [min_gap |-> 4, max_gap |-> 4, overruns |-> TRUE, cells |-> {"word", "delta"}]}

(* What the theorem about the indices asks of the disk.                    *)
ASSUME TurnsHere == LongTurns
=============================================================================
