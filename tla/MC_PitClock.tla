----------------------------- MODULE MC_PitClock -----------------------------
(* Three commands in any order share the timer.                             *)
EXTENDS PitClock
=============================================================================
