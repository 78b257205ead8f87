----------------------------- MODULE MC_ReadBack -----------------------------
(* Instances of the reading sessions and the readers of the RAM for TLC.     *)
EXTENDS ReadBack
=============================================================================
