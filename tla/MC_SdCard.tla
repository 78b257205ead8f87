------------------------------ MODULE MC_SdCard ------------------------------
(* Sessions of file commands with any card, for TLC.                         *)
EXTENDS SdCard
=============================================================================
