------------------------------ MODULE MC_SpiRam ------------------------------
(* Instances of the SPI RAM write path for TLC.                              *)
EXTENDS SpiRamProps
=============================================================================
