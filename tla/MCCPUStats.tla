---------------------------- MODULE MCCPUStats ----------------------------
(***************************************************************************)
(* Instances of CPUStats for TLC.                                          *)
(***************************************************************************)
EXTENDS CPUStats, TLC

SlotSymmetry == Permutations(Scrapes)
=============================================================================
