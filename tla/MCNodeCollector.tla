-------------------------- MODULE MCNodeCollector --------------------------
(***************************************************************************)
(* Instance of NodeCollector for TLC.                                      *)
(***************************************************************************)
EXTENDS NodeCollector
=============================================================================
