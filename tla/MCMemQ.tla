-------------------------------- MODULE MCMemQ -------------------------------
(***************************************************************************)
(* Instances of MemQ for TLC.  One receiver of two is cancellable, so that *)
(* the run has both.                                                       *)
(***************************************************************************)
EXTENDS MemQ
==============================================================================
