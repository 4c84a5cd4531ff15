------------------------------ MODULE MCProcess ------------------------------
(***************************************************************************)
(* Instances of Process for TLC.  Workers and items are model values.  The *)
(* run has liveness properties, hence no symmetry.  Module Pipeline checks *)
(* the engine without a timeout.                                           *)
(***************************************************************************)
EXTENDS Process
==============================================================================
