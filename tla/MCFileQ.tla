------------------------------- MODULE MCFileQ -------------------------------
(***************************************************************************)
(* Instances of FileQ for TLC.  Consumers are model values; messages are   *)
(* their sequence numbers, which the directory listings are sorted by.     *)
(***************************************************************************)
EXTENDS FileQ
==============================================================================
