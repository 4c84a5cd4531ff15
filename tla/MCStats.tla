------------------------------ MODULE MCStats --------------------------------
(***************************************************************************)
(* Instances of Stats for TLC.  Observers share nothing but the counters,  *)
(* which they only load, so one observer, of any kind, is enough.          *)
(***************************************************************************)
EXTENDS Stats
=============================================================================
