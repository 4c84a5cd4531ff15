------------------------------ MODULE MCPipeline ------------------------------
(***************************************************************************)
(* Instances of Pipeline for TLC.  One WriteJSONL and one Drain; four      *)
(* items, two of them this shard's.                                        *)
(***************************************************************************)
EXTENDS Pipeline
==============================================================================
