------------------------------- MODULE MCRedisQ ------------------------------
(***************************************************************************)
(* Instances of RedisQ for TLC.  The messages differ: one is Hasty, one is *)
(* undecodable, one is neither.                                            *)
(***************************************************************************)
EXTENDS RedisQ
==============================================================================
