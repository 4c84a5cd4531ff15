------------------------------ MODULE MCConsume ------------------------------
(***************************************************************************)
(* Instances of Consume for TLC.  One message goes beyond its two          *)
(* deliveries; a second one, beside it, does not.                          *)
(***************************************************************************)
EXTENDS Consume

Counts == [m \in Messages |-> IF m = 1 THEN 3 ELSE 2]
==============================================================================
