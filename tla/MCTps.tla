------------------------------- MODULE MCTps -------------------------------
(***************************************************************************)
(* Two shards, of two blocks and of one.                                   *)
(***************************************************************************)
EXTENDS Tps

CONSTANTS s1, s2

Counts == [s \in {s1, s2} |-> IF s = s1 THEN <<1, 1>> ELSE <<1>>]
=============================================================================
