---------------------------- MODULE MCDiscovery ----------------------------
(* One peer in the first bucket and the others in the second, which is on  *)
(* the next level.                                                         *)
EXTENDS Discovery

OneAbove == [p \in Peers |-> IF p = 1 THEN 0 ELSE 1]
=============================================================================
