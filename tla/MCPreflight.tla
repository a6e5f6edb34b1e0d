---------------------------- MODULE MCPreflight ----------------------------
(* An instance of Preflight for TLC: two tasks and two mirrors, of which no *)
(* one is special.                                                          *)
EXTENDS Preflight, TLC

CONSTANTS t1, t2, m1, m2

Symmetry == Permutations({t1, t2}) \cup Permutations({m1, m2})

=============================================================================
