---------------------------- MODULE MCTunHelper ----------------------------
(* Instances of TunHelper for TLC: every text has a destination of its own, *)
(* or both name the same.                                                   *)
EXTENDS TunHelper, TLC

CONSTANTS c1, c2, d1, d2

Apart == [c \in Cidrs |-> IF c = c1 THEN d1 ELSE d2]
Twins == [c \in Cidrs |-> d1]

Symmetry == Permutations(Configs)

=============================================================================
