----------------------------- MODULE MCTunEntry -----------------------------
(* Instances of TunEntry for TLC: two tasks at a time.                      *)
EXTENDS TunEntry, TLC

CONSTANTS t1, t2

Symmetry == Permutations(Tasks)

=============================================================================
