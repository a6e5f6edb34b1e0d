---------------------------- MODULE MCRuleReload ----------------------------
(* Instances of RuleReload for TLC: requests are interchangeable, and so    *)
(* are channels.                                                            *)
EXTENDS RuleReload, TLC

Symmetry == Permutations(Clients) \cup Permutations(Channels)

(* Bound: without the unmanaged keys in its working copy the core is not    *)
(* followed beyond the second commit.                                       *)
Followed == hostCfg.base \in {"empty", "bare"} => ver < 3

=============================================================================
