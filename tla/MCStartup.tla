----------------------------- MODULE MCStartup -----------------------------
(* An instance of Startup for TLC: a boot and one that would run beside it. *)
EXTENDS Startup

CONSTANTS b1, b2, l1

=============================================================================
