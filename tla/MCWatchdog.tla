----------------------------- MODULE MCWatchdog -----------------------------
(* Instances of Watchdog for TLC: the ladder scaled down, in ticks.         *)
EXTENDS Watchdog
=============================================================================
