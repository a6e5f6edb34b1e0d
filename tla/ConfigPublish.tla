---------------------------- MODULE ConfigPublish ----------------------------
(***************************************************************************)
(* What the core promises its clients about hot reload, without any of the *)
(* machinery: database states are numbered in commit order, the running    *)
(* mihomo shows one of them, and a success reply to a rule change means    *)
(* that the change is in what mihomo shows, from then on.  What it shows   *)
(* can get lost, back to nothing; then no reply claims anything new until  *)
(* all that has been claimed is shown again.                               *)
(***************************************************************************)
EXTENDS Naturals

VARIABLES
    db,     \* number of the newest database state
    live,   \* the state mihomo routes by
    acked,  \* the newest state a success reply has claimed to be live
    lost    \* mihomo has started from nothing

vars == <<db, live, acked, lost>>

Init == db = 0 /\ live = 0 /\ acked = 0 /\ lost = FALSE

(* A handler commits.                                                       *)
Commit == db' = db + 1 /\ UNCHANGED <<live, acked, lost>>

(* mihomo moves on, maybe over several states at once, and the requests     *)
(* that waited for one of them are answered.                                *)
Advance == /\ live' \in live..db
           /\ \/ UNCHANGED <<acked, lost>>
              \/ acked' \in acked..live' /\ lost' = FALSE
           /\ UNCHANGED db

Lose == live' = 0 /\ lost' = TRUE /\ UNCHANGED <<db, acked>>

Next == Commit \/ Advance \/ Lose

Spec == Init /\ [][Next]_vars

=============================================================================
