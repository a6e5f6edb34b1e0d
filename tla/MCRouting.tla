----------------------------- MODULE MCRouting -----------------------------
(* An instance of Routing for TLC: addresses of one bit, written in two     *)
(* labels, of which one ends in the only label of a host name (10.0.0.1 and *)
(* the domain 1); a name below it outside ASCII; texts of every form; an    *)
(* empty database and two that earlier versions left, one with a bare       *)
(* address, one with domains.                                               *)
EXTENDS Routing, TLC

CONSTANTS m, n

V4(bits, mask) == [form |-> "addr", fam |-> 4, bits |-> bits, mask |-> mask,
                   zone |-> FALSE]
V6(bits, mask, zone) == [form |-> "addr", fam |-> 6, bits |-> bits,
                         mask |-> mask, zone |-> zone]
Host(host, wild) == [form |-> "host", host |-> host, wild |-> wild]
Junk == [form |-> "junk"]

Two == 0..1
X   == <<10>>
AX  == <<10, 11>>

MCHosts   == {X, AX}
MCUnicode == {11}
MCDotted  == [b \in Two |-> <<9 + b, 9>>]
MCGroup   == [b \in Two |-> IF b = 0 THEN <<>> ELSE X]
MCEntries == {
    <<V4(1, NoMask)>>, <<V4(1, 0), V4(1, 2)>>, <<V6(1, 1, FALSE), V6(0, 0, TRUE)>>,
    <<Host(X, 0), Host(X, 1), Junk>>, <<Host(AX, 2)>>}

MCLegacy ==
    {[name |-> <<>>, rows |-> <<>>, domains |-> <<>>]} \cup
    {[name |-> (0 :> x), domains |-> <<>>,
      rows |-> <<Row(0, Ip(4, 1, NoMask), TRUE), Row(0, Malformed, TRUE)>>] : x \in Names} \cup
    {[name |-> (0 :> x), rows |-> <<>>,
      domains |-> <<Row(0, Malformed, TRUE), Row(0, Domain(AX, 1), TRUE)>>] : x \in Names}

Symmetry == Permutations(Names)

=============================================================================
