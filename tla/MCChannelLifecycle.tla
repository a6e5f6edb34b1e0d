------------------------- MODULE MCChannelLifecycle -------------------------
(* Instances of ChannelLifecycle for TLC: requests are interchangeable, and *)
(* so are channels.                                                         *)
EXTENDS ChannelLifecycle, TLC

Symmetry == Permutations(Clients) \cup Permutations(Channels)

=============================================================================
