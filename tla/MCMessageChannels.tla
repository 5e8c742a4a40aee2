------------------------- MODULE MCMessageChannels -------------------------
(* Symmetry for TLC runs of MessageChannels.                               *)
EXTENDS MessageChannels, TLC

Symm == Permutations(Channels) \cup Permutations(Nicks)
=============================================================================
