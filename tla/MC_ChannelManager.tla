------------------------- MODULE MC_ChannelManager -------------------------
(* Three DataChannel objects: one whose Init fails, one destroyed twice    *)
(* and one still registered when the manager terminates or is destroyed.  *)
EXTENDS ChannelManager, TLC

CONSTANTS d1, d2, d3

MCChannelIds == {d1, d2, d3}

Symmetry == Permutations(MCChannelIds)

=============================================================================
