----------------------------- MODULE MC_SctpSid -----------------------------
(* Model-checking instance of SctpSid: four channels, sids 0..5 (three of *)
(* each parity, so one parity can be exhausted while the other is not,    *)
(* and a released id can lie between two live ones), and a peer that may  *)
(* name any sid in an OPEN message.                                       *)
EXTENDS SctpSid, TLC

CONSTANTS c1, c2, c3, c4

MCChannels == {c1, c2, c3, c4}
MCMaxSid == 5
MCPeerSids == 0..MCMaxSid
MCCursorBound == MCMaxSid + 3

\* Channel names are only compared for equality.
MCSymmetry == Permutations(MCChannels)
=============================================================================
