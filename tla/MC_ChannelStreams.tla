------------------------- MODULE MC_ChannelStreams -------------------------
(* Two stream ids and two SSRCs: a description can reuse an SSRC under     *)
(* other ids, carry a stream without SSRCs, or hold two streams.          *)
EXTENDS ChannelStreams, TLC

CONSTANTS a, b, s1, s2, none

MCStreamIds == {a, b}
MCSsrcs == {s1, s2}
MCActions == {"answer", "update"}

\* Nothing in the stream code orders ids or SSRCs: they are only compared.
MCSymmetry == Permutations(MCStreamIds) \cup Permutations(MCSsrcs)

=============================================================================
