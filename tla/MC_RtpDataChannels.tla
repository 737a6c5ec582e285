------------------------- MODULE MC_RtpDataChannels -------------------------
(* Four labels: enough for a dropped channel between two kept ones, for   *)
(* two dropped channels next to each other in the map, and for both at    *)
(* once.                                                                  *)
EXTENDS RtpDataChannels

MCLabels == {1, 2, 3, 4}

=============================================================================
