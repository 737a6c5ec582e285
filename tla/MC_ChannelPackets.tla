-------------------------- MODULE MC_ChannelPackets --------------------------
EXTENDS ChannelPackets

MCDirections == {"sendrecv"}
MCDataTypes == {"rtp"}
MCMaxQueue == 1
MCContentFailures == {"none"}
MCMaxPosts == 1
=============================================================================
