----------------------------- MODULE MC_Channel -----------------------------
EXTENDS Channel

MCDirections == {"inactive", "sendrecv"}
MCDataTypes == {"rtp", "sctp"}
MCMaxQueue == 2
MCContentFailures == {"none", "srtp", "streams", "codecs"}
MCKeyingFailures == {"none", "srtp", "streams"}
=============================================================================
