CONSTANTS
    c1 = c1
    c2 = c2
    c3 = c3
    c4 = c4
    Channels <- MCChannels
    MaxSid <- MCMaxSid
    PeerSids <- MCPeerSids
    CursorBound <- MCCursorBound
    MaxPendingCloses = 1
SPECIFICATION Spec
CHECK_DEADLOCK FALSE
PROPERTY CursorRewindsOnlyFromTail
