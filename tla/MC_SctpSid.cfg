CONSTANTS
    c1 = c1
    c2 = c2
    c3 = c3
    c4 = c4
    Channels <- MCChannels
    MaxSid <- MCMaxSid
    PeerSids <- MCPeerSids
    CursorBound <- MCCursorBound
    MaxPendingCloses = 1
SYMMETRY MCSymmetry
SPECIFICATION Spec
INVARIANT TypeOK
INVARIANT SidsUnique
PROPERTY RegistrySpec
CHECK_DEADLOCK FALSE
