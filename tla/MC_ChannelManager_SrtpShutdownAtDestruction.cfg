CONSTANTS
    d1 = d1
    d2 = d2
    d3 = d3
    ChannelIds <- MCChannelIds
SPECIFICATION Spec
INVARIANT SrtpShutdownAtDestruction
CHECK_DEADLOCK FALSE
