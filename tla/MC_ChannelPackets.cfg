CONSTANTS
    Directions <- MCDirections
    DataTypes <- MCDataTypes
    MaxQueue <- MCMaxQueue
    ContentFailures <- MCContentFailures
    MaxPosts <- MCMaxPosts
SPECIFICATION Spec2
INVARIANT TypeOK2
INVARIANT RtcpFlushedAtDestroy
CHECK_DEADLOCK FALSE
