CONSTANTS
    Directions <- MCDirections
    DataTypes <- MCDataTypes
    MaxQueue <- MCMaxQueue
    ContentFailures <- MCContentFailures
    MaxPosts <- MCMaxPosts
SPECIFICATION Spec2

INVARIANT MediaReadyWhenTransportsReady
CHECK_DEADLOCK FALSE
