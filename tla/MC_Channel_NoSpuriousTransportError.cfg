CONSTANTS
    Directions <- MCDirections
    DataTypes <- MCDataTypes
    MaxQueue <- MCMaxQueue
    ContentFailures <- MCContentFailures
SPECIFICATION Spec
INVARIANT NoSpuriousTransportError
