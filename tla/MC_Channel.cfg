CONSTANTS
    Directions <- MCDirections
    DataTypes <- MCDataTypes
    MaxQueue <- MCMaxQueue
    ContentFailures <- MCKeyingFailures
SPECIFICATION Spec

INVARIANT SrtpKeyedWhenWritable
