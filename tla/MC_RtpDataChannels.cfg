CONSTANTS
    Labels <- MCLabels
SPECIFICATION Spec
INVARIANT TrackedMatchesRemote
PROPERTY RemoteCloseOnce
PROPERTY TableSpec
