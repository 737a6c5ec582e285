CONSTANTS
    a = a
    b = b
    s1 = s1
    s2 = s2
    none = none
    NoSsrc = none
    StreamIds <- MCStreamIds
    Ssrcs <- MCSsrcs
    Actions <- MCActions
    MaxDescStreams = 2
    MaxEngineFaults = 1
    MaxDirectCalls = 1
SYMMETRY MCSymmetry
SPECIFICATION Spec
INVARIANT BundleWithinMedia
PROPERTY NoSilentDrift
