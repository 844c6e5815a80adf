SPECIFICATION Spec
CONSTANTS
    NumStreams = 2
    NumSynths = 2
    NumHandles = 4
    Collections = {c1, c2}
    NULL = NULL
    Files <- MCFiles
    CountModulus = 256
    MaxRefs = 3
SYMMETRY MCSymmetry
CHECK_DEADLOCK FALSE
INVARIANT SynthsAlive
INVARIANT HeldAlive
PROPERTY LossesKnown
