\* Two streams that share the voices.
SPECIFICATION Spec
CONSTANTS
    Voices = {v1}
    NumSynths = 2
    Channels = {0}
    Notes = {60}
    DefaultKey = 105
    Regions = {"piano"}
    DefaultRegion = "piano"
    KeyGroup <- MCKeyGroup
    SelfExclusive = {}
    Limits = {}
    SynthLimits = {}
    Priorities = {4, 5}
    DefaultPriority = 5
    MaxRefs = 1
    CountModulus = 8
    PoolModulus = 3
SYMMETRY MCSymmetry
CHECK_DEADLOCK FALSE
INVARIANTS
    DeferralInv
PROPERTIES
    PriorityRespected
