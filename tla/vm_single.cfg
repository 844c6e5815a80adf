\* One stream: counters and deferrals.
SPECIFICATION Spec
CONSTANTS
    Voices = {v1, v2}
    NumSynths = 1
    Channels = {0}
    Notes = {105}
    DefaultKey = 105
    Regions = {"drum"}
    DefaultRegion = "drum"
    KeyGroup <- MCKeyGroup
    SelfExclusive = {"drum"}
    Limits = {0, 1}
    SynthLimits = {1, 2}
    Priorities = {5}
    DefaultPriority = 5
    MaxRefs = 1
    CountModulus = 8
    PoolModulus = 3
SYMMETRY MCSymmetry
INVARIANTS
    ActiveVoicesExact
    NumActiveExact
    DeferredNoteOffScheduled
    StolenNeverSustained
    ResetWaitsForVoices
PROPERTIES
    SynthPolyphonyReached
