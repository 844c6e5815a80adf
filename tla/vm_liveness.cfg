\* One stream: every voice that goes down ends.
SPECIFICATION FairSpec
CONSTANTS
    Voices = {v1}
    NumSynths = 1
    Channels = {0}
    Notes = {60, 105}
    DefaultKey = 105
    Regions = {"drum"}
    DefaultRegion = "drum"
    KeyGroup <- MCKeyGroup
    SelfExclusive = {"drum"}
    Limits = {0, 1}
    SynthLimits = {1}
    Priorities = {5}
    DefaultPriority = 5
    MaxRefs = 2
    CountModulus = 8
    PoolModulus = 3
PROPERTIES
    VoicesLetGo
    StolenVoicesRestart
