SPECIFICATION Spec
CONSTANTS
    Voices = {v1, v2}
    NUM_SYNTH_CHANNELS = 2
    Mips = {1, 2}
    Limits = {1}
    SynthLimits = {1, 2}
    PedalChannels = {0}
    PoolModulus = 5
SYMMETRY MCSymmetry
INVARIANT MutedExact
INVARIANT MutedGoesDown
INVARIANT PoolsCover
INVARIANT PoolsShareVoices
VIEW MCView
