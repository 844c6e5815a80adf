SPECIFICATION Spec
CONSTANTS
    NumStreams = 1
    Songs <- One
    DefaultConv = 2667
    AUDIO_FRAME_LENGTH = 1486
    FrameLengths = {1486, 2972}
    Targets = {0, 4, 30}
    Repeats <- MCRepeats
    JET_INTERFACE = TRUE
    CanYield = TRUE
INVARIANT SilentWhenStill
INVARIANT NothingOverdue
INVARIANT EventTimeExact
PROPERTY PauseHolds
