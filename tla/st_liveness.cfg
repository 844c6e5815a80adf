SPECIFICATION FairSpec
CONSTANTS
    NumStreams = 2
    Songs <- Broken
    DefaultConv = 2667
    AUDIO_FRAME_LENGTH = 1486
    FrameLengths = {1486}
    Targets = {}
    Repeats <- OnceOrForever
    JET_INTERFACE = FALSE
    CanYield = TRUE
PROPERTY PlaysToEnd
PROPERTY RepeatsForever
PROPERTY FramesKeepComing
