SPECIFICATION FairSpec
CONSTANTS
    SEG_QUEUE_DEPTH = 3
    UserIDs = {1}
    Repeats = {0, 1}
    MuteFlags <- None
    ClearsQueue = TRUE
    CanFail = FALSE
INVARIANT PlayingStreamsPlay
INVARIANT NotStranded
PROPERTY IsPlaylist
PROPERTY PlaysOut
