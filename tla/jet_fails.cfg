SPECIFICATION Spec
CONSTANTS
    SEG_QUEUE_DEPTH = 3
    UserIDs = {1}
    Repeats = {1}
    MuteFlags <- Muting
    ClearsQueue = TRUE
    CanFail = TRUE
INVARIANT MutesInForce
INVARIANT RingConsistent
