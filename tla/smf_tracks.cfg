SPECIFICATION FairSpec
CONSTANTS
    Songs <- AllSongs
    ppqn = 2
    DefaultTempo = 10
    ClockSplit = 4
    U32 = 16777216
    SearchLimit = 524288
    StartLimit = 8388607
    MaxPasses = 2
INVARIANT NextIsEarliest
INVARIANT ClockAccurate
PROPERTY EventsInOrder
PROPERTY SongEnds
CHECK_DEADLOCK FALSE
