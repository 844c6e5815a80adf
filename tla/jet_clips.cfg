SPECIFICATION Spec
CONSTANTS
    SEG_QUEUE_DEPTH = 2
    JET_MUTE_QUEUE_SIZE = 2
    APP_EVENT_QUEUE_SIZE = 3
    JET_EVENT_QUEUE_SIZE = 3
    Clips = {1, 2}
    ClipTrack <- OneTrack
    UserIDs = {1, 2}
    NoEvent = NoEvent
    TailClips = FALSE
INVARIANT SoundsOnlyInClip
INVARIANT CreditExact
INVARIANT OwnMarkerEndsLoop
PROPERTY NextStartPlays
PROPERTY AppEventsInOrder
VIEW MCView
