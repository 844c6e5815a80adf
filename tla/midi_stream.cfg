SPECIFICATION Spec
CONSTANTS
    Bytes <- SomeBytes
    NUM_SYNTH_CHANNELS = 2
    CutMessages = FALSE
PROPERTY DecodesWire
