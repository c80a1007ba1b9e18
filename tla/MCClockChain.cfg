CONSTANTS
    Knob     <- MCKnob
    LowKnob  <- MCLowKnob
    HighKnob <- MCHighKnob
    Anchor   <- MCAnchor
    SendWhenStopped = TRUE
SPECIFICATION Spec
INVARIANTS
    OneMidiClockPerTick
PROPERTIES
    KnobInForce
    BeatLandsOnGrid
    UnpluggingEndsWait
    ImplementsStream
