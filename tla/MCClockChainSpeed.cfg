CONSTANTS
    Knob     <- MCKnob
    LowKnob  <- MCLowKnob
    HighKnob <- MCHighKnob
    Anchor   <- MCAnchor
    SendWhenStopped = TRUE
SPECIFICATION Spec
INVARIANT SpeedNotCarriedOver
