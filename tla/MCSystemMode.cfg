SPECIFICATION MCSpec
CONSTANTS
    Slots   = {s1, s2}
    NoSlot  = NoSlot
    MaxSent = 6
    Span = 3
    Threshold = 1
    Deadband = 1
    NumControls = 2
    PitchTracks = {0}
    SliderModes = {{"pitch"}, {"gain", "decay"}}
    Untold = Untold
    MaxRequests = 1
    Image       = {factory, sound, broken}
    Broken      = {broken}
    Factory     = factory
    Blocks      = 2
    HostWaits   = TRUE
    MaxFaults   = 2
    MaxSessions = 2
INVARIANTS
    TransferHoldsMode
    SilentDuringTransfer
    NeverBricked
    TrialIsWhole
PROPERTIES
    ReturnsToSequencer
    PanelGoesQuiet
    KnobIsHeard
    UpdateEnds
