CONSTANTS
    NumTracks = 1
    NumSteps = 1
    Low <- MCLow
    High <- MCHigh
    Notes = {0, 1}
    NoNote = 128
    Velocities = {1}
    DefaultVelocity = 1
    HoldVelocity = 1
    QueueSize = 3
    VoiceIds = {v1, v2}
    Samples = {a, b}
    NoSample = NoSample
    MaxBlocks = 2
    MaxUploads = 1
SPECIFICATION MCSpec
SYMMETRY MCAlike
INVARIANTS
    NoNoteHangs
    WholeSample
PROPERTIES
    HeardAsAsked
