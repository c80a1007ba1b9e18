CONSTANTS
    NumTracks = 1
    NumSteps = 1
    Notes = {1, 2}
    NoNote = NoNote
    Low <- MCLow
    High <- MCHigh
    Velocities = {27, 100}
    DefaultVelocity = 100
    HoldVelocity = 27
    Debounce = 2
    Interval = 3
    Wrap = 5
    Word = 16
    NoFile = NoFile
    Torn = Torn
    CloseMayFail = FALSE
    MaxFailures = 1
    MaxOutages = 1
SPECIFICATION PersistenceSpec
INVARIANTS
    CleanIsStored
    SavedInTime
PROPERTIES
    EditsGetSaved
