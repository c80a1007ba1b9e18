SPECIFICATION MCSpec
CONSTANTS
    NumSteps = 2
    SwingOffset = 2
    MaxBurst = 3
    PatternLength = 4
    Draws <- MCDraws
    TraceTicks = 3
    MaxElapsed = 2
INVARIANTS
    OnsetTaken
    TracesLast
PROPERTIES
    SteadyGaps
    KeepsPlaying
    LoopRepeats
