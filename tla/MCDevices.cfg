SPECIFICATION MCSpec
\* A device that sleeps stops, and a host has so many transfers.
CHECK_DEADLOCK FALSE
CONSTANTS
    NUM_TRACKS = 2
    NUM_STEPS = 2
    MaxBrightness = 3
    Dark = Dark
    None = None
    MaxVolume = 2
    Unknown = Unknown
    MaxFaults = 2
    PPQN_MULTIPLIER = 3
    PULSE_DEBOUNCE = 3
    DETECT_DEBOUNCE = 1
    MaxInterval = 7
    MaxStall = 2
    Nil = Nil
    Kit = kit
    Others = {sample}
    BlockSize = 3
    GroupSize = 2
    KitSize = 3
    Values = {v1, v2}
    Default = v1
    Missing = Missing
    Factory = Factory
    Nothing = Nothing
    MaxTransfers = 2
    MaxGroups = 3
    MaxRefusals = 1
INVARIANTS
    NothingOutlivesItsPress
    CodecIsKnown
    FrameIsWhole
    NoMixture
PROPERTIES
    ShowReturns
    ImplementsPad
    PulsesFollowBeats
    TakenIsStored
