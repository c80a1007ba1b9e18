CONSTANTS
    Image       = {factory, sound, broken}
    Broken      = {broken}
    Factory     = factory
    Blocks      = 2
    HostWaits   = FALSE
    MaxFaults   = 2
    MaxSessions = 2
SPECIFICATION FirmwareSpec
INVARIANTS
    NeverBricked
CHECK_DEADLOCK FALSE
