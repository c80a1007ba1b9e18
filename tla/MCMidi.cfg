SPECIFICATION MCSpec
CONSTANTS
    Sizes <- MCSizes
    MaxBlocks     = 4
    PacketNumbers = 3
    MaxFaults     = 2
    MaxInFlight   = 3
    MaxDownloads  = 1
    WordsPerPacket = 2
    GroupSize     = 3
    ChunkSize     = 6
    Octets        = {0, 128, 255}
    MaxBytes      = 7
    OutSize = 3
    SysExOutSize = 2
    InSize = 4
    SysExInSize = 2
    MaxReads = 2
    Transports = 2
    Numbers = {7, 74}
    Values = {0, 1}
    Payloads = {1, 2}
    MinInterval = 1
    Silence = Silence
INVARIANTS
    UploadIntact
    ArrivesAsSent
    NothingReadIsLost
PROPERTIES
    UploadEnds
    ImplementsFifo
