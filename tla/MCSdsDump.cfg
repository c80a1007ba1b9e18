CONSTANTS
    Packets       <- MCPackets
    PacketNumbers <- MCPacketNumbers
    MaxFaults   = 2
    MaxSessions = 2
    MaxInFlight = 3
    Promptness  = {TRUE, FALSE}
SPECIFICATION Spec
CHECK_DEADLOCK FALSE
INVARIANTS
    SampleIntact
PROPERTIES
    DumpEnds
    HandshakeDelivers
