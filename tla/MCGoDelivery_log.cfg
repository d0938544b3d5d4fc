CONSTANTS
    Producers = {p, q}
    Clients = {c}
    NoEvent = none
    MaxSeq = 3
    ReadCount = 2
    Budget = 1
SPECIFICATION FairSpec
CHECK_DEADLOCK FALSE
INVARIANTS
    HashMatchesStream
    AcknowledgedIsStored
    SoleProducerIsAccepted
    ViewIsPrefix
    EndedIsWhole
PROPERTIES ImplementsEventLog ClosedLogEnds
