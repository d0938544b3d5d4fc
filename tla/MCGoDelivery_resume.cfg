CONSTANTS
    Producers = {p}
    Clients = {c}
    NoEvent = none
    MaxSeq = 2
    ReadCount = 2
    Budget = 1
SPECIFICATION FairSpec
CHECK_DEADLOCK FALSE
PROPERTY StoredEndEnds
