CONSTANTS
    Runners = {a, b}
    Owner = a
    Task = task
    NoOne = none
    Mortal = {a}
    Allowed = {"crash", "fault", "cancel", "ttl"}
    Grave = {}
    Budget = 1
    MaxEvents = 2
    Attached = TRUE
SPECIFICATION FairSpec
INVARIANT LiveShowsOneEnd
PROPERTIES RunningIsDecided HeartbeatForgotten DeliveryEnds
