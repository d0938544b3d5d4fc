CONSTANTS
    Runners = {a, b}
    Owner = a
    Task = task
    NoOne = none
    Mortal = {a, b}
    Allowed = {"crash", "close"}
    Grave = {}
    Budget = 2
    MaxEvents = 1
    Attached = FALSE
SPECIFICATION FairSpec
CHECK_DEADLOCK FALSE
PROPERTY CloseFinishes
