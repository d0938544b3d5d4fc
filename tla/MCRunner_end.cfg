CONSTANTS
    Runners = {a, b}
    Owner = a
    Task = task
    NoOne = none
    Mortal = {}
    Allowed = {}
    Grave = {}
    Budget = 0
    MaxEvents = 1
    Attached = TRUE
SPECIFICATION Spec
INVARIANT LiveEndsWithEnd
