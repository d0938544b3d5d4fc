CONSTANTS
    Runners = {a, b}
    Owner = a
    Task = task
    NoOne = none
    Mortal = {a}
    Allowed = {"stall"}
    Grave = {}
    Budget = 1
    MaxEvents = 2
    Attached = FALSE
SPECIFICATION Spec
INVARIANT SeqStrictlyIncreasing
