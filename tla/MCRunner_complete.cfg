CONSTANTS
    Runners = {a, b}
    Owner = a
    Task = task
    NoOne = none
    Mortal = {a}
    Allowed = {"close"}
    Grave = {}
    Budget = 1
    MaxEvents = 1
    Attached = FALSE
SPECIFICATION Spec
INVARIANT CompleteOnEveryPath
