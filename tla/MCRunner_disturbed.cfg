CONSTANTS
    Runners = {a, b}
    Owner = a
    Task = task
    NoOne = none
    Mortal = {a, b}
    Allowed = {"stall", "late", "crash", "slow", "fault", "close", "cancel", "ttl", "renumber"}
    Grave = {"stall", "late"}
    Budget = 2
    MaxEvents = 3
    Attached = FALSE
SPECIFICATION Spec
CHECK_DEADLOCK FALSE
INVARIANTS
    TypeOK
    EndAfterComplete
    ErrorBeforeEnd
    SnapshotCoversStream
    ClaimExclusive
    SeqOrder
    CompleteUnlessCancelled
    VerdictMatchesLog
    RunningIsIndexed
PROPERTY VerdictStands
