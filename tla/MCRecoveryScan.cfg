CONSTANTS
    Tasks = {x, y}
    Runners = {a, b}
    Mortal = {b}
    Broken = {x}
    NoOne = none
    Budget = 1
SPECIFICATION FairSpec
INVARIANTS
    OneScannerPerTask
    RecoveredOnce
    AliveIsSpared
    NoneIsLost
PROPERTIES
    SilentAreDecided
    IndexEmpties
