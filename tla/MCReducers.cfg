CONSTANTS
    Ids = {x, y}
    Characters = {a, b}
    MaxEvents = 3
SPECIFICATION EmissionSpec
SYMMETRY Symmetry
CHECK_DEADLOCK FALSE
INVARIANTS
    TypeOK
    Agree
    StopTogether
    IdsStayUnique
    ReferencesStayBare
    SnapshotRestarts
    Mirrors
PROPERTIES
    PlacesKept
    TransitionsNumbered
