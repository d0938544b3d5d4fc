CONSTANTS
    Blocks <- MCBlocks
    Edits <- MCEdits
    Limits = {6, 8, 9, 10, 11, 13, 15, 17, 19, 21}
    Envelope = 3
    Digits <- Binary
    MaxRead = 3
    Events <- MCEvents
    Senders = {"python", "typescript"}
    Cursor = cursor
    NoCursor = none
    MaxCharacters = 4
SPECIFICATION Spec
CHECK_DEADLOCK FALSE
INVARIANTS
    FramesFit
    CutsAreLongest
    RestoredAsStored
    EventArrivesUnlessCut
