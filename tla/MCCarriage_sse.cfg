CONSTANTS
    Blocks = {}
    Edits = {}
    Limits = {}
    Envelope = 3
    Digits <- Binary
    MaxRead = 0
    Events <- StringEvents
    Senders = {"python"}
    Cursor = cursor
    NoCursor = none
    MaxCharacters = 3
SPECIFICATION Spec
CHECK_DEADLOCK FALSE
INVARIANT EventArrives
