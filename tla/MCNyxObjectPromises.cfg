SPECIFICATION Spec
CONSTANTS
    N = 8
    Keys = {"$", "@name"}
    Texts = {"", "a"}
    Empty = ""
    NullText = NullText
    MaxHeld = 2
    MaxLost = 1
    Name = "a"
    MaxSmall = 0
INVARIANTS
    SettersKeepPromises
CHECK_DEADLOCK FALSE
