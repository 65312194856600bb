SPECIFICATION Spec
CONSTANTS
    N = 16
    Keys = {"$", "@name"}
    Texts = {"", "a"}
    Empty = ""
    NullText = NullText
    MaxHeld = 2
    MaxLost = 1
    Name = "a"
    MaxSmall = 2
INVARIANTS
    ObjectTypeOK
    RefsCounted
    Trees
    KeysOnce
    NoOrphans
    TextsAccounted
    AnswersTellChange
CHECK_DEADLOCK FALSE
