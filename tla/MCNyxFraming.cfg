SPECIFICATION FramingSpec
CONSTANTS
    TAGS <- MCTags
    Short <- MCShort
    Unlisted <- MCUnlisted
    MaxSent = 4
INVARIANTS
    FramingTypeOK
    HandledInOrder
    WholeMessages
    LostToPriority
CHECK_DEADLOCK FALSE
