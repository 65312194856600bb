SPECIFICATION FramingSpec
CONSTANTS
    TAGS <- MCTags
    Short <- MCShort
    Unlisted <- MCUnlisted
    MaxSent = 4
INVARIANTS
    NoneLost
CHECK_DEADLOCK FALSE
