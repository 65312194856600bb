SPECIFICATION FairSystemSpec
CONSTANTS
    Vectors <- MCVectors
    Devices <- MCDevices
    Names <- MCNames
    PropNames <- MCPropNames
    Payloads <- MCPayloads
    Encoded <- MCEncoded
    Decode <- MCDecode
    Clients <- MCClients
    Indi = "@INDI"
    Hash <- MCHash
    NSlots = 1
    Hooked <- MCHooked
    Refusing <- MCHooked
    MaxChildren = 1
    Big <- MCBig
    MaxWire = 1
INVARIANTS
    MirrorAgrees
PROPERTIES
    SessionRecovers
    WaitEnds
CHECK_DEADLOCK FALSE
