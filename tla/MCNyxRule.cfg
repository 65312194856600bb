SPECIFICATION FairSpec
CONSTANTS
    Vectors <- MCVectors
    Devices <- MCDevices
    Names <- MCNames
    PropNames <- MCPropNames
    Payloads <- MCPayloads
    Encoded <- MCEncoded
    Decode <- MCDecode
    Clients <- MCClients
    Indi = "@INDI"
    Hash <- MCHash
    NSlots = 1
    Hooked <- MCHooked
    Refusing <- MCRefusing
    MaxChildren = 2
PROPERTIES
    PublishedOneOfMany
