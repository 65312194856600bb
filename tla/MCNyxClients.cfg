SPECIFICATION Spec
CONSTANTS
    Vectors <- MCVectors
    Devices <- MCDevices
    Names <- MCNames
    PropNames <- MCPropNames
    Payloads <- MCPayloads
    Encoded <- MCEncoded
    Decode <- MCDecode
    Clients <- MCClients
    Indi = "@INDI"
    Hash <- MCHash
    NSlots = 2
    Hooked = {}
    Refusing = {}
    MaxChildren = 1
INVARIANTS
    SlotTable
    BitsHaveOwners
    BitsMatchKind
PROPERTIES
    Subscriptions
