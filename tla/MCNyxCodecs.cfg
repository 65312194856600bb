SPECIFICATION Spec
CONSTANTS
    MaxBlock = 3
    AdlerMod = 65521
    Word32 = 16
    BufferSize = 9
    Stray <- MCStray
    Sizes = 64
    JsonInputs <- MCJsonInputs
    XmlInputs <- MCXmlInputs
    TextInputs <- MCTextInputs
    ObjectInputs <- MCObjectInputs
    ByteInputs <- MCByteInputs
    CharacterInputs <- MCCharacterInputs
    FormatInputs <- MCFormatInputs
    StreamInputs <- MCStreamInputs
INVARIANTS
    JsonReads
    XmlReads
    ParsersFree
    TextsReadBack
    TransformsRoundTrip
    EncodingsRoundTrip
    FormatsReadBack
    FramesAddUp
CHECK_DEADLOCK FALSE
