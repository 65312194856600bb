------------------------------- MODULE NyxCalls -------------------------------
(***************************************************************************)
(* The calls of the node's pure functions on texts, bytes, characters,     *)
(* numbers and streams: each is made once, on any input, and its answer is *)
(* compared with a definition of its own, which is not how the code        *)
(* computes it.  NyxCodecs adds the calls of the parsers.                  *)
(***************************************************************************)
EXTENDS NyxText, NyxStreams, NyxFormats

CONSTANTS
    TextInputs,      \* texts to write and read back
    ByteInputs,      \* sequences of bytes to encode
    CharacterInputs, \* code points
    FormatInputs,    \* [format, variant] to print and read back
    StreamInputs     \* [enabled, vector, payloads] to publish

IsFormat(s) ==
    /\ s.w \in Nat /\ s.f \in Nat /\ s.length \in 0..2 /\ s.prefix \in Nat
    /\ \A field \in {"tail", "otherLength", "plus", "dot", "hasW", "hasF"} : s[field] \in BOOLEAN

\* What a variant of each type holds, for the format that prints it.  For "m"
\* the rest of a double is less than a degree.
IsVariant(v, format) ==
    CASE v.type = "int" -> v.value \in Ints
      [] v.type = "uint" -> v.value \in 0..Word32 - 1
      [] v.type = "long" -> v.value \in Int
      [] v.type = "ulong" -> v.value \in Nat
      [] v.type = "double" ->
            IF format.conv = "m"
            THEN v.value \in [negative : BOOLEAN, deg : Nat,
                              half : 0..2 * PerDegree(format.f) - 1]
            ELSE v.value \in [negative : BOOLEAN, half : Nat, size : Nat]
      [] OTHER -> FALSE

Kinds == {"raw", "base64", "zlib", "invalid"}

IsStream(s) ==
    /\ s.enabled \in BOOLEAN
    /\ s.vector.registered \in BOOLEAN /\ s.vector.listed \in BOOLEAN
    /\ s.vector.kinds \in Seq(Kinds) /\ s.vector.kinds # <<>>
    /\ s.payloads \in Seq(Seq(0..255))

\* No text has a zero byte, no vector of a stream is without fields.
ASSUME CallsAssumption ==
    /\ TextInputs \subseteq Seq(1..255)
    /\ ByteInputs \subseteq Seq(0..255)
    /\ CharacterInputs \subseteq Nat
    /\ \A i \in FormatInputs : IsFormat(i.format) /\ IsVariant(i.variant, ParseFormat(i.format))
    /\ \A s \in StreamInputs : IsStream(s)

VARIABLES
    op,        \* the function called
    input,
    answered,
    output     \* its answer, <<>> before

vars == <<op, input, answered, output>>

Given(name, inputs) == op = name /\ input \in inputs /\ answered = FALSE /\ output = <<>>

CallsInit ==
    \/ Given("text", TextInputs)
    \/ Given("bytes", ByteInputs)
    \/ Given("character", CharacterInputs)
    \/ Given("format", FormatInputs)
    \/ Given("stream", StreamInputs)

Call(name, answer) ==
    /\ op = name /\ ~answered
    /\ output' = answer /\ answered' = TRUE
    /\ UNCHANGED <<op, input>>

\* A text written as a JSON string, an XML attribute and an XML text, and
\* each read by the parser of its kind.
TextAnswer(text) ==
    [json |-> ReadJsonString(Quoted(text)),
     attribute |-> ReadXmlString(<<Quote>> \o Write({"xml"}, text) \o <<Quote>>),
     content |-> ReadXmlText(Write({"xml"}, text))]

WriteAndReadText == Call("text", TextAnswer(input))

BytesAnswer(s) ==
    [base64 |-> Base64Encode(s), zlib |-> ZlibDeflate(s), zlib64 |-> ZlibBase64Deflate(s),
     unzip64 |-> ZlibBase64Inflate(ZlibBase64Deflate(s))]

EncodeBytes == Call("bytes", BytesAnswer(input))

\* The four digits of a \u, and its character.
HexCharacter(n) == IF n < 10 THEN 48 + n ELSE 87 + n

HexOf(u) == <<HexCharacter((u \div 4096) % 16), HexCharacter((u \div 256) % 16),
              HexCharacter((u \div 16) % 16), HexCharacter(u % 16)>>

CharacterAnswer(u) == [bytes |-> Utf8(u), inJson |-> JsonCopy(<<Backslash, 117>> \o HexOf(u))]

ReadCharacter == Call("character", CharacterAnswer(input))

FormatAnswer(format, text) == [text |-> text, read |-> StringToVariant(format, text)]

PrintAndReadNumber ==
    /\ op = "format"
    /\ \E text \in VariantToString(input.format, input.variant) :
          Call("format", FormatAnswer(input.format, text))

StreamAnswer(s) == StreamPub(s.enabled, s.vector, s.payloads)

Publish == Call("stream", StreamAnswer(input))

CallsNext ==
    \/ WriteAndReadText \/ EncodeBytes \/ ReadCharacter \/ PrintAndReadNumber \/ Publish

CallsSpec == CallsInit /\ [][CallsNext]_vars

Done(name) == op = name /\ answered

----------------------------------------------------------------------------
\* Texts.

\* A text without blanks at its ends (Trim without the quotes).
Border == {Blank, VTab}
Core(text) ==
    LET kept == {k \in DOMAIN text : text[k] \notin Border}
        first == CHOOSE k \in kept : \A j \in kept : k <= j
        last == CHOOSE k \in kept : \A j \in kept : k >= j
    IN IF kept = {} THEN <<>> ELSE SubSeq(text, first, last)

\* The text, after which a NULL is appended.
Builder(flags, text) == AppendText(AppendText(<<>>, flags, text, FALSE), flags, <<>>, TRUE)

\* The buffer of the string builder is as long as what is written into it, by
\* two tables that must agree.  An attribute comes back as it was.  A JSON
\* string loses the blanks at its ends, and is refused when it ends with a
\* quote; an XML text loses those at its start (TRIM, the tokenizers).
TextsReadBack ==
    Done("text") =>
        /\ \A flags \in {{}, {"json"}, {"xml"}} :
              BuiltLength(Builder(flags, input)) = Len(BuiltText(Builder(flags, input)))
        /\ output.attribute = Readable(input)
        /\ output.content = Readable(RemoveLeft(Spaces, input))
        /\ LET core == Core(input)
           IN output.json = IF core # <<>> /\ core[Len(core)] = Quote THEN Unreadable
                            ELSE Readable(core)

----------------------------------------------------------------------------
\* Bytes.

\* RFC 1950 and 1951 for stored blocks: the bytes and what follows them, or an
\* error, by how many bytes are left to read.
NotInflated == [ok |-> FALSE, bytes |-> <<>>, rest |-> <<>>]

InflateBlocks(s) ==
    LET inflate[left \in 0..Len(s)] ==
            LET p == Len(s) - left
                n == s[p + 2] + 256 * s[p + 3]
                chunk == SubSeq(s, p + 6, p + 5 + n)
                more == inflate[left - 5 - n]
            IN IF left < 5 THEN NotInflated
               ELSE IF \/ left < 5 + n \/ s[p + 1] \notin {0, 1}
                       \/ s[p + 2] + s[p + 4] # 255 \/ s[p + 3] + s[p + 5] # 255
               THEN NotInflated
               ELSE IF s[p + 1] = 1
               THEN [ok |-> TRUE, bytes |-> chunk, rest |-> SubSeq(s, p + 6 + n, Len(s))]
               ELSE IF more.ok
               THEN [ok |-> TRUE, bytes |-> chunk \o more.bytes, rest |-> more.rest]
               ELSE NotInflated
    IN inflate[Len(s)]

\* The checksum of RFC 1950, from its definition as two sums.
AdlerA(s, n) == (1 + Total(s, n)) % AdlerMod

Adler(s) ==
    LET a == AdlerA(s, Len(s))
        b == Total([n \in DOMAIN s |-> AdlerA(s, n)], Len(s)) % AdlerMod
    IN <<b \div 256, b % 256, a \div 256, a % 256>>

Inflates(z, s) ==
    /\ z[1] % 16 = 8 /\ (256 * z[1] + z[2]) % 31 = 0
    /\ InflateBlocks(SubSeq(z, 3, Len(z))) = [ok |-> TRUE, bytes |-> s, rest |-> Adler(s)]

\* The code point that 1 to 4 bytes encode.
CodePoint(s) ==
    IF Len(s) = 1 THEN s[1]
    ELSE IF Len(s) = 2 THEN 64 * (s[1] - 192) + (s[2] - 128)
    ELSE IF Len(s) = 3 THEN 4096 * (s[1] - 224) + 64 * (s[2] - 128) + (s[3] - 128)
    ELSE 262144 * (s[1] - 240) + 4096 * (s[2] - 128) + 64 * (s[3] - 128) + (s[4] - 128)

\* The bytes a code point takes.
Utf8Size(u) == IF u < 128 THEN 1 ELSE IF u < 2048 THEN 2 ELSE IF u < 65536 THEN 3 ELSE 4

\* Base64 of any length decodes to the bytes, in the length allocated for it;
\* the zlib stream has one last block, blocks and checksum that an inflater
\* of the RFC accepts, and the size allocated for it (zlib.c, base64.c,
\* utf8.c); surrogates and what is above Unicode become "?".
EncodingsRoundTrip ==
    /\ Done("bytes") =>
          /\ Base64Decode(output.base64) = input
          /\ Len(output.base64) = EncodedLength(Len(input))
          /\ Base64Decode(output.zlib64) = output.zlib
          /\ output.unzip64 = <<>>
          /\ IF input = <<>> THEN output.zlib = <<>>
             ELSE /\ Inflates(output.zlib, input)
                  /\ Len(output.zlib) = DeflatedSize(Len(input))
    /\ Done("character") =>
          /\ CodePoint(output.bytes) = IF IsUnicode(input) THEN input ELSE Question
          /\ Len(output.bytes) = Utf8Size(CodePoint(output.bytes))
          /\ input < 65536 => output.inJson = Readable(output.bytes)

----------------------------------------------------------------------------
\* Numbers.

\* A value that its format prints is read back with its type and sign, to
\* the nearest last digit, with minutes and seconds below sixty at every
\* carry, as long as the degrees are those of an int; what fits the buffer is
\* printed; what is printed as "0", with "ll" or for want of room, and what has
\* something before the "%", is read as zero.  Nothing but its width keeps a sexagesimal from the buffer
\* (snprintm, sextod, internal_string_to_variant).
FormatsReadBack ==
    LET format == ParseFormat(input.format)
        v == input.variant
        text == output.text
        read == output.read
        whole(x) == x.deg * 2 * PerDegree(format.f) + x.half
    IN (Done("format") /\ format.ok /\ v.type = TypePrinted(format.lcnt, format.conv)) =>
          /\ read.type = v.type
          /\ format.lcnt = 2 => text = Zero
          /\ (format.lcnt # 2 /\ \A printed \in Written(input.format, format, v) :
                  ~(PrintedLength(input.format, format, v, printed) > BufferSize)) =>
                text # Zero
          /\ text = Zero =>
                read.value = IF format.conv = "m" THEN NotANumber.value ELSE Nought(v.type)
          /\ (format.conv = "m" /\ format.lcnt # 2 /\ format.w <= BufferSize
              /\ v.value.deg + 1 \in Ints) =>
                /\ text.mm < 60
                /\ text.rest < PerMinute(format.f)
                /\ read.value.negative = v.value.negative
                /\ whole(read.value) - whole(v.value) \in {0, 1}
                /\ whole(read.value) % 2 = 0
          /\ (format.conv # "m" /\ text # Zero) =>
                IF input.format.prefix > 0 THEN read.value = Nought(v.type)
                ELSE IF v.type = "double"
                THEN /\ read.value.negative = v.value.negative
                     /\ read.value.half - v.value.half \in -1..1
                     /\ read.value.half % 2 = 0
                ELSE read.value = v.value

----------------------------------------------------------------------------
\* Streams.

Decoded(kind, bytes, payload) ==
    CASE kind = "base64" -> Base64Decode(bytes) = payload
      [] kind = "zlib" -> IF payload = <<>> THEN bytes = <<>> ELSE Inflates(bytes, payload)
      [] OTHER -> bytes = payload

\* An entry is published whole or not at all, with its fields in their order
\* and payloads the receiver can decode in them; and the lengths in its frame
\* are those of what follows, so that a receiver who can only count bytes
\* finds them (nyx_stream_pub, nyx_nss_pub).  The lengths of a frame of more
\* than a uint32_t wrap and are left out.
FramesAddUp ==
    Done("stream") =>
        /\ ~output.returned \/ ~input.enabled => output.frame = <<>>
        /\ LET kinds == input.vector.kinds
               frame == output.frame
               total == Total([k \in DOMAIN kinds |-> 8 + Len(frame[2 * k + 1].bytes)], Len(kinds))
           IN (output.returned /\ input.enabled /\ input.payloads # <<>>) =>
                /\ Len(frame) = 1 + 2 * Len(kinds)
                /\ frame[1].kind = "header"
                /\ output.leaked = 0
                /\ \A k \in DOMAIN kinds :
                      /\ frame[2 * k].kind = "field" /\ frame[2 * k].name = k
                      /\ frame[2 * k + 1].kind = "data"
                      /\ Decoded(kinds[k], frame[2 * k + 1].bytes, input.payloads[k])
                /\ total < Sizes =>
                      /\ frame[1].size = total
                      /\ \A k \in DOMAIN kinds : frame[2 * k].size = Len(frame[2 * k + 1].bytes)
================================================================================
