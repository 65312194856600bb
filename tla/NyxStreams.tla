------------------------------ MODULE NyxStreams ------------------------------
(***************************************************************************)
(* Publishing an entry of a stream: nyx_stream_pub                         *)
(* (src/src/indi/indi_stream.c) and nyx_nss_pub (src/src/nss.c).           *)
(*                                                                         *)
(* A field of the vector is its kind: "raw", "base64" (a name in .b),      *)
(* "zlib" (in .z), "invalid" (no dict, or a dict without a name).  A       *)
(* payload is a sequence of bytes.                                         *)
(***************************************************************************)
EXTENDS NyxEncodings, FiniteSets

CONSTANTS
    Sizes   \* how many values a uint32_t has, 2^32 in the code

ASSUME StreamAssumption == Sizes \in Nat \ {0}

Encode(kind, payload) ==
    CASE kind = "base64" -> Base64Encode(payload)
      [] kind = "zlib" -> ZlibDeflate(payload)
      [] OTHER -> payload

\* The hash of a field's name is its place here.
Field(name, data) == [name |-> name, data |-> data]

\* Mutant: the 8 bytes before each field are not counted.
FrameSizePayloadOnly(fields) ==
    LET size[k \in 0..Len(fields)] ==
            IF k = 0 THEN 0 ELSE (size[k - 1] + Len(fields[k].data)) % Sizes
    IN size[Len(fields)]

FrameSize(fields) ==
    LET size[k \in 0..Len(fields)] ==
            IF k = 0 THEN 0 ELSE (size[k - 1] + 8 + Len(fields[k].data)) % Sizes
    IN size[Len(fields)]

\* What goes down the connection for one field.
Pieces(field) ==
    <<[kind |-> "field", name |-> field.name, size |-> Len(field.data) % Sizes],
      [kind |-> "data", bytes |-> field.data]>>

\* nyx_nss_pub: what goes down the connection, piece by piece.
Frame(fields) ==
    IF fields = <<>> THEN <<>>
    ELSE <<[kind |-> "header", size |-> FrameSize(fields)]>>
         \o Concat([k \in DOMAIN fields |-> Pieces(fields[k])], Len(fields))

Answer(returned, frame, leaked) ==
    [returned |-> returned, frame |-> frame, leaked |-> leaked]

\* Payloads are prepared field by field; one that cannot be ends the call.
\* The buffers made until then are not freed.
StreamPub(enabled, vector, payloads) ==
    LET n == Len(payloads)
        kinds == vector.kinds
        bad == {k \in DOMAIN kinds : kinds[k] = "invalid" \/ k > n}
        stop == IF bad = {} THEN Len(kinds) + 1 ELSE CHOOSE k \in bad : \A j \in bad : k <= j
        made == {k \in 1..stop - 1 : kinds[k] # "raw" /\ payloads[k] # <<>>}
    IN IF ~enabled \/ n = 0 THEN Answer(TRUE, <<>>, 0)
       ELSE IF ~vector.registered \/ ~vector.listed THEN Answer(FALSE, <<>>, 0)
       ELSE IF bad # {} \/ n # Len(kinds) THEN Answer(FALSE, <<>>, Cardinality(made))
       ELSE Answer(TRUE,
                   Frame([k \in DOMAIN kinds |-> Field(k, Encode(kinds[k], payloads[k]))]),
                   0)
================================================================================
