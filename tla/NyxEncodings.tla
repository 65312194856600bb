----------------------------- MODULE NyxEncodings -----------------------------
(***************************************************************************)
(* Base64 (src/src/utils/base64.c) and the stored-blocks zlib stream the   *)
(* node writes without the zlib library (src/src/utils/zlib.c), on         *)
(* sequences of bytes.  NULL is the empty sequence.                        *)
(***************************************************************************)
EXTENDS NyxPieces

CONSTANTS
    MaxBlock,   \* bytes of one stored block, 65535 in the code
    AdlerMod    \* 65521 in the code

ASSUME EncodingAssumption ==
    /\ MaxBlock \in Nat /\ MaxBlock >= 1 /\ MaxBlock <= 65535
    /\ AdlerMod \in Nat /\ AdlerMod >= 256 /\ AdlerMod <= 65521

Pad == 61
NoDigit == 64

\* The two tables, at the indices that are used.
Digit == [n \in 0..63 |->
            IF n <= 25 THEN 65 + n ELSE IF n <= 51 THEN 71 + n ELSE IF n <= 61 THEN n - 4
            ELSE IF n = 62 THEN 43 ELSE 47]

DigitValue == [c \in 0..127 |->
            IF c \in 65..90 THEN c - 65 ELSE IF c \in 97..122 THEN c - 71
            ELSE IF c \in 48..57 THEN c + 4 ELSE IF c = 43 THEN 62 ELSE IF c = 47 THEN 63
            ELSE NoDigit]

\* The four digits of three bytes; s may be shorter by one or two.
Byte(s, k) == IF k \in DOMAIN s THEN s[k] ELSE 0

Digits(s, i) ==
    LET triple == 65536 * s[i] + 256 * Byte(s, i + 1) + Byte(s, i + 2)
    IN <<Digit[triple \div 262144], Digit[(triple \div 4096) % 64],
         Digit[(triple \div 64) % 64], Digit[triple % 64]>>

EncodeRest(s) ==
    CASE Len(s) % 3 = 2 -> SubSeq(Digits(s, Len(s) - 1), 1, 3) \o <<Pad>>
      [] Len(s) % 3 = 1 -> SubSeq(Digits(s, Len(s)), 1, 2) \o <<Pad, Pad>>
      [] OTHER -> <<>>

Base64Encode(s) ==
    Concat([i \in 1..Len(s) \div 3 |-> Digits(s, 3 * i - 2)], Len(s) \div 3) \o EncodeRest(s)

EncodedLength(size) == 4 * ((size + 2) \div 3)

\* The bytes of the four characters at i; a pad counts for nothing here.
Bytes(s, i) ==
    LET value(k) == IF s[k] = Pad THEN 0 ELSE DigitValue[s[k]]
        triple == 262144 * value(i) + 4096 * value(i + 1)
                  + 64 * value(i + 2) + value(i + 3)
    IN <<(triple \div 65536) % 256, (triple \div 256) % 256, triple % 256>>

\* The pads at the end.
Pads(s) ==
    IF s = <<>> THEN 0
    ELSE (IF s[Len(s)] = Pad THEN 1 ELSE 0) + (IF s[Len(s) - 1] = Pad THEN 1 ELSE 0)

\* Of whole groups of four ASCII characters.  The code takes any: of a text of
\* one character it reads the one before (base64.c:141), and bytes above 127
\* index the table below its start (line 164); both are outside the model.
Base64Decode(s) ==
    LET groups == Len(s) \div 4
    IN SubSeq(Concat([i \in 1..groups |-> Bytes(s, 4 * i - 3)], groups), 1, 3 * groups - Pads(s))

----------------------------------------------------------------------------
\* zlib.

\* The two halves of the checksum.  The code takes the remainder once every 5552
\* bytes only, which its 32 bits allow: the sums of integers are the same.
Adler32(s) ==
    LET sum[k \in 0..Len(s)] ==
            IF k = 0 THEN [a |-> 1, b |-> 0]
            ELSE [a |-> (sum[k - 1].a + s[k]) % AdlerMod,
                  b |-> (sum[k - 1].b + sum[k - 1].a + s[k]) % AdlerMod]
    IN sum[Len(s)]

Stored(chunk, last) ==
    LET n == Len(chunk)
    IN <<IF last THEN 1 ELSE 0, n % 256, n \div 256, 255 - (n % 256), 255 - (n \div 256)>>
       \o chunk

Chunk(left) == IF left < MaxBlock THEN left ELSE MaxBlock

\* Mutant: the last block is one that is not full.
BlocksLastShort(s) ==
    LET blocks[left \in 0..Len(s)] ==
            LET done == Len(s) - left
                n == Chunk(left)
            IN IF left = 0 THEN <<>>
               ELSE Stored(SubSeq(s, done + 1, done + n), n < MaxBlock) \o blocks[left - n]
    IN blocks[Len(s)]

\* The loop, by how many bytes are left.
StoredBlocks(s) ==
    LET blocks[left \in 0..Len(s)] ==
            LET done == Len(s) - left
                n == Chunk(left)
            IN IF left = 0 THEN <<>>
               ELSE Stored(SubSeq(s, done + 1, done + n), n = left) \o blocks[left - n]
    IN blocks[Len(s)]

ZlibDeflate(s) ==
    IF s = <<>> THEN <<>>
    ELSE LET hash == Adler32(s)
         IN <<120, 1>> \o StoredBlocks(s)
            \o <<hash.b \div 256, hash.b % 256, hash.a \div 256, hash.a % 256>>

\* The size the code allocates.
DeflatedSize(size) ==
    2 + ((size + MaxBlock - 1) \div MaxBlock) * 5 + size + 4

\* The node cannot inflate in this build.
ZlibInflate(s) == <<>>

ZlibBase64Deflate(s) == IF ZlibDeflate(s) = <<>> THEN <<>> ELSE Base64Encode(ZlibDeflate(s))

ZlibBase64Inflate(s) == IF Base64Decode(s) = <<>> THEN <<>> ELSE ZlibInflate(Base64Decode(s))
================================================================================
