------------------------------ MODULE NyxFormats ------------------------------
(***************************************************************************)
(* Number formats (src/src/indi/format.c): a printf format, or "%<w>.<f>m" *)
(* for sexagesimal numbers.                                                *)
(*                                                                         *)
(* A format is the record of what _parse_format and printf tell apart of   *)
(* it: the characters before "%" (which begin no number), the flags "+"    *)
(* and " " (plus), the width, the precision and whether there is a dot,    *)
(* the conversion.  The flag "#" and infinite doubles are left out.  A     *)
(* text is the record of its parts.                                        *)
(*                                                                         *)
(* A double is what rounding tells apart: its sign (-0.0 has one) and how  *)
(* many halves of the last digit printed it holds; for "m" its whole       *)
(* degrees and the halves of the rest.                                     *)
(***************************************************************************)
EXTENDS Integers

CONSTANTS
    Word32,     \* how many values a 32-bit integer has, 2^32 in the code
    BufferSize, \* characters a printed number may have, 63 in the code
    Stray       \* what a conversion beyond an int may give: it is undefined

Ints == -(Word32 \div 2) .. (Word32 \div 2) - 1

ASSUME FormatAssumption ==
    /\ Word32 \in Nat /\ Word32 >= 2 /\ Word32 % 2 = 0
    /\ BufferSize \in Nat
    /\ Stray \subseteq Ints /\ Stray # {}

Unsigned == {"u", "o", "x", "X"}
Fixed == {"f", "F"}
Floating == Fixed \cup {"e", "E", "g", "G", "a", "A"}

Rejected == [ok |-> FALSE, conv |-> "", lcnt |-> 0, w |-> 0, f |-> 0]

\* Anything before "%", then "%" once, flags, width, precision, "m" or a length and a conversion, the end.
ParseFormat(s) ==
    IF s.percents # 1 \/ s.tail THEN Rejected
    ELSE IF s.length = 0 /\ ~s.otherLength /\ s.conv = "m"
    THEN IF s.hasW /\ s.hasF /\ s.f \in {3, 5, 6, 8, 9}
         THEN [ok |-> TRUE, conv |-> "m", lcnt |-> 0, w |-> s.w, f |-> s.f]
         ELSE Rejected
    ELSE IF s.otherLength \/ s.conv \in {"", "n"} THEN Rejected
    ELSE [ok |-> TRUE, conv |-> s.conv, lcnt |-> s.length, w |-> 0, f |-> 0]

\* Parts of a degree the last digit counts: minutes, their tenths, seconds,
\* their tenths; hundredths of a second by default.
PerDegree(f) ==
    CASE f = 3 -> 60 [] f = 5 -> 600 [] f = 6 -> 3600 [] f = 8 -> 36000 [] OTHER -> 360000
PerMinute(f) == PerDegree(f) \div 60

SexagesimalTexts(negatives, degs, mms, rests) ==
    [kind : {"sexagesimal"}, negative : negatives, deg : degs, mm : mms, rest : rests]

\* The int that a double converts to, or an increment makes.
AnInt(n) == IF n \in Ints THEN {n} ELSE Stray

\* Mutant: sixty minutes are printed.
SexagesimalNoCarry(f, value) ==
    LET parts == (value.half + 1) \div 2
    IN SexagesimalTexts({value.negative}, AnInt(value.deg), {parts \div PerMinute(f)},
                        {parts % PerMinute(f)})

\* (int) floor, lround, then sixty minutes make a degree.  Beyond an int the
\* rest is counted from a stray number of degrees, and nothing is known of it.
Sexagesimal(f, value) ==
    LET parts == (value.half + 1) \div 2
        mm == parts \div PerMinute(f)
        carry == mm >= 60
    IN IF value.deg \notin Ints THEN SexagesimalTexts({value.negative}, Stray, Stray, Stray)
       ELSE SexagesimalTexts({value.negative},
                             IF carry THEN AnInt(value.deg + 1) ELSE {value.deg},
                             {IF carry THEN 0 ELSE mm},
                             {parts % PerMinute(f)})

Zero == [kind |-> "zero"]
Number(value) == [kind |-> "number", value |-> value]
Prefixed(value) == [kind |-> "prefixed", value |-> value]
NotANumber == [type |-> "double", value |-> [nan |-> TRUE]]

\* The variants a conversion prints: int and uint, or long and ulong.
TypePrinted(lcnt, conv) ==
    IF conv \in Floating \cup {"m"} THEN "double"
    ELSE IF conv = "d" THEN IF lcnt = 0 THEN "int" ELSE "long"
    ELSE IF conv \in Unsigned THEN IF lcnt = 0 THEN "uint" ELSE "ulong"
    ELSE "none"

----------------------------------------------------------------------------
\* printf.

\* To the nearest last digit; what lies exactly half way, which is not told
\* from what lies above, goes to the even one.
Roundings(half) ==
    IF half % 2 = 0 THEN {half}
    ELSE IF half % 4 = 1 THEN {half - 1, half + 1} ELSE {half + 1}

\* The values a number may be printed as.
Printed(v) ==
    IF v.type = "double" THEN {[v.value EXCEPT !.half = half] : half \in Roundings(v.value.half)}
    ELSE {v.value}

Longest(a, b) == IF a >= b THEN a ELSE b

DigitCount(n, base) ==
    LET count[k \in 0..n] == IF k < base THEN 1 ELSE 1 + count[k \div base] IN count[n]

Precision(s, default) == IF s.hasF THEN s.f ELSE IF s.dot THEN 0 ELSE default

SignLength(s, negative) == IF negative \/ s.plus THEN 1 ELSE 0

\* Zero to a precision of zero has no digit.
IntegerLength(s, n) ==
    LET base == CASE s.conv = "o" -> 8 [] s.conv \in {"x", "X"} -> 16 [] OTHER -> 10
        digits == IF n = 0 THEN Precision(s, 1)
                  ELSE Longest(Precision(s, 1), DigitCount(IF n < 0 THEN -n ELSE n, base))
    IN digits + IF s.conv = "d" THEN SignLength(s, n < 0) ELSE 0

\* The whole part, the point and the decimals; "size" is that of the digits
\* and the exponent of the other conversions, which is the C library's.
DoubleLength(s, x) ==
    LET p == Precision(s, 6)
        whole == DigitCount((x.half \div 2) \div 10^p, 10)
    IN SignLength(s, x.negative)
       + IF s.conv \notin Fixed THEN x.size ELSE IF p = 0 THEN whole ELSE whole + 1 + p

\* What snprintf returns for a text.  Degrees, minutes and seconds take at
\* most 48 characters and always fit by themselves.
PrintedLength(s, format, v, text) ==
    IF format.conv = "m" THEN format.w
    ELSE s.prefix + Longest(s.w, IF v.type = "double" THEN DoubleLength(s, text.value)
                                 ELSE IntegerLength(s, text.value))

\* What snprintf and snprintm may write.  "m" writes neither what stands
\* before the "%" nor the flags.
Written(s, format, v) ==
    IF format.conv = "m" THEN Sexagesimal(format.f, v.value)
    ELSE {IF s.prefix > 0 THEN Prefixed(x) ELSE Number(x) : x \in Printed(v)}

\* "0" for what the format does not fit, "ll" fits nothing, and for what does
\* not fit the buffer.
VariantToString(s, v) ==
    LET format == ParseFormat(s)
    IN IF ~format.ok \/ format.lcnt = 2 \/ v.type # TypePrinted(format.lcnt, format.conv)
       THEN {Zero}
       ELSE {IF PrintedLength(s, format, v, text) > BufferSize THEN Zero ELSE text :
                text \in Written(s, format, v)}

----------------------------------------------------------------------------
\* Reading.

\* Casts to 32 bits.
Cast(type, n) ==
    CASE type = "int" -> ((n + Word32 \div 2) % Word32) - Word32 \div 2
      [] type = "uint" -> n % Word32
      [] OTHER -> n

\* sextod: any signs, minutes and seconds below sixty, or NaN.
SextOd(f, text) ==
    IF text.kind # "sexagesimal" THEN NotANumber
    ELSE IF text.mm \notin 0..59 \/ text.rest \notin 0..PerMinute(f) - 1 THEN NotANumber
    ELSE [type |-> "double",
          value |-> [negative |-> IF text.deg < 0 THEN ~text.negative ELSE text.negative,
                     deg |-> IF text.deg < 0 THEN -text.deg ELSE text.deg,
                     half |-> 2 * (text.mm * PerMinute(f) + text.rest)]]

Nought(type) == IF type = "double" THEN [negative |-> FALSE, half |-> 0] ELSE 0

\* "ll" reads as "l" does.  A text that begins with no number reads as zero.
StringToVariant(s, text) ==
    LET format == ParseFormat(s)
        type == TypePrinted(format.lcnt, format.conv)
    IN IF ~format.ok \/ type = "none" THEN [type |-> "int", value |-> 0]
       ELSE IF format.conv = "m" THEN SextOd(format.f, text)
       ELSE IF text.kind # "number" THEN [type |-> type, value |-> Nought(type)]
       ELSE [type |-> type, value |-> Cast(type, text.value)]
================================================================================
