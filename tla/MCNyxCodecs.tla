------------------------------ MODULE MCNyxCodecs ------------------------------
(* Inputs of NyxCodecs for TLC. *)
EXTENDS NyxCodecs

LOCAL INSTANCE SequencesExt

\* All sequences of at most n elements of S.
UpTo(S, n) == UNION {[1..k -> S] : k \in 0..n}

\* s with one contiguous part replaced by one of the given sequences.
Edited(s, parts) ==
    {SubSeq(s, 1, i - 1) \o part \o SubSeq(s, j + 1, Len(s)) :
        <<i, j, part>> \in {x \in (1..Len(s) + 1) \X (0..Len(s)) \X parts : x[1] <= x[2] + 1}}

----------------------------------------------------------------------------
Raw(text) == [type |-> "string", raw |-> <<Quote>> \o text \o <<Quote>>]
a == 97
b == 98

JsonLexemes ==
    {Word(type) : type \in {"{", "}", "[", "]", ":", ",", "null"}}
    \cup {Raw(<<a>>), Raw(<<>>), [type |-> "error", raw |-> <<35>>]}

Str(text) == Object("string", text, <<>>)
Member(key, val) == [key |-> key, val |-> val]
Dict(items) == Object("dict", <<>>, items)
List(vals) == Object("list", <<>>, [k \in DOMAIN vals |-> Member(<<>>, vals[k])])

JsonMessages ==
    {PrintJson(Dict(<<Member(<<a>>, Str(<<b>>)),
                      Member(<<b>>, List(<<Object("number", <<49>>, <<>>), Str(<<>>)>>))>>)),
     PrintJson(List(<<Dict(<<Member(<<>>, Object("true", <<>>, <<>>))>>), Dict(<<>>), List(<<>>)>>)),
     \* a key twice, and a string that cannot be read
     PrintJson(Dict(<<Member(<<a>>, List(<<Str(<<>>), Str(<<b>>)>>)), Member(<<a>>, Str(<<a>>))>>)),
     PrintJson(List(<<Str(<<a>>), Str(<<a, Quote>>)>>))}

JsonPairs == {<<Word(","), Raw(<<a>>)>>, <<Raw(<<>>), Word(":")>>, <<Word("["), Word("]")>>,
              <<Word(","), Word(",")>>, <<Word("}"), Word("]")>>}

MCJsonInputs ==
    UpTo(JsonLexemes, 4)
    \cup UNION {Edited(s, UpTo(JsonLexemes, 1) \cup JsonPairs) : s \in JsonMessages}

----------------------------------------------------------------------------
XmlWord(text) == Lex("word", text)
XmlString == Lex("string", <<Quote, b, Quote>>)
XmlLexemes ==
    {Open, OpenEnd, Close, Slashed, Equals, XmlWord(<<a>>), XmlWord(<<b>>),
     XmlString, Lex("comment", <<a>>)}

Element(name, attributes, children) ==
    [Node("element", name, <<>>) EXCEPT !.attributes = attributes, !.children = children]
Text(data) == Node("text", <<>>, data)
Att == Node("attribute", <<a>>, <<b, Amp>>)

XmlDocuments ==
    {PrintXml(Element(<<a>>, <<Att>>, <<Text(<<b>>), Element(<<b>>, <<>>, <<>>)>>)),
     PrintXml(Element(<<a>>, <<>>,
                 <<Element(<<b>>, <<>>, <<Text(<<a>>)>>),
                   [Element(<<b>>, <<>>, <<>>) EXCEPT !.selfClosing = TRUE],
                   Node("comment", <<>>, <<a>>)>>)),
     PrintXml(Element(<<a>>, <<>>,
                 <<Node("cdata", <<>>, <<b>>), Element(<<a>>, <<>>, <<Element(<<b>>, <<>>, <<>>)>>)>>))}

XmlPairs == {<<Open, XmlWord(<<b>>)>>, <<OpenEnd, XmlWord(<<a>>)>>, <<Equals, XmlString>>,
             <<Close, Close>>, <<Slashed, Close>>, <<XmlWord(<<a>>), XmlWord(<<b>>)>>}

MCXmlInputs ==
    UpTo({Open, OpenEnd, Close, Slashed, XmlWord(<<a>>)}, 6)
    \cup UNION {Edited(s, UpTo(XmlLexemes, 1) \cup XmlPairs) : s \in XmlDocuments}

----------------------------------------------------------------------------
MCTextInputs == UpTo({a, Quote, Apos, Backslash, Blank, Newline, Lt, Amp}, 4)

Texts == {<<>>, <<a>>, <<Blank, a, Quote>>, <<Lt, Apos>>}
Leaves == {Dict(<<Member(TagKey, Str(<<b>>))>>),
           Dict(<<Member(TagKey, Str(<<a>>)), Member(<<At, a>>, Str(<<Quote>>)),
                  Member(TextKey, Str(<<a>>))>>)}
Children == {Member(ChildrenKey, List(vals)) : vals \in UpTo(Leaves, 2)}
TextMember == {Member(TextKey, Str(text)) : text \in Texts}
Attribute == {Member(<<At, a>>, Str(text)) : text \in Texts}

MCObjectInputs ==
    LET dicts == {Dict(<<Member(TagKey, Str(<<a>>))>> \o rest) :
                    rest \in {<<>>}
                        \cup {<<x>> : x \in Children \cup TextMember \cup Attribute}
                        \cup {<<x, y>> : x \in TextMember, y \in Children}
                        \cup {<<x, y>> : x \in Children, y \in TextMember}
                        \cup {<<x, y, z>> : x \in Attribute, y \in TextMember, z \in Children}}
    IN dicts \cup {Dict(<<Member(TagKey, Str(<<b>>)),
                          Member(ChildrenKey, List(<<d, d>>))>>) : d \in dicts}

\* Values of a text property, and a switch with its children.
----------------------------------------------------------------------------
MCByteInputs == UpTo({0, 1, 128, 255}, 4) \cup UpTo({97, 254}, 7)

MCCharacterInputs ==
    {0, 9, 65, 127, 128, 233, 2047, 2048, 8364, 55295, 55296, 57343, 57344, 65535,
     65536, 128512, 1114111, 1114112}

\* The least int, zero, and the largest.
MCStray == {-8, 0, 7}

\* "%" and a conversion, without width or precision.
Plain(conv) ==
    [prefix |-> 0, percents |-> 1, plus |-> FALSE, w |-> 0, hasW |-> FALSE,
     f |-> 0, dot |-> FALSE, hasF |-> FALSE, length |-> 0, otherLength |-> FALSE,
     conv |-> conv, tail |-> FALSE]

Wide(s, w) == [s EXCEPT !.w = w, !.hasW = TRUE]
Precise(s, f) == [s EXCEPT !.f = f, !.dot = TRUE, !.hasF = TRUE]

\* Every change of one part, and those of the width and the precision.
Changed(s) ==
    {s, [s EXCEPT !.prefix = 2], [s EXCEPT !.percents = 0], [s EXCEPT !.percents = 2],
     [s EXCEPT !.tail = TRUE], [s EXCEPT !.otherLength = TRUE], [s EXCEPT !.length = 1],
     [s EXCEPT !.length = 2], [s EXCEPT !.plus = TRUE], [s EXCEPT !.dot = TRUE],
     Wide(s, 9), Wide(s, 10), Precise(s, 1), Precise(s, 7), Precise(s, 8), Precise(s, 9),
     Wide([s EXCEPT !.prefix = 1], 9)}

Formats == UNION {Changed(Plain(c)) : c \in {"", "n", "s", "d", "u", "o", "x", "f", "m"}}

Sexagesimals ==
    {[Precise(Wide(Plain("m"), w), f) EXCEPT !.length = l, !.otherLength = other] :
        w \in {0, 9, 10}, f \in {3, 5, 6, 8, 9, 4}, l \in {0, 1}, other \in BOOLEAN}
    \cup {[Plain("m") EXCEPT !.length = l] : l \in 0..2}

Integers_ ==
    {[type |-> "int", value |-> n] : n \in -8..7} \cup {[type |-> "uint", value |-> n] : n \in 0..15}
    \cup {[type |-> "long", value |-> n] : n \in {-20, -9, 7, 8, 20, -99999999, 999999999}}
    \cup {[type |-> "ulong", value |-> n] : n \in {0, 15, 16, 40, 999999999, 1000000000}}

\* Around each carry: of the last digit, of a minute, of a degree; and around
\* the largest int.
Degrees(f) ==
    {[type |-> "double", value |-> [negative |-> negative, deg |-> deg, half |-> half]] :
        negative \in BOOLEAN, deg \in {0, 1, 6, 7, 8},
        half \in {0, 1, 2, 3} \cup UNION {(IF n < 3 THEN 0 ELSE n - 3)..(n + 2) :
                     n \in {2 * PerMinute(f), 60 * PerMinute(f)}}
                 \cup (2 * PerDegree(f) - 3)..(2 * PerDegree(f) - 1)}

\* With six decimals 99.999999 is the largest of 9 characters.
Doubles ==
    {[type |-> "double", value |-> [negative |-> negative, half |-> half, size |-> size]] :
        negative \in BOOLEAN, size \in {7, 10},
        half \in {0, 1, 2, 3, 5, 19, 199999997, 199999998, 199999999, 200000000}}

MCFormatInputs ==
    {[format |-> f, variant |-> v] : f \in {s \in Formats : s.conv # "m"},
                                     v \in Integers_ \cup Doubles}
    \cup {[format |-> f, variant |-> v] : f \in Changed(Plain("e")), v \in Doubles}
    \cup {[format |-> f, variant |-> v] : f \in {s \in Formats : s.conv = "m"}, v \in Integers_}
    \cup UNION {{[format |-> s, variant |-> v] : v \in Degrees(ParseFormat(s).f)} :
                   s \in {x \in Sexagesimals : ParseFormat(x).conv = "m"}}

----------------------------------------------------------------------------
Vector(kinds, registered, listed) ==
    [kinds |-> kinds, registered |-> registered, listed |-> listed]

MCStreamInputs ==
    {[enabled |-> e, vector |-> Vector(kinds, registered, listed), payloads |-> payloads] :
        e \in BOOLEAN, registered \in BOOLEAN, listed \in BOOLEAN,
        kinds \in UpTo({"raw", "base64", "zlib", "invalid"}, 2) \ {<<>>},
        payloads \in UpTo({<<>>, <<7>>, <<7, 8, 9, 10>>}, 3)}
================================================================================
