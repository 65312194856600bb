-------------------------------- MODULE NyxText --------------------------------
(***************************************************************************)
(* Texts as sequences of bytes: how the string builder writes them         *)
(* (src/src/string_builder.c), how the two parsers read them back          *)
(* (src/src/parsers/), and the UTF-8 encoder (src/src/utils/utf8.c).       *)
(***************************************************************************)
EXTENDS NyxPieces

Tab == 9
Newline == 10
VTab == 11
FormFeed == 12
Return == 13
Backspace == 8
Blank == 32
Quote == 34
Amp == 38
Apos == 39
Slash == 47
Lt == 60
Gt == 62
Question == 63
Backslash == 92

Spaces == {Tab, Newline, VTab, FormFeed, Return, Blank}

----------------------------------------------------------------------------
\* The string builder: a list of texts, each with the flags it is escaped by.

Controls == {Backspace, FormFeed, Newline, Return, Tab}
Letter == [c \in Controls |->
             IF c = Backspace THEN 98 ELSE IF c = FormFeed THEN 102
             ELSE IF c = Newline THEN 110 ELSE IF c = Return THEN 114 ELSE 116]

Entities == {Lt, Gt, Amp, Quote, Apos}
Entity == [c \in Entities |->
             IF c = Lt THEN <<108, 116, 59>>
             ELSE IF c = Gt THEN <<103, 116, 59>>
             ELSE IF c = Amp THEN <<97, 109, 112, 59>>
             ELSE IF c = Quote THEN <<113, 117, 111, 116, 59>>
             ELSE <<97, 112, 111, 115, 59>>]

Escaped(flags, c) ==
    IF "xml" \in flags /\ c \in Entities THEN <<Amp>> \o Entity[c]
    ELSE IF "json" \in flags /\ c \in {Quote, Backslash} THEN <<Backslash, c>>
    ELSE IF "json" \in flags /\ c \in Controls THEN <<Backslash, Letter[c]>>
    ELSE <<c>>

\* Mutant: a length table that does not know the entities of the quotes.
EscapedLengthShort(flags, c) ==
    IF "xml" \in flags /\ c \in {Lt, Gt} THEN 4
    ELSE IF "xml" \in flags /\ c = Amp THEN 5
    ELSE IF "json" \in flags /\ c \in {Quote, Backslash} \cup Controls THEN 2
    ELSE 1

\* The table of nyx_string_builder_length, which sizes the buffer.
EscapedLength(flags, c) ==
    IF "xml" \in flags /\ c \in {Lt, Gt} THEN 4
    ELSE IF "xml" \in flags /\ c = Amp THEN 5
    ELSE IF "xml" \in flags /\ c \in {Quote, Apos} THEN 6
    ELSE IF "json" \in flags /\ c \in {Quote, Backslash} \cup Controls THEN 2
    ELSE 1

NullPointer == <<40, 110, 117, 108, 108, 41>>

\* A NULL text is appended as "(null)", never escaped.
AppendText(sb, flags, text, isNull) ==
    Append(sb, IF isNull THEN [flags |-> {}, text |-> NullPointer]
               ELSE [flags |-> flags, text |-> text])

EscapedText(node) ==
    Concat([k \in DOMAIN node.text |-> Escaped(node.flags, node.text[k])], Len(node.text))

BuiltText(sb) == Concat([n \in DOMAIN sb |-> EscapedText(sb[n])], Len(sb))

EscapedSize(node) ==
    Total([k \in DOMAIN node.text |-> EscapedLength(node.flags, node.text[k])], Len(node.text))

BuiltLength(sb) == Total([n \in DOMAIN sb |-> EscapedSize(sb[n])], Len(sb))

Write(flags, text) == BuiltText(AppendText(<<>>, flags, text, FALSE))

Quoted(text) == <<Quote>> \o Write({"json"}, text) \o <<Quote>>

----------------------------------------------------------------------------
\* UTF-8.

Continuation(u) == 128 + (u % 64)

\* No surrogate, nor above the last code point.
IsUnicode(u) == u \notin 55296..57343 /\ u <= 1114111

Utf8(u) ==
    IF ~IsUnicode(u) THEN <<Question>>
    ELSE IF u <= 127 THEN <<u>>
    ELSE IF u <= 2047 THEN <<192 + (u \div 64), Continuation(u)>>
    ELSE IF u <= 65535
    THEN <<224 + (u \div 4096), Continuation(u \div 64), Continuation(u)>>
    ELSE <<240 + (u \div 262144), Continuation(u \div 4096),
           Continuation(u \div 64), Continuation(u)>>

----------------------------------------------------------------------------
\* Reading a JSON string, quotes included.

Unreadable == [ok |-> FALSE, text |-> <<>>]
Readable(text) == [ok |-> TRUE, text |-> text]

RemoveLeft(S, s) ==
    LET kept == {k \in DOMAIN s : s[k] \notin S}
    IN IF kept = {} THEN <<>>
       ELSE SubSeq(s, CHOOSE k \in kept : \A j \in kept : k <= j, Len(s))

RemoveRight(S, s) ==
    LET kept == {k \in DOMAIN s : s[k] \notin S}
    IN IF kept = {} THEN <<>>
       ELSE SubSeq(s, 1, CHOOSE k \in kept : \A j \in kept : k >= j)

Trim(s) == RemoveRight(Spaces \cup {Quote}, RemoveLeft(Spaces \cup {Quote}, s))

\* The value of a hexadecimal digit, 16 of any other character.
HexDigit(c) ==
    CASE c \in 48..57 -> c - 48
      [] c \in 65..70 -> c - 55
      [] c \in 97..102 -> c - 87
      [] OTHER -> 16

\* What strtol makes of four characters, up to the first that is no digit; the
\* blanks, sign and "0x" that it takes as well are left out.
HexValue(s) ==
    LET good == {n \in 0..4 : \A k \in 1..n : HexDigit(s[k]) < 16}
        used == CHOOSE n \in good : \A other \in good : other <= n
        value[k \in 0..4] == IF k = 0 THEN 0 ELSE 16 * value[k - 1] + HexDigit(s[k])
    IN value[used]

Unescaped(c) ==
    IF \E ctl \in Controls : Letter[ctl] = c
    THEN CHOOSE ctl \in Controls : Letter[ctl] = c
    ELSE c

\* The text with one more in front; what could not be read still cannot.
Before(text, read) == IF read.ok THEN Readable(text \o read.text) ELSE Unreadable

\* jsoncpy, by how many characters are left.
JsonCopy(s) ==
    LET copy[left \in 0..Len(s)] ==
            LET at == Len(s) - left + 1
            IN IF left = 0 THEN Readable(<<>>)
               ELSE IF s[at] # Backslash THEN Before(<<s[at]>>, copy[left - 1])
               ELSE IF left = 1 THEN Unreadable
               ELSE IF s[at + 1] # 117 THEN Before(<<Unescaped(s[at + 1])>>, copy[left - 2])
               ELSE IF left < 6 THEN Unreadable
               ELSE Before(Utf8(HexValue(SubSeq(s, at + 2, at + 5))), copy[left - 6])
    IN copy[Len(s)]

\* Where the tokenizer ends the string that begins at s[1]; 0 if nowhere.
ClosingQuote(s) ==
    LET scan[left \in 0..Len(s)] ==
            LET at == Len(s) - left + 1
            IN IF left = 0 THEN 0
               ELSE IF s[at] = Quote THEN at
               ELSE IF s[at] = Backslash /\ left > 1 THEN scan[left - 2]
               ELSE scan[left - 1]
    IN scan[Len(s) - 1]

\* TRIM takes off the quotes, and all blanks and quotes next to them.
ReadJsonString(s) ==
    LET end == ClosingQuote(s)
    IN IF end = 0 THEN Unreadable ELSE JsonCopy(Trim(SubSeq(s, 1, end)))

----------------------------------------------------------------------------
\* Reading XML.

\* The text of an entity follows the position at.
Follows(s, at, c) ==
    /\ at + Len(Entity[c]) <= Len(s)
    /\ \A k \in DOMAIN Entity[c] : s[at + k] = Entity[c][k]

\* xmlcpy, by how many characters are left.
XmlCopy(s) ==
    LET copy[left \in 0..Len(s)] ==
            LET at == Len(s) - left + 1
                c == CHOOSE e \in Entities : Follows(s, at, e)
            IN IF left = 0 THEN Readable(<<>>)
               ELSE IF s[at] # Amp THEN Before(<<s[at]>>, copy[left - 1])
               ELSE IF \A e \in Entities : ~Follows(s, at, e) THEN Unreadable
               ELSE Before(<<c>>, copy[left - 1 - Len(Entity[c])])
    IN copy[Len(s)]

\* A TEXT token: the tokenizer skips blanks before any token.
ReadXmlText(s) == XmlCopy(RemoveLeft(Spaces, s))

\* The value of an attribute is between the first quote and the next one.
ReadXmlString(s) ==
    LET ends == {k \in 2..Len(s) : s[k] = s[1]}
    IN IF ends = {} THEN Unreadable
       ELSE XmlCopy(SubSeq(s, 2, (CHOOSE k \in ends : \A j \in ends : k <= j) - 1))
================================================================================
