------------------------------ MODULE NyxGrammars ------------------------------
(***************************************************************************)
(* What the two parsers are meant to read, as grammars: a sequence of      *)
(* lexemes is cut into its parts, wherever that is possible.  Nothing here *)
(* is translated from the code; the properties of NyxCodecs compare the    *)
(* parsers with it.                                                        *)
(***************************************************************************)
EXTENDS NyxJson, NyxXml

LOCAL INSTANCE SequencesExt

----------------------------------------------------------------------------
\* JSON, as a grammar: what a sequence of lexemes denotes, NoObject if
\* nothing.  Of the members with one key the last counts, at the first's place.

\* How deep each lexeme is: brackets opened before it and not closed.
Depth(s, k) ==
    LET count(types) == Len(SelectSeq(SubSeq(s, 1, k - 1), LAMBDA x : x.type \in types))
    IN count({"{", "["}) - count({"}", "]"})

\* The parts of s between the commas of depth 0.
Parts(s) ==
    LET cuts == SelectSeq([k \in DOMAIN s |-> k],
                          LAMBDA k : s[k].type = "," /\ Depth(s, k) = 0)
        ends == <<0>> \o cuts \o <<Len(s) + 1>>
    IN IF s = <<>> THEN <<>>
       ELSE [k \in 1..Len(cuts) + 1 |-> SubSeq(s, ends[k] + 1, ends[k + 1] - 1)]

IsText(lexeme) == lexeme.type = "string" /\ ReadJsonString(lexeme.raw).ok

RECURSIVE Denotes(_)

IsMember(s) ==
    /\ Len(s) >= 3 /\ IsText(s[1]) /\ s[2].type = ":"
    /\ Denotes(SubSeq(s, 3, Len(s))) # NoObject

Denotes(s) ==
    LET inner == Parts(SubSeq(s, 2, Len(s) - 1))
        bracketed(open, close) ==
            Len(s) >= 2 /\ s[1].type = open /\ s[Len(s)].type = close
    IN IF Len(s) = 1 /\ s[1].type \in {"null", "true", "false"}
       THEN Object(s[1].type, <<>>, <<>>)
       ELSE IF Len(s) = 1 /\ s[1].type = "number" THEN Object("number", s[1].raw, <<>>)
       ELSE IF Len(s) = 1 /\ IsText(s[1])
       THEN Object("string", ReadJsonString(s[1].raw).text, <<>>)
       ELSE IF bracketed("{", "}") /\ \A k \in DOMAIN inner : IsMember(inner[k])
       THEN FoldLeft(LAMBDA d, m : Put(d, ReadJsonString(m[1].raw).text,
                                       Denotes(SubSeq(m, 3, Len(m)))),
                     Object("dict", <<>>, <<>>), inner)
       ELSE IF bracketed("[", "]") /\ \A k \in DOMAIN inner : Denotes(inner[k]) # NoObject
       THEN FoldLeft(LAMBDA l, m : PushTo(l, Denotes(m)), Object("list", <<>>, <<>>), inner)
       ELSE NoObject

----------------------------------------------------------------------------
\* XML: the nodes a sequence of lexemes denotes.  With "lenient", unfinished
\* tags and elements are left out where something stands in their place.

IsIdent(x) ==
    x.type = "word" /\ x.raw # <<>> /\ \A k \in DOMAIN x.raw : x.raw[k] \in IdentCharacters

Types(s) == [k \in DOMAIN s |-> s[k].type]
From(s, k) == SubSeq(s, k, Len(s))

IsAttributes(s) ==
    /\ Len(s) % 3 = 0
    /\ \A k \in DOMAIN s :
          CASE k % 3 = 1 -> IsIdent(s[k])
            [] k % 3 = 2 -> s[k].type = "="
            [] OTHER -> s[k].type = "string" /\ ReadXmlString(s[k].raw).ok

AttributesOf(s) ==
    [k \in 1..(Len(s) \div 3) |->
        Node("attribute", s[3 * k - 2].raw, ReadXmlString(s[3 * k].raw).text)]

\* "<" name attributes, then an ending.
BeginsElement(s) == Len(s) >= 2 /\ s[1].type = "<" /\ IsIdent(s[2])

IsOpening(s, ending) ==
    LET n == Len(s) - Len(ending)
    IN /\ n >= 2 /\ BeginsElement(s)
       /\ Types(From(s, n + 1)) = ending
       /\ IsAttributes(SubSeq(s, 3, n))

ElementOf(s, ending) ==
    [Node("element", s[2].raw, <<>>) EXCEPT
        !.attributes = AttributesOf(SubSeq(s, 3, Len(s) - Len(ending))),
        !.selfClosing = ending = <<"/", ">">>]

IsUnfinishedOpening(s) ==
    \/ Types(s) = <<"<">>
    \/ \E ending \in {<<>>, <<"/">>, <<"word">>, <<"word", "=">>} :
          /\ IsOpening(s, ending)
          /\ ending # <<>> /\ ending[1] = "word" => IsIdent(s[Len(s) - Len(ending) + 1])

\* Markup follows, so that nothing is read as a text while the tag is open.
MarkupFollows(after) ==
    LET notes == {"comment", "cdata"}
        others == {k \in DOMAIN after : after[k].type \notin notes}
    IN /\ after # <<>> => after[1].type \in notes
       /\ others # {} =>
             after[CHOOSE k \in others : \A j \in others : k <= j].type = "<"

IsText1(s, after) ==
    /\ \A k \in DOMAIN s : s[k].type \notin Markup
    /\ s[1].type # ">"
    /\ after = <<>> \/ after[1].type \in Markup
    /\ ReadXmlText(Spaced(s)).ok

RECURSIVE Contents(_, _), Elements(_, _)

\* The elements that start with an opening tag, with what is between it and
\* the given ending.
WithContents(s, ending, lenient) ==
    LET last == Len(s) - Len(ending)
    IN IF last < 3 \/ ~BeginsElement(s) \/ Types(From(s, last + 1)) # ending THEN {}
       ELSE UNION {
          IF ~IsOpening(SubSeq(s, 1, g), <<">">>) THEN {}
          ELSE {[ElementOf(SubSeq(s, 1, g), <<">">>) EXCEPT !.children = c] :
                   c \in Contents(SubSeq(s, g + 1, last), lenient)} : g \in 3..last}

Elements(s, lenient) ==
    IF IsOpening(s, <<"/", ">">>) THEN {ElementOf(s, <<"/", ">">>)}
    ELSE {e \in WithContents(s, <<"</", "word", ">">>, lenient) :
             s[Len(s) - 1].raw = e.name}

IsUnfinishedElement(s) ==
    \/ WithContents(s, <<"</">>, TRUE) # {}
    \/ \E e \in WithContents(s, <<"</", "word">>, TRUE) : s[Len(s)].raw = e.name

\* The nodes s gives as the first item, before "after".
Item(s, after, lenient) ==
    IF Len(s) = 1 /\ s[1].type \in {"comment", "cdata"}
    THEN {<<Node(s[1].type, <<>>, s[1].raw)>>}
    ELSE IF IsText1(s, after) THEN {<<Node("text", <<>>, ReadXmlText(Spaced(s)).text)>>}
    ELSE {<<e>> : e \in Elements(s, lenient)}
         \cup IF lenient /\ s[1].type = "<" /\ MarkupFollows(after)
                 /\ (IsUnfinishedOpening(s) \/ IsUnfinishedElement(s))
              THEN {<<>>} ELSE {}

Contents(s, lenient) ==
    IF s = <<>> THEN {<<>>}
    ELSE UNION {LET after == From(s, k + 1)
                    items == Item(SubSeq(s, 1, k), after, lenient)
                IN IF items = {} THEN {}
                   ELSE {i \o c : i \in items, c \in Contents(after, lenient)} :
                k \in DOMAIN s}
================================================================================
