-------------------------------- MODULE NyxXml ---------------------------------
(***************************************************************************)
(* The XML parser (src/src/parsers/xml.c), document tree and printer       *)
(* (src/src/dom.c).                                                        *)
(*                                                                         *)
(* A document is a sequence of lexemes, with a blank between them: markup, *)
(* words, quoted strings (raw, with their quotes).  Between tags a run of  *)
(* words, strings and signs is one text.  "blocks" counts what the parser  *)
(* has allocated and not freed: nodes, names, data.                        *)
(***************************************************************************)
EXTENDS NyxText

LOCAL INSTANCE SequencesExt

Lex(type, raw) == [type |-> type, raw |-> raw]
Open == Lex("<", <<Lt>>)
OpenEnd == Lex("</", <<Lt, Slash>>)
Close == Lex(">", <<Gt>>)
Slashed == Lex("/", <<Slash>>)
Equals == Lex("=", <<61>>)

\* Lexemes that begin with "<" end a text.
Markup == {"<", "</", "comment", "cdata"}

IdentCharacters == {45, 46} \cup (48..58) \cup (65..90) \cup {95} \cup (97..122)

----------------------------------------------------------------------------
\* The document tree (dom.c).

Node(type, name, data) ==
    [type |-> type, name |-> name, data |-> data, selfClosing |-> FALSE,
     attributes |-> <<>>, children |-> <<>>]
NoNode == Node("nothing", <<>>, <<>>)

\* A node, its name and data if it has them, and all below.
RECURSIVE NodeBlocks(_)
NodeBlocks(node) ==
    LET own == CASE node.type = "nothing" -> 0
                 [] node.type = "attribute" -> 3
                 [] OTHER -> 2
    IN FoldLeft(LAMBDA sum, child : sum + NodeBlocks(child),
                own, node.attributes \o node.children)

SetName(node, name) == [node EXCEPT !.name = name]

AddChild(node, child) ==
    IF child.type = "attribute"
    THEN [node EXCEPT !.attributes = Append(@, child)]
    ELSE [node EXCEPT !.children = Append(@, child)]

AddAttribute(node, name, data) == AddChild(node, Node("attribute", name, data))

\* All children are deleted first.
SetContent(node, data) ==
    AddChild([node EXCEPT !.children = <<>>], Node("text", <<>>, data))

----------------------------------------------------------------------------
\* The tokenizer.

\* The lexemes up to the next markup.
TextLength(s) ==
    LET stops == {k \in DOMAIN s : s[k].type \in Markup}
    IN IF stops = {} THEN Len(s) ELSE (CHOOSE k \in stops : \A j \in stops : k <= j) - 1

Spaced(s) ==
    FlattenSeq([k \in DOMAIN s |-> IF k = 1 THEN s[k].raw ELSE <<Blank>> \o s[k].raw])

Token(type, value, owned) == [type |-> type, value |-> value, owned |-> owned]
EndOfDocument == Token("eof", <<>>, FALSE)
ErrorToken == Token("error", <<>>, FALSE)

Valued(type, read) == IF read.ok THEN Token(type, read.text, TRUE) ELSE ErrorToken

\* In a tag, and for markup anywhere, one lexeme.
TagToken(x) ==
    CASE x.type \in {"comment", "cdata"} -> Token(x.type, x.raw, TRUE)
      [] x.type = "string" -> Valued("string", ReadXmlString(x.raw))
      [] x.type = "word" ->
            IF \A k \in DOMAIN x.raw : x.raw[k] \in IdentCharacters
            THEN Token("ident", x.raw, TRUE) ELSE ErrorToken
      [] OTHER -> Token(x.type, <<>>, FALSE)

InText(p) ==
    /\ p.rest # <<>> /\ ~p.tag
    /\ Head(p.rest).type \notin Markup \cup {">"}

Shift(p, n, token, tag) ==
    [p EXCEPT !.rest = SubSeq(@, n + 1, Len(@)), !.token = token, !.tag = tag,
              !.blocks = IF token.owned THEN @ + 1 ELSE @]

\* Blanks before a token are skipped, a text of blanks with them.
SkipBlanks(s) ==
    LET kept == {k \in DOMAIN s : s[k].type = "word" => RemoveLeft(Spaces, s[k].raw) # <<>>}
    IN IF kept = {} THEN <<>>
       ELSE SubSeq(s, CHOOSE k \in kept : \A j \in kept : k <= j, Len(s))

\* "<" and "</" begin a tag, ">" ends it.
NextTokenOf(p) ==
    IF p.rest = <<>> THEN Shift(p, 0, EndOfDocument, p.tag)
    ELSE IF InText(p)
    THEN LET n == TextLength(p.rest)
         IN Shift(p, n, Valued("text", ReadXmlText(Spaced(SubSeq(p.rest, 1, n)))), FALSE)
    ELSE Shift(p, 1, TagToken(Head(p.rest)),
               IF Head(p.rest).type \in {"<", "</"} THEN TRUE
               ELSE IF Head(p.rest).type = ">" THEN FALSE ELSE p.tag)

NextToken(p) == NextTokenOf([p EXCEPT !.rest = SkipBlanks(@)])

IsAt(p, type) == p.token.type = type

\* The token's value becomes part of a node, or is freed.
Free(p, n) == [p EXCEPT !.blocks = @ - n]

----------------------------------------------------------------------------
\* The parser.  A function gives the parser it leaves and the node or NULL.

Yields(p, node) == [parser |-> p, node |-> node]

\* Comment, CDATA and text nodes keep the token's value.
ParseLeaf(p) ==
    LET next == NextToken(p)
    IN Yields([next EXCEPT !.blocks = @ + 1], Node(p.token.type, <<>>, p.token.value))

AttributeValue(name, p) ==
    IF ~IsAt(p, "string") THEN Yields(Free(p, 1), NoNode)
    ELSE Yields([NextToken(p) EXCEPT !.blocks = @ + 1],
                Node("attribute", name, p.token.value))

AttributeEquals(name, p) ==
    IF ~IsAt(p, "=") THEN Yields(Free(p, 1), NoNode)
    ELSE AttributeValue(name, NextToken(p))

ParseAttribute(p) == AttributeEquals(p.token.value, NextToken(p))

\* The attributes up to the first lexeme that is no name, into the element;
\* up to ">" the element is its name and attributes only.
RECURSIVE ParseAttributes(_, _)

AfterAttribute(element, read) ==
    IF read.node = NoNode
    THEN Yields(Free(read.parser, NodeBlocks(element) - 1), NoNode)
    ELSE ParseAttributes(read.parser, AddChild(element, read.node))

ParseAttributes(p, element) ==
    IF IsAt(p, "ident") THEN AfterAttribute(element, ParseAttribute(p))
    ELSE Yields(p, element)

OpeningEnd(p, element) ==
    IF ~IsAt(p, ">") THEN Yields(Free(p, NodeBlocks(element) - 1), NoNode)
    ELSE Yields([NextToken(p) EXCEPT !.blocks = @ + 1], element)

OpeningSlash(read) ==
    IF read.node = NoNode THEN read
    ELSE IF IsAt(read.parser, "/")
    THEN OpeningEnd(NextToken(read.parser), [read.node EXCEPT !.selfClosing = TRUE])
    ELSE OpeningEnd(read.parser, read.node)

OpeningName(p) ==
    IF ~IsAt(p, "ident") THEN Yields(p, NoNode)
    ELSE OpeningSlash(ParseAttributes(NextToken(p), Node("element", p.token.value, <<>>)))

ParseOpening(p) ==
    IF ~IsAt(p, "<") THEN Yields(p, NoNode) ELSE OpeningName(NextToken(p))

Closing(p, okay) == [parser |-> p, okay |-> okay]

ClosingEnd(p) ==
    IF IsAt(p, ">") THEN Closing(NextToken(p), TRUE) ELSE Closing(p, FALSE)

\* Mutant: the name of the closing tag is not compared.
ClosingAnyName(p, element) ==
    IF ~IsAt(p, "ident") THEN Closing(p, FALSE) ELSE ClosingEnd(NextToken(Free(p, 1)))

ClosingName(p, element) ==
    IF ~IsAt(p, "ident") THEN Closing(p, FALSE)
    ELSE IF p.token.value # element.name
    THEN Closing([Free(p, 1) EXCEPT !.token.owned = FALSE], FALSE)
    ELSE ClosingEnd(NextToken(Free(p, 1)))

ParseClosing(p, element) ==
    IF element.selfClosing THEN Closing(p, TRUE)
    ELSE IF ~IsAt(p, "</") THEN Closing(p, FALSE)
    ELSE ClosingName(NextToken(p), element)

RECURSIVE ParseElement(_), ParseContent(_, _)

\* What follows a broken element is tried in its place.
ParseItem(read) ==
    IF read.node # NoNode \/ read.parser.token.type \notin {"comment", "cdata", "text"}
    THEN read ELSE ParseLeaf(read.parser)

AfterChild(element, read) ==
    IF read.node = NoNode THEN Yields(read.parser, element)
    ELSE ParseContent(read.parser, AddChild(element, read.node))

ParseContent(p, element) ==
    IF element.selfClosing THEN Yields(p, element)
    ELSE AfterChild(element, ParseItem(ParseElement(p)))

AfterClosing(element, closing) ==
    IF closing.okay THEN Yields(closing.parser, element)
    ELSE Yields(Free(closing.parser, NodeBlocks(element)), NoNode)

AfterContent(read) == AfterClosing(read.node, ParseClosing(read.parser, read.node))

AfterOpening(read) ==
    IF read.node = NoNode THEN read
    ELSE AfterContent(ParseContent(read.parser, read.node))

ParseElement(p) == AfterOpening(ParseOpening(p))

FreeToken(p) == Free(p, IF p.token.owned THEN 1 ELSE 0)

AfterDocument(read) ==
    IF read.node # NoNode /\ IsAt(read.parser, "eof") THEN read
    ELSE Yields(Free(FreeToken(read.parser), NodeBlocks(read.node)), NoNode)

ParseXml(lexemes) ==
    AfterDocument(
        ParseElement(NextToken([rest |-> lexemes, token |-> EndOfDocument,
                                tag |-> FALSE, blocks |-> 0])))

----------------------------------------------------------------------------
\* The printer.

PrintAttribute(a) ==
    <<Lex("word", a.name), Equals,
      Lex("string", <<Quote>> \o Write({"xml"}, a.data) \o <<Quote>>)>>

RECURSIVE PrintXml(_)

PrintChild(node) ==
    CASE node.type = "element" -> PrintXml(node)
      [] node.type = "text" -> <<Lex("word", Write({"xml"}, node.data))>>
      [] OTHER -> <<Lex(node.type, node.data)>>

PrintXml(node) ==
    LET begin == <<Open, Lex("word", node.name)>>
                 \o FlattenSeq([k \in DOMAIN node.attributes |->
                                  PrintAttribute(node.attributes[k])])
    IN IF node.selfClosing THEN begin \o <<Slashed, Close>>
       ELSE begin \o <<Close>>
            \o FlattenSeq([k \in DOMAIN node.children |-> PrintChild(node.children[k])])
            \o <<OpenEnd, Lex("word", node.name), Close>>
================================================================================
