-------------------------------- MODULE NyxJson --------------------------------
(***************************************************************************)
(* The JSON parser (src/src/parsers/json.c) and printer (src/src/json/).   *)
(*                                                                         *)
(* A message is a sequence of lexemes, with blanks between them.  The      *)
(* parser is the code's recursive descent; "blocks" counts what it has     *)
(* allocated and not freed: token values, objects, buffers of strings.     *)
(***************************************************************************)
EXTENDS NyxText

LOCAL INSTANCE SequencesExt

\* What a pointer to an object points at.
Object(type, text, items) == [type |-> type, text |-> text, items |-> items]
NoObject == Object("nothing", <<>>, <<>>)

Spelling ==
    [type \in {"{", "}", "[", "]", ":", ",", "null", "true", "false"} |->
        CASE type = "{" -> <<123>> [] type = "}" -> <<125>>
          [] type = "[" -> <<91>> [] type = "]" -> <<93>>
          [] type = ":" -> <<58>> [] type = "," -> <<44>>
          [] type = "null" -> <<110, 117, 108, 108>>
          [] type = "true" -> <<116, 114, 117, 101>>
          [] type = "false" -> <<102, 97, 108, 115, 101>>]

Word(type) == [type |-> type, raw |-> Spelling[type]]

----------------------------------------------------------------------------
\* Objects.

\* nyx_dict_set: in place of the old value, or at the end.
Put(d, key, v) ==
    LET at == {k \in DOMAIN d.items : d.items[k].key = key}
    IN IF at = {} THEN [d EXCEPT !.items = Append(@, [key |-> key, val |-> v])]
       ELSE [d EXCEPT !.items[CHOOSE k \in at : TRUE].val = v]

Get(d, key) ==
    LET at == {k \in DOMAIN d.items : d.items[k].key = key}
    IN IF at = {} THEN NoObject ELSE d.items[CHOOSE k \in at : TRUE].val

PushTo(l, v) == [l EXCEPT !.items = Append(@, [key |-> <<>>, val |-> v])]

\* An object, its managed buffer, and the objects it alone refers to.
RECURSIVE Blocks(_)
Blocks(o) ==
    IF o = NoObject THEN 0
    ELSE FoldLeft(LAMBDA sum, item : sum + Blocks(item.val),
                  IF o.type = "string" /\ o.text # <<>> THEN 2 ELSE 1, o.items)

----------------------------------------------------------------------------
\* The tokenizer.

TokenOf(lexeme) ==
    CASE lexeme.type = "string" ->
            LET read == ReadJsonString(lexeme.raw)
            IN [type |-> IF read.ok THEN "string" ELSE "error",
                value |-> read.text, owned |-> read.ok]
      [] lexeme.type = "number" ->
            [type |-> "number", value |-> lexeme.raw, owned |-> TRUE]
      [] OTHER -> [type |-> lexeme.type, value |-> <<>>, owned |-> FALSE]

EndOfInput == [type |-> "eof", value |-> <<>>, owned |-> FALSE]

Advance(p) ==
    LET token == IF p.rest = <<>> THEN EndOfInput ELSE TokenOf(Head(p.rest))
    IN [p EXCEPT !.rest = IF @ = <<>> THEN @ ELSE Tail(@),
                 !.token = token,
                 !.blocks = IF token.owned THEN @ + 1 ELSE @]

FreeBlocks(p, n) == [p EXCEPT !.blocks = @ - n]
Check(p, type) == p.token.type = type

----------------------------------------------------------------------------
\* The parser.  A function gives the parser it leaves and the object or NULL.

Result(p, o) == [parser |-> p, object |-> o]

Atom(p) ==
    Result([Advance(p) EXCEPT !.blocks = @ + 1],
           Object(p.token.type, <<>>, <<>>))

\* atof, and the text is freed.
ParseNumber(p) ==
    Result(Advance(p), Object("number", p.token.value, <<>>))

\* The text becomes the string's.  An empty one equals that of a new string,
\* which drops it (nyx_string_set).
ParseString(p) ==
    LET next == Advance(p)
    IN Result([next EXCEPT !.blocks = @ + 1,
                           !.lost = IF p.token.value = <<>> THEN @ + 1 ELSE @],
              Object("string", p.token.value, <<>>))

\* Mutant: the current token's value is not freed.
FailWithoutRelease(p, o) ==
    Result(FreeBlocks([p EXCEPT !.token = [EndOfInput EXCEPT !.type = "error"]],
                      Blocks(o)), NoObject)

\* _err: RELEASE, and what was built is freed.
Fail(p, o) ==
    LET released == FreeBlocks(p, IF p.token.owned THEN 1 ELSE 0)
    IN Result(FreeBlocks([released EXCEPT
                            !.token = [EndOfInput EXCEPT !.type = "error"]],
                         Blocks(o)), NoObject)

RECURSIVE ParseValue(_), DictItems(_, _), ListItems(_, _)

Items(p, o) == IF o.type = "dict" THEN DictItems(p, o) ELSE ListItems(p, o)

\* After an item: a comma and another item, or the end.
AfterComma(p, close, o) == IF Check(p, close) THEN Fail(p, o) ELSE Items(p, o)

AfterItem(p, close, o) ==
    IF Check(p, ",") THEN AfterComma(Advance(p), close, o)
    ELSE IF Check(p, close) THEN Items(p, o) ELSE Fail(p, o)

ParseValue(p) ==
    CASE p.token.type \in {"null", "true", "false"} -> Atom(p)
      [] Check(p, "number") -> ParseNumber(p)
      [] Check(p, "string") -> ParseString(p)
      [] Check(p, "{") -> DictItems([Advance(p) EXCEPT !.blocks = @ + 1],
                                    Object("dict", <<>>, <<>>))
      [] Check(p, "[") -> ListItems([Advance(p) EXCEPT !.blocks = @ + 1],
                                    Object("list", <<>>, <<>>))
      [] OTHER -> Result(p, NoObject)

\* The key is freed once its value is in the dict, or when there is none.
AfterDictValue(d, key, read) ==
    IF read.object = NoObject THEN Fail(FreeBlocks(read.parser, 1), d)
    ELSE AfterItem(FreeBlocks(read.parser, 1 + Blocks(Get(d, key))), "}",
                   Put(d, key, read.object))

AfterKey(d, key, p) ==
    IF ~Check(p, ":") THEN Fail(FreeBlocks(p, 1), d)
    ELSE AfterDictValue(d, key, ParseValue(Advance(p)))

DictItems(p, d) ==
    IF Check(p, "}") THEN Result(Advance(p), d)
    ELSE IF ~Check(p, "string") THEN Fail(p, d)
    ELSE AfterKey(d, p.token.value, Advance(p))

AfterListValue(l, read) ==
    IF read.object = NoObject THEN Fail(read.parser, l)
    ELSE AfterItem(read.parser, "]", PushTo(l, read.object))

ListItems(p, l) ==
    IF Check(p, "]") THEN Result(Advance(p), l) ELSE AfterListValue(l, ParseValue(p))

FreeLast(p) == FreeBlocks(p, IF p.token.owned THEN 1 ELSE 0)

\* Mutant: what follows the value is not looked at.
AfterMessageAny(read) == [read EXCEPT !.parser = FreeLast(@)]

\* What follows the value, and the value, are freed if something follows.
AfterMessage(read) ==
    IF read.object # NoObject /\ Check(read.parser, "eof") THEN read
    ELSE Result(FreeBlocks(FreeLast(read.parser), Blocks(read.object)), NoObject)

\* An empty message has no value.
ParseJson(lexemes) ==
    AfterMessage(
        ParseValue(Advance([rest |-> lexemes, token |-> EndOfInput,
                            blocks |-> 0, lost |-> 0])))

----------------------------------------------------------------------------
\* The printer.

StringLexeme(text) == [type |-> "string", raw |-> Quoted(text)]

Joined(parts) ==
    FlattenSeq([k \in DOMAIN parts |->
                  IF k = 1 THEN parts[k] ELSE <<Word(",")>> \o parts[k]])

RECURSIVE PrintJson(_)
PrintJson(o) ==
    CASE o.type = "string" -> <<StringLexeme(o.text)>>
      [] o.type = "number" -> <<[type |-> "number", raw |-> o.text]>>
      [] o.type = "dict" ->
            <<Word("{")>>
            \o Joined([k \in DOMAIN o.items |->
                         <<StringLexeme(o.items[k].key), Word(":")>>
                         \o PrintJson(o.items[k].val)])
            \o <<Word("}")>>
      [] o.type = "list" ->
            <<Word("[")>>
            \o Joined([k \in DOMAIN o.items |-> PrintJson(o.items[k].val)])
            \o <<Word("]")>>
      [] OTHER -> <<Word(o.type)>>

\* The text of an object: nyx_object_to_cstring, without quotes at the top.
CString(o) ==
    IF o.type = "string" THEN o.text
    ELSE FlattenSeq([k \in DOMAIN PrintJson(o) |-> PrintJson(o)[k].raw])
================================================================================
