------------------------------- MODULE NyxCodecs -------------------------------
(***************************************************************************)
(* The calls of NyxCalls, and those of the parsers and of the transforms   *)
(* between JSON and XML.                                                   *)
(***************************************************************************)
EXTENDS NyxCalls, NyxGrammars, NyxTransforms

LOCAL INSTANCE SequencesExt

CONSTANTS
    JsonInputs,      \* sequences of JSON lexemes
    XmlInputs,       \* sequences of XML lexemes
    ObjectInputs     \* dicts to send as XML

Init ==
    \/ CallsInit
    \/ Given("json", JsonInputs)
    \/ Given("xml", XmlInputs)
    \/ Given("object", ObjectInputs)

\* nyx_object_parse_buff.
ReadMessage == Call("json", ParseJson(input))

\* nyx_xmldoc_parse_buff.
ReadDocument == Call("xml", ParseXml(input))

\* A message as it leaves by INDI, and as the other side has it.
SendAsXml == Call("object", XmlToObject(ParseXml(PrintXml(ObjectToXml(input))).node))

Next == CallsNext \/ ReadMessage \/ ReadDocument \/ SendAsXml

Spec == Init /\ [][Next]_vars

----------------------------------------------------------------------------
\* Parsers.

\* A message is read if and only if it is a sentence of the grammar, and what
\* is read is what the sentence denotes, whichever token is missing, doubled
\* or out of place (json.c: dict, list, parse_buff).
JsonReads == Done("json") => output.object = Denotes(input)

\* An XML document gives an element if and only if it is one, with unfinished
\* tags and elements left out (xml.c: element, content); the answer is never
\* ambiguous, and a document that needs no such leniency is read whole.
XmlReads ==
    Done("xml") =>
        /\ Elements(input, TRUE) = IF output.node = NoNode THEN {} ELSE {output.node}
        /\ Elements(input, FALSE) \subseteq {output.node}

EmptyStrings(lexemes) ==
    {k \in DOMAIN lexemes : lexemes[k].type = "string" /\ ReadJsonString(lexemes[k].raw)
                                                            = Readable(<<>>)}

\* Wherever a parser gives up, it has freed all it had made, and when it
\* succeeds only the answer is left, but for the buffers of empty strings.
ParsersFree ==
    /\ Done("json") =>
          /\ output.parser.blocks = Blocks(output.object) + output.parser.lost
          /\ output.parser.lost <= Cardinality(EmptyStrings(input))
    /\ Done("xml") => output.parser.blocks = NodeBlocks(output.node)

----------------------------------------------------------------------------
\* Messages.

\* Two dicts are one message if they have the same members, in any order, and
\* the same children, in their order.
RECURSIVE SameMessage(_, _)
SameMessage(dict, other) ==
    LET keys(d) == {item.key : item \in Range(d.items)}
        children(d) == Get(d, ChildrenKey).items
    IN /\ keys(dict) = keys(other)
       /\ \A key \in keys(dict) \ {ChildrenKey} : Get(dict, key) = Get(other, key)
       /\ Len(children(dict)) = Len(children(other))
       /\ \A k \in DOMAIN children(dict) : SameMessage(children(dict)[k].val, children(other)[k].val)

\* The messages that the mapping keeps: texts and lists of children are not
\* empty, no blank or quote stands at an end of a text, and no text after the
\* children.
RECURSIVE IsOrdinary(_)
IsOrdinary(dict) ==
    LET keys == [k \in DOMAIN dict.items |-> dict.items[k].key]
        has(key) == key \in Range(keys)
        at(key) == CHOOSE k \in DOMAIN keys : keys[k] = key
        children == Get(dict, ChildrenKey).items
    IN /\ has(TextKey) => LET text == Get(dict, TextKey).text
                          IN text # <<>> /\ Trim(text) = text
       /\ has(ChildrenKey) => children # <<>>
       /\ has(TextKey) /\ has(ChildrenKey) => at(TextKey) < at(ChildrenKey)
       /\ \A k \in DOMAIN children : IsOrdinary(children[k].val)

\* An ordinary message sent as XML, printed, parsed and turned back is the same
\* message: no attribute, text, child or nesting is lost or reordered on the
\* way (transform_json_to_xml.c, dom.c, xml.c, transform_xml_to_json.c).  Any
\* other keeps its tag and attributes, but the mapping is not as lossless as
\* protocol.md:127 has it: quotes and blanks at the ends of its text go
\* (transform_xml_to_json.c:37), and a text after the children deletes them
\* (dom.c:133).
TransformsRoundTrip ==
    Done("object") =>
        /\ IsOrdinary(input) => SameMessage(output, input)
        /\ \A item \in Range(input.items) :
              item.key \notin {TextKey, ChildrenKey} => Get(output, item.key) = item.val
================================================================================
