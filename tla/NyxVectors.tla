------------------------------ MODULE NyxVectors ------------------------------
(***************************************************************************)
(* The INDI objects a Nyx node is made of, as NyxObject sees them: the     *)
(* constructors and setters of properties and vectors (src/src/indi/), the *)
(* set vectors sent to clients (utils.c), what a property receives from a  *)
(* client (node.c), and the objects made of a parsed XML message           *)
(* (transform_xml_to_json.c).                                              *)
(*                                                                         *)
(* Of the attributes of a dict, "<>" stands for those set to a string      *)
(* literal, "@name" for those set to a copy, "$" for the value.            *)
(***************************************************************************)
EXTENDS NyxObject

CONSTANTS
    Name,     \* the value of every attribute that is a copy
    MaxSmall  \* bound: objects alive while the program calls NyxObject's API

ASSUME VectorAssumption == Name \in Texts \ {Empty}

Kinds == {"text", "number", "light", "switch", "blob", "stream"}

\* The names the code uses for the entries of a dict.  String literals are
\* strings; the proofs cite it, because the provers do not know it.
Entries == {"<>", "@name", "$", "children"}
ASSUME LiteralAssumption == Entries \cup Kinds \subseteq STRING

----------------------------------------------------------------------------
\* The functions.

SetLiteral(m, d, key, text) == DictSetStringUnref(m, d, key, text, FALSE, "made")

SetCopy(m, d, key, text) ==
    DictSetStringUnref(Allocated(m, TRUE), d, key, text, TRUE, "made")

\* A property: its tag, its name, its value.
PropNew(m, kind, value, managed, from) ==
    LET d == Fresh(m)
        named == SetCopy(SetLiteral(NewObject(m, "dict"), d, "<>", kind),
                         d, "@name", Name)
    IN DictSetStringUnref(named, d, "$", value, managed, from)

StreamPropNewIn(m) ==
    LET d == Fresh(m)
    IN SetCopy(SetLiteral(NewObject(m, "dict"), d, "<>", "stream"),
               d, "@name", Name)

\* Mutant: nyx_xxx_vector_new without the unref after nyx_list_push.
PushPropsKeepingReference(m, list, props) ==
    LET pushed[k \in 0..Len(props)] ==
            IF k = 0 THEN m ELSE Push(pushed[k - 1], list, props[k])
    IN pushed[Len(props)]

\* Each property is pushed, then the reference its creator had is dropped,
\* whether or not the push was refused.
PushProps(m, list, props) ==
    LET pushed[k \in 0..Len(props)] ==
            IF k = 0 THEN m
            ELSE Unref(Push(pushed[k - 1], list, props[k]), props[k])
    IN pushed[Len(props)]

VectorNewIn(m, kind, props) ==
    LET d == Fresh(m)
        both == NewObject(NewObject(m, "dict"), "list")
        list == Fresh(NewObject(m, "dict"))
        named == SetCopy(SetLiteral(both, d, "<>", kind), d, "@name", Name)
        filled == PushProps(DictSet(named, d, "children", list), list, props)
    IN Unref(filled, list)

\* Strings are copied by value, numbers and booleans as such.
CopyItem(m, dst, src, key) ==
    LET v == DictGet(m, src, key)
    IN IF v = NULL THEN m
       ELSE IF m.obj[v].type = "string" THEN SetCopy(m, dst, key, m.obj[v].text)
       ELSE IF m.obj[v].type = "scalar"
       THEN DictSetScalarUnref(m, dst, key, m.obj[v].text)
       ELSE m

\* A string put in a dict while the creator's reference is forgotten.
SetForgotten(m, d, key, text) ==
    LET s == Fresh(m)
        set == DictSet(StringFrom(Allocated(m, TRUE), text, TRUE, "made"), d, key, s)
    IN [set EXCEPT !.obj[s].forgot = @ + 1]

\* The encoded payload is a string of its own, whose reference is forgotten.
CopyBlob(m, dst, src) ==
    LET v == DictGet(m, src, "$")
    IN IF v # NULL /\ m.obj[v].type = "string"
       THEN SetForgotten(m, dst, "$", m.obj[v].text)
       ELSE m

\* A child that is not a dict is passed over.
OneOf(m, list, kind, src) ==
    LET d == Fresh(m)
        named == CopyItem(SetLiteral(NewObject(m, "dict"), d, "<>", kind),
                          d, src, "@name")
        valued == IF kind = "blob" THEN CopyBlob(named, d, src)
                  ELSE CopyItem(named, d, src, "$")
    IN IF m.obj[src].type = "dict" THEN Unref(Push(valued, list, d), d) ELSE m

OneOfEach(m, list, kind, sources) ==
    LET filled[k \in 0..Len(sources)] ==
            IF k = 0 THEN m ELSE OneOf(filled[k - 1], list, kind, sources[k])
    IN filled[Len(sources)]

ChildrenOf(m, vector) ==
    LET list == DictGet(m, vector, "children")
    IN IF list # NULL /\ m.obj[list].type = "list"
       THEN [k \in DOMAIN m.obj[list].items |-> m.obj[list].items[k].val]
       ELSE <<>>

PropToSetVector(m, vector, kind) ==
    LET d == Fresh(m)
        both == NewObject(NewObject(m, "dict"), "list")
        list == Fresh(NewObject(m, "dict"))
        named == CopyItem(SetLiteral(both, d, "<>", kind), d, vector, "@name")
        held_by_dict == DictSet(named, d, "children", list)
    IN Unref(OneOfEach(held_by_dict, list, kind, ChildrenOf(m, vector)), list)

SetAttributes(m, d, attributes) ==
    LET set[k \in 0..Len(attributes)] ==
            IF k = 0 THEN m ELSE SetForgotten(set[k - 1], d, "@name", attributes[k])
    IN set[Len(attributes)]

\* An element of a parsed message: name, text content, attributes, children.
Element(m, text, attributes) ==
    LET d == Fresh(m)
        named == SetForgotten(NewObject(m, "dict"), d, "<>", "text")
        filled == IF text = Empty THEN named
                  ELSE SetForgotten(named, d, "$", text)
    IN SetAttributes(filled, d, attributes)

AddElement(m, list, text) ==
    LET d == Fresh(m)
    IN [Push(Element(m, text, <<>>), list, d) EXCEPT !.obj[d].forgot = @ + 1]

AddElements(m, list, texts) ==
    LET added[k \in 0..Len(texts)] ==
            IF k = 0 THEN m ELSE AddElement(added[k - 1], list, texts[k])
    IN added[Len(texts)]

FromXmlIn(m, text, attributes, children) ==
    LET d == Fresh(m)
        root == Element(m, text, attributes)
        list == Fresh(root)
        listed == [DictSet(NewObject(root, "list"), d, "children", list)
                     EXCEPT !.obj[list].forgot = @ + 1]
    IN IF children = <<>> THEN root
       ELSE AddElements(listed, list, children)

----------------------------------------------------------------------------
\* The program: as NyxObject's, on small heaps; then properties and vectors.

NonEmpty == Texts \ {Empty}

IsProp(p) ==
    /\ heap.obj[p].type = "dict"
    /\ At(heap, p, "@name") # {} /\ At(heap, p, "children") = {}
IsVector(v) == heap.obj[v].type = "dict" /\ At(heap, v, "children") # {}
Vectors == {v \in Ids : IsVector(v) /\ IsKnown(v)}

KindOf(d) == heap.obj[DictGet(heap, d, "<>")].text
IsOf(p, kind) == IsProp(p) /\ At(heap, p, "<>") # {} /\ KindOf(p) = kind
OfKind(kind) == {p \in Ids : IsOf(p, kind) /\ IsKnown(p)}

\* Bounds: properties are made before any vector, and vectors on a heap of
\* properties and vectors only.
NoVector == Vectors = {}
Tidy == \A i \in Live(heap) :
            heap.obj[i].parent = NULL => IsProp(i) \/ IsVector(i)
Small == Cardinality(Live(heap)) <= MaxSmall
Builds(n, m) == Tidy /\ LostRoom /\ HasRoom(heap, n) /\ Creates(m)

TextPropNew(text, managed) ==
    LET value == IF text = NullText THEN Empty ELSE text
        owned == managed /\ text # NullText
    IN Builds(4, PropNew(Allocated(heap, owned), "text", value, owned, "given"))

NumberPropNew(text) == Builds(4, PropNew(Allocated(heap, TRUE), "number", text, TRUE, "made"))

LightPropNew(text) == Builds(4, PropNew(heap, "light", text, FALSE, "given"))

SwitchPropNew(text) == Builds(4, PropNew(heap, "switch", text, FALSE, "given"))

BlobPropNew(text, managed) ==
    LET owned == managed /\ text # Empty
    IN Builds(4, PropNew(Allocated(heap, owned), "blob", text, owned, "given"))

StreamPropNew == Builds(3, StreamPropNewIn(heap))

\* The references the program had to the properties go to the vector.
BuildsVector(kind, props) ==
    /\ Tidy /\ HeldRoom /\ HasRoom(heap, 4)
    /\ \A k \in DOMAIN props : held[props[k]] > 0
    /\ heap' = VectorNewIn(heap, kind, props)
    /\ held' = [i \in Ids |-> held[i] + Count(i = Fresh(heap))
                              - Count(\E k \in DOMAIN props : props[k] = i)]

TextVectorNew(props) == BuildsVector("text", props)
NumberVectorNew(props) == BuildsVector("number", props)
LightVectorNew(props) == BuildsVector("light", props)
SwitchVectorNew(props) == BuildsVector("switch", props)
BlobVectorNew(props) == BuildsVector("blob", props)
StreamVectorNew(props) == BuildsVector("stream", props)

\* The copy is stored with the flag of the caller's own buffer.
TextPropSet(p, text, managed) ==
    LET value == IF text = NullText THEN Empty ELSE text
        owned == managed /\ text # NullText
        copied == Allocated(Allocated(heap, owned), TRUE)
        lost == [copied EXCEPT !.lost.given = @ + Count(owned),
                               !.lost.made = @ + Count(~owned)]
    IN LostRoom /\ Calls(DictSetString(lost, p, "$", value, owned, "made"))

NumberPropSet(p, text) ==
    LostRoom /\ Calls(DictSetString(Allocated(heap, TRUE), p, "$", text, TRUE, "made"))

LightPropSet(p, text) == Calls(DictSetString(heap, p, "$", text, FALSE, "given"))

SwitchPropSet(p, text) == Calls(DictSetString(heap, p, "$", text, FALSE, "given"))

BlobPropSet(p, text, managed) ==
    LET owned == managed /\ text # Empty
    IN LostRoom /\ Calls(DictSetString(Allocated(heap, owned), p, "$", text, owned, "given"))

\* _set_properties stores a copy of the text a client sent.
ReceiveText(p, text) ==
    LostRoom /\ Calls(DictSetString(Allocated(heap, TRUE), p, "$", text, TRUE, "made"))

SetVectorNew(v) ==
    /\ At(heap, v, "<>") # {}
    /\ Builds(4 + 4 * Len(ChildrenOf(heap, v)), PropToSetVector(heap, v, KindOf(v)))

FromXml(text, attributes, children) ==
    Builds(4 + Len(attributes) + 3 * Len(children),
           FromXmlIn(heap, text, attributes, children))

UpTo2(S) == UNION {[1..n -> S] : n \in 0..2}
Distinct2(S) == {s \in UpTo2(S) : Len(s) = 2 => s[1] # s[2]}
Chosen(kind) == Distinct2({p \in Ids : held[p] > 0 /\ IsOf(p, kind)})

NewPropNext ==
    \/ \E text \in Texts \cup {NullText}, managed \in BOOLEAN : TextPropNew(text, managed)
    \/ \E text \in NonEmpty : NumberPropNew(text)
    \/ \E text \in NonEmpty : LightPropNew(text)
    \/ \E text \in NonEmpty : SwitchPropNew(text)
    \/ \E text \in Texts, managed \in BOOLEAN : BlobPropNew(text, managed)
    \/ StreamPropNew

SetPropNext ==
    \/ \E p \in OfKind("text"), text \in Texts \cup {NullText}, managed \in BOOLEAN :
          TextPropSet(p, text, managed)
    \/ \E p \in OfKind("number"), text \in NonEmpty : NumberPropSet(p, text)
    \/ \E p \in OfKind("light"), text \in NonEmpty : LightPropSet(p, text)
    \/ \E p \in OfKind("switch"), text \in NonEmpty : SwitchPropSet(p, text)
    \/ \E p \in OfKind("blob"), text \in Texts, managed \in BOOLEAN :
          BlobPropSet(p, text, managed)
    \/ \E p \in OfKind("text"), text \in Texts : ReceiveText(p, text)

VectorNext ==
    \/ \E props \in Chosen("text") : TextVectorNew(props)
    \/ \E props \in Chosen("number") : NumberVectorNew(props)
    \/ \E props \in Chosen("light") : LightVectorNew(props)
    \/ \E props \in Chosen("switch") : SwitchVectorNew(props)
    \/ \E props \in Chosen("blob") : BlobVectorNew(props)
    \/ \E props \in Chosen("stream") : StreamVectorNew(props)
    \/ \E v \in Vectors : SetVectorNew(v)

XmlNext ==
    \E text \in Texts, attributes \in UpTo2({Name}), children \in UpTo2(Texts) :
        FromXml(text, attributes, children)

Next ==
    \/ Small /\ ObjectNext
    \/ NoVector /\ NewPropNext
    \/ SetPropNext
    \/ VectorNext
    \/ Live(heap) = {} /\ XmlNext
    \/ \E i \in Ids : (IsProp(i) \/ IsVector(i)) /\ IsKnown(i) /\ Retain(i)
    \/ \E i \in Ids : GiveBack(i)

Spec == ObjectInit /\ [][Next]_objectVars
===============================================================================
