---------------------------- MODULE NyxTransforms -----------------------------
(***************************************************************************)
(* Messages as objects and as XML documents                                *)
(* (src/src/transform_json_to_xml.c, src/src/transform_xml_to_json.c).     *)
(***************************************************************************)
EXTENDS NyxJson, NyxXml

LOCAL INSTANCE SequencesExt

TagKey == <<Lt, Gt>>
TextKey == <<36>>
At == 64
ChildrenKey == <<99, 104, 105, 108, 100, 114, 101, 110>>

RECURSIVE ObjectToXml(_)

\* One member of the dict, in their order.
AddMember(node, item) ==
    IF item.key = TagKey THEN SetName(node, CString(item.val))
    ELSE IF item.key = TextKey THEN SetContent(node, CString(item.val))
    ELSE IF item.key # <<>> /\ item.key[1] = At
    THEN AddAttribute(node, Tail(item.key), CString(item.val))
    ELSE IF item.key = ChildrenKey
    THEN FoldLeft(LAMBDA n, child : AddChild(n, ObjectToXml(child.val)),
                  node, item.val.items)
    ELSE node

ObjectToXml(dict) == FoldLeft(AddMember, Node("element", <<>>, <<>>), dict.items)

StringObject(text) == Object("string", text, <<>>)

OfType(nodes, type) == SelectSeq(nodes, LAMBDA node : node.type = type)

\* The first text only, without the blanks and quotes around it.
AddText(dict, node) ==
    LET texts == OfType(node.children, "text")
    IN IF texts = <<>> \/ Trim(texts[1].data) = <<>> THEN dict
       ELSE Put(dict, TextKey, StringObject(Trim(texts[1].data)))

AddAttributes(dict, node) ==
    FoldLeft(LAMBDA d, a : Put(d, Write({"json"}, <<At>> \o a.name), StringObject(a.data)),
             dict, node.attributes)

RECURSIVE XmlToObject(_)

\* Mutant: a new list is made for every child.
AddChildrenLast(dict, node) ==
    LET elements == OfType(node.children, "element")
    IN FoldLeft(LAMBDA d, child : Put(d, ChildrenKey,
                                      PushTo(Object("list", <<>>, <<>>), XmlToObject(child))),
                dict, elements)

AddChildren(dict, node) ==
    LET elements == OfType(node.children, "element")
    IN IF elements = <<>> THEN dict
       ELSE Put(dict, ChildrenKey,
                FoldLeft(LAMBDA list, child : PushTo(list, XmlToObject(child)),
                         Object("list", <<>>, <<>>), elements))

XmlToObject(node) ==
    AddChildren(
        AddAttributes(
            AddText(Put(Object("dict", <<>>, <<>>), TagKey, StringObject(node.name)), node),
            node),
        node)
================================================================================
