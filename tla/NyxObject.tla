------------------------------ MODULE NyxObject -------------------------------
(***************************************************************************)
(* The JSON-like objects of nyx_node (src/src/object.c, src/src/json/):    *)
(* dicts, lists, strings and scalars, their reference counts, their parent *)
(* pointers and the text buffers of the strings.                           *)
(*                                                                         *)
(* An operator of the first half is one function of the code: it takes the *)
(* heap and gives the heap the call leaves.  The second half is a program  *)
(* that calls them in any legal order: it gives back only references it    *)
(* holds, and hands over only buffers it has just allocated.               *)
(***************************************************************************)
EXTENDS Integers, Sequences, FiniteSets

CONSTANTS
    N,         \* blocks of memory an object can live in
    Keys,      \* keys of dicts
    Texts,     \* values of strings and scalars
    Empty,     \* "", the value of a new string
    NullText,  \* a NULL value
    MaxHeld,   \* bound: references the program holds at once
    MaxLost    \* bound: text buffers lost

NULL == 0
Ids == 1..N
Containers == {"dict", "list"}
Types == Containers \cup {"string", "scalar"}

ASSUME ObjectAssumption ==
    /\ N \in Nat /\ MaxHeld \in Nat /\ MaxLost \in Nat
    /\ Keys \subseteq STRING /\ Texts \subseteq STRING
    /\ Empty \in Texts /\ NullText \notin STRING

VARIABLES
    heap,   \* obj: what is in each block; bufs: text buffers allocated;
            \* lost: those nothing points at any more, by who made them
    held    \* held[i]: the references to i the program has to give back

objectVars == <<heap, held>>

\* "forgot" counts the references whose holder returned without unref.
Dead == [type |-> "free", ref |-> 0, parent |-> NULL, items |-> <<>>,
         text |-> Empty, managed |-> FALSE, forgot |-> 0]

Count(b) == IF b THEN 1 ELSE 0

Live(m) == {i \in Ids : m.obj[i].type # "free"}
Values(m, c) == {m.obj[c].items[k].val : k \in DOMAIN m.obj[c].items}
HasRoom(m, n) == Cardinality(Ids \ Live(m)) >= n
Fresh(m) == CHOOSE i \in Ids \ Live(m) : \A j \in Ids \ Live(m) : i <= j

----------------------------------------------------------------------------
\* The calls.

NewObject(m, type) ==
    [m EXCEPT !.obj[Fresh(m)] = [Dead EXCEPT !.type = type, !.ref = 1]]

Ref(m, i) ==
    [m EXCEPT !.obj[i].ref = IF @ <= 0 THEN 1 ELSE @ + 1]

\* What goes with i: the values nobody else has a reference to, and theirs.
Doomed(m, i) ==
    LET fall[n \in 0..N] ==
            IF n = 0 THEN {i}
            ELSE LET above == fall[n - 1]
                 IN above \cup {v \in UNION {Values(m, j) : j \in above} :
                                   m.obj[v].ref <= 1}
    IN fall[N]

\* A value leaves a container that goes: no parent, one reference less.
LetGo(b) == [b EXCEPT !.parent = NULL, !.ref = @ - 1]

\* The blocks of D are freed, and their values are let go.
Release(m, D) ==
    [m EXCEPT
        !.obj = [j \in Ids |->
                    IF j \in D THEN Dead
                    ELSE IF \E c \in D : j \in Values(m, c) THEN LetGo(m.obj[j])
                    ELSE m.obj[j]],
        !.bufs = @ - Cardinality({j \in D : m.obj[j].managed})]

Unref(m, i) ==
    IF m.obj[i].ref <= 1
    THEN Release(m, Doomed(m, i))
    ELSE [m EXCEPT !.obj[i].ref = @ - 1]

\* c and what is above it.
Ancestors(m, c) ==
    LET line[n \in 0..N] ==
            IF n = 0 THEN {c} \ {NULL}
            ELSE LET below == line[n - 1]
                 IN below \cup ({m.obj[j].parent : j \in below} \ {NULL})
    IN line[N]

\* Mutant: the search among the ancestors stops below the container.
RefusesParentOnly(m, c, v) == m.obj[v].parent # NULL

Refuses(m, c, v) ==
    \/ m.obj[v].parent # NULL
    \/ v \in Ancestors(m, c)

\* The text of an object; kinds stay apart as quotes and brackets keep them.
ToString(m, i) ==
    LET printed[n \in 0..N] ==
            [j \in Ids |->
                [kind |-> m.obj[j].type,
                 text |-> m.obj[j].text,
                 items |-> IF n = 0 THEN <<>>
                           ELSE [k \in DOMAIN m.obj[j].items |->
                                    <<m.obj[j].items[k].key,
                                      printed[n - 1][m.obj[j].items[k].val]>>]]]
    IN printed[N][i]

\* Mutant: nyx_object_equal compares pointers.
EqualByPointer(m, i, j) == i = j

Equal(m, i, j) ==
    \/ i = j
    \/ /\ m.obj[i].type = m.obj[j].type
       /\ IF m.obj[i].type \in Containers
          THEN ToString(m, i) = ToString(m, j)
          ELSE m.obj[i].text = m.obj[j].text

\* Mutant: the new value is not referenced.
ReplaceUncounted(m, c, k, v) ==
    LET old == m.obj[c].items[k].val
        counted == Unref([m EXCEPT !.obj[old].parent = NULL], old)
    IN [counted EXCEPT !.obj[c].items[k].val = v, !.obj[v].parent = c]

\* A key or an index that is there gets the value in place of the old one.
Replace(m, c, k, v) ==
    LET old == m.obj[c].items[k].val
        apart == [m EXCEPT !.obj[old].parent = NULL]
        counted == Unref(Ref(apart, v), old)
    IN [counted EXCEPT !.obj[c].items[k].val = v, !.obj[v].parent = c]

AppendItem(m, c, key, v) ==
    LET counted == Ref(m, v)
    IN [counted EXCEPT !.obj[c].items = Append(@, [key |-> key, val |-> v]),
                       !.obj[v].parent = c]

At(m, d, key) == {k \in DOMAIN m.obj[d].items : m.obj[d].items[k].key = key}

DictGet(m, d, key) ==
    IF At(m, d, key) = {} THEN NULL
    ELSE m.obj[d].items[CHOOSE k \in At(m, d, key) : TRUE].val

\* Mutant: the search for the key is left out.
DictSetAppends(m, d, key, v) ==
    IF Refuses(m, d, v) THEN m ELSE AppendItem(m, d, key, v)

DictSet(m, d, key, v) ==
    IF Refuses(m, d, v) THEN m
    ELSE IF At(m, d, key) # {}
    THEN Replace(m, d, CHOOSE k \in At(m, d, key) : TRUE, v)
    ELSE AppendItem(m, d, key, v)

DictSetReturns(m, d, key, v) ==
    /\ ~Refuses(m, d, v)
    /\ At(m, d, key) # {} => ~Equal(m, DictGet(m, d, key), v)

\* idx counts from 0; one past the end, and nyx_list_push's -1, append.
ListGet(m, l, idx) ==
    IF idx + 1 \in DOMAIN m.obj[l].items THEN m.obj[l].items[idx + 1].val
    ELSE NULL

ListSet(m, l, idx, v) ==
    IF Refuses(m, l, v) THEN m
    ELSE IF idx + 1 \in DOMAIN m.obj[l].items
    THEN Replace(m, l, idx + 1, v)
    ELSE AppendItem(m, l, Empty, v)

ListSetReturns(m, l, idx, v) ==
    /\ ~Refuses(m, l, v)
    /\ ListGet(m, l, idx) # NULL => ~Equal(m, ListGet(m, l, idx), v)

Push(m, l, v) == ListSet(m, l, -1, v)

WithoutItem(m, c, k) ==
    LET old == m.obj[c].items[k].val
        cut == [m EXCEPT
                  !.obj[c].items = SubSeq(@, 1, k - 1) \o SubSeq(@, k + 1, Len(@)),
                  !.obj[old].parent = NULL]
    IN Unref(cut, old)

DictDel(m, d, key) ==
    IF At(m, d, key) = {} THEN m
    ELSE WithoutItem(m, d, CHOOSE k \in At(m, d, key) : TRUE)

ListDel(m, l, idx) ==
    IF idx + 1 \in DOMAIN m.obj[l].items THEN WithoutItem(m, l, idx + 1) ELSE m

\* Values are let go first to last: each is a tree of its own by then.
Clear(m, c) ==
    LET kept == {v \in Values(m, c) : m.obj[v].ref > 1}
        gone == UNION {Doomed(m, v) : v \in Values(m, c) \ kept}
        freed == Release(m, gone)
    IN [freed EXCEPT
          !.obj = [j \in Ids |->
                     IF j = c THEN [freed.obj[c] EXCEPT !.items = <<>>]
                     ELSE IF j \in kept THEN LetGo(freed.obj[j])
                     ELSE freed.obj[j]]]

\* A managed buffer is counted when it is allocated, before the call.
Allocated(m, managed) == [m EXCEPT !.bufs = @ + Count(managed)]

\* Mutants: the old buffer is not freed; it is freed whoever owns it.
StringSetKeepsOld(m, s, text, managed, from) ==
    IF text = NullText THEN m
    ELSE IF m.obj[s].text # text \/ m.obj[s].managed
    THEN [m EXCEPT !.obj[s].text = text, !.obj[s].managed = managed]
    ELSE [m EXCEPT !.lost[from] = @ + Count(managed)]

StringSetFreesLiteral(m, s, text, managed, from) ==
    IF text = NullText THEN m
    ELSE IF m.obj[s].text # text \/ m.obj[s].managed
    THEN [m EXCEPT !.obj[s].text = text, !.obj[s].managed = managed,
                   !.bufs = @ - 1]
    ELSE [m EXCEPT !.lost[from] = @ + Count(managed)]

\* "from" says who made a managed buffer: the caller gave it, or the code
\* made a copy.  nyx_string_set_buff does the same to the heap.
StringSet(m, s, text, managed, from) ==
    IF text = NullText THEN m
    ELSE IF m.obj[s].text # text \/ m.obj[s].managed
    THEN [m EXCEPT !.obj[s].text = text, !.obj[s].managed = managed,
                   !.bufs = @ - Count(m.obj[s].managed)]
    ELSE [m EXCEPT !.lost[from] = @ + Count(managed)]

StringSetReturns(m, s, text) == text # NullText /\ m.obj[s].text # text

StringSetBuffReturns(m, s, text) ==
    /\ text # NullText
    /\ m.obj[s].managed => m.obj[s].text # text

StringFrom(m, text, managed, from) ==
    StringSet(NewObject(m, "string"), Fresh(m), text, managed, from)

ScalarSet(m, i, text) == [m EXCEPT !.obj[i].text = text]
ScalarSetReturns(m, i, text) == m.obj[i].text # text

ScalarFrom(m, text) == ScalarSet(NewObject(m, "scalar"), Fresh(m), text)

\* Sets the string a dict already has under a key.
DictSetString(m, d, key, text, managed, from) ==
    LET s == DictGet(m, d, key)
    IN IF s # NULL /\ m.obj[s].type = "string"
       THEN StringSet(m, s, text, managed, from)
       ELSE [m EXCEPT !.lost[from] = @ + Count(managed)]

ListSetString(m, l, idx, text, managed, from) ==
    LET s == ListGet(m, l, idx)
    IN IF s # NULL /\ m.obj[s].type = "string"
       THEN StringSet(m, s, text, managed, from)
       ELSE [m EXCEPT !.lost[from] = @ + Count(managed)]

\* Puts a new string under a key and gives up the creator's reference.
DictSetStringUnref(m, d, key, text, managed, from) ==
    Unref(DictSet(StringFrom(m, text, managed, from), d, key, Fresh(m)), Fresh(m))

DictSetScalarUnref(m, d, key, text) ==
    Unref(DictSet(ScalarFrom(m, text), d, key, Fresh(m)), Fresh(m))

----------------------------------------------------------------------------
\* The program.

ObjectInit ==
    /\ heap = [obj |-> [i \in Ids |-> Dead], bufs |-> 0,
               lost |-> [given |-> 0, made |-> 0]]
    /\ held = [i \in Ids |-> 0]

\* What the program can have a pointer to: its own references, and what it
\* finds from them.
IsKnown(i) == \E r \in Ancestors(heap, i) : held[r] > 0
Known == {i \in Live(heap) : IsKnown(i)}
Of(type) == {i \in Ids : heap.obj[i].type = type /\ IsKnown(i)}

\* Bounds.
HeldRoom ==
    LET total[i \in 0..N] == IF i = 0 THEN 0 ELSE total[i - 1] + held[i]
    IN total[N] < MaxHeld
LostRoom == heap.lost.given + heap.lost.made < MaxLost

\* The program becomes the holder of the block the call allocates.
Creates(m) ==
    /\ HeldRoom
    /\ heap' = m
    /\ held' = [held EXCEPT ![Fresh(heap)] = @ + 1]

Calls(m) == heap' = m /\ UNCHANGED held

NewContainer(type) == HasRoom(heap, 1) /\ Creates(NewObject(heap, type))

NewScalar(text) == HasRoom(heap, 1) /\ Creates(ScalarFrom(heap, text))

NewString(text, managed) ==
    /\ HasRoom(heap, 1) /\ LostRoom
    /\ Creates(StringFrom(Allocated(heap, managed), text, managed, "given"))

Retain(i) ==
    /\ HeldRoom
    /\ heap' = Ref(heap, i)
    /\ held' = [held EXCEPT ![i] = @ + 1]

GiveBack(i) ==
    /\ held[i] > 0
    /\ heap' = Unref(heap, i)
    /\ held' = [held EXCEPT ![i] = @ - 1]

PutInDict(d, key, v) == Calls(DictSet(heap, d, key, v))

PutInList(l, idx, v) == Calls(ListSet(heap, l, idx, v))

DeleteKey(d, key) == Calls(DictDel(heap, d, key))

DeleteIndex(l, idx) == Calls(ListDel(heap, l, idx))

ClearContainer(c) == Calls(Clear(heap, c))

SetScalar(i, text) == Calls(ScalarSet(heap, i, text))

SetString(s, text, managed) ==
    /\ LostRoom
    /\ Calls(StringSet(Allocated(heap, managed), s, text, managed, "given"))

SetStringAt(d, key, text, managed) ==
    /\ LostRoom
    /\ Calls(DictSetString(Allocated(heap, managed), d, key, text, managed, "given"))

SetStringIn(l, idx, text, managed) ==
    /\ LostRoom
    /\ Calls(ListSetString(Allocated(heap, managed), l, idx, text, managed, "given"))

AddString(d, key, text, managed) ==
    /\ HasRoom(heap, 1) /\ LostRoom
    /\ Calls(DictSetStringUnref(Allocated(heap, managed), d, key, text, managed, "given"))

AddScalar(d, key, text) ==
    /\ HasRoom(heap, 1)
    /\ Calls(DictSetScalarUnref(heap, d, key, text))

Indexes(l) == 0..Len(heap.obj[l].items)

ObjectNext ==
    \/ \E type \in Containers : NewContainer(type)
    \/ \E text \in Texts : NewScalar(text)
    \/ \E text \in Texts, managed \in BOOLEAN : NewString(text, managed)
    \/ \E i \in Known : Retain(i)
    \/ \E i \in Ids : GiveBack(i)
    \/ \E d \in Of("dict"), key \in Keys, v \in Known : PutInDict(d, key, v)
    \/ \E l \in Of("list"), v \in Known :
          \E idx \in Indexes(l) : PutInList(l, idx, v)
    \/ \E d \in Of("dict"), key \in Keys : DeleteKey(d, key)
    \/ \E l \in Of("list") : \E idx \in Indexes(l) : DeleteIndex(l, idx)
    \/ \E c \in Of("dict") \cup Of("list") : ClearContainer(c)
    \/ \E i \in Of("scalar"), text \in Texts : SetScalar(i, text)
    \/ \E s \in Of("string"), text \in Texts, managed \in BOOLEAN :
          SetString(s, text, managed)
    \/ \E d \in Of("dict"), key \in Keys, text \in Texts, managed \in BOOLEAN :
          SetStringAt(d, key, text, managed)
    \/ \E l \in Of("list"), text \in Texts, managed \in BOOLEAN :
          \E idx \in Indexes(l) : SetStringIn(l, idx, text, managed)
    \/ \E d \in Of("dict"), key \in Keys, text \in Texts, managed \in BOOLEAN :
          AddString(d, key, text, managed)
    \/ \E d \in Of("dict"), key \in Keys, text \in Texts : AddScalar(d, key, text)

ObjectSpec == ObjectInit /\ [][ObjectNext]_objectVars

----------------------------------------------------------------------------
\* Properties.

\* Blocks hold objects of the code's types, and the counters are counters.
ObjectTypeOK ==
    /\ heap.obj \in [Ids -> [type : Types \cup {"free"}, ref : Nat, parent : 0..N,
                             items : Seq([key : STRING, val : Ids]),
                             text : STRING, managed : BOOLEAN, forgot : Nat]]
    /\ heap.bufs \in Nat
    /\ heap.lost \in [{"given", "made"} -> Nat]
    /\ held \in [Ids -> Nat]

\* The reference count of a block (object.c, nyx_object_ref and _unref) is
\* the number of its holders: the program, the containers that list it, the
\* functions that returned without giving theirs back.  A free block has
\* none, so nothing freed is still pointed at.
Listings(i) ==
    Cardinality(UNION {{<<c, k>> : k \in {n \in DOMAIN heap.obj[c].items :
                                             heap.obj[c].items[n].val = i}} :
                       c \in Live(heap)})

RefsCounted ==
    \A i \in Ids : heap.obj[i].ref = held[i] + Listings(i) + heap.obj[i].forgot

\* Objects are trees: the parent pointer of an object (what notifications
\* climb and what dict_set and list_set test) is the one container that
\* lists it, once, and no object is above itself.
Trees ==
    \A i \in Live(heap) :
        /\ {c \in Ids : i \in Values(heap, c)} =
              IF heap.obj[i].parent = NULL THEN {} ELSE {heap.obj[i].parent}
        /\ Listings(i) <= 1
        /\ i \notin Ancestors(heap, heap.obj[i].parent)

\* A key is in a dict at most once, whatever was set, replaced and deleted.
KeysOnce ==
    \A d \in Of("dict"), key \in Keys : Cardinality(At(heap, d, key)) <= 1

\* What nobody can reach is freed: an object that is still there hangs from
\* one the program holds, or from one whose reference some function forgot.
NoOrphans ==
    \A i \in Live(heap) :
        \E r \in Ancestors(heap, i) : held[r] > 0 \/ heap.obj[r].forgot > 0

\* A text buffer allocated is the managed value of exactly one string, or
\* one of those counted as lost: none is freed twice, and none is lost
\* anywhere else.
TextsAccounted ==
    heap.bufs = Cardinality({i \in Ids : heap.obj[i].managed})
                + heap.lost.given + heap.lost.made

\* What a setter answers decides whether clients are notified.  Those of the
\* dicts, lists, strings, numbers and booleans answer true exactly when the
\* text of the object changes, and that of the buffers answers true when it
\* does; SettersKeepPromises is the rest of what is asked of it.
AnswersTellChange ==
    /\ \A d \in Of("dict"), key \in Keys, v \in Live(heap) :
          DictSetReturns(heap, d, key, v) <=>
          ToString(DictSet(heap, d, key, v), d) # ToString(heap, d)
    /\ \A l \in Of("list"), v \in Live(heap) : \A idx \in Indexes(l) :
          ListSetReturns(heap, l, idx, v) <=>
          ToString(ListSet(heap, l, idx, v), l) # ToString(heap, l)
    /\ \A s \in Of("string"), text \in Texts \cup {NullText}, managed \in BOOLEAN :
          LET set == StringSet(heap, s, text, managed, "given")
              changed == ToString(set, s) # ToString(heap, s)
          IN /\ StringSetReturns(heap, s, text) <=> changed
             /\ changed => StringSetBuffReturns(heap, s, text)
    /\ \A i \in Of("scalar"), text \in Texts :
          ScalarSetReturns(heap, i, text) <=>
          ToString(ScalarSet(heap, i, text), i) # ToString(heap, i)

\* nyx_string_set_buff owns a buffer given with managed = true (nyx_node.h:988)
\* and returns true "if the value was modified, false otherwise" (990).
SettersKeepPromises ==
    \A s \in Of("string"), text \in Texts :
        LET set == StringSet(heap, s, text, TRUE, "given")
        IN /\ set.lost.given = heap.lost.given
           /\ StringSetBuffReturns(heap, s, text) <=> ToString(set, s) # ToString(heap, s)
===============================================================================
