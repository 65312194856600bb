--------------------------- MODULE NyxVectorsProofs ---------------------------
(***************************************************************************)
(* The invariants of the objects hold for the program of NyxVectors too:   *)
(* the constructors and setters of properties and vectors, the set vectors *)
(* and the objects made of a parsed message keep the heap well formed, and *)
(* the references they take while they build are all given back, or        *)
(* counted as forgotten.                                                   *)
(***************************************************************************)
EXTENDS NyxVectors, NyxObjectProofs

----------------------------------------------------------------------------
\* What a call leaves.

\* m is well formed for the references h; n texts are in hands of a call.
Well(m, h, n) == HeapInv(m, h) /\ TextsOK(m, n)

Room(m) == Cardinality(Ids \ Live(m))

\* At most k blocks are taken, and what is held, or was forgotten, stays.
Takes(m2, h2, m, h, k) ==
    /\ Room(m2) + k >= Room(m)
    /\ \A j \in Ids : h[j] > 0 /\ h2[j] > 0 => m2.obj[j].type = m.obj[j].type
    /\ \A j \in Ids : m.obj[j].forgot > 0 =>
           m2.obj[j].type = m.obj[j].type /\ m2.obj[j].forgot > 0

\* A block is as it was, or freed while nobody had forgotten it.
Fades(m2, m) ==
    \A j \in Ids :
        \/ m2.obj[j].type = m.obj[j].type /\ m2.obj[j].forgot = m.obj[j].forgot
        \/ m2.obj[j].type = "free" /\ m.obj[j].forgot = 0

Plus(h, i) == [h EXCEPT ![i] = @ + 1]
Minus(h, i) == [h EXCEPT ![i] = @ - 1]

LEMMA RoomFacts ==
    /\ \A m : Room(m) \in Nat
    /\ \A m : \A p : HasRoom(m, p) <=> Room(m) >= p
<1> SUFFICES ASSUME NEW m PROVE Room(m) \in Nat
  BY DEF Room, HasRoom
<1>1. Ids \ Live(m) \in SUBSET Ids
  OBVIOUS
<1> QED BY <1>1, IdsFacts, FS_Subset, FS_CardinalityType DEF Room

LEMMA HoldFacts ==
    ASSUME NEW h \in [Ids -> Nat], NEW i \in Ids
    PROVE  /\ Plus(h, i) \in [Ids -> Nat] /\ Plus(h, i)[i] = h[i] + 1
           /\ \A j \in Ids \ {i} : Plus(h, i)[j] = h[j]
           /\ \A j \in Ids : Plus(h, i)[j] >= h[j]
           /\ Plus(h, i)[i] > 0 /\ Minus(Plus(h, i), i) = h
<1>1. Minus(Plus(h, i), i) = h
  BY GiveTake DEF Plus, Minus
<1> QED BY <1>1 DEF Plus

\* One block at most is taken when the others stay or are freed.
LEMMA OneMore ==
    ASSUME NEW m, NEW h, HeapInv(m, h), NEW m2, NEW h2, HeapInv(m2, h2),
           NEW f \in Ids, h[f] = 0, m.obj[f].forgot = 0,
           \A j \in Ids \ {f} :
               \/ m2.obj[j].type = m.obj[j].type /\ m2.obj[j].forgot = m.obj[j].forgot
               \/ m2.obj[j].type = "free" /\ m.obj[j].forgot = 0
    PROVE  Takes(m2, h2, m, h, 1)
<1>1. Room(m2) + 1 >= Room(m)
  <2> DEFINE A == Ids \ Live(m2)
             B == Ids \ Live(m)
  <2>1. B \subseteq A \cup {f}
    BY DEF Live
  <2>2. A \in SUBSET Ids /\ B \in SUBSET Ids
    OBVIOUS
  <2> HIDE DEF A, B
  <2>3. IsFiniteSet(A) /\ IsFiniteSet(A \cup {f})
    BY <2>2, IdsFacts, FS_Subset, FS_AddElement
  <2>4. Cardinality(A \cup {f}) <= Cardinality(A) + 1
    BY <2>3, FS_AddElement, FS_CardinalityType
  <2>5. Cardinality(B) <= Cardinality(A \cup {f})
    BY <2>1, <2>3, FS_Subset
  <2>6. Cardinality(A) \in Nat /\ Cardinality(B) \in Nat /\ Cardinality(A \cup {f}) \in Nat
    BY <2>1, <2>3, FS_Subset, FS_CardinalityType
  <2> QED BY <2>4, <2>5, <2>6 DEF Room, A, B
<1>2. \A j \in Ids : h2[j] > 0 => m2.obj[j].type # "free"
  BY HeldIsLive
<1>3. \A j \in Ids : h[j] > 0 /\ h2[j] > 0 => m2.obj[j].type = m.obj[j].type
  BY <1>2
<1>4. \A j \in Ids : m.obj[j].forgot > 0 =>
         m2.obj[j].type = m.obj[j].type /\ m2.obj[j].forgot > 0
  OBVIOUS
<1> QED BY <1>1, <1>3, <1>4 DEF Takes

LEMMA FadesTakes ==
    ASSUME NEW m, NEW h, NEW m2, NEW h2, HeapInv(m2, h2), Fades(m2, m)
    PROVE  Takes(m2, h2, m, h, 0)
<1>1. Room(m2) + 0 >= Room(m)
  <2> DEFINE A == Ids \ Live(m2)
             B == Ids \ Live(m)
  <2>1. B \subseteq A
    BY DEF Live, Fades
  <2>2. A \in SUBSET Ids
    OBVIOUS
  <2> HIDE DEF A, B
  <2>3. Cardinality(B) <= Cardinality(A)
    BY <2>1, <2>2, IdsFacts, FS_Subset
  <2>4. Cardinality(B) \in Nat /\ Cardinality(A) \in Nat
    BY <2>1, <2>2, IdsFacts, FS_Subset, FS_CardinalityType
  <2> QED BY <2>3, <2>4 DEF Room, A, B
<1>2. \A j \in Ids : h2[j] > 0 => m2.obj[j].type # "free"
  BY HeldIsLive
<1> QED BY <1>1, <1>2 DEF Takes, Fades

LEMMA FadesOn ==
    ASSUME NEW m, NEW m1, NEW m2, Fades(m1, m), Fades(m2, m1)
    PROVE  Fades(m2, m)
  BY DEF Fades

\* One call after another.
LEMMA TakesOn ==
    ASSUME NEW m, NEW h, NEW m1, NEW h1, NEW m2, NEW h2, NEW k \in Nat, NEW l \in Nat,
           Takes(m1, h1, m, h, k), Takes(m2, h2, m1, h1, l),
           \A j \in Ids : h[j] > 0 /\ h2[j] > 0 => h1[j] > 0
    PROVE  Takes(m2, h2, m, h, k + l)
<1>1. Room(m2) + (k + l) >= Room(m)
  BY RoomFacts DEF Takes
<1> QED BY <1>1 DEF Takes

----------------------------------------------------------------------------
\* Calls that take no block.

LEMMA UnrefFades ==
    ASSUME NEW m, NEW h, NEW n \in Nat, Well(m, h, n), NEW i \in Ids, h[i] > 0
    PROVE  Fades(Unref(m, i), m)
<1>1. HeapInv(m, h) /\ TextsOK(m, n) /\ m \in Heaps /\ h \in [Ids -> Nat]
  BY DEF Well, HeapInv
<1>2. \A j \in Ids : /\ m.obj[j].ref = h[j] + Count(m.obj[j].parent # NULL) + m.obj[j].forgot
                     /\ h[j] \in Nat /\ m.obj[j].forgot \in Nat
  BY <1>1, HeapFields DEF HeapInv, Counted
<1>3. CASE m.obj[i].ref <= 1
  <2> DEFINE D == Doomed(m, i)
             x == Release(m, D)
  <2>1. D \in SUBSET Ids
    BY <1>1, DoomedClosed
  <2>2. \A j \in D \ {i} : m.obj[j].ref <= 1 /\ m.obj[j].parent \in D
    BY <1>1, DoomedHangs
  <2>3. Unref(m, i) = x
    BY <1>3 DEF Unref
  <2> HIDE DEF D
  <2>4. \A j \in D : m.obj[j].forgot = 0
    <3> SUFFICES ASSUME NEW j \in D PROVE m.obj[j].forgot = 0
      OBVIOUS
    <3>1. CASE j = i
      <4>1. Count(m.obj[i].parent # NULL) \in Nat
        BY DEF Count
      <4> QED BY <1>2, <1>3, <3>1, <4>1
    <3>2. CASE j # i
      <4>1. j \in Ids /\ m.obj[j].parent # NULL /\ m.obj[j].ref <= 1
        BY <2>1, <2>2, <3>2 DEF Ids, NULL
      <4>2. Count(m.obj[j].parent # NULL) = 1
        BY <4>1 DEF Count
      <4> QED BY <1>2, <4>1, <4>2
    <3> QED BY <3>1, <3>2
  <2>5. /\ \A j \in D : x.obj[j] = Dead
        /\ \A j \in Ids \ D : Lowered(x.obj[j], m.obj[j]) \/ x.obj[j] = m.obj[j]
    BY <1>1, <2>1, ReleaseFields
  <2> HIDE DEF x
  <2> QED BY <2>3, <2>4, <2>5, DeadFacts DEF Fades, Lowered
<1>4. CASE ~(m.obj[i].ref <= 1)
  <2> DEFINE o == m.obj[i]
             b == [o EXCEPT !.ref = @ - 1]
  <2>1. o \in Block
    BY <1>1, HeapFields
  <2>2. Unref(m, i) = [m EXCEPT !.obj[i] = b]
    BY <1>1, <1>4 DEF Unref, Heaps
  <2> HIDE DEF o
  <2>3. b.type = o.type /\ b.forgot = o.forgot
    BY <2>1 DEF Block
  <2> HIDE DEF b
  <2>4. Unref(m, i).obj[i] = b /\ \A j \in Ids \ {i} : Unref(m, i).obj[j] = m.obj[j]
    BY <1>1, <2>2 DEF Heaps
  <2>5. \A j \in Ids : /\ Unref(m, i).obj[j].type = m.obj[j].type
                       /\ Unref(m, i).obj[j].forgot = m.obj[j].forgot
    BY <2>3, <2>4 DEF o
  <2> QED BY <2>5 DEF Fades
<1> QED BY <1>3, <1>4

LEMMA UnrefWell ==
    ASSUME NEW m, NEW h, NEW n \in Nat, Well(m, h, n), NEW i \in Ids, h[i] > 0
    PROVE  /\ Well(Unref(m, i), Minus(h, i), n)
           /\ Takes(Unref(m, i), Minus(h, i), m, h, 0)
<1>1. Well(Unref(m, i), Minus(h, i), n)
  BY UnrefKeeps DEF Well, Minus
<1> QED BY <1>1, UnrefFades, FadesTakes DEF Well

\* The reference the call itself held.
LEMMA GivenBack ==
    ASSUME NEW m, NEW h \in [Ids -> Nat], NEW n \in Nat, NEW i \in Ids,
           Well(m, Plus(h, i), n)
    PROVE  Well(Unref(m, i), h, n) /\ Takes(Unref(m, i), h, m, Plus(h, i), 0)
<1>1. Plus(h, i)[i] > 0 /\ Minus(Plus(h, i), i) = h
  BY HoldFacts
<1> QED BY <1>1, UnrefWell

LEMMA AppendFades ==
    ASSUME NEW m \in Heaps, NEW c \in Ids, NEW v \in Ids \ {c}, NEW key \in STRING
    PROVE  Fades(AppendItem(m, c, key, v), m)
<1> DEFINE m2 == AppendItem(m, c, key, v)
<1>1. /\ \A j \in Ids \ {c, v} : m2.obj[j] = m.obj[j]
      /\ SameKind(m2.obj[c], m.obj[c]) /\ SameKind(m2.obj[v], m.obj[v])
  BY AppendFields
<1> HIDE DEF m2
<1>2. Fades(m2, m)
  BY <1>1 DEF SameKind, Fades
<1> QED BY <1>2 DEF m2

LEMMA ReplaceFades ==
    ASSUME NEW m, NEW h, NEW n \in Nat, Well(m, h, n),
           NEW c \in Ids, NEW k \in DOMAIN m.obj[c].items,
           NEW v \in Ids, m.obj[v].type # "free",
           m.obj[v].parent = NULL, v \notin Ancestors(m, c)
    PROVE  Fades(Replace(m, c, k, v), m)
<1>1. PICK old : Lists(m, c, k, old)
  BY DEF Lists
<1> DEFINE z == Placed(m, c, k, v)
           x == Placing(m, c, k, v)
           t == NewItems(m.obj[c].items, k, v)
<1>2. HeapInv(m, h) /\ TextsOK(m, n) /\ m \in Heaps /\ h \in [Ids -> Nat]
  BY DEF Well, HeapInv
<1>3. old \in Ids \ {c, v} /\ v \in Ids \ {c} /\ m.obj[old].parent = c
  BY <1>1, <1>2, ListedApart
<1>4. Replace(m, c, k, v) = Unref(z, old)
  BY <1>1, <1>2, <1>3, ReplaceIsUnref
<1>5. Well(z, Plus(h, old), n)
  <2>1. HeapInv(z, Plus(h, old))
    BY <1>1, <1>2, PlacedKeeps DEF Plus
  <2>2. TextsOK(z, n)
    BY <1>1, <1>2, PlacedKeeps
  <2> QED BY <2>1, <2>2 DEF Well
<1>6. Fades(z, m)
  <2>1. Turned(x, m, v, old)
    BY <1>1, <1>2, <1>3, PlacingFields
  <2>2. t \in Seq(Item)
    <3> DEFINE s == m.obj[c].items
    <3>1. s \in Seq(Item) /\ k \in DOMAIN s
      BY <1>2, HeapFields
    <3> HIDE DEF s
    <3>2. NewItems(s, k, v) \in Seq(Item)
      BY <3>1, NewItem
    <3> QED BY <3>2 DEF s
  <2> HIDE DEF x, t
  <2>3. Differ(z, x, c, t, v, c)
    <3>1. x \in Heaps /\ c \in 0 .. N /\ z = Put(x, c, t, v, c)
      BY <2>1 DEF Turned, Ids, Placed, x, t
    <3> QED BY <1>3, <2>2, <3>1, PutFields
  <2> HIDE DEF z
  <2>4. Fades(x, m)
    BY <2>1 DEF Turned, SameKind, Fades
  <2>5. Fades(z, x)
    BY <2>3 DEF Differ, SameKind, Fades
  <2> QED BY <2>4, <2>5, FadesOn
<1> HIDE DEF z
<1>7. Fades(Unref(z, old), z)
  BY <1>2, <1>3, <1>5, HoldFacts, UnrefFades
<1> QED BY <1>4, <1>6, <1>7, FadesOn

LEMMA DictSetFades ==
    ASSUME NEW m, NEW h, NEW n \in Nat, Well(m, h, n), NEW d \in Ids,
           NEW key \in STRING, NEW v \in Ids, m.obj[v].type # "free"
    PROVE  Fades(DictSet(m, d, key, v), m)
<1>1. m \in Heaps
  BY DEF Well, HeapInv
<1>2. CASE Refuses(m, d, v)
  BY <1>2 DEF DictSet, Fades
<1>3. CASE ~Refuses(m, d, v)
  <2>1. m.obj[v].parent = NULL /\ v \notin Ancestors(m, d) /\ v \in Ids \ {d}
    <3>1. d \in Ancestors(m, d)
      BY <1>1, AncestorsUp
    <3> QED BY <1>3, <3>1 DEF Refuses
  <2>2. CASE At(m, d, key) # {}
    <3> DEFINE k == CHOOSE k \in At(m, d, key) : TRUE
    <3>1. k \in DOMAIN m.obj[d].items
      BY <2>2 DEF At
    <3>2. DictSet(m, d, key, v) = Replace(m, d, k, v)
      BY <1>3, <2>2 DEF DictSet
    <3> HIDE DEF k
    <3> QED BY <2>1, <3>1, <3>2, ReplaceFades
  <2>3. CASE At(m, d, key) = {}
    <3>1. DictSet(m, d, key, v) = AppendItem(m, d, key, v)
      BY <1>3, <2>3 DEF DictSet
    <3> QED BY <1>1, <2>1, <3>1, AppendFades
  <2> QED BY <2>2, <2>3
<1> QED BY <1>2, <1>3

LEMMA DictSetWell ==
    ASSUME NEW m, NEW h, NEW n \in Nat, Well(m, h, n), NEW d \in Ids,
           m.obj[d].type = "dict", NEW key \in STRING, NEW v \in Ids, m.obj[v].type # "free"
    PROVE  Well(DictSet(m, d, key, v), h, n) /\ Takes(DictSet(m, d, key, v), h, m, h, 0)
<1>1. Well(DictSet(m, d, key, v), h, n)
  <2>1. m.obj[d].type \in Containers
    BY DEF Containers
  <2> QED BY <2>1, DictSetKeeps DEF Well
<1> QED BY <1>1, DictSetFades, FadesTakes DEF Well

LEMMA PushWell ==
    ASSUME NEW m, NEW h, NEW n \in Nat, Well(m, h, n), NEW l \in Ids,
           m.obj[l].type = "list", NEW v \in Ids, m.obj[v].type # "free"
    PROVE  Well(Push(m, l, v), h, n) /\ Takes(Push(m, l, v), h, m, h, 0)
<1>1. Well(Push(m, l, v), h, n)
  BY ListSetKeeps DEF Well, Push
<1>2. m \in Heaps
  BY DEF Well, HeapInv
<1>3. CASE Refuses(m, l, v)
  <2>1. Push(m, l, v) = m
    BY <1>3 DEF Push, ListSet
  <2> QED BY <1>1, <2>1, FadesTakes DEF Fades, Well
<1>4. CASE ~Refuses(m, l, v)
  <2>1. v \in Ids \ {l}
    <3>1. l \in Ancestors(m, l)
      BY <1>2, AncestorsUp
    <3> QED BY <1>4, <3>1 DEF Refuses
  <2>2. -1 + 1 \notin DOMAIN m.obj[l].items
    BY <1>2, ValuesFacts
  <2>3. Push(m, l, v) = AppendItem(m, l, Empty, v)
    BY <1>4, <2>2 DEF Push, ListSet
  <2>4. Empty \in STRING
    BY ObjectAssumption
  <2>5. Fades(Push(m, l, v), m)
    BY <1>2, <2>1, <2>3, <2>4, AppendFades
  <2> QED BY <1>1, <2>5, FadesTakes DEF Well
<1> QED BY <1>3, <1>4

\* A reference is forgotten: the block keeps it.
LEMMA ForgetWell ==
    ASSUME NEW m, NEW h \in [Ids -> Nat], NEW n \in Nat, NEW i \in Ids,
           Well(m, Plus(h, i), n)
    PROVE  LET m2 == [m EXCEPT !.obj[i].forgot = @ + 1]
           IN /\ Well(m2, h, n) /\ Takes(m2, h, m, Plus(h, i), 0)
              /\ m2.obj[i].type = m.obj[i].type /\ m2.obj[i].forgot > 0
<1> DEFINE h1 == Plus(h, i)
           o == m.obj[i]
           b == [o EXCEPT !.forgot = @ + 1]
           m2 == [m EXCEPT !.obj[i] = b]
<1>1. /\ h1 \in [Ids -> Nat] /\ h1[i] = h[i] + 1 /\ h1[i] > 0
      /\ \A j \in Ids \ {i} : h1[j] = h[j]
  BY HoldFacts
<1> HIDE DEF h1
<1>2. HeapInv(m, h1) /\ TextsOK(m, n) /\ m \in Heaps
  BY DEF Well, HeapInv, h1
<1>3. o \in Block
  BY <1>2, HeapFields
<1>4. m2 = [m EXCEPT !.obj[i].forgot = @ + 1]
  BY <1>2 DEF Heaps
<1> HIDE DEF o
<1>5. /\ b \in Block /\ b.type = o.type /\ b.ref = o.ref /\ b.parent = o.parent
      /\ b.items = o.items /\ b.managed = o.managed /\ b.forgot = o.forgot + 1
      /\ o.forgot \in Nat
  BY <1>3 DEF Block
<1> HIDE DEF b
<1>6. m2 \in Heaps
  BY <1>2, <1>5 DEF Heaps
<1>7. /\ m2.bufs = m.bufs /\ m2.lost = m.lost /\ m2.obj[i] = b
      /\ \A j \in Ids \ {i} : m2.obj[j] = m.obj[j]
  BY <1>2 DEF Heaps
<1> HIDE DEF m2
<1>8. /\ \A j \in Ids : /\ m2.obj[j].type = m.obj[j].type /\ m2.obj[j].ref = m.obj[j].ref
                        /\ m2.obj[j].parent = m.obj[j].parent
                        /\ m2.obj[j].items = m.obj[j].items
                        /\ m2.obj[j].managed = m.obj[j].managed
      /\ \A j \in Ids \ {i} : m2.obj[j].forgot = m.obj[j].forgot
      /\ m2.obj[i].forgot = m.obj[i].forgot + 1 /\ m.obj[i].forgot \in Nat
      /\ m2.obj[i].forgot > 0
  BY <1>5, <1>7 DEF o
<1>9. m.obj[i].type # "free"
  BY <1>1, <1>2, HeldIsLive
<1>10. Counted(m2, h)
  <2> SUFFICES ASSUME NEW j \in Ids
               PROVE  m2.obj[j].ref = h[j] + Count(m2.obj[j].parent # NULL) + m2.obj[j].forgot
    BY DEF Counted
  <2>1. m.obj[j].ref = h1[j] + Count(m.obj[j].parent # NULL) + m.obj[j].forgot
    BY <1>2 DEF HeapInv, Counted
  <2>2. Count(m.obj[j].parent # NULL) \in Nat /\ h[j] \in Nat /\ m.obj[j].forgot \in Nat
    BY <1>2, HeapFields DEF Count
  <2>3. CASE j = i
    BY <1>1, <1>8, <2>1, <2>2, <2>3
  <2>4. CASE j # i
    BY <1>1, <1>8, <2>1, <2>4
  <2> QED BY <2>3, <2>4
<1>11. HeapInv(m2, h)
  <2>1. \A j \in Ids : /\ m.obj[j].type = "free" => m2.obj[j] = m.obj[j]
                       /\ m.obj[j].type # "free" => m2.obj[j].ref > 0
    BY <1>2, <1>7, <1>8, <1>9 DEF HeapInv, Alive
  <2> QED BY <1>2, <1>6, <1>8, <1>10, <2>1, SameShape
<1>12. Well(m2, h, n)
  BY <1>2, <1>7, <1>8, <1>11, SameTexts DEF Well
<1>13. Takes(m2, h, m, h1, 0)
  <2>1. Live(m2) = Live(m)
    BY <1>8 DEF Live
  <2>2. Room(m2) + 0 >= Room(m)
    BY <2>1, RoomFacts DEF Room
  <2>3. \A j \in Ids : m.obj[j].forgot > 0 => m2.obj[j].forgot > 0
    BY <1>8
  <2> QED BY <1>8, <2>2, <2>3 DEF Takes
<1> QED BY <1>4, <1>8, <1>12, <1>13 DEF h1

----------------------------------------------------------------------------
\* Calls that take a block.

LEMMA NewWell ==
    ASSUME NEW m, NEW h, NEW n \in Nat, Well(m, h, n), HasRoom(m, 1), NEW type \in Types
    PROVE  LET f == Fresh(m)
               x == NewObject(m, type)
           IN /\ f \in Ids /\ h[f] = 0 /\ m.obj[f].type = "free"
              /\ Well(x, Plus(h, f), n) /\ Takes(x, Plus(h, f), m, h, 1)
              /\ x.obj[f].type = type
<1> DEFINE f == Fresh(m)
           x == NewObject(m, type)
<1>1. HeapInv(m, h) /\ TextsOK(m, n)
  BY DEF Well
<1>2. f \in Ids /\ h[f] = 0 /\ m.obj[f].type = "free" /\ m.obj[f].forgot = 0
  BY <1>1, FreshFacts, DeadFacts
<1>3. HeapInv(x, Plus(h, f)) /\ TextsOK(x, n)
  BY <1>1, NewObjectKeeps, NewObjectTexts DEF Plus
<1>4. x.obj[f].type = type /\ \A j \in Ids \ {f} : x.obj[j] = m.obj[j]
  <2>1. Born(x, m, f, type)
    BY <1>1, NewObjectFields
  <2> HIDE DEF x, f
  <2> QED BY <2>1 DEF Born
<1> HIDE DEF x, f
<1>5. Takes(x, Plus(h, f), m, h, 1)
  BY <1>1, <1>2, <1>3, <1>4, OneMore
<1>6. Well(x, Plus(h, f), n)
  BY <1>3 DEF Well
<1> QED BY <1>2, <1>4, <1>5, <1>6 DEF x, f

\* A buffer is allocated for a call.
LEMMA AllocatedWell ==
    ASSUME NEW m, NEW h, NEW n \in Nat, Well(m, h, n), NEW managed \in BOOLEAN
    PROVE  LET y == Allocated(m, managed)
           IN /\ Well(y, h, n + Count(managed)) /\ Takes(y, h, m, h, 0)
              /\ y.obj = m.obj /\ Fresh(y) = Fresh(m) /\ Room(y) = Room(m)
              /\ \A p : HasRoom(m, p) => HasRoom(y, p)
<1> DEFINE y == Allocated(m, managed)
<1>1. HeapInv(y, h) /\ TextsOK(y, n + Count(managed)) /\ y.obj = m.obj
  BY AllocatedKeeps DEF Well
<1> HIDE DEF y
<1>2. Live(y) = Live(m)
  BY <1>1 DEF Live
<1>3. Takes(y, h, m, h, 0)
  BY <1>1, FadesTakes DEF Fades
<1>4. Fresh(y) = Fresh(m) /\ Room(y) = Room(m) /\ \A p : HasRoom(m, p) => HasRoom(y, p)
  BY <1>2 DEF Fresh, HasRoom, Room
<1> QED BY <1>1, <1>3, <1>4 DEF y, Well

LEMMA StringFromWell ==
    ASSUME NEW m, NEW h, NEW n \in Nat, NEW managed \in BOOLEAN,
           Well(m, h, n + Count(managed)), NEW from \in {"given", "made"},
           HasRoom(m, 1), NEW text \in STRING
    PROVE  LET f == Fresh(m)
               x == StringFrom(m, text, managed, from)
           IN /\ f \in Ids /\ h[f] = 0 /\ m.obj[f].type = "free"
              /\ Well(x, Plus(h, f), n) /\ Takes(x, Plus(h, f), m, h, 1)
              /\ x.obj[f].type = "string"
<1> DEFINE f == Fresh(m)
           y == NewObject(m, "string")
           x == StringFrom(m, text, managed, from)
<1>1. HeapInv(m, h) /\ TextsOK(m, n + Count(managed)) /\ "string" \in Types
  BY DEF Well, Types
<1>2. f \in Ids /\ h[f] = 0 /\ m.obj[f].type = "free" /\ m.obj[f].forgot = 0
  BY <1>1, FreshFacts, DeadFacts
<1>3. HeapInv(x, Plus(h, f)) /\ TextsOK(x, n) /\ x.obj[f].type = "string"
  BY <1>1, StringFromKeeps DEF Plus
<1>4. \A j \in Ids \ {f} : x.obj[j] = m.obj[j]
  <2>1. Born(y, m, f, "string")
    BY <1>1, NewObjectFields
  <2>2. x = StringSet(y, f, text, managed, from)
    BY DEF StringFrom
  <2> HIDE DEF x, y, f
  <2>3. y \in Heaps
    BY <2>1 DEF Born
  <2>4. \A j \in Ids \ {f} : x.obj[j] = y.obj[j]
    BY <1>2, <2>2, <2>3 DEF StringSet, Heaps
  <2> QED BY <2>1, <2>4 DEF Born
<1> HIDE DEF x, f
<1>5. Takes(x, Plus(h, f), m, h, 1)
  BY <1>1, <1>2, <1>3, <1>4, OneMore
<1>6. Well(x, Plus(h, f), n)
  BY <1>3 DEF Well
<1> QED BY <1>2, <1>3, <1>5, <1>6 DEF x, f

LEMMA ScalarFromWell ==
    ASSUME NEW m, NEW h, NEW n \in Nat, Well(m, h, n), HasRoom(m, 1), NEW text \in STRING
    PROVE  LET f == Fresh(m)
               x == ScalarFrom(m, text)
           IN /\ f \in Ids /\ h[f] = 0 /\ m.obj[f].type = "free"
              /\ Well(x, Plus(h, f), n) /\ Takes(x, Plus(h, f), m, h, 1)
<1> DEFINE f == Fresh(m)
           y == NewObject(m, "scalar")
           x == ScalarFrom(m, text)
<1>1. HeapInv(m, h) /\ TextsOK(m, n) /\ "scalar" \in Types
  BY DEF Well, Types
<1>2. f \in Ids /\ h[f] = 0 /\ m.obj[f].type = "free" /\ m.obj[f].forgot = 0
  BY <1>1, FreshFacts, DeadFacts
<1>3. HeapInv(x, Plus(h, f)) /\ TextsOK(x, n)
  BY <1>1, ScalarFromKeeps DEF Plus
<1>4. \A j \in Ids \ {f} : x.obj[j] = m.obj[j]
  <2>1. Born(y, m, f, "scalar")
    BY <1>1, NewObjectFields
  <2>2. x = ScalarSet(y, f, text)
    BY DEF ScalarFrom
  <2> HIDE DEF x, y, f
  <2>3. y \in Heaps
    BY <2>1 DEF Born
  <2>4. \A j \in Ids \ {f} : x.obj[j] = y.obj[j]
    BY <1>2, <2>2, <2>3 DEF ScalarSet, Heaps
  <2> QED BY <2>1, <2>4 DEF Born
<1> HIDE DEF x, f
<1>5. Takes(x, Plus(h, f), m, h, 1)
  BY <1>1, <1>2, <1>3, <1>4, OneMore
<1>6. Well(x, Plus(h, f), n)
  BY <1>3 DEF Well
<1> QED BY <1>2, <1>5, <1>6 DEF x, f

\* A new value f is put in a dict that was there before.
LEMMA PutNewWell ==
    ASSUME NEW m, NEW h, NEW n \in Nat, Well(m, h, n),
           NEW x, NEW k \in Nat, NEW f \in Ids, NEW p \in Nat,
           Well(x, Plus(h, f), p), Takes(x, Plus(h, f), m, h, k),
           NEW d \in Ids, h[d] > 0, m.obj[d].type = "dict", NEW key \in STRING
    PROVE  LET y == DictSet(x, d, key, f)
           IN Well(y, Plus(h, f), p) /\ Takes(y, Plus(h, f), m, h, k)
<1> DEFINE y == DictSet(x, d, key, f)
           g == Plus(h, f)
<1>1. h \in [Ids -> Nat]
  BY DEF Well, HeapInv
<1>2. g[f] > 0 /\ \A j \in Ids : h[j] > 0 => g[j] > 0
  BY <1>1, HoldFacts
<1> HIDE DEF g
<1>3. x.obj[d].type = "dict" /\ x.obj[f].type # "free"
  <2>1. x.obj[d].type = "dict"
    BY <1>2 DEF Takes, g
  <2>2. HeapInv(x, g)
    BY DEF Well, g
  <2> QED BY <1>2, <2>1, <2>2, HeldIsLive
<1>4. Well(x, g, p) /\ Takes(x, g, m, h, k)
  BY DEF g
<1>5. Well(y, g, p) /\ Takes(y, g, x, g, 0)
  BY <1>3, <1>4, DictSetWell
<1> HIDE DEF y
<1>6. Takes(y, g, m, h, k + 0)
  BY <1>2, <1>4, <1>5, TakesOn
<1> QED BY <1>5, <1>6 DEF y, g

\* A value is put in a dict and the creator's reference given up.
LEMMA AddNewWell ==
    ASSUME NEW m, NEW h, NEW n \in Nat, Well(m, h, n),
           NEW x, NEW k \in Nat, NEW f \in Ids, NEW p \in Nat,
           Well(x, Plus(h, f), p), Takes(x, Plus(h, f), m, h, k),
           NEW d \in Ids, h[d] > 0, m.obj[d].type = "dict", NEW key \in STRING
    PROVE  LET z == Unref(DictSet(x, d, key, f), f)
           IN Well(z, h, p) /\ Takes(z, h, m, h, k)
<1> DEFINE y == DictSet(x, d, key, f)
           g == Plus(h, f)
           z == Unref(y, f)
<1>1. h \in [Ids -> Nat]
  BY DEF Well, HeapInv
<1>2. \A j \in Ids : h[j] > 0 => g[j] > 0
  BY <1>1, HoldFacts
<1>3. Well(y, g, p) /\ Takes(y, g, m, h, k)
  BY PutNewWell
<1> HIDE DEF y
<1>4. Well(z, h, p) /\ Takes(z, h, y, g, 0)
  BY <1>1, <1>3, GivenBack
<1> HIDE DEF z, g
<1>5. Takes(z, h, m, h, k + 0)
  BY <1>2, <1>3, <1>4, TakesOn
<1> QED BY <1>4, <1>5 DEF y, z

\* A value is put in a dict and the creator's reference forgotten.
LEMMA LeaveNewWell ==
    ASSUME NEW m, NEW h, NEW n \in Nat, Well(m, h, n),
           NEW x, NEW k \in Nat, NEW f \in Ids, NEW p \in Nat,
           Well(x, Plus(h, f), p), Takes(x, Plus(h, f), m, h, k),
           NEW d \in Ids, h[d] > 0, m.obj[d].type = "dict", NEW key \in STRING
    PROVE  LET z == [DictSet(x, d, key, f) EXCEPT !.obj[f].forgot = @ + 1]
           IN Well(z, h, p) /\ Takes(z, h, m, h, k)
<1> DEFINE y == DictSet(x, d, key, f)
           g == Plus(h, f)
           z == [y EXCEPT !.obj[f].forgot = @ + 1]
<1>1. h \in [Ids -> Nat]
  BY DEF Well, HeapInv
<1>2. \A j \in Ids : h[j] > 0 => g[j] > 0
  BY <1>1, HoldFacts
<1>3. Well(y, g, p) /\ Takes(y, g, m, h, k)
  BY PutNewWell
<1> HIDE DEF y
<1>4. Well(z, h, p) /\ Takes(z, h, y, g, 0)
  BY <1>1, <1>3, ForgetWell
<1> HIDE DEF z, g
<1>5. Takes(z, h, m, h, k + 0)
  BY <1>2, <1>3, <1>4, TakesOn
<1> QED BY <1>4, <1>5 DEF y, z

----------------------------------------------------------------------------
\* The functions that set an entry of a dict take one block at most.

\* d is a dict the call holds, there is room, nothing else is going on.
Ready(m, h, n, d) ==
    /\ Well(m, h, n) /\ d \in Ids /\ h[d] > 0 /\ m.obj[d].type = "dict"

Adds(m2, m, h, n, k) == Well(m2, h, n) /\ Takes(m2, h, m, h, k)

LEMMA SetStringAdds ==
    ASSUME NEW m, NEW h, NEW n \in Nat, NEW managed \in BOOLEAN, NEW d,
           Ready(m, h, n + Count(managed), d), HasRoom(m, 1),
           NEW key \in STRING, NEW text \in STRING, NEW from \in {"given", "made"}
    PROVE  Adds(DictSetStringUnref(m, d, key, text, managed, from), m, h, n, 1)
<1> DEFINE f == Fresh(m)
           x == StringFrom(m, text, managed, from)
           z == Unref(DictSet(x, d, key, f), f)
           q == n + Count(managed)
<1>1. /\ Well(m, h, q) /\ d \in Ids /\ h[d] > 0 /\ m.obj[d].type = "dict" /\ q \in Nat
  BY CountFacts DEF Ready
<1>2. f \in Ids /\ Well(x, Plus(h, f), n) /\ Takes(x, Plus(h, f), m, h, 1)
  BY <1>1, StringFromWell
<1>3. DictSetStringUnref(m, d, key, text, managed, from) = z
  BY DEF DictSetStringUnref
<1> HIDE DEF f, x, q
<1>4. Well(z, h, n) /\ Takes(z, h, m, h, 1)
  BY <1>1, <1>2, AddNewWell
<1> QED BY <1>3, <1>4 DEF Adds

LEMMA SetLiteralAdds ==
    ASSUME NEW m, NEW h, NEW n \in Nat, NEW d, Ready(m, h, n, d), HasRoom(m, 1),
           NEW key \in STRING, NEW text \in STRING
    PROVE  Adds(SetLiteral(m, d, key, text), m, h, n, 1)
<1>1. n + Count(FALSE) = n
  BY DEF Count
<1>2. Ready(m, h, n + Count(FALSE), d)
  BY <1>1
<1>3. Adds(DictSetStringUnref(m, d, key, text, FALSE, "made"), m, h, n, 1)
  BY <1>2, SetStringAdds
<1> QED BY <1>3 DEF SetLiteral

LEMMA AllocatedReady ==
    ASSUME NEW m, NEW h, NEW n \in Nat, NEW managed \in BOOLEAN, NEW d, Ready(m, h, n, d)
    PROVE  LET y == Allocated(m, managed)
           IN /\ Ready(y, h, n + Count(managed), d) /\ Takes(y, h, m, h, 0)
              /\ Fresh(y) = Fresh(m) /\ \A p : HasRoom(m, p) => HasRoom(y, p)
<1> DEFINE y == Allocated(m, managed)
<1>1. Well(m, h, n) /\ d \in Ids /\ h[d] > 0 /\ m.obj[d].type = "dict"
  BY DEF Ready
<1>2. /\ Well(y, h, n + Count(managed)) /\ Takes(y, h, m, h, 0)
      /\ y.obj = m.obj /\ Fresh(y) = Fresh(m)
      /\ \A p : HasRoom(m, p) => HasRoom(y, p)
  BY <1>1, AllocatedWell
<1> HIDE DEF y
<1>3. Ready(y, h, n + Count(managed), d)
  BY <1>1, <1>2 DEF Ready
<1> QED BY <1>2, <1>3 DEF y

LEMMA AddsOn ==
    ASSUME NEW m, NEW m1, NEW m2, NEW h, NEW n, NEW p, NEW k \in Nat, NEW l \in Nat,
           Adds(m1, m, h, n, k), Adds(m2, m1, h, p, l)
    PROVE  Adds(m2, m, h, p, k + l)
<1>1. Takes(m1, h, m, h, k) /\ Takes(m2, h, m1, h, l)
  BY DEF Adds
<1>2. Takes(m2, h, m, h, k + l)
  BY <1>1, TakesOn
<1> QED BY <1>2 DEF Adds

\* What is ready stays so, with less room.
LEMMA StillReady ==
    ASSUME NEW m, NEW m1, NEW h, NEW n, NEW p, NEW d, NEW k \in Nat, NEW l \in Nat,
           Ready(m, h, n, d), Adds(m1, m, h, p, k), HasRoom(m, k + l)
    PROVE  Ready(m1, h, p, d) /\ HasRoom(m1, l)
<1>1. Well(m, h, n) /\ d \in Ids /\ h[d] > 0 /\ m.obj[d].type = "dict"
  BY DEF Ready
<1>2. Well(m1, h, p) /\ Takes(m1, h, m, h, k)
  BY DEF Adds
<1>3. Ready(m1, h, p, d)
  BY <1>1, <1>2 DEF Ready, Takes
<1>4. HasRoom(m1, l)
  <2>1. Room(m) >= k + l /\ Room(m1) + k >= Room(m)
    BY <1>2, RoomFacts DEF Takes
  <2>2. Room(m1) \in Nat /\ Room(m) \in Nat
    BY RoomFacts
  <2>3. Room(m1) >= l
    BY <2>1, <2>2
  <2> QED BY <2>3, RoomFacts
<1> QED BY <1>3, <1>4

LEMMA SetCopyAdds ==
    ASSUME NEW m, NEW h, NEW n \in Nat, NEW d, Ready(m, h, n, d), HasRoom(m, 1),
           NEW key \in STRING, NEW text \in STRING
    PROVE  Adds(SetCopy(m, d, key, text), m, h, n, 1)
<1> DEFINE y == Allocated(m, TRUE)
           z == DictSetStringUnref(y, d, key, text, TRUE, "made")
<1>1. Ready(y, h, n + Count(TRUE), d) /\ Takes(y, h, m, h, 0) /\ HasRoom(y, 1)
  BY AllocatedReady
<1> HIDE DEF y
<1>2. Adds(z, y, h, n, 1)
  BY <1>1, SetStringAdds
<1> HIDE DEF z
<1>3. Adds(y, m, h, n + Count(TRUE), 0)
  BY <1>1 DEF Adds, Ready
<1>4. Adds(z, m, h, n, 0 + 1)
  BY <1>2, <1>3, AddsOn
<1>5. Adds(z, m, h, n, 1)
  BY <1>4
<1> QED BY <1>5 DEF z, y, SetCopy

LEMMA SetScalarAdds ==
    ASSUME NEW m, NEW h, NEW n \in Nat, NEW d, Ready(m, h, n, d), HasRoom(m, 1),
           NEW key \in STRING, NEW text \in STRING
    PROVE  Adds(DictSetScalarUnref(m, d, key, text), m, h, n, 1)
<1> DEFINE f == Fresh(m)
           x == ScalarFrom(m, text)
           z == Unref(DictSet(x, d, key, f), f)
<1>1. Well(m, h, n) /\ d \in Ids /\ h[d] > 0 /\ m.obj[d].type = "dict"
  BY DEF Ready
<1>2. f \in Ids /\ Well(x, Plus(h, f), n) /\ Takes(x, Plus(h, f), m, h, 1)
  BY <1>1, ScalarFromWell
<1>3. DictSetScalarUnref(m, d, key, text) = z
  BY DEF DictSetScalarUnref
<1> HIDE DEF f, x
<1>4. Well(z, h, n) /\ Takes(z, h, m, h, 1)
  BY <1>1, <1>2, AddNewWell
<1> QED BY <1>3, <1>4 DEF Adds

LEMMA SetForgottenAdds ==
    ASSUME NEW m, NEW h, NEW n \in Nat, NEW d, Ready(m, h, n, d), HasRoom(m, 1),
           NEW key \in STRING, NEW text \in STRING
    PROVE  Adds(SetForgotten(m, d, key, text), m, h, n, 1)
<1> DEFINE y == Allocated(m, TRUE)
           f == Fresh(m)
           x == StringFrom(y, text, TRUE, "made")
           z == [DictSet(x, d, key, f) EXCEPT !.obj[f].forgot = @ + 1]
<1>1. /\ Ready(y, h, n + Count(TRUE), d) /\ Takes(y, h, m, h, 0) /\ HasRoom(y, 1)
      /\ Fresh(y) = f
  BY AllocatedReady
<1>2. SetForgotten(m, d, key, text) = z
  BY DEF SetForgotten
<1> HIDE DEF y, f
<1>3. /\ Well(y, h, n + Count(TRUE)) /\ d \in Ids /\ h[d] > 0 /\ y.obj[d].type = "dict"
      /\ n + Count(TRUE) \in Nat
  <2>1. n + Count(TRUE) \in Nat
    BY DEF Count
  <2> QED BY <1>1, <2>1 DEF Ready
<1>4. f \in Ids /\ Well(x, Plus(h, f), n) /\ Takes(x, Plus(h, f), y, h, 1)
  BY <1>1, <1>3, StringFromWell
<1> HIDE DEF x
<1>5. Well(z, h, n) /\ Takes(z, h, y, h, 1)
  BY <1>3, <1>4, LeaveNewWell
<1> HIDE DEF z
<1>6. Adds(y, m, h, n + Count(TRUE), 0) /\ Adds(z, y, h, n, 1)
  BY <1>1, <1>3, <1>5 DEF Adds
<1>7. Adds(z, m, h, n, 0 + 1)
  BY <1>6, AddsOn
<1>8. Adds(z, m, h, n, 1)
  BY <1>7
<1> QED BY <1>2, <1>8

----------------------------------------------------------------------------
\* The properties given to a vector's constructor, one after the other.

PushStep(m, list, props, F, k) ==
    IF k = 0 THEN m ELSE Unref(Push(F[k - 1], list, props[k]), props[k])

IsPushed(m, list, props, F, k) == F = [n \in 0 .. k |-> PushStep(m, list, props, F, n)]

LEMMA PushedExists ==
    ASSUME NEW m, NEW list, NEW props, NEW k \in Nat
    PROVE  \E F : IsPushed(m, list, props, F, k)
<1> DEFINE Bad == {n \in Nat : ~ \E F : IsPushed(m, list, props, F, n)}
<1> SUFFICES ASSUME Bad # {} PROVE FALSE
  OBVIOUS
<1>1. PICK x \in Bad : \A y \in Bad : x <= y
  BY Smallest
<1>2. PICK F : x # 0 => IsPushed(m, list, props, F, x - 1)
  <2>1. x # 0 => x - 1 \in Nat /\ x - 1 \notin Bad
    BY <1>1
  <2> QED BY <2>1
<1> DEFINE G == [n \in 0 .. x |-> IF n = x THEN PushStep(m, list, props, F, x) ELSE F[n]]
<1>3. /\ x \in Nat /\ G = [n \in 0 .. x |-> G[n]] /\ G[x] = PushStep(m, list, props, F, x)
      /\ \A n \in 0 .. x - 1 : G[n] = F[n]
  OBVIOUS
<1> HIDE DEF G, Bad
<1>4. ASSUME NEW n \in 0 .. x
      PROVE  G[n] = PushStep(m, list, props, G, n)
  <2>1. G[n] = PushStep(m, list, props, F, n)
    <3>1. n = x \/ (x # 0 /\ n \in 0 .. x - 1)
      BY <1>3
    <3>2. CASE n = x
      BY <1>3, <3>2
    <3>3. CASE x # 0 /\ n \in 0 .. x - 1
      <4>1. \A j \in 0 .. x - 1 : F[j] = PushStep(m, list, props, F, j)
        BY <1>2, <3>3 DEF IsPushed
      <4>2. F[n] = PushStep(m, list, props, F, n) /\ G[n] = F[n]
        BY <1>3, <3>3, <4>1
      <4> QED BY <4>2
    <3> QED BY <3>1, <3>2, <3>3
  <2>2. PushStep(m, list, props, F, n) = PushStep(m, list, props, G, n)
    <3>1. ASSUME n # 0 PROVE F[n - 1] = G[n - 1]
      <4>1. n - 1 \in 0 .. x - 1
        BY <1>3, <3>1
      <4> QED BY <1>3, <4>1
    <3> QED BY <3>1 DEF PushStep
  <2> QED BY <2>1, <2>2
<1>5. IsPushed(m, list, props, G, x)
  BY <1>3, <1>4 DEF IsPushed
<1> QED BY <1>1, <1>5 DEF Bad

LEMMA PushPropsIs ==
    ASSUME NEW m, NEW list, NEW props, Len(props) \in Nat
    PROVE  \E F : IsPushed(m, list, props, F, Len(props))
                  /\ PushProps(m, list, props) = F[Len(props)]
<1> DEFINE G == CHOOSE F : IsPushed(m, list, props, F, Len(props))
<1>1. IsPushed(m, list, props, G, Len(props))
  BY PushedExists
<1>2. PushProps(m, list, props) = G[Len(props)]
  BY DEF PushProps, IsPushed, PushStep
<1> QED BY <1>1, <1>2

\* What is held once the first k of s are given away.
Given(h, s, k) == [i \in Ids |-> h[i] - Count(\E j \in 1 .. k : s[j] = i)]

LEMMA PushPropsWell ==
    ASSUME NEW m, NEW h, NEW n \in Nat, Well(m, h, n),
           NEW list \in Ids, h[list] > 0, m.obj[list].type = "list",
           NEW props \in Seq(Ids), \A j \in 1 .. Len(props) : h[props[j]] > 0,
           \A j, k \in 1 .. Len(props) : props[j] = props[k] => j = k,
           \A j \in 1 .. Len(props) : props[j] # list
    PROVE  LET x == PushProps(m, list, props)
               g == Given(h, props, Len(props))
           IN Well(x, g, n) /\ Takes(x, g, m, h, 0)
<1> DEFINE K == Len(props)
           g(k) == Given(h, props, k)
<1>1. PICK F : IsPushed(m, list, props, F, K) /\ PushProps(m, list, props) = F[K]
  BY PushPropsIs
<1>2. /\ F[0] = m /\ K \in Nat
      /\ \A k \in 1 .. K : F[k] = Unref(Push(F[k - 1], list, props[k]), props[k])
  <2>1. K \in Nat
    OBVIOUS
  <2>2. \A k \in 0 .. K : F[k] = PushStep(m, list, props, F, k)
    BY <1>1 DEF IsPushed
  <2> QED BY <2>1, <2>2 DEF PushStep
<1>3. h \in [Ids -> Nat]
  BY DEF Well, HeapInv
<1>4. \A k \in 0 .. K : /\ g(k)[list] = h[list]
                        /\ \A i \in Ids : g(k)[i] > 0 => h[i] > 0
  BY <1>2, <1>3 DEF Given, Count
<1>5. ASSUME NEW k \in 1 .. K
      PROVE  /\ g(k - 1)[props[k]] > 0 /\ g(k) = Minus(g(k - 1), props[k])
             /\ props[k] \in Ids
  <2> DEFINE p == props[k]
  <2>1. p \in Ids /\ h[p] > 0 /\ h[p] \in Nat
    BY <1>2, <1>3
  <2>2. ~ \E j \in 1 .. k - 1 : props[j] = p
    BY <1>2
  <2>3. g(k - 1)[p] = h[p]
    BY <1>3, <2>1, <2>2 DEF Given, Count
  <2>4. g(k)[p] = h[p] - 1
    BY <1>3, <2>1 DEF Given, Count
  <2>5. \A i \in Ids \ {p} : g(k)[i] = g(k - 1)[i]
    <3> SUFFICES ASSUME NEW i \in Ids \ {p} PROVE g(k)[i] = g(k - 1)[i]
      OBVIOUS
    <3>1. (\E j \in 1 .. k : props[j] = i) <=> (\E j \in 1 .. k - 1 : props[j] = i)
      BY <1>2
    <3> QED BY <3>1 DEF Given
  <2>6. g(k) = Minus(g(k - 1), p)
    <3> DEFINE a == g(k - 1)
               b == g(k)
    <3>1. DOMAIN a = Ids /\ DOMAIN b = Ids /\ b = [i \in Ids |-> b[i]]
                 /\ a = [i \in Ids |-> a[i]]
      BY DEF Given
    <3> HIDE DEF a, b
    <3>2. b = [a EXCEPT ![p] = @ - 1]
      BY <2>1, <2>3, <2>4, <2>5, <3>1 DEF a, b
    <3> QED BY <3>2 DEF a, b, Minus
  <2> QED BY <2>1, <2>3, <2>6
<1>6. \A k \in 0 .. K : Well(F[k], g(k), n) /\ Takes(F[k], g(k), m, h, 0)
  <2> DEFINE Fine(k) == Well(F[k], g(k), n) /\ Takes(F[k], g(k), m, h, 0)
             Bad == {k \in 0 .. K : ~ Fine(k)}
  <2> SUFFICES ASSUME Bad # {} PROVE FALSE
    OBVIOUS
  <2>1. PICK x \in Bad : \A y \in Bad : x <= y
    <3>1. Bad \subseteq Nat
      BY <1>2
    <3> HIDE DEF Bad
    <3> QED BY <3>1, Smallest
  <2>2. Fine(0)
    <3>1. g(0) = h
      BY <1>3 DEF Given, Count
    <3>2. Takes(m, h, m, h, 0)
      BY FadesTakes DEF Well, Fades
    <3> QED BY <1>2, <3>1, <3>2
  <2>3. x \in 1 .. K /\ x - 1 \in 0 .. K /\ Fine(x - 1)
    BY <1>2, <2>1, <2>2
  <2> DEFINE m1 == F[x - 1]
             h1 == g(x - 1)
             p == props[x]
             y == Push(m1, list, p)
  <2>4. Well(m1, h1, n) /\ Takes(m1, h1, m, h, 0) /\ h1[list] > 0 /\ h1[p] > 0 /\ p \in Ids
    BY <1>4, <1>5, <2>3
  <2>5. F[x] = Unref(y, p) /\ g(x) = Minus(h1, p)
    BY <1>2, <1>5, <2>3
  <2>6. \A j \in Ids : g(x)[j] > 0 => h1[j] > 0
    BY <1>3, <2>3 DEF Given, Count
  <2> HIDE DEF m1, h1, p, Bad, Fine, g
  <2>7. m1.obj[list].type = "list"
    BY <2>4 DEF Takes
  <2>8. m1.obj[p].type # "free"
    BY <2>4, HeldIsLive DEF Well
  <2>9. Well(y, h1, n) /\ Takes(y, h1, m1, h1, 0)
    BY <2>4, <2>7, <2>8, PushWell
  <2> HIDE DEF y
  <2>10. Well(F[x], g(x), n) /\ Takes(F[x], g(x), y, h1, 0)
    BY <2>4, <2>5, <2>9, UnrefWell
  <2>11. Takes(F[x], g(x), m1, h1, 0)
    <3>1. Takes(F[x], g(x), m1, h1, 0 + 0)
      BY <2>9, <2>10, TakesOn
    <3> QED BY <3>1
  <2>12. Takes(F[x], g(x), m, h, 0)
    <3>1. Takes(F[x], g(x), m, h, 0 + 0)
      BY <2>4, <2>6, <2>11, TakesOn
    <3> QED BY <3>1
  <2> QED BY <2>1, <2>10, <2>12 DEF Fine, Bad
<1> HIDE DEF g
<1>7. Well(F[K], g(K), n) /\ Takes(F[K], g(K), m, h, 0)
  BY <1>2, <1>6
<1> QED BY <1>1, <1>7 DEF g

----------------------------------------------------------------------------
\* The constructors.

\* A new dict d, held by whoever calls.
Makes(m2, m, h, n, d, k) ==
    /\ h[d] = 0 /\ m.obj[d].type = "free"
    /\ Ready(m2, Plus(h, d), n, d) /\ Takes(m2, Plus(h, d), m, h, k)

LEMMA DictMakes ==
    ASSUME NEW m, NEW h, NEW n \in Nat, Well(m, h, n), HasRoom(m, 1)
    PROVE  Makes(NewObject(m, "dict"), m, h, n, Fresh(m), 1)
<1> DEFINE d == Fresh(m)
           x == NewObject(m, "dict")
<1>1. /\ d \in Ids /\ h[d] = 0 /\ m.obj[d].type = "free"
      /\ Well(x, Plus(h, d), n) /\ Takes(x, Plus(h, d), m, h, 1)
      /\ x.obj[d].type = "dict"
  BY TypesAre, NewWell
<1>2. h \in [Ids -> Nat]
  BY DEF Well, HeapInv
<1> HIDE DEF d, x
<1>3. Plus(h, d)[d] > 0
  BY <1>1, <1>2, HoldFacts
<1> QED BY <1>1, <1>3 DEF Makes, Ready, d, x

LEMMA MakesOn ==
    ASSUME NEW m, NEW h \in [Ids -> Nat], NEW m1, NEW m2, NEW n, NEW p, NEW d,
           NEW k \in Nat, NEW l \in Nat,
           Makes(m1, m, h, n, d, k), Adds(m2, m1, Plus(h, d), p, l)
    PROVE  Makes(m2, m, h, p, d, k + l)
<1> DEFINE g == Plus(h, d)
<1>1. /\ h[d] = 0 /\ m.obj[d].type = "free" /\ d \in Ids
      /\ Takes(m1, g, m, h, k) /\ m1.obj[d].type = "dict" /\ g[d] > 0
  BY DEF Makes, Ready
<1>2. Well(m2, g, p) /\ Takes(m2, g, m1, g, l)
  BY DEF Adds
<1>3. \A j \in Ids : h[j] > 0 => g[j] > 0
  BY <1>1, HoldFacts
<1> HIDE DEF g
<1>4. Takes(m2, g, m, h, k + l)
  BY <1>1, <1>2, <1>3, TakesOn
<1>5. m2.obj[d].type = "dict"
  BY <1>1, <1>2 DEF Takes
<1> QED BY <1>1, <1>2, <1>4, <1>5 DEF Makes, Ready, g

LEMMA MakesRoom ==
    ASSUME NEW m, NEW h, NEW m1, NEW n, NEW d, NEW k \in Nat, NEW l \in Nat,
           Makes(m1, m, h, n, d, k), HasRoom(m, k + l)
    PROVE  Ready(m1, Plus(h, d), n, d) /\ HasRoom(m1, l)
<1>1. Room(m1) + k >= Room(m) /\ Room(m) >= k + l /\ Ready(m1, Plus(h, d), n, d)
  BY RoomFacts DEF Makes, Takes
<1>2. Room(m1) \in Nat /\ Room(m) \in Nat
  BY RoomFacts
<1>3. Room(m1) >= l
  BY <1>1, <1>2
<1> QED BY <1>1, <1>3, RoomFacts

LEMMA StringsAre ==
    /\ Name \in STRING /\ Empty \in STRING /\ Texts \subseteq STRING
    /\ "<>" \in STRING /\ "@name" \in STRING /\ "$" \in STRING /\ "children" \in STRING
    /\ Kinds \subseteq STRING
  BY ObjectAssumption, VectorAssumption, LiteralAssumption DEF Entries

\* A dict with its tag and its name.
Titled(m, kind) ==
    SetCopy(SetLiteral(NewObject(m, "dict"), Fresh(m), "<>", kind), Fresh(m), "@name", Name)

LEMMA TitledMakes ==
    ASSUME NEW m, NEW h, NEW n \in Nat, Well(m, h, n), HasRoom(m, 3), NEW kind \in STRING
    PROVE  Makes(Titled(m, kind), m, h, n, Fresh(m), 3)
<1> DEFINE d == Fresh(m)
           m1 == NewObject(m, "dict")
           m2 == SetLiteral(m1, d, "<>", kind)
           m3 == SetCopy(m2, d, "@name", Name)
           g == Plus(h, d)
<1>1. h \in [Ids -> Nat]
  BY DEF Well, HeapInv
<1>2. HasRoom(m, 1 + 2) /\ HasRoom(m, 2 + 1) /\ HasRoom(m, 1)
  BY RoomFacts
<1>3. Titled(m, kind) = m3
  BY DEF Titled
<1>4. Makes(m1, m, h, n, d, 1)
  BY <1>2, DictMakes
<1> HIDE DEF d, m1
<1>5. Makes(m2, m, h, n, d, 2)
  <2>1. Ready(m1, g, n, d) /\ HasRoom(m1, 2)
    BY <1>2, <1>4, MakesRoom
  <2>2. HasRoom(m1, 1)
    BY <2>1, RoomFacts
  <2> HIDE DEF g
  <2>3. Adds(m2, m1, g, n, 1)
    BY <2>1, <2>2, StringsAre, SetLiteralAdds
  <2> HIDE DEF m2
  <2>4. Makes(m2, m, h, n, d, 1 + 1)
    BY <1>1, <1>4, <2>3, MakesOn DEF g
  <2> QED BY <2>4
<1> HIDE DEF m2
<1>6. Makes(m3, m, h, n, d, 3)
  <2>1. Ready(m2, g, n, d) /\ HasRoom(m2, 1)
    BY <1>2, <1>5, MakesRoom
  <2> HIDE DEF g
  <2>2. Adds(m3, m2, g, n, 1)
    BY <2>1, StringsAre, SetCopyAdds
  <2> HIDE DEF m3
  <2>3. Makes(m3, m, h, n, d, 2 + 1)
    BY <1>1, <1>5, <2>2, MakesOn DEF g
  <2> QED BY <2>3
<1> QED BY <1>3, <1>6 DEF d

LEMMA PropNewMakes ==
    ASSUME NEW m, NEW h, NEW n \in Nat, NEW managed \in BOOLEAN,
           Well(m, h, n + Count(managed)), HasRoom(m, 4), NEW kind \in STRING,
           NEW value \in STRING, NEW from \in {"given", "made"}
    PROVE  Makes(PropNew(m, kind, value, managed, from), m, h, n, Fresh(m), 4)
<1> DEFINE d == Fresh(m)
           q == n + Count(managed)
           m3 == Titled(m, kind)
           m4 == DictSetStringUnref(m3, d, "$", value, managed, from)
           g == Plus(h, d)
<1>1. h \in [Ids -> Nat]
  BY DEF Well, HeapInv
<1>2. HasRoom(m, 3 + 1) /\ HasRoom(m, 3)
  BY RoomFacts
<1>3. PropNew(m, kind, value, managed, from) = m4
  BY DEF PropNew, Titled
<1>4. Makes(m3, m, h, q, d, 3)
  <2>1. q \in Nat /\ Well(m, h, q)
    BY CountFacts
  <2> HIDE DEF q
  <2> QED BY <1>2, <2>1, TitledMakes
<1> HIDE DEF d, m3
<1>5. Ready(m3, g, q, d) /\ HasRoom(m3, 1)
  <2> HIDE DEF q
  <2> QED BY <1>2, <1>4, MakesRoom
<1> HIDE DEF g
<1>6. Adds(m4, m3, g, n, 1)
  BY <1>5, StringsAre, SetStringAdds
<1> HIDE DEF m4, q
<1>7. Makes(m4, m, h, n, d, 3 + 1)
  BY <1>1, <1>4, <1>6, MakesOn DEF g
<1>8. Makes(m4, m, h, n, d, 4)
  BY <1>7
<1> QED BY <1>3, <1>8 DEF d

LEMMA StreamPropNewMakes ==
    ASSUME NEW m, NEW h, NEW n \in Nat, Well(m, h, n), HasRoom(m, 3)
    PROVE  Makes(StreamPropNewIn(m), m, h, n, Fresh(m), 3)
<1>1. StreamPropNewIn(m) = Titled(m, "stream")
  BY DEF StreamPropNewIn, Titled
<1>2. "stream" \in STRING
  BY StringsAre DEF Kinds
<1>3. Makes(Titled(m, "stream"), m, h, n, Fresh(m), 3)
  BY <1>2, TitledMakes
<1> QED BY <1>1, <1>3

\* A new dict and, apart from it, a new list: both are held.
Paired(m2, m, h, n, d, l, k) ==
    /\ l \in Ids /\ d # l /\ h[d] = 0 /\ h[l] = 0
    /\ Ready(m2, Plus(Plus(h, d), l), n, d) /\ m2.obj[l].type = "list"
    /\ Takes(m2, Plus(Plus(h, d), l), m, h, k)

LEMMA PairHolds ==
    ASSUME NEW h \in [Ids -> Nat], NEW d \in Ids, NEW l \in Ids
    PROVE  /\ Plus(h, d) \in [Ids -> Nat] /\ Plus(Plus(h, d), l) \in [Ids -> Nat]
           /\ Plus(Plus(h, d), l)[d] > 0 /\ Plus(Plus(h, d), l)[l] > 0
           /\ \A j \in Ids : Plus(Plus(h, d), l)[j] >= h[j]
           /\ \A j \in Ids : h[j] > 0 => Plus(Plus(h, d), l)[j] > 0
<1> DEFINE g == Plus(h, d)
<1>1. /\ g \in [Ids -> Nat] /\ g[d] > 0 /\ \A j \in Ids : g[j] >= h[j]
  BY HoldFacts
<1> HIDE DEF g
<1>2. /\ Plus(g, l) \in [Ids -> Nat] /\ Plus(g, l)[l] > 0
      /\ \A j \in Ids : Plus(g, l)[j] >= g[j]
  BY <1>1, HoldFacts
<1>3. \A j \in Ids : Plus(g, l)[j] \in Nat /\ g[j] \in Nat /\ h[j] \in Nat
  BY <1>1, <1>2
<1>4. \A j \in Ids : Plus(g, l)[j] >= h[j]
  BY <1>1, <1>2, <1>3
<1>5. Plus(g, l)[d] > 0
  BY <1>1, <1>2, <1>3
<1>6. \A j \in Ids : h[j] > 0 => Plus(g, l)[j] > 0
  BY <1>3, <1>4
<1> QED BY <1>1, <1>2, <1>4, <1>5, <1>6 DEF g

\* After a dict is made, and perhaps filled, a list is.
LEMMA ListMakes ==
    ASSUME NEW m, NEW h, NEW m0, NEW n \in Nat, NEW d, NEW k \in Nat, Well(m, h, n),
           Makes(m0, m, h, n, d, k), HasRoom(m, k + 1)
    PROVE  Paired(NewObject(m0, "list"), m, h, n, d, Fresh(m0), k + 1)
<1> DEFINE l == Fresh(m0)
           g0 == Plus(h, d)
           x == NewObject(m0, "list")
           g == Plus(g0, l)
<1>1. h \in [Ids -> Nat]
  BY DEF Well, HeapInv
<1>2. /\ h[d] = 0 /\ d \in Ids /\ Well(m0, g0, n) /\ g0[d] > 0 /\ m0.obj[d].type = "dict"
      /\ Takes(m0, g0, m, h, k) /\ HasRoom(m0, 1)
  BY MakesRoom DEF Makes, Ready
<1>3. g0 \in [Ids -> Nat] /\ \A j \in Ids : g0[j] >= h[j]
  BY <1>1, <1>2, HoldFacts
<1> HIDE DEF g0
<1>4. /\ l \in Ids /\ g0[l] = 0 /\ Well(x, g, n) /\ Takes(x, g, m0, g0, 1)
      /\ x.obj[l].type = "list"
  BY <1>2, TypesAre, NewWell
<1> HIDE DEF x, l
<1>5. l # d /\ h[l] = 0
  <2>1. h[l] \in Nat /\ g0[l] \in Nat
    BY <1>1, <1>3, <1>4
  <2> QED BY <1>2, <1>3, <1>4, <2>1
<1>6. g[d] > 0 /\ \A j \in Ids : h[j] > 0 => g0[j] > 0
  <2>1. g[d] = g0[d]
    BY <1>2, <1>3, <1>4, <1>5, HoldFacts
  <2>2. \A j \in Ids : h[j] \in Nat /\ g0[j] \in Nat
    BY <1>1, <1>3
  <2> QED BY <1>2, <1>3, <2>1, <2>2
<1> HIDE DEF g
<1>7. Takes(x, g, m, h, k + 1)
  BY <1>2, <1>4, <1>6, TakesOn
<1>8. x.obj[d].type = "dict"
  BY <1>2, <1>4, <1>6 DEF Takes
<1> QED BY <1>2, <1>4, <1>5, <1>6, <1>7, <1>8 DEF Paired, Ready, g, g0, l, x

LEMMA PairedOn ==
    ASSUME NEW m, NEW h \in [Ids -> Nat], NEW m1, NEW m2, NEW n, NEW p, NEW d, NEW l,
           NEW k \in Nat, NEW q \in Nat, Paired(m1, m, h, n, d, l, k),
           Adds(m2, m1, Plus(Plus(h, d), l), p, q)
    PROVE  Paired(m2, m, h, p, d, l, k + q)
<1> DEFINE g == Plus(Plus(h, d), l)
<1>1. /\ l \in Ids /\ d \in Ids /\ d # l /\ h[d] = 0 /\ h[l] = 0 /\ g[d] > 0
      /\ m1.obj[d].type = "dict" /\ m1.obj[l].type = "list" /\ Takes(m1, g, m, h, k)
  BY DEF Paired, Ready
<1>2. Well(m2, g, p) /\ Takes(m2, g, m1, g, q)
  BY DEF Adds
<1>3. g[l] > 0 /\ \A j \in Ids : h[j] > 0 => g[j] > 0
  BY <1>1, PairHolds
<1> HIDE DEF g
<1>4. m2.obj[d].type = "dict" /\ m2.obj[l].type = "list"
  BY <1>1, <1>2, <1>3 DEF Takes
<1>5. Takes(m2, g, m, h, k + q)
  BY <1>1, <1>2, <1>3, TakesOn
<1> QED BY <1>1, <1>2, <1>4, <1>5 DEF Paired, Ready, g

LEMMA PairedRoom ==
    ASSUME NEW m, NEW h, NEW m1, NEW n, NEW d, NEW l, NEW k \in Nat, NEW q \in Nat,
           Paired(m1, m, h, n, d, l, k), HasRoom(m, k + q)
    PROVE  Ready(m1, Plus(Plus(h, d), l), n, d) /\ HasRoom(m1, q)
<1>1. /\ Room(m1) + k >= Room(m) /\ Room(m) >= k + q
      /\ Ready(m1, Plus(Plus(h, d), l), n, d)
  BY RoomFacts DEF Paired, Takes
<1>2. Room(m1) \in Nat /\ Room(m) \in Nat
  BY RoomFacts
<1>3. Room(m1) >= q
  BY <1>1, <1>2
<1> QED BY <1>1, <1>3, RoomFacts

\* The list is put in the dict.
LEMMA PairedPut ==
    ASSUME NEW m, NEW h \in [Ids -> Nat], NEW m1, NEW n \in Nat, NEW d, NEW l, NEW k \in Nat,
           Paired(m1, m, h, n, d, l, k)
    PROVE  Paired(DictSet(m1, d, "children", l), m, h, n, d, l, k)
<1> DEFINE g == Plus(Plus(h, d), l)
           x == DictSet(m1, d, "children", l)
<1>1. /\ l \in Ids /\ d \in Ids /\ m1.obj[d].type = "dict" /\ m1.obj[l].type # "free"
      /\ Well(m1, g, n)
  BY DEF Paired, Ready
<1> HIDE DEF g
<1>2. Adds(x, m1, g, n, 0)
  BY <1>1, StringsAre, DictSetWell DEF Adds
<1> HIDE DEF x
<1>3. Paired(x, m, h, n, d, l, k + 0)
  BY <1>2, PairedOn DEF g
<1>4. Paired(x, m, h, n, d, l, k)
  BY <1>3
<1> QED BY <1>4 DEF x

LEMMA GivenPlus ==
    ASSUME NEW h \in [Ids -> Nat], NEW l \in Ids, NEW s, NEW k \in Nat,
           \A j \in 1 .. k : s[j] # l
    PROVE  /\ Given(Plus(h, l), s, k)[l] > 0
           /\ Minus(Given(Plus(h, l), s, k), l) = Given(h, s, k)
<1> DEFINE g == Plus(h, l)
           a == Given(g, s, k)
           b == Given(h, s, k)
<1>1. g[l] = h[l] + 1 /\ h[l] \in Nat /\ \A j \in Ids \ {l} : g[j] = h[j]
  BY HoldFacts
<1> HIDE DEF g
<1>2. ~ \E j \in 1 .. k : s[j] = l
  OBVIOUS
<1>3. a[l] = h[l] + 1 /\ b[l] = h[l]
  BY <1>1, <1>2 DEF Given, Count
<1>4. \A i \in Ids \ {l} : a[i] = b[i]
  BY <1>1 DEF Given
<1>5. DOMAIN a = Ids /\ a = [i \in Ids |-> a[i]] /\ b = [i \in Ids |-> b[i]]
  BY DEF Given
<1> HIDE DEF a, b
<1>6. b = [a EXCEPT ![l] = @ - 1]
  BY <1>1, <1>3, <1>4, <1>5
<1> QED BY <1>1, <1>3, <1>6 DEF Minus, a, b, g

LEMMA VectorNewWell ==
    ASSUME NEW m, NEW h, NEW n \in Nat, Well(m, h, n), HasRoom(m, 4), NEW kind \in STRING,
           NEW props \in Seq(Ids), \A j \in 1 .. Len(props) : h[props[j]] > 0,
           \A j, k \in 1 .. Len(props) : props[j] = props[k] => j = k
    PROVE  Well(VectorNewIn(m, kind, props),
                Given(Plus(h, Fresh(m)), props, Len(props)), n)
<1> DEFINE d == Fresh(m)
           m0 == NewObject(m, "dict")
           l == Fresh(m0)
           m1 == NewObject(m0, "list")
           m2 == SetLiteral(m1, d, "<>", kind)
           m3 == SetCopy(m2, d, "@name", Name)
           m4 == DictSet(m3, d, "children", l)
           m5 == PushProps(m4, l, props)
           g0 == Plus(h, d)
           g == Plus(g0, l)
           K == Len(props)
<1>1. h \in [Ids -> Nat] /\ K \in Nat
  BY DEF Well, HeapInv
<1>2. /\ HasRoom(m, 1) /\ HasRoom(m, 1 + 1) /\ HasRoom(m, 2 + 1) /\ HasRoom(m, 3 + 1)
  BY RoomFacts
<1>3. VectorNewIn(m, kind, props) = Unref(m5, l)
  BY DEF VectorNewIn
<1>4. Paired(m1, m, h, n, d, l, 2)
  <2>1. Makes(m0, m, h, n, d, 1)
    BY <1>2, DictMakes
  <2> HIDE DEF m0, d
  <2>2. Paired(m1, m, h, n, d, l, 1 + 1)
    BY <1>2, <2>1, ListMakes
  <2> QED BY <2>2
<1> HIDE DEF d, l, m1
<1>5. Paired(m2, m, h, n, d, l, 3)
  <2>1. Ready(m1, g, n, d) /\ HasRoom(m1, 1)
    BY <1>2, <1>4, PairedRoom
  <2> HIDE DEF g
  <2>2. Adds(m2, m1, g, n, 1)
    BY <2>1, StringsAre, SetLiteralAdds
  <2> HIDE DEF m2
  <2>3. Paired(m2, m, h, n, d, l, 2 + 1)
    BY <1>1, <1>4, <2>2, PairedOn DEF g
  <2> QED BY <2>3
<1> HIDE DEF m2
<1>6. Paired(m3, m, h, n, d, l, 4)
  <2>1. Ready(m2, g, n, d) /\ HasRoom(m2, 1)
    BY <1>2, <1>5, PairedRoom
  <2> HIDE DEF g
  <2>2. Adds(m3, m2, g, n, 1)
    BY <2>1, StringsAre, SetCopyAdds
  <2> HIDE DEF m3
  <2>3. Paired(m3, m, h, n, d, l, 3 + 1)
    BY <1>1, <1>5, <2>2, PairedOn DEF g
  <2> QED BY <2>3
<1> HIDE DEF m3
<1>7. Paired(m4, m, h, n, d, l, 4)
  BY <1>1, <1>6, PairedPut
<1> HIDE DEF m4
<1>8. /\ l \in Ids /\ d \in Ids /\ h[l] = 0 /\ Well(m4, g, n) /\ m4.obj[l].type = "list"
  BY <1>7 DEF Paired, Ready
<1>9. /\ g0 \in [Ids -> Nat] /\ g[l] > 0 /\ \A j \in Ids : h[j] > 0 => g[j] > 0
  BY <1>1, <1>8, PairHolds
<1>10. \A j \in 1 .. K : props[j] \in Ids /\ props[j] # l /\ g[props[j]] > 0
  <2> SUFFICES ASSUME NEW j \in 1 .. K
               PROVE  props[j] \in Ids /\ props[j] # l /\ g[props[j]] > 0
    OBVIOUS
  <2>1. props[j] \in Ids /\ h[props[j]] > 0
    OBVIOUS
  <2> HIDE DEF g
  <2> QED BY <1>8, <1>9, <2>1
<1>11. Well(m5, Given(g, props, K), n)
  <2> HIDE DEF g
  <2> QED BY <1>8, <1>9, <1>10, PushPropsWell
<1> HIDE DEF m5, g0
<1>12. Given(g, props, K)[l] > 0 /\ Minus(Given(g, props, K), l) = Given(g0, props, K)
  <2> HIDE DEF K
  <2> QED BY <1>1, <1>8, <1>9, <1>10, GivenPlus
<1>13. Well(Unref(m5, l), Given(g0, props, K), n)
  <2> HIDE DEF g, K
  <2> QED BY <1>8, <1>11, <1>12, UnrefWell
<1> QED BY <1>3, <1>13 DEF g0, d

----------------------------------------------------------------------------
\* What is copied into a set vector.

LEMMA AddsNothing ==
    ASSUME NEW m, NEW h, NEW n, Well(m, h, n), NEW k \in Nat
    PROVE  Adds(m, m, h, n, k)
<1>1. Room(m) + k >= Room(m)
  BY RoomFacts
<1> QED BY <1>1 DEF Adds, Takes

LEMMA TextOf ==
    ASSUME NEW m, NEW h, NEW n, Well(m, h, n), NEW src \in Ids, NEW key,
           DictGet(m, src, key) # NULL
    PROVE  m.obj[DictGet(m, src, key)].text \in STRING
<1>1. m \in Heaps
  BY DEF Well, HeapInv
<1>2. DictGet(m, src, key) \in Ids
  BY <1>1, DictGetLive
<1> QED BY <1>1, <1>2, HeapFields

LEMMA CopyItemAdds ==
    ASSUME NEW m, NEW h, NEW n \in Nat, NEW d, Ready(m, h, n, d), HasRoom(m, 1),
           NEW src \in Ids, NEW key \in STRING
    PROVE  Adds(CopyItem(m, d, src, key), m, h, n, 1)
<1> DEFINE v == DictGet(m, src, key)
           text == m.obj[v].text
<1>1. Well(m, h, n) /\ (v # NULL => text \in STRING)
  BY TextOf DEF Ready
<1>2. CASE v # NULL /\ m.obj[v].type = "string"
  <2>1. CopyItem(m, d, src, key) = SetCopy(m, d, key, text)
    BY <1>2 DEF CopyItem
  <2> HIDE DEF v, text
  <2> QED BY <1>1, <1>2, <2>1, SetCopyAdds
<1>3. CASE v # NULL /\ m.obj[v].type = "scalar"
  <2>1. CopyItem(m, d, src, key) = DictSetScalarUnref(m, d, key, text)
    BY <1>3 DEF CopyItem
  <2> HIDE DEF v, text
  <2> QED BY <1>1, <1>3, <2>1, SetScalarAdds
<1>4. CASE v = NULL \/ m.obj[v].type \notin {"string", "scalar"}
  <2>1. CopyItem(m, d, src, key) = m
    BY <1>4 DEF CopyItem
  <2> QED BY <1>1, <2>1, AddsNothing
<1> QED BY <1>2, <1>3, <1>4

LEMMA CopyBlobAdds ==
    ASSUME NEW m, NEW h, NEW n \in Nat, NEW d, Ready(m, h, n, d), HasRoom(m, 1),
           NEW src \in Ids
    PROVE  Adds(CopyBlob(m, d, src), m, h, n, 1)
<1> DEFINE v == DictGet(m, src, "$")
           text == m.obj[v].text
<1>1. Well(m, h, n) /\ (v # NULL => text \in STRING)
  BY TextOf DEF Ready
<1>2. CASE v # NULL /\ m.obj[v].type = "string"
  <2>1. CopyBlob(m, d, src) = SetForgotten(m, d, "$", text)
    BY <1>2 DEF CopyBlob
  <2> HIDE DEF v, text
  <2> QED BY <1>1, <1>2, <2>1, StringsAre, SetForgottenAdds
<1>3. CASE ~(v # NULL /\ m.obj[v].type = "string")
  <2>1. CopyBlob(m, d, src) = m
    BY <1>3 DEF CopyBlob
  <2> QED BY <1>1, <2>1, AddsNothing
<1> QED BY <1>2, <1>3

\* A list the call can push to: its own, or one whose reference is forgotten.
Stays(m, h, list) ==
    list \in Ids /\ m.obj[list].type = "list" /\ (h[list] > 0 \/ m.obj[list].forgot > 0)

LEMMA StaysOn ==
    ASSUME NEW m, NEW h, NEW m2, NEW n, NEW k, NEW list, Stays(m, h, list), Adds(m2, m, h, n, k)
    PROVE  Stays(m2, h, list)
  BY DEF Stays, Adds, Takes

LEMMA PushMade ==
    ASSUME NEW m, NEW h, NEW n \in Nat, Well(m, h, n), NEW list, Stays(m, h, list),
           NEW x, NEW d, NEW k \in Nat, Makes(x, m, h, n, d, k)
    PROVE  LET y == Push(x, list, d)
               g == Plus(h, d)
           IN /\ Well(y, g, n) /\ Takes(y, g, m, h, k) /\ d \in Ids
              /\ h \in [Ids -> Nat] /\ \A j \in Ids : h[j] > 0 => g[j] > 0
<1> DEFINE y == Push(x, list, d)
           g == Plus(h, d)
<1>1. h \in [Ids -> Nat]
  BY DEF Well, HeapInv
<1>2. /\ d \in Ids /\ Well(x, g, n) /\ g[d] > 0 /\ x.obj[d].type = "dict"
      /\ Takes(x, g, m, h, k)
  BY DEF Makes, Ready
<1>3. \A j \in Ids : h[j] > 0 => g[j] > 0
  BY <1>1, <1>2, HoldFacts
<1> HIDE DEF g
<1>4. list \in Ids /\ x.obj[list].type = "list" /\ x.obj[d].type # "free"
  BY <1>2, <1>3 DEF Stays, Takes
<1>5. Well(y, g, n) /\ Takes(y, g, x, g, 0)
  BY <1>2, <1>4, PushWell
<1> HIDE DEF y
<1>6. Takes(y, g, m, h, k + 0)
  BY <1>2, <1>3, <1>5, TakesOn
<1> QED BY <1>1, <1>2, <1>3, <1>5, <1>6 DEF y, g

\* The new dict goes to the list, and its creator's reference is dropped,
LEMMA PushUnrefAdds ==
    ASSUME NEW m, NEW h, NEW n \in Nat, Well(m, h, n), NEW list, Stays(m, h, list),
           NEW x, NEW d, NEW k \in Nat, Makes(x, m, h, n, d, k)
    PROVE  Adds(Unref(Push(x, list, d), d), m, h, n, k)
<1> DEFINE y == Push(x, list, d)
           g == Plus(h, d)
           z == Unref(y, d)
<1>1. /\ Well(y, g, n) /\ Takes(y, g, m, h, k) /\ d \in Ids
      /\ h \in [Ids -> Nat] /\ \A j \in Ids : h[j] > 0 => g[j] > 0
  BY PushMade
<1> HIDE DEF y
<1>2. Well(z, h, n) /\ Takes(z, h, y, g, 0)
  BY <1>1, GivenBack
<1> HIDE DEF z, g
<1>3. Takes(z, h, m, h, k + 0)
  BY <1>1, <1>2, TakesOn
<1> QED BY <1>2, <1>3 DEF Adds, y, z

\* or forgotten.
LEMMA PushForgetAdds ==
    ASSUME NEW m, NEW h, NEW n \in Nat, Well(m, h, n), NEW list, Stays(m, h, list),
           NEW x, NEW d, NEW k \in Nat, Makes(x, m, h, n, d, k)
    PROVE  Adds([Push(x, list, d) EXCEPT !.obj[d].forgot = @ + 1], m, h, n, k)
<1> DEFINE y == Push(x, list, d)
           g == Plus(h, d)
           z == [y EXCEPT !.obj[d].forgot = @ + 1]
<1>1. /\ Well(y, g, n) /\ Takes(y, g, m, h, k) /\ d \in Ids
      /\ h \in [Ids -> Nat] /\ \A j \in Ids : h[j] > 0 => g[j] > 0
  BY PushMade
<1> HIDE DEF y
<1>2. Well(z, h, n) /\ Takes(z, h, y, g, 0)
  BY <1>1, ForgetWell
<1> HIDE DEF z, g
<1>3. Takes(z, h, m, h, k + 0)
  BY <1>1, <1>2, TakesOn
<1> QED BY <1>2, <1>3 DEF Adds, y, z

LEMMA OneOfAdds ==
    ASSUME NEW m, NEW h, NEW n \in Nat, Well(m, h, n), HasRoom(m, 4), NEW list, Stays(m, h, list),
           NEW kind \in STRING, NEW src \in Ids
    PROVE  Adds(OneOf(m, list, kind, src), m, h, n, 4)
<1> DEFINE d == Fresh(m)
           m1 == NewObject(m, "dict")
           m2 == SetLiteral(m1, d, "<>", kind)
           m3 == CopyItem(m2, d, src, "@name")
           m4 == IF kind = "blob" THEN CopyBlob(m3, d, src) ELSE CopyItem(m3, d, src, "$")
           g == Plus(h, d)
<1>1. h \in [Ids -> Nat]
  BY DEF Well, HeapInv
<1>2. HasRoom(m, 1) /\ HasRoom(m, 1 + 1) /\ HasRoom(m, 2 + 1) /\ HasRoom(m, 3 + 1)
  BY RoomFacts
<1>3. OneOf(m, list, kind, src)
        = IF m.obj[src].type = "dict" THEN Unref(Push(m4, list, d), d) ELSE m
  BY DEF OneOf
<1>4. Makes(m1, m, h, n, d, 1)
  BY <1>2, DictMakes
<1> HIDE DEF d, m1
<1>5. Makes(m2, m, h, n, d, 2)
  <2>1. Ready(m1, g, n, d) /\ HasRoom(m1, 1)
    BY <1>2, <1>4, MakesRoom
  <2> HIDE DEF g
  <2>2. Adds(m2, m1, g, n, 1)
    BY <2>1, StringsAre, SetLiteralAdds
  <2> HIDE DEF m2
  <2>3. Makes(m2, m, h, n, d, 1 + 1)
    BY <1>1, <1>4, <2>2, MakesOn DEF g
  <2> QED BY <2>3
<1> HIDE DEF m2
<1>6. Makes(m3, m, h, n, d, 3)
  <2>1. Ready(m2, g, n, d) /\ HasRoom(m2, 1)
    BY <1>2, <1>5, MakesRoom
  <2> HIDE DEF g
  <2>2. Adds(m3, m2, g, n, 1)
    BY <2>1, StringsAre, CopyItemAdds
  <2> HIDE DEF m3
  <2>3. Makes(m3, m, h, n, d, 2 + 1)
    BY <1>1, <1>5, <2>2, MakesOn DEF g
  <2> QED BY <2>3
<1> HIDE DEF m3
<1>7. Makes(m4, m, h, n, d, 4)
  <2>1. Ready(m3, g, n, d) /\ HasRoom(m3, 1)
    BY <1>2, <1>6, MakesRoom
  <2> HIDE DEF g
  <2>2. Adds(CopyBlob(m3, d, src), m3, g, n, 1)
    BY <2>1, CopyBlobAdds
  <2>3. Adds(CopyItem(m3, d, src, "$"), m3, g, n, 1)
    BY <2>1, StringsAre, CopyItemAdds
  <2>4. Adds(m4, m3, g, n, 1)
    BY <2>2, <2>3
  <2> HIDE DEF m4
  <2>5. Makes(m4, m, h, n, d, 3 + 1)
    BY <1>1, <1>6, <2>4, MakesOn DEF g
  <2> QED BY <2>5
<1> HIDE DEF m4
<1>8. Adds(Unref(Push(m4, list, d), d), m, h, n, 4)
  BY <1>7, PushUnrefAdds
<1>9. Adds(m, m, h, n, 4)
  BY AddsNothing
<1> QED BY <1>3, <1>8, <1>9

\* The elements one after the other.
OneOfStep(m, list, kind, sources, F, k) ==
    IF k = 0 THEN m ELSE OneOf(F[k - 1], list, kind, sources[k])

IsFilled(m, list, kind, sources, F, k) ==
    F = [n \in 0 .. k |-> OneOfStep(m, list, kind, sources, F, n)]

LEMMA FilledExists ==
    ASSUME NEW m, NEW list, NEW kind, NEW sources, NEW k \in Nat
    PROVE  \E F : IsFilled(m, list, kind, sources, F, k)
<1> DEFINE Bad == {n \in Nat : ~ \E F : IsFilled(m, list, kind, sources, F, n)}
<1> SUFFICES ASSUME Bad # {} PROVE FALSE
  OBVIOUS
<1>1. PICK x \in Bad : \A y \in Bad : x <= y
  BY Smallest
<1>2. PICK F : x # 0 => IsFilled(m, list, kind, sources, F, x - 1)
  <2>1. x # 0 => x - 1 \in Nat /\ x - 1 \notin Bad
    BY <1>1
  <2> QED BY <2>1
<1> DEFINE G == [n \in 0 .. x |-> IF n = x THEN OneOfStep(m, list, kind, sources, F, x) ELSE F[n]]
<1>3. /\ x \in Nat /\ G = [n \in 0 .. x |-> G[n]] /\ G[x] = OneOfStep(m, list, kind, sources, F, x)
      /\ \A n \in 0 .. x - 1 : G[n] = F[n]
  OBVIOUS
<1> HIDE DEF G, Bad
<1>4. ASSUME NEW n \in 0 .. x
      PROVE  G[n] = OneOfStep(m, list, kind, sources, G, n)
  <2>1. G[n] = OneOfStep(m, list, kind, sources, F, n)
    <3>1. n = x \/ (x # 0 /\ n \in 0 .. x - 1)
      BY <1>3
    <3>2. CASE n = x
      BY <1>3, <3>2
    <3>3. CASE x # 0 /\ n \in 0 .. x - 1
      <4>1. \A j \in 0 .. x - 1 : F[j] = OneOfStep(m, list, kind, sources, F, j)
        BY <1>2, <3>3 DEF IsFilled
      <4>2. F[n] = OneOfStep(m, list, kind, sources, F, n) /\ G[n] = F[n]
        BY <1>3, <3>3, <4>1
      <4> QED BY <4>2
    <3> QED BY <3>1, <3>2, <3>3
  <2>2. OneOfStep(m, list, kind, sources, F, n) = OneOfStep(m, list, kind, sources, G, n)
    <3>1. ASSUME n # 0 PROVE F[n - 1] = G[n - 1]
      <4>1. n - 1 \in 0 .. x - 1
        BY <1>3, <3>1
      <4> QED BY <1>3, <4>1
    <3> QED BY <3>1 DEF OneOfStep
  <2> QED BY <2>1, <2>2
<1>5. IsFilled(m, list, kind, sources, G, x)
  BY <1>3, <1>4 DEF IsFilled
<1> QED BY <1>1, <1>5 DEF Bad

Fills(m, list, kind, sources, F) ==
    /\ F[0] = m
    /\ \A k \in 1 .. Len(sources) : F[k] = OneOf(F[k - 1], list, kind, sources[k])

LEMMA OneOfEachIs ==
    ASSUME NEW m, NEW list, NEW kind, NEW sources, Len(sources) \in Nat
    PROVE  \E F : /\ Fills(m, list, kind, sources, F)
                  /\ OneOfEach(m, list, kind, sources) = F[Len(sources)]
<1> DEFINE K == Len(sources)
           F == CHOOSE F : IsFilled(m, list, kind, sources, F, K)
<1>1. IsFilled(m, list, kind, sources, F, K)
  BY FilledExists
<1>2. OneOfEach(m, list, kind, sources) = F[K]
  BY DEF OneOfEach, IsFilled, OneOfStep
<1> HIDE DEF F
<1>3. \A k \in 0 .. K : F[k] = OneOfStep(m, list, kind, sources, F, k)
  BY <1>1 DEF IsFilled
<1>4. Fills(m, list, kind, sources, F)
  BY <1>3 DEF Fills, OneOfStep
<1> QED BY <1>2, <1>4

LEMMA OneOfEachAdds ==
    ASSUME NEW m, NEW h, NEW n \in Nat, Well(m, h, n), NEW list, Stays(m, h, list),
           NEW kind \in STRING, NEW sources \in Seq(Ids), HasRoom(m, 4 * Len(sources))
    PROVE  Adds(OneOfEach(m, list, kind, sources), m, h, n, 4 * Len(sources))
<1> DEFINE K == Len(sources)
<1>1. K \in Nat
  OBVIOUS
<1>2. PICK F : /\ Fills(m, list, kind, sources, F)
               /\ OneOfEach(m, list, kind, sources) = F[K]
  BY <1>1, OneOfEachIs
<1>3. F[0] = m /\ \A k \in 1 .. K : F[k] = OneOf(F[k - 1], list, kind, sources[k])
  BY <1>2 DEF Fills
<1> DEFINE Fine(k) == Adds(F[k], m, h, n, 4 * k)
           Bad == {k \in 0 .. K : ~ Fine(k)}
<1>5. Bad = {}
  <2> SUFFICES ASSUME Bad # {} PROVE FALSE
    OBVIOUS
  <2>1. PICK x \in Bad : \A y \in Bad : x <= y
    <3>1. Bad \subseteq Nat
      BY <1>1
    <3> HIDE DEF Bad
    <3> QED BY <3>1, Smallest
  <2>2. Fine(0)
    <3>1. Adds(m, m, h, n, 0)
      BY AddsNothing
    <3> QED BY <1>3, <3>1
  <2>3. x \in 1 .. K /\ Fine(x - 1) /\ sources[x] \in Ids
    BY <1>1, <2>1, <2>2
  <2> DEFINE m1 == F[x - 1]
             m2 == OneOf(m1, list, kind, sources[x])
             a == 4 * (x - 1)
  <2>4. Adds(m1, m, h, n, a) /\ F[x] = m2
    <3>1. F[x] = OneOf(F[x - 1], list, kind, sources[x])
      BY <1>3, <2>3
    <3> QED BY <2>3, <3>1
  <2>5. a \in Nat /\ a + 4 = 4 * x /\ a + 4 <= 4 * K
    BY <1>1, <2>3
  <2> HIDE DEF m1, a, Bad, Fine
  <2>6. Well(m1, h, n) /\ HasRoom(m1, 4) /\ Stays(m1, h, list)
    <3>1. Well(m1, h, n) /\ Stays(m1, h, list) /\ Room(m1) + a >= Room(m)
      BY <2>4, StaysOn DEF Adds, Takes
    <3>2. Room(m) >= 4 * K /\ Room(m) \in Nat /\ Room(m1) \in Nat
      BY RoomFacts
    <3>3. Room(m1) >= 4
      BY <1>1, <2>5, <3>1, <3>2
    <3> QED BY <3>1, <3>3, RoomFacts
  <2>7. Adds(m2, m1, h, n, 4)
    BY <2>3, <2>6, OneOfAdds
  <2> HIDE DEF m2
  <2>8. Adds(m2, m, h, n, a + 4)
    BY <2>4, <2>5, <2>7, AddsOn
  <2> QED BY <2>1, <2>4, <2>5, <2>8 DEF Fine, Bad
<1>6. Fine(K)
  BY <1>1, <1>5
<1> QED BY <1>2, <1>6

LEMMA ChildrenAre ==
    ASSUME NEW m, NEW h, NEW n, Well(m, h, n), NEW v \in Ids
    PROVE  ChildrenOf(m, v) \in Seq(Ids)
<1> DEFINE list == DictGet(m, v, "children")
<1>1. m \in Heaps
  BY DEF Well, HeapInv
<1>2. CASE list # NULL /\ m.obj[list].type = "list"
  <2>1. list \in Ids
    BY <1>1, <1>2, DictGetLive
  <2>2. ChildrenOf(m, v) = [k \in DOMAIN m.obj[list].items |-> m.obj[list].items[k].val]
    BY <1>2 DEF ChildrenOf
  <2> HIDE DEF list
  <2>3. /\ DOMAIN m.obj[list].items = 1 .. Len(m.obj[list].items)
        /\ Len(m.obj[list].items) \in Nat
        /\ \A k \in DOMAIN m.obj[list].items : m.obj[list].items[k].val \in Ids
    BY <1>1, <2>1, ValuesFacts, ValueIn
  <2> QED BY <2>2, <2>3
<1>3. CASE ~(list # NULL /\ m.obj[list].type = "list")
  <2>1. ChildrenOf(m, v) = <<>>
    BY <1>3 DEF ChildrenOf
  <2> QED BY <2>1
<1> QED BY <1>2, <1>3

LEMMA SetVectorWell ==
    ASSUME NEW m, NEW h, NEW n \in Nat, Well(m, h, n), NEW kind \in STRING, NEW vector \in Ids,
           HasRoom(m, 4 + 4 * Len(ChildrenOf(m, vector)))
    PROVE  Well(PropToSetVector(m, vector, kind), Plus(h, Fresh(m)), n)
<1> DEFINE d == Fresh(m)
           m0 == NewObject(m, "dict")
           l == Fresh(m0)
           m1 == NewObject(m0, "list")
           m2 == SetLiteral(m1, d, "<>", kind)
           m3 == CopyItem(m2, d, vector, "@name")
           m4 == DictSet(m3, d, "children", l)
           sources == ChildrenOf(m, vector)
           m5 == OneOfEach(m4, l, kind, sources)
           g0 == Plus(h, d)
           g == Plus(g0, l)
           q == 4 * Len(sources)
<1>1. h \in [Ids -> Nat] /\ sources \in Seq(Ids)
  BY ChildrenAre DEF Well, HeapInv
<1> HIDE DEF sources
<1>2. q \in Nat /\ HasRoom(m, 4 + q)
  BY <1>1 DEF sources
<1> HIDE DEF q
<1>3. HasRoom(m, 1) /\ HasRoom(m, 1 + 1) /\ HasRoom(m, 2 + 1) /\ HasRoom(m, 3 + 1)
  <2>1. Room(m) >= 4 + q /\ Room(m) \in Nat
    BY <1>2, RoomFacts
  <2>2. Room(m) >= 1 /\ Room(m) >= 1 + 1 /\ Room(m) >= 2 + 1 /\ Room(m) >= 3 + 1
    BY <1>2, <2>1
  <2> QED BY <2>2, RoomFacts
<1>4. PropToSetVector(m, vector, kind) = Unref(m5, l)
  BY DEF PropToSetVector, sources
<1>5. Paired(m1, m, h, n, d, l, 2)
  <2>1. Makes(m0, m, h, n, d, 1)
    BY <1>3, DictMakes
  <2> HIDE DEF m0, d
  <2>2. Paired(m1, m, h, n, d, l, 1 + 1)
    BY <1>3, <2>1, ListMakes
  <2> QED BY <2>2
<1> HIDE DEF d, l, m1
<1>6. Paired(m2, m, h, n, d, l, 3)
  <2>1. Ready(m1, g, n, d) /\ HasRoom(m1, 1)
    BY <1>3, <1>5, PairedRoom
  <2> HIDE DEF g
  <2>2. Adds(m2, m1, g, n, 1)
    BY <2>1, StringsAre, SetLiteralAdds
  <2> HIDE DEF m2
  <2>3. Paired(m2, m, h, n, d, l, 2 + 1)
    BY <1>1, <1>5, <2>2, PairedOn DEF g
  <2> QED BY <2>3
<1> HIDE DEF m2
<1>7. Paired(m3, m, h, n, d, l, 4)
  <2>1. Ready(m2, g, n, d) /\ HasRoom(m2, 1)
    BY <1>3, <1>6, PairedRoom
  <2> HIDE DEF g
  <2>2. Adds(m3, m2, g, n, 1)
    BY <2>1, StringsAre, CopyItemAdds
  <2> HIDE DEF m3
  <2>3. Paired(m3, m, h, n, d, l, 3 + 1)
    BY <1>1, <1>6, <2>2, PairedOn DEF g
  <2> QED BY <2>3
<1> HIDE DEF m3
<1>8. Paired(m4, m, h, n, d, l, 4)
  BY <1>1, <1>7, PairedPut
<1> HIDE DEF m4
<1>9. HasRoom(m4, q)
  BY <1>2, <1>8, PairedRoom
<1>10. l \in Ids /\ d \in Ids /\ Well(m4, g, n) /\ m4.obj[l].type = "list"
  BY <1>8 DEF Paired, Ready
<1>11. g0 \in [Ids -> Nat] /\ g[l] > 0
  BY <1>1, <1>10, PairHolds
<1>12. Stays(m4, g, l)
  BY <1>10, <1>11 DEF Stays
<1>13. Well(m5, g, n)
  <2>1. HasRoom(m4, 4 * Len(sources))
    BY <1>9 DEF q
  <2> HIDE DEF g
  <2>2. Adds(m5, m4, g, n, 4 * Len(sources))
    BY <1>1, <1>10, <1>12, <2>1, OneOfEachAdds
  <2> QED BY <2>2 DEF Adds
<1> HIDE DEF m5, g0
<1>14. Well(Unref(m5, l), g0, n)
  BY <1>10, <1>11, <1>13, GivenBack
<1> QED BY <1>4, <1>14 DEF g0, d

----------------------------------------------------------------------------
\* The objects made of a parsed message.

AttributeStep(m, d, attributes, F, k) ==
    IF k = 0 THEN m ELSE SetForgotten(F[k - 1], d, "@name", attributes[k])

IsAttributed(m, d, attributes, F, k) ==
    F = [n \in 0 .. k |-> AttributeStep(m, d, attributes, F, n)]

LEMMA AttributedExists ==
    ASSUME NEW m, NEW d, NEW attributes, NEW k \in Nat
    PROVE  \E F : IsAttributed(m, d, attributes, F, k)
<1> DEFINE Bad == {n \in Nat : ~ \E F : IsAttributed(m, d, attributes, F, n)}
<1> SUFFICES ASSUME Bad # {} PROVE FALSE
  OBVIOUS
<1>1. PICK x \in Bad : \A y \in Bad : x <= y
  BY Smallest
<1>2. PICK F : x # 0 => IsAttributed(m, d, attributes, F, x - 1)
  <2>1. x # 0 => x - 1 \in Nat /\ x - 1 \notin Bad
    BY <1>1
  <2> QED BY <2>1
<1> DEFINE G == [n \in 0 .. x |-> IF n = x THEN AttributeStep(m, d, attributes, F, x) ELSE F[n]]
<1>3. /\ x \in Nat /\ G = [n \in 0 .. x |-> G[n]] /\ G[x] = AttributeStep(m, d, attributes, F, x)
      /\ \A n \in 0 .. x - 1 : G[n] = F[n]
  OBVIOUS
<1> HIDE DEF G, Bad
<1>4. ASSUME NEW n \in 0 .. x
      PROVE  G[n] = AttributeStep(m, d, attributes, G, n)
  <2>1. G[n] = AttributeStep(m, d, attributes, F, n)
    <3>1. n = x \/ (x # 0 /\ n \in 0 .. x - 1)
      BY <1>3
    <3>2. CASE n = x
      BY <1>3, <3>2
    <3>3. CASE x # 0 /\ n \in 0 .. x - 1
      <4>1. \A j \in 0 .. x - 1 : F[j] = AttributeStep(m, d, attributes, F, j)
        BY <1>2, <3>3 DEF IsAttributed
      <4>2. F[n] = AttributeStep(m, d, attributes, F, n) /\ G[n] = F[n]
        BY <1>3, <3>3, <4>1
      <4> QED BY <4>2
    <3> QED BY <3>1, <3>2, <3>3
  <2>2. AttributeStep(m, d, attributes, F, n) = AttributeStep(m, d, attributes, G, n)
    <3>1. ASSUME n # 0 PROVE F[n - 1] = G[n - 1]
      <4>1. n - 1 \in 0 .. x - 1
        BY <1>3, <3>1
      <4> QED BY <1>3, <4>1
    <3> QED BY <3>1 DEF AttributeStep
  <2> QED BY <2>1, <2>2
<1>5. IsAttributed(m, d, attributes, G, x)
  BY <1>3, <1>4 DEF IsAttributed
<1> QED BY <1>1, <1>5 DEF Bad

Attributes(m, d, attributes, F) ==
    F[0] = m /\ \A k \in 1 .. Len(attributes) : F[k] = SetForgotten(F[k - 1], d, "@name", attributes[k])

LEMMA SetAttributesIs ==
    ASSUME NEW m, NEW d, NEW attributes, Len(attributes) \in Nat
    PROVE  \E F : Attributes(m, d, attributes, F) /\ SetAttributes(m, d, attributes) = F[Len(attributes)]
<1> DEFINE K == Len(attributes)
           F == CHOOSE F : IsAttributed(m, d, attributes, F, K)
<1>1. IsAttributed(m, d, attributes, F, K)
  BY AttributedExists
<1>2. SetAttributes(m, d, attributes) = F[K]
  BY DEF SetAttributes, IsAttributed, AttributeStep
<1> HIDE DEF F
<1>3. \A k \in 0 .. K : F[k] = AttributeStep(m, d, attributes, F, k)
  BY <1>1 DEF IsAttributed
<1>4. Attributes(m, d, attributes, F)
  BY <1>3 DEF Attributes, AttributeStep
<1> QED BY <1>2, <1>4

LEMMA SetAttributesAdds ==
    ASSUME NEW m, NEW h, NEW n \in Nat, NEW d, Ready(m, h, n, d),
           NEW attributes \in Seq(STRING), HasRoom(m, Len(attributes))
    PROVE  Adds(SetAttributes(m, d, attributes), m, h, n, Len(attributes))
<1> DEFINE K == Len(attributes)
<1>1. K \in Nat
  OBVIOUS
<1>2. PICK F : Attributes(m, d, attributes, F) /\ SetAttributes(m, d, attributes) = F[K]
  BY <1>1, SetAttributesIs
<1>3. F[0] = m /\ \A k \in 1 .. K : F[k] = SetForgotten(F[k - 1], d, "@name", attributes[k])
  BY <1>2 DEF Attributes
<1> DEFINE Fine(k) == Adds(F[k], m, h, n, k)
           Bad == {k \in 0 .. K : ~ Fine(k)}
<1>4. Bad = {}
  <2> SUFFICES ASSUME Bad # {} PROVE FALSE
    OBVIOUS
  <2>1. PICK x \in Bad : \A y \in Bad : x <= y
    <3>1. Bad \subseteq Nat
      BY <1>1
    <3> HIDE DEF Bad
    <3> QED BY <3>1, Smallest
  <2>2. Fine(0)
    <3>1. Adds(m, m, h, n, 0)
      BY AddsNothing DEF Ready
    <3> QED BY <1>3, <3>1
  <2>3. x \in 1 .. K /\ Fine(x - 1) /\ attributes[x] \in STRING
    BY <1>1, <2>1, <2>2
  <2> DEFINE m1 == F[x - 1]
             m2 == SetForgotten(m1, d, "@name", attributes[x])
             a == x - 1
  <2>4. Adds(m1, m, h, n, a) /\ F[x] = m2
    BY <1>3, <2>3
  <2>5. a \in Nat /\ a + 1 = x /\ a + 1 <= K
    BY <1>1, <2>3
  <2> HIDE DEF m1, a, Bad, Fine
  <2>6. HasRoom(m, a + 1)
    <3>1. Room(m) >= K /\ Room(m) \in Nat
      BY RoomFacts
    <3>2. Room(m) >= a + 1
      BY <1>1, <2>5, <3>1
    <3> QED BY <3>2, RoomFacts
  <2>7. Ready(m1, h, n, d) /\ HasRoom(m1, 1)
    BY <2>4, <2>5, <2>6, StillReady
  <2>8. Adds(m2, m1, h, n, 1)
    BY <2>3, <2>7, StringsAre, SetForgottenAdds
  <2> HIDE DEF m2
  <2>9. Adds(m2, m, h, n, a + 1)
    BY <2>4, <2>5, <2>8, AddsOn
  <2> QED BY <2>1, <2>4, <2>5, <2>9 DEF Fine, Bad
<1>5. Fine(K)
  BY <1>1, <1>4
<1> QED BY <1>2, <1>5

LEMMA ElementMakes ==
    ASSUME NEW m, NEW h, NEW n \in Nat, Well(m, h, n), NEW text \in STRING,
           NEW attributes \in Seq(STRING), HasRoom(m, 3 + Len(attributes))
    PROVE  Makes(Element(m, text, attributes), m, h, n, Fresh(m), 3 + Len(attributes))
<1> DEFINE d == Fresh(m)
           m1 == NewObject(m, "dict")
           m2 == SetForgotten(m1, d, "<>", "text")
           m3 == IF text = Empty THEN m2 ELSE SetForgotten(m2, d, "$", text)
           m4 == SetAttributes(m3, d, attributes)
           g == Plus(h, d)
           q == Len(attributes)
<1>1. h \in [Ids -> Nat] /\ q \in Nat
  BY DEF Well, HeapInv
<1> HIDE DEF q
<1>2. HasRoom(m, 1) /\ HasRoom(m, 1 + 1) /\ HasRoom(m, 2 + 1) /\ HasRoom(m, 3 + q)
  <2>1. Room(m) >= 3 + q /\ Room(m) \in Nat
    BY RoomFacts DEF q
  <2>2. Room(m) >= 1 /\ Room(m) >= 1 + 1 /\ Room(m) >= 2 + 1 /\ Room(m) >= 3 + q
    BY <1>1, <2>1
  <2> QED BY <2>2, RoomFacts
<1>3. Element(m, text, attributes) = m4
  BY DEF Element
<1>4. Makes(m1, m, h, n, d, 1)
  BY <1>2, DictMakes
<1> HIDE DEF d, m1
<1>5. Makes(m2, m, h, n, d, 2)
  <2>1. Ready(m1, g, n, d) /\ HasRoom(m1, 1)
    BY <1>2, <1>4, MakesRoom
  <2> HIDE DEF g
  <2>2. "text" \in STRING
    BY StringsAre DEF Kinds
  <2>3. Adds(m2, m1, g, n, 1)
    BY <2>1, <2>2, StringsAre, SetForgottenAdds
  <2> HIDE DEF m2
  <2>4. Makes(m2, m, h, n, d, 1 + 1)
    BY <1>1, <1>4, <2>3, MakesOn DEF g
  <2> QED BY <2>4
<1> HIDE DEF m2
<1>6. Makes(m3, m, h, n, d, 3)
  <2>1. Ready(m2, g, n, d) /\ HasRoom(m2, 1)
    BY <1>2, <1>5, MakesRoom
  <2> HIDE DEF g
  <2>2. Adds(SetForgotten(m2, d, "$", text), m2, g, n, 1)
    BY <2>1, StringsAre, SetForgottenAdds
  <2>3. Adds(m2, m2, g, n, 1)
    BY <2>1, AddsNothing DEF Ready
  <2>4. Adds(m3, m2, g, n, 1)
    BY <2>2, <2>3
  <2> HIDE DEF m3
  <2>5. Makes(m3, m, h, n, d, 2 + 1)
    BY <1>1, <1>5, <2>4, MakesOn DEF g
  <2> QED BY <2>5
<1> HIDE DEF m3
<1>7. Makes(m4, m, h, n, d, 3 + q)
  <2>1. Ready(m3, g, n, d) /\ HasRoom(m3, q)
    BY <1>1, <1>2, <1>6, MakesRoom
  <2> HIDE DEF g
  <2>2. Adds(m4, m3, g, n, q)
    BY <2>1, SetAttributesAdds DEF q
  <2> HIDE DEF m4
  <2> QED BY <1>1, <1>6, <2>2, MakesOn DEF g
<1> QED BY <1>3, <1>7 DEF d, q

LEMMA AddElementAdds ==
    ASSUME NEW m, NEW h, NEW n \in Nat, Well(m, h, n), HasRoom(m, 3), NEW list, Stays(m, h, list),
           NEW text \in STRING
    PROVE  Adds(AddElement(m, list, text), m, h, n, 3)
<1> DEFINE d == Fresh(m)
           none == <<>>
           x == Element(m, text, none)
           z == [Push(x, list, d) EXCEPT !.obj[d].forgot = @ + 1]
<1>1. AddElement(m, list, text) = z
  BY DEF AddElement
<1>2. Makes(x, m, h, n, d, 3)
  <2>1. none \in Seq(STRING) /\ Len(none) = 0
    OBVIOUS
  <2> HIDE DEF none
  <2>2. 3 + Len(none) = 3
    BY <2>1
  <2>3. HasRoom(m, 3 + Len(none))
    BY <2>2
  <2>4. Makes(x, m, h, n, d, 3 + Len(none))
    BY <2>1, <2>3, ElementMakes
  <2> HIDE DEF x, d
  <2> QED BY <2>2, <2>4
<1> HIDE DEF d, x
<1>3. Adds(z, m, h, n, 3)
  BY <1>2, PushForgetAdds
<1> HIDE DEF z
<1> QED BY <1>1, <1>3

AddStep(m, list, texts, F, k) ==
    IF k = 0 THEN m ELSE AddElement(F[k - 1], list, texts[k])

IsAdded(m, list, texts, F, k) ==
    F = [n \in 0 .. k |-> AddStep(m, list, texts, F, n)]

LEMMA AddedExists ==
    ASSUME NEW m, NEW list, NEW texts, NEW k \in Nat
    PROVE  \E F : IsAdded(m, list, texts, F, k)
<1> DEFINE Bad == {n \in Nat : ~ \E F : IsAdded(m, list, texts, F, n)}
<1> SUFFICES ASSUME Bad # {} PROVE FALSE
  OBVIOUS
<1>1. PICK x \in Bad : \A y \in Bad : x <= y
  BY Smallest
<1>2. PICK F : x # 0 => IsAdded(m, list, texts, F, x - 1)
  <2>1. x # 0 => x - 1 \in Nat /\ x - 1 \notin Bad
    BY <1>1
  <2> QED BY <2>1
<1> DEFINE G == [n \in 0 .. x |-> IF n = x THEN AddStep(m, list, texts, F, x) ELSE F[n]]
<1>3. /\ x \in Nat /\ G = [n \in 0 .. x |-> G[n]] /\ G[x] = AddStep(m, list, texts, F, x)
      /\ \A n \in 0 .. x - 1 : G[n] = F[n]
  OBVIOUS
<1> HIDE DEF G, Bad
<1>4. ASSUME NEW n \in 0 .. x
      PROVE  G[n] = AddStep(m, list, texts, G, n)
  <2>1. G[n] = AddStep(m, list, texts, F, n)
    <3>1. n = x \/ (x # 0 /\ n \in 0 .. x - 1)
      BY <1>3
    <3>2. CASE n = x
      BY <1>3, <3>2
    <3>3. CASE x # 0 /\ n \in 0 .. x - 1
      <4>1. \A j \in 0 .. x - 1 : F[j] = AddStep(m, list, texts, F, j)
        BY <1>2, <3>3 DEF IsAdded
      <4>2. F[n] = AddStep(m, list, texts, F, n) /\ G[n] = F[n]
        BY <1>3, <3>3, <4>1
      <4> QED BY <4>2
    <3> QED BY <3>1, <3>2, <3>3
  <2>2. AddStep(m, list, texts, F, n) = AddStep(m, list, texts, G, n)
    <3>1. ASSUME n # 0 PROVE F[n - 1] = G[n - 1]
      <4>1. n - 1 \in 0 .. x - 1
        BY <1>3, <3>1
      <4> QED BY <1>3, <4>1
    <3> QED BY <3>1 DEF AddStep
  <2> QED BY <2>1, <2>2
<1>5. IsAdded(m, list, texts, G, x)
  BY <1>3, <1>4 DEF IsAdded
<1> QED BY <1>1, <1>5 DEF Bad

Elements(m, list, texts, F) ==
    F[0] = m /\ \A k \in 1 .. Len(texts) : F[k] = AddElement(F[k - 1], list, texts[k])

LEMMA AddElementsIs ==
    ASSUME NEW m, NEW list, NEW texts, Len(texts) \in Nat
    PROVE  \E F : Elements(m, list, texts, F) /\ AddElements(m, list, texts) = F[Len(texts)]
<1> DEFINE K == Len(texts)
           F == CHOOSE F : IsAdded(m, list, texts, F, K)
<1>1. IsAdded(m, list, texts, F, K)
  BY AddedExists
<1>2. AddElements(m, list, texts) = F[K]
  BY DEF AddElements, IsAdded, AddStep
<1> HIDE DEF F
<1>3. \A k \in 0 .. K : F[k] = AddStep(m, list, texts, F, k)
  BY <1>1 DEF IsAdded
<1>4. Elements(m, list, texts, F)
  BY <1>3 DEF Elements, AddStep
<1> QED BY <1>2, <1>4

LEMMA AddElementsAdds ==
    ASSUME NEW m, NEW h, NEW n \in Nat, Well(m, h, n), NEW list, Stays(m, h, list),
           NEW texts \in Seq(STRING), HasRoom(m, 3 * Len(texts))
    PROVE  Adds(AddElements(m, list, texts), m, h, n, 3 * Len(texts))
<1> DEFINE K == Len(texts)
<1>1. K \in Nat
  OBVIOUS
<1>2. PICK F : Elements(m, list, texts, F) /\ AddElements(m, list, texts) = F[K]
  BY <1>1, AddElementsIs
<1>3. F[0] = m /\ \A k \in 1 .. K : F[k] = AddElement(F[k - 1], list, texts[k])
  BY <1>2 DEF Elements
<1> DEFINE Fine(k) == Adds(F[k], m, h, n, 3 * k)
           Bad == {k \in 0 .. K : ~ Fine(k)}
<1>4. Bad = {}
  <2> SUFFICES ASSUME Bad # {} PROVE FALSE
    OBVIOUS
  <2>1. PICK x \in Bad : \A y \in Bad : x <= y
    <3>1. Bad \subseteq Nat
      BY <1>1
    <3> HIDE DEF Bad
    <3> QED BY <3>1, Smallest
  <2>2. Fine(0)
    <3>1. Adds(m, m, h, n, 0)
      BY AddsNothing
    <3> QED BY <1>3, <3>1
  <2>3. x \in 1 .. K /\ Fine(x - 1) /\ texts[x] \in STRING
    BY <1>1, <2>1, <2>2
  <2> DEFINE m1 == F[x - 1]
             m2 == AddElement(m1, list, texts[x])
             a == 3 * (x - 1)
  <2>4. Adds(m1, m, h, n, a) /\ F[x] = m2
    BY <1>3, <2>3
  <2>5. a \in Nat /\ a + 3 = 3 * x /\ a + 3 <= 3 * K
    BY <1>1, <2>3
  <2> HIDE DEF m1, a, Bad, Fine
  <2>6. Well(m1, h, n) /\ HasRoom(m1, 3) /\ Stays(m1, h, list)
    <3>1. Well(m1, h, n) /\ Stays(m1, h, list) /\ Room(m1) + a >= Room(m)
      BY <2>4, StaysOn DEF Adds, Takes
    <3>2. Room(m) >= 3 * K /\ Room(m) \in Nat /\ Room(m1) \in Nat
      BY RoomFacts
    <3>3. Room(m1) >= 3
      BY <1>1, <2>5, <3>1, <3>2
    <3> QED BY <3>1, <3>3, RoomFacts
  <2>7. Adds(m2, m1, h, n, 3)
    BY <2>3, <2>6, AddElementAdds
  <2> HIDE DEF m2
  <2>8. Adds(m2, m, h, n, a + 3)
    BY <2>4, <2>5, <2>7, AddsOn
  <2> QED BY <2>1, <2>4, <2>5, <2>8 DEF Fine, Bad
<1>5. Fine(K)
  BY <1>1, <1>4
<1> QED BY <1>2, <1>5

LEMMA FromXmlWell ==
    ASSUME NEW m, NEW h, NEW n \in Nat, Well(m, h, n), NEW text \in STRING,
           NEW attributes \in Seq(STRING), NEW children \in Seq(STRING),
           HasRoom(m, 4 + Len(attributes) + 3 * Len(children))
    PROVE  Well(FromXmlIn(m, text, attributes, children), Plus(h, Fresh(m)), n)
<1> DEFINE d == Fresh(m)
           root == Element(m, text, attributes)
           l == Fresh(root)
           m1 == NewObject(root, "list")
           m2 == DictSet(m1, d, "children", l)
           m3 == [m2 EXCEPT !.obj[l].forgot = @ + 1]
           m4 == AddElements(m3, l, children)
           g0 == Plus(h, d)
           g == Plus(g0, l)
           q == 3 + Len(attributes)
           c == 3 * Len(children)
<1>1. h \in [Ids -> Nat] /\ q \in Nat /\ c \in Nat
  BY DEF Well, HeapInv
<1>2. HasRoom(m, q) /\ HasRoom(m, q + 1) /\ HasRoom(m, (q + 1) + c)
  <2>1. Room(m) >= (q + 1) + c /\ Room(m) \in Nat
    BY RoomFacts
  <2> HIDE DEF q, c
  <2>2. Room(m) >= q /\ Room(m) >= q + 1 /\ Room(m) >= (q + 1) + c
    BY <1>1, <2>1
  <2> QED BY <2>2, RoomFacts
<1>3. FromXmlIn(m, text, attributes, children) = IF children = <<>> THEN root ELSE m4
  BY DEF FromXmlIn
<1>4. Makes(root, m, h, n, d, q)
  BY <1>2, ElementMakes
<1> HIDE DEF q, d, root
<1>5. Well(root, g0, n)
  BY <1>4 DEF Makes, Ready
<1>6. Paired(m1, m, h, n, d, l, q + 1)
  BY <1>1, <1>2, <1>4, ListMakes
<1> HIDE DEF l, m1
<1>7. Paired(m2, m, h, n, d, l, q + 1)
  BY <1>1, <1>6, PairedPut
<1> HIDE DEF m2
<1>8. HasRoom(m2, c)
  BY <1>1, <1>2, <1>7, PairedRoom
<1>9. l \in Ids /\ d \in Ids /\ Well(m2, g, n) /\ m2.obj[l].type = "list"
  BY <1>7 DEF Paired, Ready
<1>10. g0 \in [Ids -> Nat]
  BY <1>1, <1>9, PairHolds
<1> HIDE DEF g0
<1>11. /\ Well(m3, g0, n) /\ Takes(m3, g0, m2, g, 0)
       /\ m3.obj[l].type = m2.obj[l].type /\ m3.obj[l].forgot > 0
  BY <1>9, <1>10, ForgetWell
<1> HIDE DEF m3, g
<1>12. HasRoom(m3, c)
  <2>1. Room(m3) + 0 >= Room(m2) /\ Room(m2) >= c
    BY <1>8, <1>11, RoomFacts DEF Takes
  <2>2. Room(m3) \in Nat /\ Room(m2) \in Nat
    BY RoomFacts
  <2>3. Room(m3) >= c
    BY <1>1, <2>1, <2>2
  <2> QED BY <2>3, RoomFacts
<1>13. Stays(m3, g0, l)
  BY <1>9, <1>11 DEF Stays
<1>14. Well(m4, g0, n)
  <2>1. Adds(m4, m3, g0, n, 3 * Len(children))
    BY <1>11, <1>12, <1>13, AddElementsAdds DEF c
  <2> QED BY <2>1 DEF Adds
<1> HIDE DEF m4
<1>15. Well(IF children = <<>> THEN root ELSE m4, g0, n)
  BY <1>5, <1>14
<1> QED BY <1>3, <1>15 DEF g0, d

----------------------------------------------------------------------------
\* The program.

LEMMA InvIsWell == ObjectInv <=> Well(heap, held, 0)
  BY DEF ObjectInv, Well

LEMMA BuildsKeep ==
    ASSUME ObjectInv, NEW p, NEW m, Builds(p, m), Well(m, Plus(held, Fresh(heap)), 0)
    PROVE  ObjectInv'
<1> DEFINE h == Plus(held, Fresh(heap))
<1>1. heap' = m /\ held' = h
  BY DEF Builds, Creates, Plus
<1>2. HeapInv(m, h) /\ TextsOK(m, 0)
  BY DEF Well
<1> HIDE DEF h
<1> QED BY <1>1, <1>2, Leaves

\* A property whose text may be a buffer handed over.
LEMMA PropBuilds ==
    ASSUME ObjectInv, NEW owned \in BOOLEAN, NEW kind \in STRING, NEW value \in STRING,
           NEW from \in {"given", "made"},
           Builds(4, PropNew(Allocated(heap, owned), kind, value, owned, from))
    PROVE  ObjectInv'
<1> DEFINE y == Allocated(heap, owned)
           m == PropNew(y, kind, value, owned, from)
<1>1. Well(heap, held, 0) /\ HasRoom(heap, 4) /\ 0 \in Nat
  BY InvIsWell DEF Builds
<1>2. Well(y, held, 0 + Count(owned)) /\ Fresh(y) = Fresh(heap) /\ HasRoom(y, 4)
  BY <1>1, AllocatedWell
<1> HIDE DEF y
<1>3. Makes(m, y, held, 0, Fresh(y), 4)
  BY <1>1, <1>2, PropNewMakes
<1>4. Well(m, Plus(held, Fresh(heap)), 0)
  BY <1>2, <1>3 DEF Makes, Ready
<1> QED BY <1>4, BuildsKeep DEF y

\* A property whose text is a literal.
LEMMA LiteralPropBuilds ==
    ASSUME ObjectInv, NEW kind \in STRING, NEW value \in STRING,
           Builds(4, PropNew(heap, kind, value, FALSE, "given"))
    PROVE  ObjectInv'
<1> DEFINE m == PropNew(heap, kind, value, FALSE, "given")
<1>1. Well(heap, held, 0 + Count(FALSE)) /\ HasRoom(heap, 4)
  <2>1. 0 + Count(FALSE) = 0
    BY DEF Count
  <2> QED BY <2>1, InvIsWell DEF Builds
<1>2. Makes(m, heap, held, 0, Fresh(heap), 4)
  BY <1>1, PropNewMakes
<1>3. Well(m, Plus(held, Fresh(heap)), 0)
  BY <1>2 DEF Makes, Ready
<1> QED BY <1>3, BuildsKeep

LEMMA NewPropKeeps ==
    ASSUME ObjectInv, NewPropNext
    PROVE  ObjectInv'
<1>1. NonEmpty \subseteq STRING /\ Texts \subseteq STRING /\ Kinds \subseteq STRING
  BY StringsAre DEF NonEmpty
<1>2. ASSUME NEW text \in Texts \cup {NullText}, NEW managed \in BOOLEAN,
             TextPropNew(text, managed)
      PROVE  ObjectInv'
  <2> DEFINE value == IF text = NullText THEN Empty ELSE text
             owned == managed /\ text # NullText
  <2>1. Builds(4, PropNew(Allocated(heap, owned), "text", value, owned, "given"))
    BY <1>2 DEF TextPropNew
  <2>2. value \in STRING
    BY <1>1, StringsAre
  <2>3. owned \in BOOLEAN
    OBVIOUS
  <2> HIDE DEF value, owned
  <2>4. "text" \in STRING
    BY <1>1 DEF Kinds
  <2> QED BY <2>1, <2>2, <2>3, <2>4, PropBuilds
<1>3. ASSUME NEW text \in NonEmpty, NumberPropNew(text)
      PROVE  ObjectInv'
  <2>1. text \in STRING /\ "number" \in STRING
    BY <1>1 DEF Kinds
  <2>2. Builds(4, PropNew(Allocated(heap, TRUE), "number", text, TRUE, "made"))
    BY <1>3 DEF NumberPropNew
  <2> QED BY <2>1, <2>2, PropBuilds
<1>4. ASSUME NEW text \in NonEmpty, LightPropNew(text)
      PROVE  ObjectInv'
  <2>1. text \in STRING /\ "light" \in STRING
    BY <1>1 DEF Kinds
  <2>2. Builds(4, PropNew(heap, "light", text, FALSE, "given"))
    BY <1>4 DEF LightPropNew
  <2> QED BY <2>1, <2>2, LiteralPropBuilds
<1>5. ASSUME NEW text \in NonEmpty, SwitchPropNew(text)
      PROVE  ObjectInv'
  <2>1. text \in STRING /\ "switch" \in STRING
    BY <1>1 DEF Kinds
  <2>2. Builds(4, PropNew(heap, "switch", text, FALSE, "given"))
    BY <1>5 DEF SwitchPropNew
  <2> QED BY <2>1, <2>2, LiteralPropBuilds
<1>6. ASSUME NEW text \in Texts, NEW managed \in BOOLEAN, BlobPropNew(text, managed)
      PROVE  ObjectInv'
  <2> DEFINE owned == managed /\ text # Empty
  <2>1. Builds(4, PropNew(Allocated(heap, owned), "blob", text, owned, "given"))
    BY <1>6 DEF BlobPropNew
  <2>2. owned \in BOOLEAN
    OBVIOUS
  <2> HIDE DEF owned
  <2>3. text \in STRING /\ "blob" \in STRING
    BY <1>1 DEF Kinds
  <2> QED BY <2>1, <2>2, <2>3, PropBuilds
<1>7. ASSUME StreamPropNew
      PROVE  ObjectInv'
  <2> DEFINE m == StreamPropNewIn(heap)
  <2>1. Builds(3, m)
    BY <1>7 DEF StreamPropNew
  <2>2. Well(heap, held, 0) /\ HasRoom(heap, 3)
    BY <2>1, InvIsWell DEF Builds
  <2>3. Makes(m, heap, held, 0, Fresh(heap), 3)
    BY <2>2, StreamPropNewMakes
  <2> HIDE DEF m
  <2>4. Well(m, Plus(held, Fresh(heap)), 0)
    BY <2>3 DEF Makes, Ready
  <2> QED BY <2>1, <2>4, BuildsKeep
<1> QED BY <1>2, <1>3, <1>4, <1>5, <1>6, <1>7 DEF NewPropNext

\* The setters: one text buffer at most is in their hands.
LEMMA SetsString ==
    ASSUME ObjectInv, NEW owned \in BOOLEAN, NEW m, HeapInv(m, held),
           TextsOK(m, 0 + Count(owned)), NEW from \in {"given", "made"},
           NEW p \in Ids, NEW text \in STRING,
           Calls(DictSetString(m, p, "$", text, owned, from))
    PROVE  ObjectInv'
<1> DEFINE x == DictSetString(m, p, "$", text, owned, from)
<1>1. HeapInv(x, held) /\ TextsOK(x, 0)
  BY DictSetStringKeeps
<1> HIDE DEF x
<1> QED BY <1>1, CallsKeep DEF x

LEMMA SetsBuffer ==
    ASSUME ObjectInv, NEW owned \in BOOLEAN, NEW from \in {"given", "made"},
           NEW p \in Ids, NEW text \in STRING,
           Calls(DictSetString(Allocated(heap, owned), p, "$", text, owned, from))
    PROVE  ObjectInv'
<1> DEFINE y == Allocated(heap, owned)
<1>1. HeapInv(y, held) /\ TextsOK(y, 0 + Count(owned))
  BY AllocatedRoom DEF ObjectInv
<1> HIDE DEF y
<1> QED BY <1>1, SetsString DEF y

LEMMA SetsLiteral ==
    ASSUME ObjectInv, NEW p \in Ids, NEW text \in STRING,
           Calls(DictSetString(heap, p, "$", text, FALSE, "given"))
    PROVE  ObjectInv'
<1>1. 0 + Count(FALSE) = 0
  BY DEF Count
<1>2. HeapInv(heap, held) /\ TextsOK(heap, 0 + Count(FALSE))
  BY <1>1 DEF ObjectInv
<1> QED BY <1>2, SetsString

\* nyx_text_prop_set: the buffer given is lost, or else the copy is.
LEMMA CopiedTexts ==
    ASSUME ObjectInv, NEW owned \in BOOLEAN
    PROVE  LET copied == Allocated(Allocated(heap, owned), TRUE)
               lost == [copied EXCEPT !.lost.given = @ + Count(owned),
                                      !.lost.made = @ + Count(~owned)]
           IN HeapInv(lost, held) /\ TextsOK(lost, 0 + Count(owned))
<1> DEFINE y == Allocated(heap, owned)
           copied == Allocated(y, TRUE)
           one == Loses(copied, "given", owned)
           two == Loses(one, "made", ~owned)
           lost == [copied EXCEPT !.lost.given = @ + Count(owned),
                                  !.lost.made = @ + Count(~owned)]
<1>1. HeapInv(heap, held) /\ TextsOK(heap, 0) /\ 0 \in Nat
  BY DEF ObjectInv
<1>2. Count(owned) \in Nat /\ 0 + Count(owned) \in Nat /\ Count(TRUE) = 1
      /\ Count(owned) + Count(~owned) = 1
  BY DEF Count
<1>3. HeapInv(y, held) /\ TextsOK(y, 0 + Count(owned))
  BY <1>1, AllocatedKeeps
<1> HIDE DEF y
<1>4. HeapInv(copied, held) /\ TextsOK(copied, (0 + Count(owned)) + Count(TRUE))
  BY <1>2, <1>3, AllocatedKeeps
<1> HIDE DEF copied
<1>5. TextsOK(copied, 1 + Count(owned)) /\ copied \in Heaps
  <2>1. (0 + Count(owned)) + Count(TRUE) = 1 + Count(owned)
    <3> DEFINE c == Count(owned)
               t == Count(TRUE)
    <3>1. c \in Nat /\ t = 1
      BY <1>2
    <3> HIDE DEF c, t
    <3>2. (0 + c) + t = 1 + c
      BY <3>1
    <3> QED BY <3>2 DEF c, t
  <2> QED BY <1>4, <2>1 DEF HeapInv
<1>6. two = lost
  BY <1>5 DEF Heaps, Loses
<1>7. HeapInv(one, held) /\ TextsOK(one, 1)
  BY <1>4, <1>5, LosesKeeps
<1> HIDE DEF one
<1>8. TextsOK(one, (0 + Count(owned)) + Count(~owned)) /\ (~owned) \in BOOLEAN
  <2>1. (0 + Count(owned)) + Count(~owned) = 1
    BY <1>2
  <2> QED BY <1>7, <2>1
<1>9. HeapInv(two, held) /\ TextsOK(two, 0 + Count(owned))
  BY <1>2, <1>7, <1>8, LosesKeeps
<1> HIDE DEF two
<1>10. HeapInv(lost, held) /\ TextsOK(lost, 0 + Count(owned))
  BY <1>6, <1>9
<1> QED BY <1>10 DEF copied, y

LEMMA SetPropKeeps ==
    ASSUME ObjectInv, SetPropNext
    PROVE  ObjectInv'
<1>1. /\ NonEmpty \subseteq STRING /\ Texts \subseteq STRING
      /\ \A kind : \A p \in OfKind(kind) : p \in Ids
  BY StringsAre DEF NonEmpty, OfKind
<1>2. ASSUME NEW p \in OfKind("text"), NEW text \in Texts \cup {NullText},
             NEW managed \in BOOLEAN, TextPropSet(p, text, managed)
      PROVE  ObjectInv'
  <2> DEFINE value == IF text = NullText THEN Empty ELSE text
             owned == managed /\ text # NullText
             copied == Allocated(Allocated(heap, owned), TRUE)
             lost == [copied EXCEPT !.lost.given = @ + Count(owned),
                                    !.lost.made = @ + Count(~owned)]
  <2>1. Calls(DictSetString(lost, p, "$", value, owned, "made"))
    BY <1>2 DEF TextPropSet
  <2>2. value \in STRING
    BY <1>1, StringsAre
  <2>3. owned \in BOOLEAN
    OBVIOUS
  <2> HIDE DEF value, owned
  <2>4. HeapInv(lost, held) /\ TextsOK(lost, 0 + Count(owned))
    BY <2>3, CopiedTexts
  <2> HIDE DEF lost
  <2> QED BY <1>1, <2>1, <2>2, <2>3, <2>4, SetsString
<1>3. ASSUME NEW p \in OfKind("number"), NEW text \in NonEmpty, NumberPropSet(p, text)
      PROVE  ObjectInv'
  <2>1. p \in Ids /\ text \in STRING
    BY <1>1
  <2> QED BY <1>3, <2>1, SetsBuffer DEF NumberPropSet
<1>4. ASSUME NEW p \in OfKind("light"), NEW text \in NonEmpty, LightPropSet(p, text)
      PROVE  ObjectInv'
  <2>1. p \in Ids /\ text \in STRING
    BY <1>1
  <2> QED BY <1>4, <2>1, SetsLiteral DEF LightPropSet
<1>5. ASSUME NEW p \in OfKind("switch"), NEW text \in NonEmpty, SwitchPropSet(p, text)
      PROVE  ObjectInv'
  <2>1. p \in Ids /\ text \in STRING
    BY <1>1
  <2> QED BY <1>5, <2>1, SetsLiteral DEF SwitchPropSet
<1>6. ASSUME NEW p \in OfKind("blob"), NEW text \in Texts, NEW managed \in BOOLEAN,
             BlobPropSet(p, text, managed)
      PROVE  ObjectInv'
  <2> DEFINE owned == managed /\ text # Empty
  <2>1. p \in Ids /\ text \in STRING
    BY <1>1
  <2>2. Calls(DictSetString(Allocated(heap, owned), p, "$", text, owned, "given"))
    BY <1>6 DEF BlobPropSet
  <2>3. owned \in BOOLEAN
    OBVIOUS
  <2> HIDE DEF owned
  <2> QED BY <2>1, <2>2, <2>3, SetsBuffer
<1>7. ASSUME NEW p \in OfKind("text"), NEW text \in Texts, ReceiveText(p, text)
      PROVE  ObjectInv'
  <2>1. p \in Ids /\ text \in STRING
    BY <1>1
  <2> QED BY <1>7, <2>1, SetsBuffer DEF ReceiveText
<1> QED BY <1>2, <1>3, <1>4, <1>5, <1>6, <1>7 DEF SetPropNext

\* The references to the properties go to the vector.
LEMMA VectorBuilds ==
    ASSUME ObjectInv, NEW kind \in Kinds, NEW props \in Chosen(kind),
           BuildsVector(kind, props)
    PROVE  ObjectInv'
<1> DEFINE d == Fresh(heap)
           g == Given(Plus(held, d), props, Len(props))
           m == VectorNewIn(heap, kind, props)
           S == {p \in Ids : held[p] > 0 /\ IsOf(p, kind)}
<1>1. props \in Distinct2(S)
  BY DEF Chosen
<1>2. S \subseteq Ids
  OBVIOUS
<1> HIDE DEF S
<1>3. PICK n \in 0 .. 2 : props \in [1 .. n -> S]
  BY <1>1 DEF Distinct2, UpTo2
<1>4. props \in Seq(Ids) /\ Len(props) = n /\ DOMAIN props = 1 .. n /\ n \in Nat
  BY <1>2, <1>3
<1>5. \A j, k \in 1 .. n : props[j] = props[k] => j = k
  <2>1. n = 2 => props[1] # props[2]
    BY <1>1, <1>4 DEF Distinct2
  <2>2. \A j \in 1 .. n : j = 1 \/ (j = 2 /\ n = 2)
    BY <1>3
  <2> QED BY <2>1, <2>2
<1>6. /\ HasRoom(heap, 4) /\ heap' = m
      /\ \A k \in DOMAIN props : held[props[k]] > 0
      /\ held' = [i \in Ids |-> held[i] + Count(i = d)
                                - Count(\E k \in DOMAIN props : props[k] = i)]
  BY DEF BuildsVector
<1>7. held \in [Ids -> Nat] /\ Well(heap, held, 0) /\ 0 \in Nat
  BY InvIsWell DEF Well, HeapInv
<1> HIDE DEF d
<1>8. held' = g
  <2>1. \A i \in Ids : Plus(held, d)[i] = held[i] + Count(i = d)
    BY <1>7 DEF Plus, Count
  <2>2. DOMAIN props = 1 .. Len(props)
    BY <1>4
  <2>3. \A i \in Ids : held'[i] = g[i]
    <3> SUFFICES ASSUME NEW i \in Ids PROVE held'[i] = g[i]
      OBVIOUS
    <3> DEFINE given == Count(\E k \in DOMAIN props : props[k] = i)
               here == Count(i = d)
    <3>1. held'[i] = held[i] + here - given
      BY <1>6
    <3>2. g[i] = Plus(held, d)[i] - given
      BY <2>2 DEF Given
    <3>3. Plus(held, d)[i] = held[i] + here
      BY <2>1
    <3>4. held[i] \in Nat /\ here \in Nat /\ given \in Nat
      BY <1>7 DEF Count
    <3> HIDE DEF given, here, g
    <3> QED BY <3>1, <3>2, <3>3, <3>4
  <2>4. held' = [i \in Ids |-> held'[i]] /\ g = [i \in Ids |-> g[i]]
    BY <1>6 DEF Given
  <2> HIDE DEF g
  <2> QED BY <2>3, <2>4
<1>9. kind \in STRING
  BY StringsAre
<1>10. Well(m, g, 0)
  <2>1. \A j \in 1 .. Len(props) : held[props[j]] > 0
    BY <1>4, <1>6
  <2>2. \A j, k \in 1 .. Len(props) : props[j] = props[k] => j = k
    BY <1>4, <1>5
  <2> HIDE DEF m, g
  <2> QED BY <1>4, <1>6, <1>7, <1>9, <2>1, <2>2, VectorNewWell DEF m, g, d
<1>11. HeapInv(m, g) /\ TextsOK(m, 0)
  BY <1>10 DEF Well
<1> HIDE DEF m, g
<1> QED BY <1>6, <1>8, <1>11, Leaves

LEMMA SetVectorBuilds ==
    ASSUME ObjectInv, NEW v \in Vectors, SetVectorNew(v)
    PROVE  ObjectInv'
<1> DEFINE kind == KindOf(v)
           q == 4 + 4 * Len(ChildrenOf(heap, v))
           m == PropToSetVector(heap, v, kind)
<1>1. At(heap, v, "<>") # {} /\ Builds(q, m) /\ v \in Ids
  BY DEF SetVectorNew, Vectors
<1>2. Well(heap, held, 0) /\ heap \in Heaps /\ 0 \in Nat
  BY InvIsWell DEF Well, HeapInv
<1>3. kind \in STRING
  <2> DEFINE k == CHOOSE k \in At(heap, v, "<>") : TRUE
             i == heap.obj[v].items[k].val
  <2>1. DictGet(heap, v, "<>") = i
    BY <1>1 DEF DictGet
  <2>2. k \in DOMAIN heap.obj[v].items
    BY <1>1 DEF At
  <2> HIDE DEF k
  <2>3. i \in Ids
    BY <1>1, <1>2, <2>2, ValueIn
  <2>4. heap.obj[i].text \in STRING
    BY <1>2, <2>3, HeapFields
  <2> QED BY <2>1, <2>4 DEF KindOf
<1> HIDE DEF kind
<1>4. HasRoom(heap, q)
  BY <1>1 DEF Builds
<1>5. Well(m, Plus(held, Fresh(heap)), 0)
  BY <1>1, <1>2, <1>3, <1>4, SetVectorWell
<1> HIDE DEF q, m
<1> QED BY <1>1, <1>5, BuildsKeep

LEMMA VectorNextKeeps ==
    ASSUME ObjectInv, VectorNext
    PROVE  ObjectInv'
<1>1. CASE \E v \in Vectors : SetVectorNew(v)
  BY <1>1, SetVectorBuilds
<1>2. CASE \E kind \in Kinds : \E props \in Chosen(kind) : BuildsVector(kind, props)
  BY <1>2, VectorBuilds
<1>3. VectorNext => \/ \E v \in Vectors : SetVectorNew(v)
                    \/ \E kind \in Kinds : \E props \in Chosen(kind) :
                            BuildsVector(kind, props)
  BY DEF VectorNext, Kinds, TextVectorNew, NumberVectorNew, LightVectorNew,
         SwitchVectorNew, BlobVectorNew, StreamVectorNew
<1> QED BY <1>1, <1>2, <1>3

LEMMA XmlKeeps ==
    ASSUME ObjectInv, XmlNext
    PROVE  ObjectInv'
<1>1. PICK text \in Texts, attributes \in UpTo2({Name}), children \in UpTo2(Texts) :
             FromXml(text, attributes, children)
  BY DEF XmlNext
<1>2. ASSUME NEW S, S \subseteq STRING, NEW s \in UpTo2(S)
      PROVE  s \in Seq(STRING)
  <2>1. PICK n \in 0 .. 2 : s \in [1 .. n -> S]
    BY DEF UpTo2
  <2>2. DOMAIN s = 1 .. n /\ s = [k \in 1 .. n |-> s[k]] /\ \A k \in 1 .. n : s[k] \in S
    BY <2>1
  <2>3. \A k \in 1 .. n : s[k] \in STRING
    BY <1>2, <2>2
  <2>4. n \in Nat
    OBVIOUS
  <2> QED BY <2>2, <2>3, <2>4
<1>3. text \in STRING /\ attributes \in Seq(STRING) /\ children \in Seq(STRING)
  <2>1. {Name} \subseteq STRING /\ Texts \subseteq STRING
    BY StringsAre
  <2>2. text \in STRING
    BY StringsAre
  <2>3. attributes \in Seq(STRING)
    BY <1>2, <2>1
  <2>4. children \in Seq(STRING)
    BY <1>2, <2>1
  <2> QED BY <2>2, <2>3, <2>4
<1> DEFINE q == 4 + Len(attributes) + 3 * Len(children)
           m == FromXmlIn(heap, text, attributes, children)
<1>4. Builds(q, m) /\ HasRoom(heap, q)
  BY <1>1 DEF FromXml, Builds
<1>5. Well(heap, held, 0) /\ 0 \in Nat
  BY InvIsWell
<1>6. Well(m, Plus(held, Fresh(heap)), 0)
  BY <1>3, <1>4, <1>5, FromXmlWell
<1> HIDE DEF q, m
<1> QED BY <1>4, <1>6, BuildsKeep

LEMMA VectorsNextKeeps == ObjectInv /\ [Next]_objectVars => ObjectInv'
<1> SUFFICES ASSUME ObjectInv, [Next]_objectVars PROVE ObjectInv'
  OBVIOUS
<1>1. CASE ObjectNext \/ UNCHANGED objectVars
  BY <1>1, NextKeeps
<1>2. CASE NewPropNext
  BY <1>2, NewPropKeeps
<1>3. CASE SetPropNext
  BY <1>3, SetPropKeeps
<1>4. CASE VectorNext
  BY <1>4, VectorNextKeeps
<1>5. CASE XmlNext
  BY <1>5, XmlKeeps
<1>6. CASE \E i \in Ids : (IsProp(i) \/ IsVector(i)) /\ IsKnown(i) /\ Retain(i)
  <2>1. PICK i \in Ids : (IsProp(i) \/ IsVector(i)) /\ IsKnown(i) /\ Retain(i)
    BY <1>6
  <2>2. heap.obj[i].type = "dict"
    BY <2>1 DEF IsProp, IsVector
  <2>3. i \in Known
    BY <2>1, <2>2 DEF Known, Live
  <2> QED BY <2>1, <2>3, HoldersKeep
<1>7. CASE \E i \in Ids : GiveBack(i)
  BY <1>7, HoldersKeep
<1>8. \/ ObjectNext \/ UNCHANGED objectVars
      \/ NewPropNext \/ SetPropNext \/ VectorNext \/ XmlNext
      \/ \E i \in Ids : (IsProp(i) \/ IsVector(i)) /\ IsKnown(i) /\ Retain(i)
      \/ \E i \in Ids : GiveBack(i)
  BY DEF Next
<1> QED BY <1>1, <1>2, <1>3, <1>4, <1>5, <1>6, <1>7, <1>8

----------------------------------------------------------------------------
\* The properties the run checks.

\* Whatever constructors, setters, set vectors and parsed messages do to it,
\* the heap is well formed for the references the program holds: the INDI
\* layer gives back what it takes, or the reference is one it forgot.
THEOREM VectorsInvHolds == Spec => []ObjectInv
<1> QED BY InitHolds, VectorsNextKeeps, PTL DEF Spec

\* Blocks, counters and references keep their types under the INDI layer.
THEOREM VectorsTypeCorrect == Spec => []ObjectTypeOK
<1> QED BY VectorsInvHolds, InvTypes, PTL

\* Under the INDI layer too the reference count of a block is the number of
\* its holders: the program, the container that lists it, and the functions
\* that forgot it.
THEOREM VectorsRefsCounted == Spec => []RefsCounted
<1> QED BY VectorsInvHolds, InvCounts, PTL

\* Properties, vectors and parsed messages are trees.
THEOREM VectorsTrees == Spec => []Trees
<1> QED BY VectorsInvHolds, InvTrees, PTL

\* No constructor or setter puts a key in a dict twice.
THEOREM VectorsKeysOnce == Spec => []KeysOnce
<1> QED BY VectorsInvHolds, InvKeys, PTL

\* What the INDI layer leaves behind and nobody can reach hangs from a block
\* whose reference one of its functions forgot.
THEOREM VectorsNoOrphans == Spec => []NoOrphans
<1> QED BY VectorsInvHolds, InvReaches, PTL

\* A text buffer the INDI layer allocates or is handed is the managed value
\* of one string, or one of those counted as lost.
THEOREM VectorsTextsAccounted == Spec => []TextsAccounted
<1> QED BY VectorsInvHolds, InvAccounts, PTL

\* On any heap the INDI layer makes, the setters of dicts, lists, strings,
\* numbers and booleans answer whether the text of the object has changed, and
\* that of buffers answers true if it has.
THEOREM VectorsAnswersTellChange == Spec => []AnswersTellChange
<1> QED BY VectorsInvHolds, InvAnswers, PTL
===============================================================================
