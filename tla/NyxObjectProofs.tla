---------------------------- MODULE NyxObjectProofs ----------------------------
(***************************************************************************)
(* The invariants of the objects (NyxObject), for any number of blocks,    *)
(* keys, texts and references: a program that gives back only what it      *)
(* holds keeps the heap well formed through every call of object.c and     *)
(* src/json/, and so what the checked properties say of it.                *)
(*                                                                         *)
(* First that each call keeps HeapInv, what a heap is between two calls,   *)
(* when it is given references its caller holds; a call that inserts or    *)
(* removes a value is a reference that changes hands, then a call on       *)
(* references.  Then this is put together for the program, and read as the *)
(* properties.                                                             *)
(***************************************************************************)
EXTENDS NyxObject, FiniteSetTheorems, SequenceTheorems, WellFoundedInduction, TLAPS

(***************************************************************************)
(* Induction, on a number and along a chain of sets.                       *)
(***************************************************************************)

\* Every set of numbers has a least one.
LEMMA Smallest ==
    ASSUME NEW T, T \subseteq Nat, T # {}
    PROVE  \E x \in T : \A y \in T : x <= y
<1>1. IsWellFoundedOn(OpToRel(<,Nat), Nat)
  BY NatLessThanWellFounded
<1>2. PICK x \in T : \A y \in T : ~(<<y, x>> \in OpToRel(<,Nat))
  BY <1>1, WFMin
<1>3. \A y \in T : ~(y < x)
  BY <1>2 DEF OpToRel
<1>4. \A y \in T : x <= y
  <2> TAKE y \in T
  <2>1. x \in Nat /\ y \in Nat
    OBVIOUS
  <2> QED BY <1>3, <2>1
<1> QED BY <1>4

LEMMA IdsFacts == N \in Nat /\ IsFiniteSet(Ids) /\ Cardinality(Ids) = N
<1>1. N \in Nat
  BY ObjectAssumption
<1> QED BY <1>1, FS_Interval DEF Ids

\* A chain of N + 1 sets of blocks, each in the next, that only grows where it
\* grew before: the last one is not smaller than what would follow it.
LEMMA ChainStops ==
    ASSUME NEW F, F \in [0 .. N -> SUBSET Ids], F[0] # {},
           \A n \in 1 .. N : F[n - 1] \subseteq F[n],
           \A n \in 1 .. N - 1 : F[n] = F[n - 1] => F[n + 1] = F[n]
    PROVE  N # 0 /\ F[N] = F[N - 1]
<1> USE IdsFacts
<1> DEFINE Small == {n \in 0 .. N : Cardinality(F[n]) < n + 1}
<1>1. \A n \in 0 .. N : /\ F[n] \subseteq Ids /\ IsFiniteSet(F[n])
                        /\ Cardinality(F[n]) \in Nat /\ Cardinality(F[n]) <= N
  BY FS_Subset, FS_CardinalityType
<1>2. N \in Small
  BY <1>1
<1>3. PICK x \in Small : \A y \in Small : x <= y
  <2>1. Small \subseteq Nat
    OBVIOUS
  <2> HIDE DEF Small
  <2> QED BY <1>2, <2>1, Smallest
<1>4. x # 0
  <2>1. Cardinality(F[0]) # 0
    BY <1>1, FS_EmptySet
  <2> QED BY <1>1, <2>1
<1>5. x \in 1 .. N /\ x - 1 \in 0 .. N /\ x - 1 \notin Small
  BY <1>3, <1>4
<1>6. Cardinality(F[x]) <= x /\ Cardinality(F[x - 1]) >= x
  <2>1. x \in 0 .. N /\ Cardinality(F[x]) \in Nat /\ Cardinality(F[x - 1]) \in Nat
    BY <1>1, <1>5
  <2>2. Cardinality(F[x]) < x + 1
    OBVIOUS
  <2>3. ~(Cardinality(F[x - 1]) < (x - 1) + 1)
    BY <1>5
  <2> HIDE DEF Small
  <2> QED BY <2>1, <2>2, <2>3
<1>7. F[x] = F[x - 1]
  <2>1. F[x - 1] \subseteq F[x]
    BY <1>5
  <2>2. Cardinality(F[x - 1]) <= Cardinality(F[x])
    BY <1>1, <1>5, <2>1, FS_Subset
  <2>3. Cardinality(F[x - 1]) = Cardinality(F[x])
    BY <1>1, <1>5, <1>6, <2>2
  <2> QED BY <1>1, <1>5, <2>1, <2>3, FS_Subset
<1> DEFINE Grows == {n \in x .. N : F[n] # F[n - 1]}
<1>8. Grows = {}
  <2> SUFFICES ASSUME Grows # {} PROVE FALSE
    OBVIOUS
  <2>1. PICK y \in Grows : \A z \in Grows : y <= z
    <3>1. Grows \subseteq Nat
      BY <1>5
    <3> HIDE DEF Grows
    <3> QED BY <3>1, Smallest
  <2>2. y # x /\ y \in x .. N
    BY <1>7
  <2>3. y - 1 \in x .. N /\ y - 1 \in 1 .. N - 1 /\ y - 1 \notin Grows
    BY <1>5, <2>1, <2>2
  <2>4. F[y - 1] = F[y - 2]
    BY <2>3
  <2> QED BY <2>2, <2>3, <2>4
<1>9. N \in x .. N /\ N # 0
  BY <1>5
<1>10. N \notin Grows
  BY <1>8
<1> QED BY <1>9, <1>10

(***************************************************************************)
(* The shape of a heap.                                                    *)
(***************************************************************************)
Item == [key : STRING, val : Ids]

Block == [type : Types \cup {"free"}, ref : Nat, parent : 0 .. N, items : Seq(Item),
          text : STRING, managed : BOOLEAN, forgot : Nat]

Heaps == [obj : [Ids -> Block], bufs : Nat, lost : [{"given", "made"} -> Nat]]

LEMMA HeapFields ==
    ASSUME NEW m \in Heaps, NEW i \in Ids
    PROVE  /\ m.obj \in [Ids -> Block] /\ m.obj[i] \in Block
           /\ m.obj[i].type \in Types \cup {"free"} /\ m.obj[i].ref \in Nat
           /\ m.obj[i].parent \in 0 .. N /\ m.obj[i].items \in Seq(Item)
           /\ m.obj[i].text \in STRING /\ m.obj[i].managed \in BOOLEAN
           /\ m.obj[i].forgot \in Nat
  BY DEF Heaps, Block

LEMMA ValuesFacts ==
    ASSUME NEW m \in Heaps, NEW c \in Ids
    PROVE  /\ Values(m, c) \subseteq Ids
           /\ DOMAIN m.obj[c].items = 1 .. Len(m.obj[c].items)
           /\ Len(m.obj[c].items) \in Nat
           /\ \A k \in DOMAIN m.obj[c].items : m.obj[c].items[k] \in Item
<1> DEFINE s == m.obj[c].items
<1>1. s \in Seq(Item)
  BY HeapFields
<1> HIDE DEF s
<1>2. /\ DOMAIN s = 1 .. Len(s) /\ Len(s) \in Nat
      /\ \A k \in DOMAIN s : s[k] \in Item
  BY <1>1, ElementOfSeq, LenProperties
<1>3. \A k \in DOMAIN s : s[k].val \in Ids
  BY <1>2 DEF Item
<1> QED BY <1>2, <1>3 DEF Values, s

(***************************************************************************)
(* N steps are enough to close a set of blocks.                            *)
(***************************************************************************)
IsChain(F, k, s, step) == F = [n \in 0 .. k |-> IF n = 0 THEN s ELSE step[F[n - 1]]]

LEMMA ChainExists ==
    ASSUME NEW s, NEW step, NEW k \in Nat
    PROVE  \E F : IsChain(F, k, s, step)
<1> DEFINE Bad == {n \in Nat : ~ \E F : IsChain(F, n, s, step)}
<1> SUFFICES ASSUME Bad # {} PROVE FALSE
  OBVIOUS
<1>1. PICK x \in Bad : \A y \in Bad : x <= y
  BY Smallest
<1>2. CASE x = 0
  <2> DEFINE G == [n \in 0 .. 0 |-> s]
  <2>1. IsChain(G, 0, s, step)
    BY DEF IsChain
  <2> QED BY <1>1, <1>2, <2>1
<1>3. CASE x # 0
  <2>1. x - 1 \in Nat /\ x - 1 \notin Bad
    BY <1>1, <1>3
  <2>2. PICK F : IsChain(F, x - 1, s, step)
    BY <2>1
  <2> DEFINE G == [n \in 0 .. x |-> IF n = x THEN step[F[x - 1]] ELSE F[n]]
  <2>3. ASSUME NEW n \in 0 .. x
        PROVE  G[n] = IF n = 0 THEN s ELSE step[G[n - 1]]
    <3>1. \A j \in 0 .. x - 1 : F[j] = IF j = 0 THEN s ELSE step[F[j - 1]]
      BY <2>2 DEF IsChain
    <3>2. CASE n = x
      BY <1>3, <2>1, <3>2
    <3>3. CASE n # x
      <4>1. n \in 0 .. x - 1 /\ G[n] = F[n] /\ (n # 0 => G[n - 1] = F[n - 1])
        BY <2>1, <3>3
      <4> QED BY <3>1, <4>1
    <3> QED BY <3>2, <3>3
  <2>4. G = [n \in 0 .. x |-> G[n]]
    OBVIOUS
  <2> HIDE DEF G
  <2>5. IsChain(G, x, s, step)
    BY <2>3, <2>4 DEF IsChain
  <2> QED BY <1>1, <2>5
<1> QED BY <1>2, <1>3

\* A chain stays within any set that has its start and is closed under its step.
LEMMA ChainLeast ==
    ASSUME NEW step \in [SUBSET Ids -> SUBSET Ids], NEW s \in SUBSET Ids,
           NEW F, IsChain(F, N, s, step),
           NEW C \in SUBSET Ids, s \subseteq C, \A S \in SUBSET C : step[S] \subseteq C
    PROVE  \A n \in 0 .. N : F[n] \subseteq C
<1> USE IdsFacts
<1>1. \A n \in 0 .. N : F[n] = IF n = 0 THEN s ELSE step[F[n - 1]]
  BY DEF IsChain
<1> DEFINE Bad == {n \in 0 .. N : ~(F[n] \subseteq C)}
<1> SUFFICES ASSUME Bad # {} PROVE FALSE
  OBVIOUS
<1>2. PICK x \in Bad : \A y \in Bad : x <= y
  <2>1. Bad \subseteq Nat
    OBVIOUS
  <2> HIDE DEF Bad
  <2> QED BY <2>1, Smallest
<1>3. x # 0
  BY <1>1
<1>4. x - 1 \in 0 .. N /\ x - 1 \notin Bad /\ F[x] = step[F[x - 1]]
  BY <1>1, <1>2, <1>3
<1> QED BY <1>4

LEMMA ChainCloses ==
    ASSUME NEW step \in [SUBSET Ids -> SUBSET Ids], NEW s \in SUBSET Ids,
           step[{}] = {}, \A S \in SUBSET Ids : S \subseteq step[S],
           NEW F, IsChain(F, N, s, step)
    PROVE  /\ \A n \in 0 .. N : F[n] \in SUBSET Ids
           /\ s \subseteq F[N]
           /\ step[F[N]] = F[N]
<1> USE IdsFacts
<1>1. \A n \in 0 .. N : F[n] = IF n = 0 THEN s ELSE step[F[n - 1]]
  BY DEF IsChain
<1>3. \A n \in 0 .. N : F[n] \subseteq Ids
  <2>1. \A S \in SUBSET Ids : step[S] \subseteq Ids
    OBVIOUS
  <2> QED BY <2>1, ChainLeast
<1>4. s \subseteq F[N]
  <2> DEFINE Bad == {n \in 0 .. N : ~(s \subseteq F[n])}
  <2> SUFFICES ASSUME Bad # {} PROVE FALSE
    OBVIOUS
  <2>1. PICK x \in Bad : \A y \in Bad : x <= y
    <3>1. Bad \subseteq Nat
      OBVIOUS
    <3> HIDE DEF Bad
    <3> QED BY <3>1, Smallest
  <2>2. x # 0
    BY <1>1
  <2>3. x - 1 \in 0 .. N /\ x - 1 \notin Bad /\ F[x] = step[F[x - 1]]
    BY <1>1, <2>1, <2>2
  <2> QED BY <1>3, <2>3
<1>5. step[F[N]] = F[N]
  <2>1. CASE s = {}
    <3>1. \A S \in SUBSET {} : step[S] \subseteq {}
      OBVIOUS
    <3> DEFINE C == {}
    <3>2. C \in SUBSET Ids /\ s \subseteq C /\ \A S \in SUBSET C : step[S] \subseteq C
      BY <2>1, <3>1
    <3> HIDE DEF C
    <3>3. \A n \in 0 .. N : F[n] \subseteq C
      BY <3>2, ChainLeast
    <3>4. F[N] = {}
      BY <3>3 DEF C
    <3> QED BY <3>4
  <2>2. CASE s # {}
    <3>1. F = [n \in 0 .. N |-> F[n]]
      BY DEF IsChain
    <3>2. F \in [0 .. N -> SUBSET Ids]
      BY <1>3, <3>1
    <3>3. \A n \in 1 .. N : n \in 0 .. N /\ n - 1 \in 0 .. N /\ F[n] = step[F[n - 1]]
      BY <1>1
    <3>4. \A n \in 1 .. N : F[n - 1] \subseteq F[n]
      BY <1>3, <3>3
    <3>5. \A n \in 1 .. N - 1 : F[n] = F[n - 1] => F[n + 1] = F[n]
      <4>1. \A n \in 1 .. N - 1 : n + 1 \in 1 .. N /\ n \in 1 .. N /\ n + 1 - 1 = n
        OBVIOUS
      <4> QED BY <3>3, <4>1
    <3>6. F[0] = s
      BY <1>1
    <3>7. N # 0 /\ F[N] = F[N - 1]
      BY <2>2, <3>2, <3>4, <3>5, <3>6, ChainStops
    <3> QED BY <3>3, <3>7
  <2> QED BY <2>1, <2>2
<1>6. \A n \in 0 .. N : F[n] \in SUBSET Ids
  BY <1>3
<1> QED BY <1>4, <1>5, <1>6

\* What is above c: the least set that has c and the parents of its blocks.
LEMMA AncestorsClosed ==
    ASSUME NEW m \in Heaps, NEW c \in 0 .. N
    PROVE  /\ Ancestors(m, c) \subseteq Ids
           /\ c # NULL => c \in Ancestors(m, c)
           /\ \A j \in Ancestors(m, c) :
                 m.obj[j].parent # NULL => m.obj[j].parent \in Ancestors(m, c)
           /\ \A C \in SUBSET Ids :
                 (c # NULL => c \in C)
                 /\ (\A j \in C : m.obj[j].parent # NULL => m.obj[j].parent \in C)
                 => Ancestors(m, c) \subseteq C
<1> DEFINE s == {c} \ {NULL}
           step == [S \in SUBSET Ids |-> S \cup ({m.obj[j].parent : j \in S} \ {NULL})]
           IsLine(F) == F = [n \in 0 .. N |->
                               IF n = 0 THEN {c} \ {NULL}
                               ELSE LET below == F[n - 1]
                                    IN below \cup ({m.obj[j].parent : j \in below} \ {NULL})]
           G == CHOOSE F : IsLine(F)
<1>1. \A j \in Ids : m.obj[j].parent \in 0 .. N
  BY HeapFields
<1>2. /\ s \in SUBSET Ids /\ step \in [SUBSET Ids -> SUBSET Ids] /\ step[{}] = {}
      /\ \A S \in SUBSET Ids : S \subseteq step[S]
  BY <1>1 DEF Ids, NULL
<1>3. \E F : IsLine(F)
  <2>1. PICK F : IsChain(F, N, s, step)
    BY ChainExists, IdsFacts
  <2>2. \A n \in 0 .. N : F[n] \in SUBSET Ids
    <3> HIDE DEF step, s
    <3> QED BY <1>2, <2>1, ChainCloses
  <2>3. ASSUME NEW n \in 0 .. N, n # 0
        PROVE  step[F[n - 1]] = F[n - 1] \cup ({m.obj[j].parent : j \in F[n - 1]} \ {NULL})
    <3>1. F[n - 1] \in SUBSET Ids
      BY <2>2, <2>3, IdsFacts
    <3> QED BY <3>1
  <2>4. IsLine(F)
    BY <2>1, <2>3 DEF IsChain
  <2> QED BY <2>4
<1>4. IsLine(G)
  <2> HIDE DEF IsLine
  <2> QED BY <1>3
<1>5. Ancestors(m, c) = G[N]
  BY DEF Ancestors
<1> HIDE DEF G
<1>6. \A n \in 0 .. N : G[n] \subseteq Ids
  <2> DEFINE Bad == {n \in 0 .. N : ~(G[n] \subseteq Ids)}
  <2> SUFFICES ASSUME Bad # {} PROVE FALSE
    OBVIOUS
  <2>1. PICK x \in Bad : \A y \in Bad : x <= y
    <3>1. Bad \subseteq Nat
      BY IdsFacts
    <3> HIDE DEF Bad
    <3> QED BY <3>1, Smallest
  <2>2. x # 0
    BY <1>2, <1>4
  <2>3. x - 1 \in 0 .. N /\ x - 1 \notin Bad
    BY <2>1, <2>2, IdsFacts
  <2>4. G[x] = G[x - 1] \cup ({m.obj[j].parent : j \in G[x - 1]} \ {NULL})
    BY <1>4, <2>1, <2>2
  <2> QED BY <1>1, <2>3, <2>4 DEF Ids, NULL
<1>7. IsChain(G, N, s, step)
  <2>1. ASSUME NEW n \in 0 .. N, n # 0
        PROVE  step[G[n - 1]] = G[n - 1] \cup ({m.obj[j].parent : j \in G[n - 1]} \ {NULL})
    <3>1. G[n - 1] \in SUBSET Ids
      BY <1>6, <2>1, IdsFacts
    <3> QED BY <3>1
  <2> QED BY <1>4, <2>1 DEF IsChain
<1>8. G[N] \in SUBSET Ids /\ s \subseteq G[N] /\ step[G[N]] = G[N]
  <2> HIDE DEF step, s, IsLine
  <2>1. N \in 0 .. N
    BY IdsFacts
  <2> QED BY <1>2, <1>7, <2>1, ChainCloses
<1>9. ASSUME NEW C \in SUBSET Ids, c # NULL => c \in C,
             \A j \in C : m.obj[j].parent # NULL => m.obj[j].parent \in C
      PROVE  G[N] \subseteq C
  <2>1. s \subseteq C /\ \A S \in SUBSET C : step[S] \subseteq C
    BY <1>9
  <2> HIDE DEF step, s, IsLine
  <2>2. \A n \in 0 .. N : G[n] \subseteq C
    BY <1>2, <1>7, <2>1, ChainLeast
  <2> QED BY <2>2, IdsFacts
<1>10. \A j \in G[N] : m.obj[j].parent # NULL => m.obj[j].parent \in G[N]
  BY <1>8
<1> QED BY <1>5, <1>8, <1>9, <1>10

\* What goes with i: the least set that has i and the values of its containers
\* that have no other reference.
LEMMA DoomedClosed ==
    ASSUME NEW m \in Heaps, NEW i \in Ids
    PROVE  /\ Doomed(m, i) \subseteq Ids
           /\ i \in Doomed(m, i)
           /\ \A j \in Doomed(m, i) : \A v \in Values(m, j) :
                 m.obj[v].ref <= 1 => v \in Doomed(m, i)
           /\ \A C \in SUBSET Ids :
                 i \in C
                 /\ (\A j \in C : \A v \in Values(m, j) : m.obj[v].ref <= 1 => v \in C)
                 => Doomed(m, i) \subseteq C
<1> DEFINE s == {i}
           Falls(S) == {v \in UNION {Values(m, j) : j \in S} : m.obj[v].ref <= 1}
           step == [S \in SUBSET Ids |-> S \cup Falls(S)]
           IsFall(F) == F = [n \in 0 .. N |->
                               IF n = 0 THEN {i}
                               ELSE LET above == F[n - 1]
                                    IN above \cup {v \in UNION {Values(m, j) : j \in above} :
                                                      m.obj[v].ref <= 1}]
           G == CHOOSE F : IsFall(F)
<1>1. \A S \in SUBSET Ids : Falls(S) \subseteq Ids
  BY ValuesFacts
<1>2. /\ s \in SUBSET Ids /\ step \in [SUBSET Ids -> SUBSET Ids] /\ step[{}] = {}
      /\ \A S \in SUBSET Ids : S \subseteq step[S]
  BY <1>1
<1>3. \E F : IsFall(F)
  <2>1. PICK F : IsChain(F, N, s, step)
    BY ChainExists, IdsFacts
  <2>2. \A n \in 0 .. N : F[n] \in SUBSET Ids
    <3> HIDE DEF step, s
    <3> QED BY <1>2, <2>1, ChainCloses
  <2>3. ASSUME NEW n \in 0 .. N, n # 0
        PROVE  step[F[n - 1]] = F[n - 1] \cup Falls(F[n - 1])
    <3>1. F[n - 1] \in SUBSET Ids
      BY <2>2, <2>3, IdsFacts
    <3> HIDE DEF Falls
    <3> QED BY <3>1
  <2>4. IsFall(F)
    BY <2>1, <2>3 DEF IsChain
  <2> QED BY <2>4
<1>4. IsFall(G)
  <2> HIDE DEF IsFall
  <2> QED BY <1>3
<1>5. Doomed(m, i) = G[N]
  BY DEF Doomed
<1> HIDE DEF G
<1>6. \A n \in 0 .. N : G[n] \subseteq Ids
  <2> DEFINE Bad == {n \in 0 .. N : ~(G[n] \subseteq Ids)}
  <2> SUFFICES ASSUME Bad # {} PROVE FALSE
    OBVIOUS
  <2>1. PICK x \in Bad : \A y \in Bad : x <= y
    <3>1. Bad \subseteq Nat
      BY IdsFacts
    <3> HIDE DEF Bad
    <3> QED BY <3>1, Smallest
  <2>2. x # 0
    BY <1>2, <1>4
  <2>3. x - 1 \in 0 .. N /\ x - 1 \notin Bad
    BY <2>1, <2>2, IdsFacts
  <2>4. G[x] = G[x - 1] \cup Falls(G[x - 1])
    BY <1>4, <2>1, <2>2
  <2> HIDE DEF Falls
  <2> QED BY <1>1, <2>3, <2>4
<1>7. IsChain(G, N, s, step)
  <2>1. ASSUME NEW n \in 0 .. N, n # 0
        PROVE  step[G[n - 1]] = G[n - 1] \cup Falls(G[n - 1])
    <3>1. G[n - 1] \in SUBSET Ids
      BY <1>6, <2>1, IdsFacts
    <3> HIDE DEF Falls
    <3> QED BY <3>1
  <2> QED BY <1>4, <2>1 DEF IsChain
<1>8. G[N] \in SUBSET Ids /\ s \subseteq G[N] /\ step[G[N]] = G[N]
  <2> HIDE DEF step, s, IsFall
  <2>1. N \in 0 .. N
    BY IdsFacts
  <2> QED BY <1>2, <1>7, <2>1, ChainCloses
<1>9. ASSUME NEW C \in SUBSET Ids, i \in C,
             \A j \in C : \A v \in Values(m, j) : m.obj[v].ref <= 1 => v \in C
      PROVE  G[N] \subseteq C
  <2>1. s \subseteq C /\ \A S \in SUBSET C : step[S] \subseteq C
    BY <1>9
  <2> HIDE DEF step, s, IsFall
  <2>2. \A n \in 0 .. N : G[n] \subseteq C
    BY <1>2, <1>7, <2>1, ChainLeast
  <2> QED BY <2>2, IdsFacts
<1>10. \A j \in G[N] : \A v \in Values(m, j) : m.obj[v].ref <= 1 => v \in G[N]
  BY <1>8
<1> QED BY <1>5, <1>8, <1>9, <1>10

LEMMA AncestorsLeast ==
    ASSUME NEW m \in Heaps, NEW c \in 0 .. N, NEW C \in SUBSET Ids,
           c # NULL => c \in C,
           \A j \in C : m.obj[j].parent # NULL => m.obj[j].parent \in C
    PROVE  Ancestors(m, c) \subseteq C
  BY AncestorsClosed

(***************************************************************************)
(* No object is above itself.                                              *)
(***************************************************************************)
Acyclic(m) == \A i \in Ids : i \notin Ancestors(m, m.obj[i].parent)

LEMMA NothingAboveNull ==
    ASSUME NEW m \in Heaps
    PROVE  Ancestors(m, NULL) = {}
<1>1. NULL \in 0 .. N
  BY IdsFacts DEF NULL
<1> DEFINE C == {}
<1>2. C \in SUBSET Ids /\ \A j \in C : m.obj[j].parent # NULL => m.obj[j].parent \in C
  OBVIOUS
<1> HIDE DEF C
<1>3. Ancestors(m, NULL) \subseteq C
  BY <1>1, <1>2, AncestorsClosed
<1> QED BY <1>3 DEF C

\* What is above something above c is above c.
LEMMA AncestorsOf ==
    ASSUME NEW m \in Heaps, NEW c \in 0 .. N, NEW j \in Ancestors(m, c)
    PROVE  Ancestors(m, j) \subseteq Ancestors(m, c)
<1>1. j \in Ids /\ j \in 0 .. N /\ Ancestors(m, c) \in SUBSET Ids
  BY AncestorsClosed DEF Ids
<1>2. \A x \in Ancestors(m, c) :
          m.obj[x].parent # NULL => m.obj[x].parent \in Ancestors(m, c)
  BY AncestorsClosed
<1> HIDE DEF NULL
<1> QED BY <1>1, <1>2, AncestorsClosed

\* What is above i is i and what is above its parent.
LEMMA AncestorsUp ==
    ASSUME NEW m \in Heaps, NEW i \in Ids
    PROVE  /\ i \in Ancestors(m, i)
           /\ Ancestors(m, m.obj[i].parent) \subseteq Ancestors(m, i)
           /\ Ancestors(m, i) \subseteq {i} \cup Ancestors(m, m.obj[i].parent)
<1> DEFINE p == m.obj[i].parent
           C == {i} \cup Ancestors(m, p)
<1>1. i \in 0 .. N /\ i # NULL /\ p \in 0 .. N
  BY HeapFields DEF Ids, NULL
<1>2. i \in Ancestors(m, i)
  BY <1>1, AncestorsClosed
<1>3. Ancestors(m, p) \subseteq Ancestors(m, i)
  <2>1. CASE p = NULL
    BY <2>1, NothingAboveNull
  <2>2. CASE p # NULL
    <3>1. p \in Ancestors(m, i)
      BY <1>1, <1>2, <2>2, AncestorsClosed
    <3> QED BY <1>1, <3>1, AncestorsOf
  <2> QED BY <2>1, <2>2
<1>4. Ancestors(m, i) \subseteq C
  <2>1. C \in SUBSET Ids /\ i \in C
    BY <1>1, AncestorsClosed
  <2>2. \A j \in C : m.obj[j].parent # NULL => m.obj[j].parent \in C
    BY <1>1, AncestorsClosed
  <2> HIDE DEF C
  <2> QED BY <1>1, <2>1, <2>2, AncestorsClosed
<1> QED BY <1>2, <1>3, <1>4

\* Nothing new above anything when blocks only lose their parents.
LEMMA FewerParents ==
    ASSUME NEW m \in Heaps, NEW m2 \in Heaps, Acyclic(m),
           \A j \in Ids : m2.obj[j].parent \in {m.obj[j].parent, NULL}
    PROVE  /\ Acyclic(m2)
           /\ \A c \in 0 .. N : Ancestors(m2, c) \subseteq Ancestors(m, c)
<1>1. ASSUME NEW c \in 0 .. N
      PROVE  Ancestors(m2, c) \subseteq Ancestors(m, c)
  <2>1. Ancestors(m, c) \in SUBSET Ids /\ (c # NULL => c \in Ancestors(m, c))
    BY AncestorsClosed
  <2>2. \A j \in Ancestors(m, c) :
            m2.obj[j].parent # NULL => m2.obj[j].parent \in Ancestors(m, c)
    BY <2>1, AncestorsClosed
  <2> QED BY <2>1, <2>2, AncestorsClosed
<1>2. ASSUME NEW i \in Ids
      PROVE  i \notin Ancestors(m2, m2.obj[i].parent)
  <2>1. CASE m2.obj[i].parent = NULL
    BY <2>1, NothingAboveNull
  <2>2. CASE m2.obj[i].parent = m.obj[i].parent
    BY <1>1, <2>2, HeapFields DEF Acyclic
  <2> QED BY <2>1, <2>2
<1> QED BY <1>1, <1>2 DEF Acyclic

\* A value gets a parent it is not above, and others may lose theirs.
LEMMA NewParent ==
    ASSUME NEW m \in Heaps, NEW m2 \in Heaps, Acyclic(m),
           NEW c \in Ids, NEW v \in Ids, v \notin Ancestors(m, c),
           m2.obj[v].parent = c,
           \A j \in Ids \ {v} : m2.obj[j].parent \in {m.obj[j].parent, NULL}
    PROVE  Acyclic(m2)
<1> DEFINE A == Ancestors(m, c)
<1>1. c \in 0 .. N /\ c # NULL /\ A \in SUBSET Ids /\ c \in A
  BY AncestorsClosed DEF Ids, NULL
<1>2. \A j \in A : m.obj[j].parent # NULL => m.obj[j].parent \in A
  BY <1>1, AncestorsClosed
<1>3. ASSUME NEW i \in Ids
      PROVE  i \notin Ancestors(m2, m2.obj[i].parent)
  <2>1. CASE i = v
    <3>1. \A j \in A : m2.obj[j].parent # NULL => m2.obj[j].parent \in A
      BY <1>1, <1>2
    <3>2. Ancestors(m2, c) \subseteq A
      <4> HIDE DEF A
      <4> QED BY <1>1, <3>1, AncestorsClosed
    <3> QED BY <2>1, <3>2
  <2>2. CASE i # v
    <3> DEFINE p == m.obj[i].parent
               B == Ancestors(m, p)
               C == IF v \in B THEN A \cup B ELSE B
    <3>1. p \in 0 .. N
      BY HeapFields
    <3>2. m2.obj[i].parent \in {p, NULL}
      BY <2>2
    <3>3. B \in SUBSET Ids /\ (p # NULL => p \in B)
          /\ \A j \in B : m.obj[j].parent # NULL => m.obj[j].parent \in B
      BY <3>1, AncestorsClosed
    <3>4. \A j \in C : m2.obj[j].parent # NULL => m2.obj[j].parent \in C
      <4> HIDE DEF A, B
      <4>1. \A j \in C : j \in Ids /\ (j \in A \/ j \in B) /\ (j = v => v \in B)
        BY <1>1, <3>3
      <4>2. \A j \in C : j # v /\ m.obj[j].parent # NULL => m.obj[j].parent \in C
        BY <1>2, <3>3, <4>1
      <4>3. v \in C => c \in C
        BY <1>1, <4>1
      <4> HIDE DEF C
      <4> QED BY <4>1, <4>2, <4>3
    <3>5. Ancestors(m2, p) \subseteq C
      <4>1. C \in SUBSET Ids /\ (p # NULL => p \in C)
        <5> HIDE DEF A, B
        <5> QED BY <1>1, <3>3
      <4> HIDE DEF C, p
      <4> QED BY <3>1, <3>4, <4>1, AncestorsLeast
    <3>6. i \notin B
      BY DEF Acyclic
    <3>7. ASSUME v \in B, i \in A
          PROVE  FALSE
      <4>1. v \in Ancestors(m, i)
        BY <3>7, AncestorsUp
      <4>2. v \in Ancestors(m, c)
        BY <1>1, <3>7, <4>1, AncestorsOf
      <4> QED BY <4>2
    <3>8. Ancestors(m2, NULL) = {}
      BY NothingAboveNull
    <3> HIDE DEF A, B
    <3> QED BY <3>2, <3>5, <3>6, <3>7, <3>8
  <2> QED BY <2>1, <2>2
<1> QED BY <1>3 DEF Acyclic

(***************************************************************************)
(* What a heap is between two calls, for a program that holds the          *)
(* references h.                                                           *)
(***************************************************************************)

\* The values of containers and the parent pointers are one relation, and a
\* container has a value once.
Linked(m) ==
    /\ \A c \in Ids : \A k \in DOMAIN m.obj[c].items :
          m.obj[m.obj[c].items[k].val].parent = c
    /\ \A c \in Ids : \A k, l \in DOMAIN m.obj[c].items :
          m.obj[c].items[k].val = m.obj[c].items[l].val => k = l
    /\ \A i \in Ids : m.obj[i].parent # NULL => i \in Values(m, m.obj[i].parent)

Counted(m, h) ==
    \A i \in Ids :
        m.obj[i].ref = h[i] + Count(m.obj[i].parent # NULL) + m.obj[i].forgot

Alive(m) ==
    \A i \in Ids : IF m.obj[i].type = "free" THEN m.obj[i] = Dead ELSE m.obj[i].ref > 0

UniqueKeys(m) ==
    \A d \in Ids : m.obj[d].type = "dict" =>
        \A k, l \in DOMAIN m.obj[d].items :
            m.obj[d].items[k].key = m.obj[d].items[l].key => k = l

\* Only containers have items.
Bare(m) ==
    \A i \in Ids : m.obj[i].type \notin Containers => m.obj[i].items = <<>>

HeapInv(m, h) ==
    /\ m \in Heaps /\ h \in [Ids -> Nat]
    /\ Linked(m) /\ Acyclic(m) /\ Counted(m, h) /\ Alive(m) /\ UniqueKeys(m) /\ Bare(m)

\* n: the text buffers in the hands of the call.
Managed(m) == {i \in Ids : m.obj[i].managed}

TextsOK(m, n) ==
    m.bufs = Cardinality(Managed(m)) + m.lost.given + m.lost.made + n

LEMMA DeadFacts ==
    /\ Dead \in Block
    /\ Dead.type = "free" /\ Dead.ref = 0 /\ Dead.parent = NULL /\ Dead.items = <<>>
    /\ Dead.forgot = 0 /\ Dead.managed = FALSE /\ Dead.text = Empty
    /\ DOMAIN Dead.items = {}
<1>1. Empty \in STRING /\ NULL \in 0 .. N
  <2>1. Empty \in STRING
    BY ObjectAssumption
  <2>2. NULL \in 0 .. N
    BY IdsFacts DEF NULL
  <2> QED BY <2>1, <2>2
<1>2. <<>> \in Seq(Item) /\ DOMAIN <<>> = {}
  BY EmptySeq
<1> QED BY <1>1, <1>2 DEF Dead, Block

LEMMA HeapFacts ==
    ASSUME NEW m, NEW h, HeapInv(m, h), NEW i \in Ids
    PROVE  /\ h[i] \in Nat
           /\ m.obj[i].type = "free" =>
                 h[i] = 0 /\ m.obj[i].parent = NULL /\ Values(m, i) = {} /\ m.obj[i] = Dead
           /\ m.obj[i].ref > 0 => m.obj[i].type # "free"
           /\ \A v \in Values(m, i) : /\ v \in Ids /\ m.obj[v].parent = i
                                      /\ m.obj[v].type # "free" /\ m.obj[v].ref > 0
<1>1. m \in Heaps /\ h \in [Ids -> Nat]
  BY DEF HeapInv
<1>2. h[i] \in Nat /\ m.obj[i].ref \in Nat /\ m.obj[i].forgot \in Nat
  BY <1>1, HeapFields
<1>3. ASSUME m.obj[i].type = "free"
      PROVE  h[i] = 0 /\ m.obj[i].parent = NULL /\ Values(m, i) = {} /\ m.obj[i] = Dead
  <2>1. m.obj[i] = Dead
    BY <1>3 DEF HeapInv, Alive
  <2>2. Values(m, i) = {}
    BY <2>1, DeadFacts DEF Values
  <2>3. 0 = h[i] + 0 + 0
    BY <2>1, DeadFacts DEF HeapInv, Counted, Count
  <2> QED BY <1>2, <2>1, <2>2, <2>3, DeadFacts
<1>4. m.obj[i].ref > 0 => m.obj[i].type # "free"
  BY DeadFacts DEF HeapInv, Alive
<1>5. ASSUME NEW v \in Values(m, i)
      PROVE  /\ v \in Ids /\ m.obj[v].parent = i
             /\ m.obj[v].type # "free" /\ m.obj[v].ref > 0
  <2>1. v \in Ids /\ m.obj[v].parent = i
    BY <1>1, ValuesFacts DEF HeapInv, Linked, Values
  <2>2. i # NULL
    BY DEF Ids, NULL
  <2>3. m.obj[v].ref = h[v] + 1 + m.obj[v].forgot
    BY <2>1, <2>2 DEF HeapInv, Counted, Count
  <2>4. h[v] \in Nat /\ m.obj[v].forgot \in Nat
    BY <1>1, <2>1, HeapFields
  <2>5. m.obj[v].ref > 0
    BY <2>3, <2>4
  <2> QED BY <2>1, <2>5, DeadFacts DEF HeapInv, Alive
<1> QED BY <1>2, <1>3, <1>4, <1>5

\* Links are a matter of parents and items.
LEMMA SameLinks ==
    ASSUME NEW m \in Heaps, Linked(m), NEW m2,
           \A i \in Ids : m2.obj[i].parent = m.obj[i].parent
                          /\ m2.obj[i].items = m.obj[i].items
    PROVE  Linked(m2)
<1>1. \A c \in Ids : \A k \in DOMAIN m.obj[c].items : m.obj[c].items[k].val \in Ids
  BY ValuesFacts DEF Item
<1>2. \A i \in Ids : m.obj[i].parent # NULL => m.obj[i].parent \in Ids
  BY HeapFields DEF Ids, NULL
<1>3. \A c \in Ids : Values(m2, c) = Values(m, c)
  BY DEF Values
<1>4. \A c \in Ids : \A k \in DOMAIN m2.obj[c].items :
          m2.obj[m2.obj[c].items[k].val].parent = c
  <2> SUFFICES ASSUME NEW c \in Ids, NEW k \in DOMAIN m.obj[c].items
               PROVE  m2.obj[m.obj[c].items[k].val].parent = c
    OBVIOUS
  <2>1. m.obj[m.obj[c].items[k].val].parent = c
    BY DEF Linked
  <2>2. m.obj[c].items[k].val \in Ids
    BY <1>1
  <2> QED BY <2>1, <2>2
<1>5. \A c \in Ids : \A k, l \in DOMAIN m2.obj[c].items :
          m2.obj[c].items[k].val = m2.obj[c].items[l].val => k = l
  BY DEF Linked
<1>6. \A i \in Ids : m2.obj[i].parent # NULL => i \in Values(m2, m2.obj[i].parent)
  BY <1>2, <1>3 DEF Linked
<1> QED BY <1>4, <1>5, <1>6 DEF Linked

\* A heap with the same shape.
LEMMA SameShape ==
    ASSUME NEW m, NEW h, HeapInv(m, h), NEW m2 \in Heaps, NEW h2 \in [Ids -> Nat],
           \A i \in Ids : /\ m2.obj[i].type = m.obj[i].type
                          /\ m2.obj[i].parent = m.obj[i].parent
                          /\ m2.obj[i].items = m.obj[i].items
                          /\ m.obj[i].type = "free" => m2.obj[i] = m.obj[i]
                          /\ m.obj[i].type # "free" => m2.obj[i].ref > 0,
           Counted(m2, h2)
    PROVE  HeapInv(m2, h2)
<1>1. m \in Heaps /\ Linked(m) /\ Acyclic(m) /\ Alive(m) /\ UniqueKeys(m) /\ Bare(m)
  BY DEF HeapInv
<1>2. \A c \in Ids : Values(m2, c) = Values(m, c)
  BY DEF Values
<1>3. Linked(m2)
  BY <1>1, SameLinks
<1>4. Acyclic(m2)
  BY <1>1, FewerParents
<1>5. Alive(m2) /\ UniqueKeys(m2)
  BY <1>1 DEF Alive, UniqueKeys
<1>6. Bare(m2)
  BY <1>1 DEF Bare
<1> QED BY <1>3, <1>4, <1>5, <1>6 DEF HeapInv

(***************************************************************************)
(* References.                                                             *)
(***************************************************************************)
LEMMA FreshFacts ==
    ASSUME NEW m, NEW h, HeapInv(m, h), HasRoom(m, 1)
    PROVE  /\ Fresh(m) \in Ids /\ m.obj[Fresh(m)] = Dead /\ h[Fresh(m)] = 0
           /\ \A c \in Ids : Fresh(m) \notin Values(m, c)
<1> DEFINE Free == Ids \ Live(m)
<1>1. Free \subseteq Ids /\ IsFiniteSet(Free) /\ Free # {}
  <2>1. Free \in SUBSET Ids
    OBVIOUS
  <2>2. IsFiniteSet(Free)
    BY <2>1, IdsFacts, FS_Subset
  <2>3. Cardinality(Free) # 0
    BY <2>2, FS_CardinalityType DEF HasRoom
  <2> HIDE DEF Free
  <2> QED BY <2>1, <2>2, <2>3, FS_EmptySet
<1>2. \E i \in Free : \A j \in Free : i <= j
  <2>1. Free \subseteq Nat
    BY <1>1 DEF Ids
  <2> HIDE DEF Free
  <2> QED BY <1>1, <2>1, Smallest
<1>3. Fresh(m) \in Free
  BY <1>2 DEF Fresh
<1>4. Fresh(m) \in Ids /\ m.obj[Fresh(m)].type = "free"
  BY <1>3 DEF Live
<1> QED BY <1>4, HeapFacts

Born(m2, m, f, type) ==
    /\ m2 \in Heaps /\ m2.bufs = m.bufs /\ m2.lost = m.lost
    /\ \A j \in Ids \ {f} : m2.obj[j] = m.obj[j]
    /\ m2.obj[f].type = type /\ m2.obj[f].ref = 1
    /\ m2.obj[f].parent = NULL /\ m2.obj[f].items = <<>>
    /\ m2.obj[f].forgot = 0 /\ m2.obj[f].managed = FALSE /\ m2.obj[f].text = Empty

LEMMA NewObjectFields ==
    ASSUME NEW m, NEW h, HeapInv(m, h), HasRoom(m, 1), NEW type \in Types
    PROVE  Born(NewObject(m, type), m, Fresh(m), type)
<1> DEFINE f == Fresh(m)
           b == [Dead EXCEPT !.type = type, !.ref = 1]
           m2 == NewObject(m, type)
<1>1. m \in Heaps /\ f \in Ids
  BY FreshFacts DEF HeapInv
<1>2. /\ b.type = type /\ b.ref = 1 /\ b.parent = NULL /\ b.items = <<>>
      /\ b.forgot = 0 /\ b.managed = FALSE /\ b.text = Empty
  BY DEF Dead
<1>3. b \in Block
  BY DeadFacts DEF Block
<1> HIDE DEF f, b
<1>4. m2 = [m EXCEPT !.obj[f] = b]
  BY DEF NewObject, f, b
<1>5. m2 \in Heaps
  BY <1>1, <1>3, <1>4 DEF Heaps
<1>6. /\ m2.bufs = m.bufs /\ m2.lost = m.lost /\ m2.obj[f] = b
      /\ \A j \in Ids \ {f} : m2.obj[j] = m.obj[j]
  BY <1>1, <1>4 DEF Heaps
<1> QED BY <1>2, <1>5, <1>6 DEF f, Born

\* A new object belongs to the caller.
LEMMA NewObjectKeeps ==
    ASSUME NEW m, NEW h, HeapInv(m, h), HasRoom(m, 1), NEW type \in Types
    PROVE  HeapInv(NewObject(m, type), [h EXCEPT ![Fresh(m)] = @ + 1])
<1> DEFINE f == Fresh(m)
           m2 == NewObject(m, type)
           h2 == [h EXCEPT ![f] = @ + 1]
<1>1. /\ m \in Heaps /\ h \in [Ids -> Nat] /\ f \in Ids /\ m.obj[f] = Dead /\ h[f] = 0
      /\ \A c \in Ids : f \notin Values(m, c)
  BY FreshFacts DEF HeapInv
<1>2. /\ m2 \in Heaps
      /\ \A j \in Ids \ {f} : m2.obj[j] = m.obj[j]
      /\ m2.obj[f].type = type /\ m2.obj[f].ref = 1 /\ m2.obj[f].parent = NULL
      /\ m2.obj[f].items = <<>> /\ m2.obj[f].forgot = 0
  <2>1. Born(m2, m, f, type)
    BY NewObjectFields
  <2> HIDE DEF m2, f
  <2> QED BY <2>1 DEF Born
<1>3. h2 \in [Ids -> Nat] /\ h2[f] = 1 /\ \A j \in Ids \ {f} : h2[j] = h[j]
  BY <1>1
<1> HIDE DEF m2, h2, f
<1>4. Linked(m) /\ Acyclic(m) /\ Counted(m, h) /\ Alive(m) /\ UniqueKeys(m) /\ Bare(m)
  BY DEF HeapInv
<1>5. /\ \A j \in Ids : m2.obj[j].parent = m.obj[j].parent /\ m2.obj[j].items = m.obj[j].items
      /\ \A j \in Ids : DOMAIN m2.obj[j].items = DOMAIN m.obj[j].items
      /\ \A j \in Ids : Values(m2, j) = Values(m, j)
  <2>1. \A j \in Ids : m2.obj[j].parent = m.obj[j].parent /\ m2.obj[j].items = m.obj[j].items
    BY <1>1, <1>2, DeadFacts
  <2> QED BY <2>1 DEF Values
<1>6. Linked(m2)
  BY <1>1, <1>4, <1>5, SameLinks
<1>7. Acyclic(m2)
  BY <1>1, <1>2, <1>4, <1>5, FewerParents
<1>8. Counted(m2, h2)
  BY <1>2, <1>3, <1>4 DEF Counted, Count
<1>9. Alive(m2)
  BY <1>2, <1>4 DEF Alive, Types, Containers
<1>10. UniqueKeys(m2)
  <2>1. \A d \in Ids : d = f => DOMAIN m2.obj[d].items = {}
    BY <1>1, <1>5, DeadFacts
  <2> QED BY <1>2, <1>4, <2>1 DEF UniqueKeys
<1>11. Bare(m2)
  BY <1>2, <1>4 DEF Bare
<1> QED BY <1>2, <1>3, <1>6, <1>7, <1>8, <1>9, <1>10, <1>11 DEF HeapInv, m2, h2, f

LEMMA RefFields ==
    ASSUME NEW m \in Heaps, NEW i \in Ids
    PROVE  LET m2 == Ref(m, i)
           IN /\ m2 \in Heaps /\ m2.bufs = m.bufs /\ m2.lost = m.lost
              /\ \A j \in Ids \ {i} : m2.obj[j] = m.obj[j]
              /\ m2.obj[i] = [m.obj[i] EXCEPT !.ref = @ + 1]
<1> DEFINE m2 == Ref(m, i)
           b == [m.obj[i] EXCEPT !.ref = @ + 1]
<1>1. (IF m.obj[i].ref <= 0 THEN 1 ELSE m.obj[i].ref + 1) = m.obj[i].ref + 1
  BY HeapFields
<1>2. m2 = [m EXCEPT !.obj[i] = b]
  BY <1>1 DEF Ref, Heaps, Block
<1>3. b \in Block
  <2> DEFINE o == m.obj[i]
  <2>1. o \in Block /\ o.ref + 1 \in Nat
    BY HeapFields
  <2> HIDE DEF o
  <2>2. [o EXCEPT !.ref = @ + 1] \in Block
    BY <2>1 DEF Block
  <2> QED BY <2>2 DEF o
<1> HIDE DEF b
<1>4. m2 \in Heaps
  BY <1>2, <1>3 DEF Heaps
<1>5. /\ m2.bufs = m.bufs /\ m2.lost = m.lost /\ m2.obj[i] = b
      /\ \A j \in Ids \ {i} : m2.obj[j] = m.obj[j]
  BY <1>2 DEF Heaps
<1> QED BY <1>4, <1>5 DEF b

\* The caller gets one more reference to an object that is alive.
LEMMA RefKeeps ==
    ASSUME NEW m, NEW h, HeapInv(m, h), NEW i \in Ids, m.obj[i].type # "free"
    PROVE  HeapInv(Ref(m, i), [h EXCEPT ![i] = @ + 1])
<1> DEFINE m2 == Ref(m, i)
           h2 == [h EXCEPT ![i] = @ + 1]
<1>1. m \in Heaps /\ h \in [Ids -> Nat]
  BY DEF HeapInv
<1>2. /\ m2 \in Heaps
      /\ \A j \in Ids \ {i} : m2.obj[j] = m.obj[j]
      /\ m2.obj[i] = [m.obj[i] EXCEPT !.ref = @ + 1]
  BY <1>1, RefFields
<1>3. h2 \in [Ids -> Nat] /\ h2[i] = h[i] + 1 /\ \A j \in Ids \ {i} : h2[j] = h[j]
  BY <1>1
<1> HIDE DEF m2, h2
<1>4. /\ m2.obj[i].type = m.obj[i].type /\ m2.obj[i].parent = m.obj[i].parent
      /\ m2.obj[i].items = m.obj[i].items /\ m2.obj[i].forgot = m.obj[i].forgot
      /\ m2.obj[i].ref = m.obj[i].ref + 1 /\ m.obj[i].ref \in Nat
  BY <1>1, <1>2, HeapFields DEF Block
<1>5. Counted(m2, h2)
  <2> SUFFICES ASSUME NEW j \in Ids
               PROVE  m2.obj[j].ref = h2[j] + Count(m2.obj[j].parent # NULL) + m2.obj[j].forgot
    BY DEF Counted
  <2>1. m.obj[j].ref = h[j] + Count(m.obj[j].parent # NULL) + m.obj[j].forgot
    BY DEF HeapInv, Counted
  <2>2. h[j] \in Nat /\ m.obj[j].forgot \in Nat
    BY <1>1, HeapFields
  <2>3. CASE j = i
    BY <1>3, <1>4, <2>1, <2>2, <2>3 DEF Count
  <2>4. CASE j # i
    BY <1>2, <1>3, <2>1, <2>4
  <2> QED BY <2>3, <2>4
<1>6. ASSUME NEW j \in Ids
      PROVE  /\ m2.obj[j].type = m.obj[j].type
             /\ m2.obj[j].parent = m.obj[j].parent
             /\ m2.obj[j].items = m.obj[j].items
             /\ m.obj[j].type = "free" => m2.obj[j] = m.obj[j]
             /\ m.obj[j].type # "free" => m2.obj[j].ref > 0
  <2>1. CASE j = i
    BY <1>4, <2>1
  <2>2. CASE j # i
    BY <1>2, <2>2 DEF HeapInv, Alive
  <2> QED BY <2>1, <2>2
<1>7. HeapInv(m2, h2)
  BY <1>2, <1>3, <1>5, <1>6, SameShape
<1> QED BY <1>7 DEF m2, h2

(***************************************************************************)
(* Release, of a set D of blocks with the references to R given back.      *)
(***************************************************************************)
\* R are given up by the program and have no other holder; D is what goes with
\* them.
Goes(m, h, R, D) ==
    /\ R \subseteq D /\ D \subseteq Ids
    /\ \A r \in R : h[r] > 0 /\ m.obj[r].ref <= 1
    /\ \A j \in D : \A v \in Values(m, j) : m.obj[v].ref <= 1 => v \in D
    /\ \A j \in D \ R : m.obj[j].ref <= 1 /\ m.obj[j].parent \in D

\* A value whose container goes loses its parent and one reference.
Lowered(b, o) ==
    /\ b.parent = NULL /\ b.ref = o.ref - 1
    /\ b.type = o.type /\ b.items = o.items /\ b.forgot = o.forgot
    /\ b.text = o.text /\ b.managed = o.managed

LEMMA ReleaseFields ==
    ASSUME NEW m, NEW h, HeapInv(m, h), NEW D \in SUBSET Ids, NEW n \in Nat, TextsOK(m, n)
    PROVE  LET m2 == Release(m, D)
           IN /\ m2 \in Heaps /\ m2.lost = m.lost /\ TextsOK(m2, n)
              /\ \A j \in D : m2.obj[j] = Dead
              /\ \A j \in Ids \ D : m.obj[j].parent \in D =>
                    Lowered(m2.obj[j], m.obj[j])
              /\ \A j \in Ids \ D : m.obj[j].parent \notin D => m2.obj[j] = m.obj[j]
<1> DEFINE m2 == Release(m, D)
           Gone == {j \in D : m.obj[j].managed}
           f == [j \in Ids |->
                    IF j \in D THEN Dead
                    ELSE IF \E c \in D : j \in Values(m, c) THEN LetGo(m.obj[j])
                    ELSE m.obj[j]]
<1>1. m \in Heaps /\ Linked(m)
  BY DEF HeapInv
<1>2. ASSUME NEW j \in Ids
      PROVE  (\E c \in D : j \in Values(m, c)) <=> m.obj[j].parent \in D
  <2>1. ASSUME NEW c \in D, j \in Values(m, c)
        PROVE  m.obj[j].parent \in D
    BY <2>1, HeapFacts
  <2>2. ASSUME m.obj[j].parent \in D
        PROVE  j \in Values(m, m.obj[j].parent)
    <3>1. m.obj[j].parent # NULL
      BY <2>2 DEF Ids, NULL
    <3> QED BY <1>1, <3>1 DEF Linked
  <2> QED BY <2>1, <2>2
<1>3. ASSUME NEW j \in Ids, \E c \in D : j \in Values(m, c)
      PROVE  LetGo(m.obj[j]) \in Block
  <2>1. m.obj[j].ref > 0
    BY <1>3, HeapFacts
  <2> DEFINE o == m.obj[j]
  <2>2. o \in Block /\ o.ref - 1 \in Nat /\ NULL \in 0 .. N
    BY <1>1, <2>1, HeapFields, IdsFacts DEF NULL
  <2> HIDE DEF o
  <2>3. LetGo(o) \in Block
    BY <2>2 DEF Block, LetGo
  <2> QED BY <2>3 DEF o
<1>4. f \in [Ids -> Block]
  <2>1. \A j \in Ids : m.obj[j] \in Block
    BY <1>1, HeapFields
  <2> QED BY <1>3, <2>1, DeadFacts
<1>5. /\ IsFiniteSet(Managed(m)) /\ Gone \subseteq Managed(m)
      /\ IsFiniteSet(Gone) /\ IsFiniteSet(Managed(m) \ Gone)
      /\ Cardinality(Managed(m)) \in Nat /\ Cardinality(Gone) \in Nat
      /\ Cardinality(Managed(m) \ Gone) = Cardinality(Managed(m)) - Cardinality(Gone)
  <2>1. Managed(m) \in SUBSET Ids /\ Gone \in SUBSET Managed(m)
    BY DEF Managed
  <2>2. IsFiniteSet(Managed(m))
    BY <2>1, IdsFacts, FS_Subset
  <2> HIDE DEF Gone
  <2>3. IsFiniteSet(Gone)
    BY <2>1, <2>2, FS_Subset
  <2>4. Managed(m) \cap Gone = Gone
    BY <2>1
  <2> QED BY <2>1, <2>2, <2>3, <2>4, FS_Difference, FS_CardinalityType
<1>6. Cardinality(Managed(m) \ Gone) \in Nat
  BY <1>5, FS_CardinalityType
<1>7. m.bufs \in Nat /\ m.lost.given \in Nat /\ m.lost.made \in Nat
  BY <1>1 DEF Heaps
<1> DEFINE left == m.bufs - Cardinality(Gone)
<1>8. left \in Nat /\ left = Cardinality(Managed(m) \ Gone) + m.lost.given + m.lost.made + n
  <2> HIDE DEF Gone
  <2> QED BY <1>5, <1>6, <1>7 DEF TextsOK
<1>9. m2 = [m EXCEPT !.obj = f, !.bufs = left]
  BY DEF Release
<1> HIDE DEF f, left
<1>10. m2 \in Heaps
  BY <1>1, <1>4, <1>8, <1>9 DEF Heaps
<1>11. m2.lost = m.lost /\ m2.obj = f /\ m2.bufs = left
  BY <1>1, <1>9 DEF Heaps
<1> HIDE DEF m2
<1>12. \A j \in D : m2.obj[j] = Dead
  BY <1>11 DEF f
<1>13. \A j \in Ids \ D : m.obj[j].parent \in D => m2.obj[j] = LetGo(m.obj[j])
  <2> QED BY <1>2, <1>11 DEF f
<1>14. \A j \in Ids \ D : m.obj[j].parent \in D => Lowered(m2.obj[j], m.obj[j])
  <2>1. ASSUME NEW b \in Block
        PROVE  Lowered(LetGo(b), b)
    BY DEF Lowered, LetGo, Block
  <2> SUFFICES ASSUME NEW j \in Ids \ D, m.obj[j].parent \in D
               PROVE  Lowered(m2.obj[j], m.obj[j])
    OBVIOUS
  <2>2. m.obj[j] \in Block
    BY <1>1, HeapFields
  <2> QED BY <1>13, <2>1, <2>2
<1>15. \A j \in Ids \ D : m.obj[j].parent \notin D => m2.obj[j] = m.obj[j]
  BY <1>2, <1>11 DEF f
<1>16. Managed(m2) = Managed(m) \ Gone
  <2>1. \A j \in Ids \ D : m2.obj[j].managed = m.obj[j].managed
    BY <1>14, <1>15 DEF Lowered
  <2> QED BY <1>12, <2>1, DeadFacts DEF Managed
<1>17. TextsOK(m2, n)
  <2> HIDE DEF Gone
  <2> QED BY <1>8, <1>11, <1>16 DEF TextsOK
<1> QED BY <1>10, <1>11, <1>12, <1>14, <1>15, <1>17 DEF m2

LEMMA ReleaseKeeps ==
    ASSUME NEW m, NEW h, HeapInv(m, h), NEW n \in Nat, TextsOK(m, n),
           NEW R, NEW D, Goes(m, h, R, D)
    PROVE  HeapInv(Release(m, D), [j \in Ids |-> IF j \in R THEN h[j] - 1 ELSE h[j]])
<1> DEFINE m2 == Release(m, D)
           h2 == [j \in Ids |-> IF j \in R THEN h[j] - 1 ELSE h[j]]
<1>1. /\ m \in Heaps /\ h \in [Ids -> Nat]
      /\ Linked(m) /\ Acyclic(m) /\ Counted(m, h) /\ Alive(m) /\ UniqueKeys(m) /\ Bare(m)
  BY DEF HeapInv
<1>2. /\ R \subseteq D /\ D \in SUBSET Ids
      /\ \A r \in R : h[r] > 0 /\ m.obj[r].ref <= 1
      /\ \A j \in D : \A v \in Values(m, j) : m.obj[v].ref <= 1 => v \in D
      /\ \A j \in D \ R : m.obj[j].ref <= 1 /\ m.obj[j].parent \in D
  BY DEF Goes
<1>3. /\ m2 \in Heaps
      /\ \A j \in D : m2.obj[j] = Dead
      /\ \A j \in Ids \ D : m.obj[j].parent \in D => Lowered(m2.obj[j], m.obj[j])
      /\ \A j \in Ids \ D : m.obj[j].parent \notin D => m2.obj[j] = m.obj[j]
  BY <1>2, ReleaseFields
<1>4. h2 \in [Ids -> Nat] /\ \A j \in Ids : h2[j] = IF j \in R THEN h[j] - 1 ELSE h[j]
  BY <1>1, <1>2
<1> HIDE DEF m2, h2
\* What is released has no holder left.
<1>5. ASSUME NEW j \in D
      PROVE  h2[j] = 0
  <2>1. /\ m.obj[j].ref = h[j] + Count(m.obj[j].parent # NULL) + m.obj[j].forgot
        /\ h[j] \in Nat /\ m.obj[j].forgot \in Nat /\ m.obj[j].ref \in Nat
    BY <1>1, <1>2, HeapFields DEF Counted
  <2>2. CASE j \in R
    BY <1>2, <1>4, <2>1, <2>2 DEF Count
  <2>3. CASE j \notin R
    <3>1. m.obj[j].parent # NULL
      BY <1>2, <2>3 DEF Ids, NULL
    <3> QED BY <1>2, <1>4, <2>1, <2>3, <3>1 DEF Count
  <2> QED BY <2>2, <2>3
<1>6. ASSUME NEW j \in Ids \ D
      PROVE  /\ m2.obj[j].type = m.obj[j].type /\ m2.obj[j].items = m.obj[j].items
             /\ m2.obj[j].forgot = m.obj[j].forgot /\ h2[j] = h[j]
             /\ m.obj[j].parent \notin D =>
                  m2.obj[j].parent = m.obj[j].parent /\ m2.obj[j].ref = m.obj[j].ref
             /\ m.obj[j].parent \in D =>
                  m2.obj[j].parent = NULL /\ m2.obj[j].ref = m.obj[j].ref - 1
  BY <1>2, <1>3, <1>4 DEF Lowered
\* A container that stays has no value that goes.
<1>7. ASSUME NEW c \in Ids \ D, NEW v \in Values(m, c)
      PROVE  v \in Ids \ D /\ m.obj[v].parent = c
  <2>1. v \in Ids /\ m.obj[v].parent = c
    BY HeapFacts
  <2>2. v \notin R
    <3> SUFFICES ASSUME v \in R PROVE FALSE
      OBVIOUS
    <3>1. m.obj[v].ref = h[v] + 1 + m.obj[v].forgot
      BY <1>1, <2>1 DEF Counted, Count, Ids, NULL
    <3>2. h[v] \in Nat /\ m.obj[v].forgot \in Nat
      BY <1>1, <2>1, HeapFields
    <3> QED BY <1>2, <3>1, <3>2
  <2> QED BY <1>2, <2>1, <2>2
<1>8. ASSUME NEW c \in Ids
      PROVE  /\ c \in D => DOMAIN m2.obj[c].items = {} /\ Values(m2, c) = {}
             /\ c \notin D => Values(m2, c) = Values(m, c)
  <2>1. CASE c \in D
    <3>1. m2.obj[c].items = Dead.items
      BY <1>3, <2>1
    <3>2. DOMAIN m2.obj[c].items = {}
      BY <3>1, DeadFacts
    <3> QED BY <2>1, <3>2 DEF Values
  <2>2. CASE c \notin D
    <3>1. m2.obj[c].items = m.obj[c].items
      BY <1>6, <2>2
    <3> QED BY <2>2, <3>1 DEF Values
  <2> QED BY <2>1, <2>2
<1>9. Linked(m2)
  <2>1. ASSUME NEW c \in Ids, NEW k \in DOMAIN m2.obj[c].items
        PROVE  m2.obj[m2.obj[c].items[k].val].parent = c
    <3>1. c \in Ids \ D /\ m2.obj[c].items = m.obj[c].items
      BY <1>6, <1>8
    <3>2. m.obj[c].items[k].val \in Values(m, c)
      BY <3>1 DEF Values
    <3> QED BY <1>6, <1>7, <3>1, <3>2
  <2>2. ASSUME NEW c \in Ids, NEW k \in DOMAIN m2.obj[c].items,
               NEW l \in DOMAIN m2.obj[c].items,
               m2.obj[c].items[k].val = m2.obj[c].items[l].val
        PROVE  k = l
    <3>1. c \in Ids \ D /\ m2.obj[c].items = m.obj[c].items
      BY <1>6, <1>8
    <3> QED BY <1>1, <2>2, <3>1 DEF Linked
  <2>3. ASSUME NEW i \in Ids, m2.obj[i].parent # NULL
        PROVE  i \in Values(m2, m2.obj[i].parent)
    <3>1. i \in Ids \ D
      BY <1>3, <2>3, DeadFacts
    <3>2. m2.obj[i].parent = m.obj[i].parent /\ m.obj[i].parent \notin D
      BY <1>6, <2>3, <3>1
    <3>3. i \in Values(m, m.obj[i].parent) /\ m.obj[i].parent \in Ids
      BY <1>1, <2>3, <3>2, HeapFields DEF Linked, Ids, NULL
    <3> QED BY <1>8, <3>2, <3>3
  <2> QED BY <2>1, <2>2, <2>3 DEF Linked
<1>10. Acyclic(m2)
  <2>1. \A j \in Ids : m2.obj[j].parent \in {m.obj[j].parent, NULL}
    BY <1>3, <1>6, DeadFacts
  <2> QED BY <1>1, <1>3, <2>1, FewerParents
<1>11. Counted(m2, h2)
  <2> SUFFICES ASSUME NEW j \in Ids
               PROVE  m2.obj[j].ref = h2[j] + Count(m2.obj[j].parent # NULL) + m2.obj[j].forgot
    BY DEF Counted
  <2>1. CASE j \in D
    BY <1>3, <1>5, <2>1, DeadFacts DEF Count
  <2>2. CASE j \notin D
    <3>1. /\ m.obj[j].ref = h[j] + Count(m.obj[j].parent # NULL) + m.obj[j].forgot
          /\ h[j] \in Nat /\ m.obj[j].forgot \in Nat
      BY <1>1, HeapFields DEF Counted
    <3>2. m.obj[j].parent \in D => m.obj[j].parent # NULL
      BY <1>2 DEF Ids, NULL
    <3>3. CASE m.obj[j].parent \in D
      <4>1. m.obj[j].ref = h[j] + 1 + m.obj[j].forgot
        BY <3>1, <3>2, <3>3 DEF Count
      <4>2. /\ m2.obj[j].parent = NULL /\ m2.obj[j].ref = m.obj[j].ref - 1
            /\ m2.obj[j].forgot = m.obj[j].forgot /\ h2[j] = h[j]
        BY <1>6, <2>2, <3>3
      <4>3. Count(m2.obj[j].parent # NULL) = 0
        BY <4>2 DEF Count
      <4> QED BY <3>1, <4>1, <4>2, <4>3
    <3>4. CASE m.obj[j].parent \notin D
      <4>1. /\ m2.obj[j].parent = m.obj[j].parent /\ m2.obj[j].ref = m.obj[j].ref
            /\ m2.obj[j].forgot = m.obj[j].forgot /\ h2[j] = h[j]
        BY <1>6, <2>2, <3>4
      <4> QED BY <3>1, <4>1
    <3> QED BY <3>3, <3>4
  <2> QED BY <2>1, <2>2
<1>12. Alive(m2)
  <2> SUFFICES ASSUME NEW j \in Ids
               PROVE  IF m2.obj[j].type = "free" THEN m2.obj[j] = Dead ELSE m2.obj[j].ref > 0
    BY DEF Alive
  <2>1. CASE j \in D
    BY <1>3, <2>1, DeadFacts
  <2>2. CASE j \notin D /\ m.obj[j].parent \in D
    <3>1. j \in Values(m, m.obj[j].parent)
      BY <1>1, <1>2, <2>2 DEF Linked, Ids, NULL
    <3>2. m.obj[j].ref > 1 /\ m.obj[j].type # "free" /\ m.obj[j].ref \in Nat
      BY <1>1, <1>2, <2>2, <3>1, HeapFacts, HeapFields
    <3> QED BY <1>6, <2>2, <3>2
  <2>3. CASE j \notin D /\ m.obj[j].parent \notin D
    BY <1>1, <1>3, <1>6, <2>3 DEF Alive
  <2> QED BY <2>1, <2>2, <2>3
<1>13. UniqueKeys(m2)
  <2>1. \A d \in Ids : d \notin D => m2.obj[d].type = m.obj[d].type
                                    /\ m2.obj[d].items = m.obj[d].items
    BY <1>6
  <2> QED BY <1>1, <1>8, <2>1 DEF UniqueKeys
<1>14. Bare(m2)
  <2>1. \A d \in Ids : d \notin D => m2.obj[d].type = m.obj[d].type
                                    /\ m2.obj[d].items = m.obj[d].items
    BY <1>6
  <2> QED BY <1>1, <1>3, <2>1, DeadFacts DEF Bare
<1>15. HeapInv(m2, h2)
  BY <1>3, <1>4, <1>9, <1>10, <1>11, <1>12, <1>13, <1>14 DEF HeapInv
<1> QED BY <1>15 DEF m2, h2

\* What goes with i, i apart, hangs from what goes with i and has no other
\* reference.
LEMMA DoomedHangs ==
    ASSUME NEW m, NEW h, HeapInv(m, h), NEW i \in Ids, NEW j \in Doomed(m, i) \ {i}
    PROVE  m.obj[j].ref <= 1 /\ m.obj[j].parent \in Doomed(m, i)
<1> DEFINE D == Doomed(m, i)
           C == {i} \cup {d \in D : m.obj[d].ref <= 1 /\ m.obj[d].parent \in D}
<1>1. m \in Heaps
  BY DEF HeapInv
<1>2. /\ D \in SUBSET Ids /\ i \in D
      /\ \A d \in D : \A v \in Values(m, d) : m.obj[v].ref <= 1 => v \in D
  BY <1>1, DoomedClosed
<1>3. C \in SUBSET Ids /\ C \subseteq D /\ i \in C
  <2> HIDE DEF D
  <2> QED BY <1>2
<1>4. ASSUME NEW d \in C, NEW v \in Values(m, d), m.obj[v].ref <= 1
      PROVE  v \in C
  <2> HIDE DEF D
  <2>1. d \in Ids /\ d \in D
    BY <1>3
  <2>2. v \in D /\ m.obj[v].parent = d
    BY <1>2, <1>4, <2>1, HeapFacts
  <2> QED BY <1>4, <2>1, <2>2
<1>5. D \subseteq C
  <2> HIDE DEF C
  <2> QED BY <1>1, <1>3, <1>4, DoomedClosed
<1> QED BY <1>5

\* A reference held is given back, with what nobody else has a reference to.
LEMMA UnrefKeeps ==
    ASSUME NEW m, NEW h, HeapInv(m, h), NEW n \in Nat, TextsOK(m, n),
           NEW i \in Ids, h[i] > 0
    PROVE  /\ HeapInv(Unref(m, i), [h EXCEPT ![i] = @ - 1])
           /\ TextsOK(Unref(m, i), n)
<1> DEFINE h2 == [h EXCEPT ![i] = @ - 1]
<1>1. m \in Heaps /\ h \in [Ids -> Nat] /\ h[i] \in Nat /\ m.obj[i].ref \in Nat
  BY HeapFields DEF HeapInv
<1>2. h2 \in [Ids -> Nat] /\ h2[i] = h[i] - 1 /\ \A j \in Ids \ {i} : h2[j] = h[j]
  BY <1>1
<1>3. CASE m.obj[i].ref <= 1
  <2> DEFINE D == Doomed(m, i)
  <2>1. /\ D \in SUBSET Ids /\ i \in D
        /\ \A j \in D : \A v \in Values(m, j) : m.obj[v].ref <= 1 => v \in D
    BY <1>1, DoomedClosed
  <2>2. \A j \in D \ {i} : m.obj[j].ref <= 1 /\ m.obj[j].parent \in D
    BY DoomedHangs
  <2> HIDE DEF D
  <2>3. Goes(m, h, {i}, D)
    BY <1>3, <2>1, <2>2 DEF Goes
  <2>4. Unref(m, i) = Release(m, D)
    BY <1>3 DEF Unref, D
  <2>5. TextsOK(Release(m, D), n)
    BY <2>1, ReleaseFields
  <2>6. HeapInv(Release(m, D), [j \in Ids |-> IF j \in {i} THEN h[j] - 1 ELSE h[j]])
    BY <2>3, ReleaseKeeps
  <2>7. [j \in Ids |-> IF j \in {i} THEN h[j] - 1 ELSE h[j]] = h2
    BY <1>1
  <2> QED BY <2>4, <2>5, <2>6, <2>7
<1>4. CASE ~(m.obj[i].ref <= 1)
  <2> DEFINE b == [m.obj[i] EXCEPT !.ref = @ - 1]
             m2 == Unref(m, i)
  <2>1. m2 = [m EXCEPT !.obj[i] = b]
    BY <1>1, <1>4 DEF Unref, Heaps, Block
  <2>2. /\ b \in Block /\ b.ref = m.obj[i].ref - 1 /\ b.ref > 0
        /\ b.type = m.obj[i].type /\ b.parent = m.obj[i].parent
        /\ b.items = m.obj[i].items /\ b.forgot = m.obj[i].forgot
        /\ b.managed = m.obj[i].managed
    <3> DEFINE o == m.obj[i]
    <3>1. o \in Block /\ o.ref \in Nat /\ ~(o.ref <= 1)
      BY <1>1, <1>4, HeapFields
    <3> HIDE DEF o
    <3>2. o.ref - 1 \in Nat /\ o.ref - 1 > 0
      BY <3>1
    <3>3. LET d == [o EXCEPT !.ref = @ - 1]
          IN /\ d \in Block /\ d.ref = o.ref - 1
             /\ d.type = o.type /\ d.parent = o.parent
             /\ d.items = o.items /\ d.forgot = o.forgot
             /\ d.managed = o.managed
      BY <3>1, <3>2 DEF Block
    <3> QED BY <3>2, <3>3 DEF o
  <2> HIDE DEF b
  <2>3. m2 \in Heaps
    BY <1>1, <2>1, <2>2 DEF Heaps
  <2>4. /\ m2.bufs = m.bufs /\ m2.lost = m.lost /\ m2.obj[i] = b
        /\ \A j \in Ids \ {i} : m2.obj[j] = m.obj[j]
    BY <1>1, <2>1 DEF Heaps
  <2> HIDE DEF m2, h2
  <2>5. Counted(m2, h2)
    <3> SUFFICES ASSUME NEW j \in Ids
                 PROVE  m2.obj[j].ref = h2[j] + Count(m2.obj[j].parent # NULL) + m2.obj[j].forgot
      BY DEF Counted
    <3>1. /\ m.obj[j].ref = h[j] + Count(m.obj[j].parent # NULL) + m.obj[j].forgot
          /\ h[j] \in Nat /\ m.obj[j].forgot \in Nat
      BY <1>1, HeapFields DEF HeapInv, Counted
    <3>2. CASE j = i
      BY <1>1, <1>2, <2>2, <2>4, <3>1, <3>2 DEF Count
    <3>3. CASE j # i
      BY <1>2, <2>4, <3>1, <3>3
    <3> QED BY <3>2, <3>3
  <2>6. ASSUME NEW j \in Ids
        PROVE  /\ m2.obj[j].type = m.obj[j].type
               /\ m2.obj[j].parent = m.obj[j].parent
               /\ m2.obj[j].items = m.obj[j].items
               /\ m.obj[j].type = "free" => m2.obj[j] = m.obj[j]
               /\ m.obj[j].type # "free" => m2.obj[j].ref > 0
    <3>1. CASE j = i
      <4>1. m.obj[i].type # "free"
        BY HeapFacts
      <4> QED BY <2>2, <2>4, <3>1, <4>1
    <3>2. CASE j # i
      BY <2>4, <3>2 DEF HeapInv, Alive
    <3> QED BY <3>1, <3>2
  <2>7. HeapInv(m2, h2)
    BY <1>2, <2>3, <2>5, <2>6, SameShape
  <2>8. Managed(m2) = Managed(m)
    BY <2>2, <2>4 DEF Managed
  <2>9. TextsOK(m2, n)
    BY <2>4, <2>8 DEF TextsOK
  <2> QED BY <2>7, <2>9 DEF m2, h2
<1> QED BY <1>3, <1>4

(***************************************************************************)
(* Changes of the items of one container.                                  *)
(***************************************************************************)

\* c gets other items; parents follow, and references change hands.
Rehung(m2, m, c) ==
    /\ \A j \in Ids : m2.obj[j].type = m.obj[j].type
    /\ \A j \in Ids \ {c} : m2.obj[j].items = m.obj[j].items
    /\ m.obj[c].type \in Containers \/ m2.obj[c].items = <<>>
    /\ \A k, l \in DOMAIN m2.obj[c].items :
           m2.obj[c].items[k].val = m2.obj[c].items[l].val => k = l
    /\ m.obj[c].type = "dict" =>
           \A k, l \in DOMAIN m2.obj[c].items :
               m2.obj[c].items[k].key = m2.obj[c].items[l].key => k = l
    /\ \A j \in Values(m2, c) : m.obj[j].parent \in {c, NULL} /\ m2.obj[j].parent = c
    /\ \A j \in Ids \ Values(m2, c) :
           m2.obj[j].parent = IF m.obj[j].parent = c THEN NULL ELSE m.obj[j].parent
    /\ \A j \in Ids : IF m.obj[j].type = "free" THEN m2.obj[j] = m.obj[j]
                       ELSE m2.obj[j].ref > 0

LEMMA ItemsChange ==
    ASSUME NEW m, NEW h, HeapInv(m, h), NEW m2 \in Heaps, NEW h2 \in [Ids -> Nat],
           NEW c \in Ids, Rehung(m2, m, c), Acyclic(m2), Counted(m2, h2)
    PROVE  HeapInv(m2, h2)
<1>1. m \in Heaps /\ Linked(m) /\ Alive(m) /\ UniqueKeys(m) /\ Bare(m)
  BY DEF HeapInv
<1> USE DEF Rehung
<1>2. \A j \in Ids \ {c} : Values(m2, j) = Values(m, j)
  BY DEF Values
<1>3. Linked(m2)
  <2>1. ASSUME NEW d \in Ids, NEW k \in DOMAIN m2.obj[d].items
        PROVE  m2.obj[m2.obj[d].items[k].val].parent = d
    <3> DEFINE v == m2.obj[d].items[k].val
    <3>1. v \in Values(m2, d)
      BY DEF Values
    <3>2. CASE d = c
      BY <3>1, <3>2
    <3>3. CASE d # c
      <4>1. v \in Ids /\ m.obj[v].parent = d
        BY <1>2, <3>1, <3>3, HeapFacts
      <4> HIDE DEF v
      <4>2. v \notin Values(m2, c)
        BY <3>3, <4>1 DEF Ids, NULL
      <4>3. m2.obj[v].parent = d
        BY <3>3, <4>1, <4>2
      <4> QED BY <4>3 DEF v
    <3> QED BY <3>2, <3>3
  <2>2. ASSUME NEW d \in Ids, NEW k \in DOMAIN m2.obj[d].items,
               NEW l \in DOMAIN m2.obj[d].items,
               m2.obj[d].items[k].val = m2.obj[d].items[l].val
        PROVE  k = l
    <3>1. CASE d = c
      BY <2>2, <3>1
    <3>2. CASE d # c
      <4>1. m2.obj[d].items = m.obj[d].items
        BY <3>2
      <4> QED BY <1>1, <2>2, <4>1 DEF Linked
    <3> QED BY <3>1, <3>2
  <2>3. ASSUME NEW i \in Ids, m2.obj[i].parent # NULL
        PROVE  i \in Values(m2, m2.obj[i].parent)
    <3>1. CASE i \in Values(m2, c)
      BY <3>1
    <3>2. CASE i \notin Values(m2, c)
      <4> DEFINE p == m.obj[i].parent
      <4>1. m2.obj[i].parent = p /\ p # c /\ p # NULL
        BY <2>3, <3>2
      <4>2. p \in Ids /\ i \in Values(m, p)
        BY <1>1, <4>1, HeapFields DEF Linked, Ids, NULL
      <4> HIDE DEF p
      <4>3. i \in Values(m2, p)
        BY <1>2, <4>1, <4>2
      <4> QED BY <4>1, <4>3
    <3> QED BY <3>1, <3>2
  <2> QED BY <2>1, <2>2, <2>3 DEF Linked
<1>4. Alive(m2)
  BY <1>1 DEF Alive
<1>5. UniqueKeys(m2)
  <2> SUFFICES ASSUME NEW d \in Ids, m2.obj[d].type = "dict",
                      NEW k \in DOMAIN m2.obj[d].items, NEW l \in DOMAIN m2.obj[d].items,
                      m2.obj[d].items[k].key = m2.obj[d].items[l].key
               PROVE  k = l
    BY DEF UniqueKeys
  <2>1. CASE d = c
    BY <2>1
  <2>2. CASE d # c
    <3>1. m2.obj[d].items = m.obj[d].items /\ m.obj[d].type = "dict"
      BY <2>2
    <3> QED BY <1>1, <3>1 DEF UniqueKeys
  <2> QED BY <2>1, <2>2
<1>6. Bare(m2)
  BY <1>1 DEF Bare
<1> QED BY <1>3, <1>4, <1>5, <1>6 DEF HeapInv

\* What a change of items leaves alone in a block.
SameKind(b, o) ==
    b.type = o.type /\ b.forgot = o.forgot /\ b.text = o.text /\ b.managed = o.managed

LEMMA SameTexts ==
    ASSUME NEW m, NEW m2, NEW n, TextsOK(m, n), m2.bufs = m.bufs, m2.lost = m.lost,
           \A j \in Ids : m2.obj[j].managed = m.obj[j].managed
    PROVE  TextsOK(m2, n)
<1>1. Managed(m2) = Managed(m)
  BY DEF Managed
<1> QED BY <1>1 DEF TextsOK

LEMMA AppendFields ==
    ASSUME NEW m \in Heaps, NEW c \in Ids, NEW v \in Ids \ {c}, NEW key \in STRING
    PROVE  LET m2 == AppendItem(m, c, key, v)
           IN /\ m2 \in Heaps /\ m2.bufs = m.bufs /\ m2.lost = m.lost
              /\ \A j \in Ids \ {c, v} : m2.obj[j] = m.obj[j]
              /\ SameKind(m2.obj[c], m.obj[c]) /\ m2.obj[c].ref = m.obj[c].ref
              /\ m2.obj[c].parent = m.obj[c].parent
              /\ m2.obj[c].items = Append(m.obj[c].items, [key |-> key, val |-> v])
              /\ SameKind(m2.obj[v], m.obj[v]) /\ m2.obj[v].ref = m.obj[v].ref + 1
              /\ m2.obj[v].parent = c /\ m2.obj[v].items = m.obj[v].items
<1> DEFINE x == Ref(m, v)
           t == Append(x.obj[c].items, [key |-> key, val |-> v])
           bc == [x.obj[c] EXCEPT !.items = t]
           bv == [x.obj[v] EXCEPT !.parent = c]
           m2 == AppendItem(m, c, key, v)
<1>1. /\ x \in Heaps /\ x.bufs = m.bufs /\ x.lost = m.lost
      /\ \A j \in Ids \ {v} : x.obj[j] = m.obj[j]
      /\ x.obj[v] = [m.obj[v] EXCEPT !.ref = @ + 1]
  BY RefFields
<1>2. m.obj[v] \in Block /\ m.obj[c] \in Block
  BY HeapFields
<1>3. x.obj[v] \in Block /\ x.obj[c] \in Block
  BY <1>1, HeapFields
<1>4. SameKind(x.obj[v], m.obj[v]) /\ x.obj[v].ref = m.obj[v].ref + 1
      /\ x.obj[v].parent = m.obj[v].parent /\ x.obj[v].items = m.obj[v].items
  BY <1>1, <1>2 DEF SameKind, Block
<1>5. t \in Seq(Item)
  <2>1. [key |-> key, val |-> v] \in Item
    BY DEF Item
  <2>2. x.obj[c].items \in Seq(Item)
    BY <1>1, HeapFields
  <2>3. \A o \in Seq(Item), e \in Item : Append(o, e) \in Seq(Item)
    BY AppendProperties
  <2> HIDE DEF x
  <2> QED BY <2>1, <2>2, <2>3
<1> HIDE DEF x, t
<1>6. bc \in Block /\ bv \in Block
  <2>1. c \in 0 .. N
    BY DEF Ids
  <2> QED BY <1>3, <1>5, <2>1 DEF Block
<1>7. /\ SameKind(bc, x.obj[c]) /\ bc.ref = x.obj[c].ref
      /\ bc.parent = x.obj[c].parent /\ bc.items = t
      /\ SameKind(bv, x.obj[v]) /\ bv.ref = x.obj[v].ref
      /\ bv.items = x.obj[v].items /\ bv.parent = c
  BY <1>3 DEF SameKind, Block
<1>8. m2 = [x EXCEPT !.obj[c].items = t, !.obj[v].parent = c]
  BY DEF AppendItem, x, t
<1>9. m2 = [x EXCEPT !.obj = [x.obj EXCEPT ![c] = bc, ![v] = bv]]
  BY <1>1, <1>3, <1>8 DEF Heaps
<1> HIDE DEF bc, bv
<1>10. m2 \in Heaps
  BY <1>1, <1>6, <1>9 DEF Heaps
<1>11. /\ m2.bufs = x.bufs /\ m2.lost = x.lost /\ m2.obj[c] = bc /\ m2.obj[v] = bv
       /\ \A j \in Ids \ {c, v} : m2.obj[j] = x.obj[j]
  BY <1>1, <1>9 DEF Heaps
<1>12. t = Append(m.obj[c].items, [key |-> key, val |-> v])
  BY <1>1 DEF t
<1> QED BY <1>1, <1>4, <1>7, <1>10, <1>11, <1>12 DEF SameKind

\* A live object that is in no container and not above c is put in c; the
\* reference is the container's.
LEMMA AppendKeeps ==
    ASSUME NEW m, NEW h, HeapInv(m, h), NEW n \in Nat, TextsOK(m, n),
           NEW c \in Ids, m.obj[c].type \in Containers,
           NEW v \in Ids, m.obj[v].type # "free",
           m.obj[v].parent = NULL, v \notin Ancestors(m, c),
           NEW key \in STRING, m.obj[c].type = "dict" => At(m, c, key) = {}
    PROVE  /\ HeapInv(AppendItem(m, c, key, v), h)
           /\ TextsOK(AppendItem(m, c, key, v), n)
<1> DEFINE m2 == AppendItem(m, c, key, v)
           s == m.obj[c].items
           t == m2.obj[c].items
           e == [key |-> key, val |-> v]
<1>1. /\ m \in Heaps /\ h \in [Ids -> Nat] /\ Linked(m) /\ Acyclic(m)
      /\ Counted(m, h) /\ Alive(m) /\ UniqueKeys(m) /\ m.obj[c].type # "free"
  BY DEF HeapInv, Containers
<1>2. v \in Ids \ {c}
  <2>1. c \in Ancestors(m, c)
    BY <1>1, AncestorsUp
  <2> QED BY <2>1
<1>3. /\ m2 \in Heaps /\ m2.bufs = m.bufs /\ m2.lost = m.lost
      /\ \A j \in Ids \ {c, v} : m2.obj[j] = m.obj[j]
      /\ SameKind(m2.obj[c], m.obj[c]) /\ m2.obj[c].ref = m.obj[c].ref
      /\ m2.obj[c].parent = m.obj[c].parent
      /\ t = Append(s, e)
      /\ SameKind(m2.obj[v], m.obj[v]) /\ m2.obj[v].ref = m.obj[v].ref + 1
      /\ m2.obj[v].parent = c /\ m2.obj[v].items = m.obj[v].items
  BY <1>1, <1>2, AppendFields
<1>4. e \in Item /\ e.val = v /\ e.key = key
  BY DEF Item
<1>5. s \in Seq(Item) /\ Len(s) \in Nat /\ DOMAIN s = 1 .. Len(s)
  BY <1>1, HeapFields, ValuesFacts
<1> HIDE DEF m2, s, t, e
<1>6. /\ DOMAIN t = 1 .. Len(s) + 1 /\ t[Len(s) + 1] = e
      /\ \A k \in DOMAIN s : t[k] = s[k]
  <2>1. \A o \in Seq(Item), d \in Item :
           /\ Append(o, d) \in Seq(Item) /\ Len(Append(o, d)) = Len(o) + 1
           /\ \A k \in 1 .. Len(o) : Append(o, d)[k] = o[k]
           /\ Append(o, d)[Len(o) + 1] = d
    BY AppendProperties
  <2>2. \A o \in Seq(Item) : DOMAIN o = 1 .. Len(o)
    BY LenProperties
  <2> QED BY <1>3, <1>4, <1>5, <2>1, <2>2
<1>7. Values(m2, c) = Values(m, c) \cup {v}
  <2>1. DOMAIN t = DOMAIN s \cup {Len(s) + 1}
    BY <1>5, <1>6
  <2>2. Values(m2, c) = {t[k].val : k \in DOMAIN t} /\ Values(m, c) = {s[k].val : k \in DOMAIN s}
    BY DEF Values, s, t
  <2> QED BY <1>4, <1>6, <2>1, <2>2
<1>8. v \notin Values(m, c)
  BY HeapFacts DEF Ids, NULL
<1>9. \A k \in DOMAIN s : s[k].val # v
  BY <1>8 DEF Values, s
<1>10. \A k, l \in DOMAIN t : t[k].val = t[l].val => k = l
  <2>1. \A k, l \in DOMAIN s : s[k].val = s[l].val => k = l
    BY <1>1 DEF Linked, s
  <2>2. \A k \in DOMAIN t : k \in DOMAIN s \/ k = Len(s) + 1
    BY <1>5, <1>6
  <2> QED BY <1>4, <1>6, <1>9, <2>1, <2>2
<1>11. m.obj[c].type = "dict" => \A k, l \in DOMAIN t : t[k].key = t[l].key => k = l
  <2> SUFFICES ASSUME m.obj[c].type = "dict"
               PROVE  \A k, l \in DOMAIN t : t[k].key = t[l].key => k = l
    OBVIOUS
  <2>1. \A k, l \in DOMAIN s : s[k].key = s[l].key => k = l
    BY <1>1 DEF UniqueKeys, s
  <2>2. \A k \in DOMAIN t : k \in DOMAIN s \/ k = Len(s) + 1
    BY <1>5, <1>6
  <2>3. \A k \in DOMAIN s : s[k].key # key
    BY DEF At, s
  <2> QED BY <1>4, <1>6, <2>1, <2>2, <2>3
<1>12. Counted(m2, h)
  <2> SUFFICES ASSUME NEW j \in Ids
               PROVE  m2.obj[j].ref = h[j] + Count(m2.obj[j].parent # NULL) + m2.obj[j].forgot
    BY DEF Counted
  <2>1. /\ m.obj[j].ref = h[j] + Count(m.obj[j].parent # NULL) + m.obj[j].forgot
        /\ h[j] \in Nat /\ m.obj[j].forgot \in Nat
    BY <1>1, HeapFields DEF Counted
  <2>2. CASE j = v
    <3>1. /\ m2.obj[v].ref = m.obj[v].ref + 1 /\ m2.obj[v].forgot = m.obj[v].forgot
          /\ m2.obj[v].parent # NULL /\ m.obj[v].parent = NULL
      BY <1>3, HeapFacts DEF SameKind, Ids, NULL
    <3> QED BY <2>1, <2>2, <3>1 DEF Count
  <2>3. CASE j # v
    BY <1>3, <2>1, <2>3 DEF SameKind
  <2> QED BY <2>2, <2>3
<1>13. Acyclic(m2)
  BY <1>1, <1>3, NewParent
<1>14. \A j \in Ids : m2.obj[j].type = m.obj[j].type /\ m2.obj[j].managed = m.obj[j].managed
  BY <1>3 DEF SameKind
<1>15. \A j \in Ids \ {c} : m2.obj[j].items = m.obj[j].items
  BY <1>3
<1>16. ASSUME NEW j \in Ids
       PROVE  IF m.obj[j].type = "free" THEN m2.obj[j] = m.obj[j] ELSE m2.obj[j].ref > 0
  <2>1. m.obj[j].ref \in Nat
    BY <1>1, HeapFields
  <2>2. m.obj[c].ref > 0 /\ m.obj[v].ref > 0
    BY <1>1 DEF Alive
  <2>3. CASE j \in {c, v}
    BY <1>1, <1>3, <2>1, <2>2, <2>3
  <2>4. CASE j \notin {c, v}
    BY <1>1, <1>3, <2>4 DEF Alive
  <2> QED BY <2>3, <2>4
<1>17. \A j \in Values(m2, c) : m.obj[j].parent \in {c, NULL} /\ m2.obj[j].parent = c
  <2>1. \A j \in Values(m, c) : j \in Ids /\ m.obj[j].parent = c
    BY HeapFacts
  <2>2. \A j \in Values(m, c) : m2.obj[j].parent = c
    BY <1>3, <2>1
  <2> QED BY <1>3, <1>7, <2>1, <2>2
<1>18. ASSUME NEW j \in Ids \ Values(m2, c)
       PROVE  m2.obj[j].parent = IF m.obj[j].parent = c THEN NULL ELSE m.obj[j].parent
  <2>1. j # v /\ j \notin Values(m, c)
    BY <1>7
  <2>2. m.obj[j].parent # c
    BY <1>1, <2>1 DEF Linked, Ids, NULL
  <2> QED BY <1>3, <2>1, <2>2
<1>19. HeapInv(m2, h)
  <2>1. \A k, l \in DOMAIN m2.obj[c].items :
            m2.obj[c].items[k].val = m2.obj[c].items[l].val => k = l
    BY <1>10 DEF t
  <2>2. m.obj[c].type = "dict" => \A k, l \in DOMAIN m2.obj[c].items :
            m2.obj[c].items[k].key = m2.obj[c].items[l].key => k = l
    BY <1>11 DEF t
  <2>3. Rehung(m2, m, c)
    BY <1>14, <1>15, <1>16, <1>17, <1>18, <2>1, <2>2 DEF Rehung
  <2> QED BY <1>1, <1>3, <1>12, <1>13, <2>3, ItemsChange
<1>20. TextsOK(m2, n)
  BY <1>3, <1>14, SameTexts
<1> QED BY <1>19, <1>20 DEF m2

Put(m, c, t, v, p) == [m EXCEPT !.obj[c].items = t, !.obj[v].parent = p]

\* m2 is m but for the items of c and the parent of v.
Differ(m2, m, c, t, v, p) ==
    /\ m2 \in Heaps /\ m2.bufs = m.bufs /\ m2.lost = m.lost
    /\ \A j \in Ids \ {c, v} : m2.obj[j] = m.obj[j]
    /\ SameKind(m2.obj[c], m.obj[c]) /\ m2.obj[c].ref = m.obj[c].ref
    /\ m2.obj[c].parent = m.obj[c].parent /\ m2.obj[c].items = t
    /\ SameKind(m2.obj[v], m.obj[v]) /\ m2.obj[v].ref = m.obj[v].ref
    /\ m2.obj[v].parent = p /\ m2.obj[v].items = m.obj[v].items

LEMMA PutFields ==
    ASSUME NEW m \in Heaps, NEW c \in Ids, NEW v \in Ids \ {c},
           NEW t \in Seq(Item), NEW p \in 0 .. N
    PROVE  Differ(Put(m, c, t, v, p), m, c, t, v, p)
<1> DEFINE bc == [m.obj[c] EXCEPT !.items = t]
           bv == [m.obj[v] EXCEPT !.parent = p]
           m2 == Put(m, c, t, v, p)
<1>1. m.obj[v] \in Block /\ m.obj[c] \in Block
  BY HeapFields
<1>2. bc \in Block /\ bv \in Block
  BY <1>1 DEF Block
<1>3. /\ SameKind(bc, m.obj[c]) /\ bc.ref = m.obj[c].ref
      /\ bc.parent = m.obj[c].parent /\ bc.items = t
      /\ SameKind(bv, m.obj[v]) /\ bv.ref = m.obj[v].ref
      /\ bv.items = m.obj[v].items /\ bv.parent = p
  BY <1>1 DEF SameKind, Block
<1>4. m2 = [m EXCEPT !.obj = [m.obj EXCEPT ![c] = bc, ![v] = bv]]
  BY DEF Heaps, Put
<1> HIDE DEF bc, bv
<1>5. m2 \in Heaps
  BY <1>2, <1>4 DEF Heaps
<1>6. /\ m2.bufs = m.bufs /\ m2.lost = m.lost /\ m2.obj[c] = bc /\ m2.obj[v] = bv
      /\ \A j \in Ids \ {c, v} : m2.obj[j] = m.obj[j]
  BY <1>4 DEF Heaps
<1> HIDE DEF m2
<1>7. Differ(m2, m, c, t, v, p)
  BY <1>3, <1>5, <1>6 DEF Differ
<1> QED BY <1>7 DEF m2

LEMMA GiveTake ==
    ASSUME NEW h \in [Ids -> Nat], NEW i \in Ids
    PROVE  [[h EXCEPT ![i] = @ + 1] EXCEPT ![i] = @ - 1] = h
<1> DEFINE g == [[h EXCEPT ![i] = @ + 1] EXCEPT ![i] = @ - 1]
<1>1. g = [j \in Ids |-> g[j]] /\ h = [j \in Ids |-> h[j]]
  OBVIOUS
<1>2. \A j \in Ids : g[j] = h[j]
  OBVIOUS
<1> HIDE DEF g
<1>3. g = h
  BY <1>1, <1>2
<1> QED BY <1>3 DEF g

LEMMA CutOut ==
    ASSUME NEW s \in Seq(Item), NEW k \in 1 .. Len(s)
    PROVE  LET t == SubSeq(s, 1, k - 1) \o SubSeq(s, k + 1, Len(s))
           IN /\ t \in Seq(Item) /\ DOMAIN t = 1 .. Len(s) - 1
              /\ \A l \in DOMAIN t : t[l] = s[IF l < k THEN l ELSE l + 1]
<1> DEFINE a == SubSeq(s, 1, k - 1)
           b == SubSeq(s, k + 1, Len(s))
           t == a \o b
<1>1. Len(s) \in Nat /\ k \in Int /\ \A l \in 1 .. Len(s) : s[l] \in Item
  BY LenProperties, ElementOfSeq
<1>2. a \in Seq(Item) /\ Len(a) = k - 1 /\ \A l \in 1 .. k - 1 : a[l] = s[l]
  <2>1. \A l \in 1 .. k - 1 : s[l] \in Item
    BY <1>1
  <2>2. 1 \in Int /\ k - 1 \in Int
    BY <1>1
  <2>3. /\ a \in Seq(Item) /\ Len(a) = (IF 1 <= k - 1 THEN k - 1 - 1 + 1 ELSE 0)
        /\ \A l \in 1 .. k - 1 - 1 + 1 : a[l] = s[1 + l - 1]
    BY <2>1, <2>2, SubSeqProperties
  <2> HIDE DEF a
  <2> QED BY <1>1, <2>3
<1>3. b \in Seq(Item) /\ Len(b) = Len(s) - k /\ \A l \in 1 .. Len(s) - k : b[l] = s[l + k]
  <2>1. \A l \in k + 1 .. Len(s) : s[l] \in Item
    BY <1>1
  <2>2. k + 1 \in Int /\ Len(s) \in Int
    BY <1>1
  <2>3. /\ b \in Seq(Item)
        /\ Len(b) = (IF k + 1 <= Len(s) THEN Len(s) - (k + 1) + 1 ELSE 0)
        /\ \A l \in 1 .. Len(s) - (k + 1) + 1 : b[l] = s[k + 1 + l - 1]
    BY <2>1, <2>2, SubSeqProperties
  <2> HIDE DEF b
  <2>4. \A l \in 1 .. Len(s) - k : k + 1 + l - 1 = l + k
    BY <1>1
  <2> QED BY <1>1, <2>3, <2>4
<1> HIDE DEF a, b
<1>4. /\ t \in Seq(Item) /\ Len(t) = Len(a) + Len(b)
      /\ \A l \in 1 .. Len(a) + Len(b) : t[l] = IF l <= Len(a) THEN a[l] ELSE b[l - Len(a)]
  BY <1>2, <1>3, ConcatProperties
<1> HIDE DEF t
<1>5. DOMAIN t = 1 .. Len(s) - 1
  <2>1. DOMAIN t = 1 .. Len(t)
    BY <1>4, LenProperties
  <2> QED BY <1>1, <1>2, <1>3, <1>4, <2>1
<1>6. ASSUME NEW l \in DOMAIN t
      PROVE  t[l] = s[IF l < k THEN l ELSE l + 1]
  <2>1. l \in 1 .. Len(s) - 1 /\ l \in 1 .. Len(a) + Len(b)
    BY <1>1, <1>2, <1>3, <1>5
  <2>2. CASE l < k
    BY <1>1, <1>2, <1>4, <2>1, <2>2
  <2>3. CASE ~(l < k)
    <3>1. l - (k - 1) \in 1 .. Len(s) - k /\ l - (k - 1) + k = l + 1
      BY <1>1, <2>1, <2>3
    <3>2. t[l] = b[l - Len(a)]
      <4>1. ~(l <= Len(a))
        BY <1>1, <1>2, <2>1, <2>3
      <4> QED BY <1>4, <2>1, <4>1
    <3>3. t[l] = b[l - (k - 1)]
      BY <1>2, <3>2
    <3> QED BY <1>3, <2>3, <3>1, <3>3
  <2> QED BY <2>2, <2>3
<1> QED BY <1>4, <1>5, <1>6 DEF t, a, b

\* A value is taken out of its container, and the container's reference to it
\* is given back.
LEMMA WithoutItemKeeps ==
    ASSUME NEW m, NEW h, HeapInv(m, h), NEW n \in Nat, TextsOK(m, n),
           NEW c \in Ids, NEW k \in DOMAIN m.obj[c].items
    PROVE  HeapInv(WithoutItem(m, c, k), h) /\ TextsOK(WithoutItem(m, c, k), n)
<1> DEFINE s == m.obj[c].items
           old == s[k].val
           t == SubSeq(s, 1, k - 1) \o SubSeq(s, k + 1, Len(s))
           m2 == Put(m, c, t, old, NULL)
           h2 == [h EXCEPT ![old] = @ + 1]
<1>1. /\ m \in Heaps /\ h \in [Ids -> Nat] /\ Linked(m) /\ Acyclic(m)
      /\ Counted(m, h) /\ Alive(m) /\ UniqueKeys(m) /\ Bare(m)
  BY DEF HeapInv
<1>2. s \in Seq(Item) /\ Len(s) \in Nat /\ DOMAIN s = 1 .. Len(s) /\ k \in DOMAIN s
  BY <1>1, HeapFields, ValuesFacts
<1>3. WithoutItem(m, c, k) = Unref(m2, old)
  BY DEF WithoutItem, Put
<1>4. /\ old \in Values(m, c) /\ old \in Ids /\ m.obj[old].parent = c
      /\ m.obj[c].type # "free"
  <2>1. old \in Values(m, c)
    BY DEF Values
  <2> HIDE DEF old
  <2> QED BY <2>1, HeapFacts
<1>5. t \in Seq(Item) /\ DOMAIN t = 1 .. Len(s) - 1
      /\ \A l \in DOMAIN t : t[l] = s[IF l < k THEN l ELSE l + 1]
  <2> HIDE DEF s
  <2> QED BY <1>2, CutOut
<1> HIDE DEF old, t
<1>6. old \in Ids \ {c}
  <2>1. c \notin Ancestors(m, m.obj[c].parent) /\ c \in Ancestors(m, c)
    BY <1>1, AncestorsUp DEF Acyclic
  <2> QED BY <1>4, <2>1
<1>7. NULL \in 0 .. N
  BY IdsFacts DEF NULL
<1>8. /\ m2 \in Heaps /\ m2.bufs = m.bufs /\ m2.lost = m.lost
      /\ \A j \in Ids \ {c, old} : m2.obj[j] = m.obj[j]
      /\ SameKind(m2.obj[c], m.obj[c]) /\ m2.obj[c].ref = m.obj[c].ref
      /\ m2.obj[c].parent = m.obj[c].parent /\ m2.obj[c].items = t
      /\ SameKind(m2.obj[old], m.obj[old]) /\ m2.obj[old].ref = m.obj[old].ref
      /\ m2.obj[old].parent = NULL /\ m2.obj[old].items = m.obj[old].items
  <2>1. Differ(m2, m, c, t, old, NULL)
    BY <1>1, <1>5, <1>6, <1>7, PutFields
  <2> QED BY <2>1 DEF Differ
<1>9. h2 \in [Ids -> Nat] /\ h2[old] = h[old] + 1 /\ \A j \in Ids \ {old} : h2[j] = h[j]
  BY <1>1, <1>4
<1> HIDE DEF m2, h2, s
<1>10. \A l \in DOMAIN t : /\ (IF l < k THEN l ELSE l + 1) \in DOMAIN s
                           /\ (IF l < k THEN l ELSE l + 1) # k
  BY <1>2, <1>5
<1>11. \A l \in DOMAIN s : l # k => \E x \in DOMAIN t : t[x] = s[l]
  <2> SUFFICES ASSUME NEW l \in DOMAIN s, l # k
               PROVE  \E x \in DOMAIN t : t[x] = s[l]
    OBVIOUS
  <2> DEFINE x == IF l < k THEN l ELSE l - 1
  <2>1. x \in DOMAIN t /\ (IF x < k THEN x ELSE x + 1) = l
    BY <1>2, <1>5
  <2> HIDE DEF x
  <2> QED BY <1>5, <2>1
<1>12. \A l, x \in DOMAIN s : s[l].val = s[x].val => l = x
  BY <1>1 DEF Linked, s
<1>13. Values(m2, c) = Values(m, c) \ {old}
  <2>1. /\ Values(m2, c) = {t[l].val : l \in DOMAIN t}
        /\ Values(m, c) = {s[l].val : l \in DOMAIN s}
    BY <1>8 DEF Values, s
  <2>2. ASSUME NEW l \in DOMAIN t
        PROVE  t[l].val \in Values(m, c) \ {old}
    <3> DEFINE x == IF l < k THEN l ELSE l + 1
    <3>1. t[l] = s[x] /\ x \in DOMAIN s /\ x # k
      BY <1>5, <1>10
    <3> HIDE DEF x
    <3>2. s[x].val # old
      BY <1>2, <1>12, <3>1 DEF old
    <3> QED BY <2>1, <3>1, <3>2
  <2>3. ASSUME NEW l \in DOMAIN s, s[l].val # old
        PROVE  s[l].val \in Values(m2, c)
    <3>1. l # k
      BY <2>3 DEF old
    <3> QED BY <1>11, <2>1, <3>1
  <2> QED BY <2>1, <2>2, <2>3
<1>14. ASSUME NEW l \in DOMAIN t, NEW x \in DOMAIN t
       PROVE  /\ t[l].val = t[x].val => l = x
              /\ m.obj[c].type = "dict" /\ t[l].key = t[x].key => l = x
  <2> DEFINE a == IF l < k THEN l ELSE l + 1
             b == IF x < k THEN x ELSE x + 1
  <2>1. a \in DOMAIN s /\ b \in DOMAIN s /\ t[l] = s[a] /\ t[x] = s[b]
    BY <1>5, <1>10
  <2>2. a = b => l = x
    BY <1>2, <1>5
  <2> HIDE DEF a, b
  <2>3. m.obj[c].type = "dict" /\ s[a].key = s[b].key => a = b
    BY <1>1, <2>1 DEF UniqueKeys, s
  <2> QED BY <1>12, <2>1, <2>2, <2>3
<1>15. \A j \in Ids : /\ m2.obj[j].type = m.obj[j].type /\ m2.obj[j].managed = m.obj[j].managed
                      /\ m2.obj[j].ref = m.obj[j].ref /\ m2.obj[j].forgot = m.obj[j].forgot
  BY <1>8 DEF SameKind
<1>16. \A j \in Ids \ {c} : m2.obj[j].items = m.obj[j].items
  BY <1>8
<1>17. \A j \in Ids \ {old} : m2.obj[j].parent = m.obj[j].parent
  BY <1>8
<1>18. Counted(m2, h2)
  <2> SUFFICES ASSUME NEW j \in Ids
               PROVE  m2.obj[j].ref = h2[j] + Count(m2.obj[j].parent # NULL) + m2.obj[j].forgot
    BY DEF Counted
  <2>1. /\ m.obj[j].ref = h[j] + Count(m.obj[j].parent # NULL) + m.obj[j].forgot
        /\ h[j] \in Nat /\ m.obj[j].forgot \in Nat
    BY <1>1, HeapFields DEF Counted
  <2>2. CASE j = old
    BY <1>4, <1>8, <1>9, <1>15, <2>1, <2>2 DEF Count, Ids, NULL
  <2>3. CASE j # old
    BY <1>9, <1>15, <1>17, <2>1, <2>3
  <2> QED BY <2>2, <2>3
<1>19. Acyclic(m2)
  BY <1>1, <1>8, <1>17, FewerParents
<1>20. ASSUME NEW j \in Ids
       PROVE  IF m.obj[j].type = "free" THEN m2.obj[j] = m.obj[j] ELSE m2.obj[j].ref > 0
  <2>1. m.obj[j].type = "free" => j \notin {c, old}
    BY <1>4, HeapFacts
  <2> QED BY <1>1, <1>8, <1>15, <2>1 DEF Alive
<1>21. \A j \in Values(m2, c) : m.obj[j].parent \in {c, NULL} /\ m2.obj[j].parent = c
  <2>1. \A j \in Values(m, c) : j \in Ids /\ m.obj[j].parent = c
    BY HeapFacts
  <2> QED BY <1>13, <1>17, <2>1
<1>22. ASSUME NEW j \in Ids \ Values(m2, c)
       PROVE  m2.obj[j].parent = IF m.obj[j].parent = c THEN NULL ELSE m.obj[j].parent
  <2>1. CASE j = old
    BY <1>4, <1>8, <2>1
  <2>2. CASE j # old
    <3>1. m.obj[j].parent # c
      BY <1>1, <1>13, <2>2 DEF Linked, Ids, NULL
    <3> QED BY <1>17, <2>2, <3>1
  <2> QED BY <2>1, <2>2
<1>23. HeapInv(m2, h2)
  <2>1. \A l, x \in DOMAIN m2.obj[c].items :
            m2.obj[c].items[l].val = m2.obj[c].items[x].val => l = x
    BY <1>8, <1>14
  <2>2. m.obj[c].type = "dict" => \A l, x \in DOMAIN m2.obj[c].items :
            m2.obj[c].items[l].key = m2.obj[c].items[x].key => l = x
    BY <1>8, <1>14
  <2>3. m.obj[c].type \in Containers
    BY <1>1, <1>2, EmptySeq DEF Bare, s
  <2>4. Rehung(m2, m, c)
    BY <1>15, <1>16, <1>20, <1>21, <1>22, <2>1, <2>2, <2>3 DEF Rehung
  <2> QED BY <1>8, <1>9, <1>18, <1>19, <2>4, ItemsChange
<1>24. TextsOK(m2, n)
  BY <1>8, <1>15, SameTexts
<1>25. h2[old] > 0
  BY <1>1, <1>4, <1>9
<1>26. [h2 EXCEPT ![old] = @ - 1] = h
  BY <1>1, <1>4, GiveTake DEF h2
<1> QED BY <1>3, <1>4, <1>23, <1>24, <1>25, <1>26, UnrefKeeps

\* A value put in place of another: the items, the parents and the counts
\* change, then the old value is given back.
Apart(m, i) == [m EXCEPT !.obj[i].parent = NULL]

\* The item k of c lists i.
Lists(m, c, k, i) == i = m.obj[c].items[k].val

Placing(m, c, k, v) == Ref(Apart(m, m.obj[c].items[k].val), v)

NewItems(s, k, v) == [s EXCEPT ![k] = [@ EXCEPT !.val = v]]

Placed(m, c, k, v) == Put(Placing(m, c, k, v), c, NewItems(m.obj[c].items, k, v), v, c)

\* x is m but for the count of v and the parent of old.
Turned(x, m, v, old) ==
    /\ x \in Heaps /\ x.bufs = m.bufs /\ x.lost = m.lost
    /\ \A j \in Ids \ {old, v} : x.obj[j] = m.obj[j]
    /\ SameKind(x.obj[v], m.obj[v]) /\ x.obj[v].ref = m.obj[v].ref + 1
    /\ x.obj[v].parent = m.obj[v].parent /\ x.obj[v].items = m.obj[v].items
    /\ SameKind(x.obj[old], m.obj[old]) /\ x.obj[old].ref = m.obj[old].ref
    /\ x.obj[old].parent = NULL /\ x.obj[old].items = m.obj[old].items

LEMMA PlacingFields ==
    ASSUME NEW m \in Heaps, NEW c \in Ids, NEW k \in DOMAIN m.obj[c].items,
           NEW v \in Ids \ {c}, NEW old, Lists(m, c, k, old), old \in Ids \ {c, v}
    PROVE  Turned(Placing(m, c, k, v), m, v, old)
<1> DEFINE a == Apart(m, old)
           b == [m.obj[old] EXCEPT !.parent = NULL]
           x == Ref(a, v)
<1>1. Placing(m, c, k, v) = x
  BY DEF Placing, Lists
<1>2. m.obj[old] \in Block /\ NULL \in 0 .. N
  BY HeapFields, IdsFacts DEF NULL
<1>3. /\ b \in Block /\ SameKind(b, m.obj[old]) /\ b.ref = m.obj[old].ref
      /\ b.parent = NULL /\ b.items = m.obj[old].items
  BY <1>2 DEF Block, SameKind
<1>4. a = [m EXCEPT !.obj[old] = b]
  BY DEF Apart, Heaps
<1> HIDE DEF b
<1>5. a \in Heaps
  BY <1>3, <1>4 DEF Heaps
<1>6. /\ a.bufs = m.bufs /\ a.lost = m.lost /\ a.obj[old] = b
      /\ \A j \in Ids \ {old} : a.obj[j] = m.obj[j]
  BY <1>4 DEF Heaps
<1> HIDE DEF a
<1>7. /\ x \in Heaps /\ x.bufs = a.bufs /\ x.lost = a.lost
      /\ \A j \in Ids \ {v} : x.obj[j] = a.obj[j]
      /\ x.obj[v] = [a.obj[v] EXCEPT !.ref = @ + 1]
  BY <1>5, RefFields
<1> HIDE DEF x
<1>8. a.obj[v] = m.obj[v] /\ m.obj[v] \in Block
  BY <1>6, HeapFields
<1>9. SameKind(x.obj[v], m.obj[v]) /\ x.obj[v].ref = m.obj[v].ref + 1
      /\ x.obj[v].parent = m.obj[v].parent /\ x.obj[v].items = m.obj[v].items
  BY <1>7, <1>8 DEF SameKind, Block
<1>10. x.obj[old] = b /\ \A j \in Ids \ {old, v} : x.obj[j] = m.obj[j]
  BY <1>6, <1>7
<1>11. Turned(x, m, v, old)
  BY <1>3, <1>6, <1>7, <1>9, <1>10 DEF Turned
<1> QED BY <1>1, <1>11

LEMMA NewItem ==
    ASSUME NEW s \in Seq(Item), NEW k \in DOMAIN s, NEW v \in Ids
    PROVE  LET t == NewItems(s, k, v)
           IN /\ t \in Seq(Item) /\ DOMAIN t = DOMAIN s
              /\ \A l \in DOMAIN s : t[l].key = s[l].key
              /\ \A l \in DOMAIN s : t[l].val = IF l = k THEN v ELSE s[l].val
<1> DEFINE e == [s[k] EXCEPT !.val = v]
           t == NewItems(s, k, v)
<1>1. s[k] \in Item /\ Len(s) \in Nat /\ DOMAIN s = 1 .. Len(s)
  BY LenProperties, ElementOfSeq
<1>2. t = [s EXCEPT ![k] = e]
  BY DEF NewItems
<1>3. e \in Item /\ e.key = s[k].key /\ e.val = v
  BY <1>1 DEF Item
<1> HIDE DEF e, t
<1>4. t \in Seq(Item)
  BY <1>1, <1>3, <1>2, ExceptSeq
<1>5. DOMAIN t = DOMAIN s /\ \A l \in DOMAIN s : t[l] = IF l = k THEN e ELSE s[l]
  BY <1>1, <1>2
<1>6. \A l \in DOMAIN s : t[l].key = s[l].key
  BY <1>3, <1>5
<1>7. \A l \in DOMAIN s : t[l].val = IF l = k THEN v ELSE s[l].val
  BY <1>3, <1>5
<1> QED BY <1>4, <1>5, <1>6, <1>7 DEF t

LEMMA ListedApart ==
    ASSUME NEW m, NEW h, HeapInv(m, h), NEW c \in Ids, NEW k \in DOMAIN m.obj[c].items,
           NEW v \in Ids, m.obj[v].parent = NULL, v \notin Ancestors(m, c),
           NEW old, Lists(m, c, k, old)
    PROVE  /\ old \in Values(m, c) /\ old \in Ids \ {c, v} /\ v # c
           /\ m.obj[old].parent = c /\ m.obj[c].type # "free"
<1>1. m \in Heaps /\ Acyclic(m) /\ c # NULL
  BY DEF HeapInv, Ids, NULL
<1>2. old \in Values(m, c)
  BY DEF Values, Lists
<1>3. old \in Ids /\ m.obj[old].parent = c /\ m.obj[c].type # "free"
  BY <1>2, HeapFacts
<1>4. c \in Ancestors(m, c) /\ c \notin Ancestors(m, m.obj[c].parent)
  BY <1>1, AncestorsUp DEF Acyclic
<1>5. old # c
  BY <1>3, <1>4
<1> QED BY <1>1, <1>2, <1>3, <1>4, <1>5

LEMMA PlacedKeeps ==
    ASSUME NEW m, NEW h, HeapInv(m, h), NEW n \in Nat, TextsOK(m, n),
           NEW c \in Ids, NEW k \in DOMAIN m.obj[c].items,
           NEW v \in Ids, m.obj[v].type # "free",
           m.obj[v].parent = NULL, v \notin Ancestors(m, c),
           NEW old, Lists(m, c, k, old)
    PROVE  /\ HeapInv(Placed(m, c, k, v), [h EXCEPT ![old] = @ + 1])
           /\ TextsOK(Placed(m, c, k, v), n)
<1> DEFINE s == m.obj[c].items
           t == NewItems(s, k, v)
           x == Placing(m, c, k, v)
           m2 == Placed(m, c, k, v)
           h2 == [h EXCEPT ![old] = @ + 1]
<1>1. /\ m \in Heaps /\ h \in [Ids -> Nat] /\ Linked(m) /\ Acyclic(m)
      /\ Counted(m, h) /\ Alive(m) /\ UniqueKeys(m) /\ Bare(m)
  BY DEF HeapInv
<1>2. /\ s \in Seq(Item) /\ k \in DOMAIN s /\ c \in 0 .. N /\ c # NULL
  BY <1>1, HeapFields DEF Ids, NULL
<1>3. old \in Values(m, c) /\ old \in Ids /\ m.obj[old].parent = c /\ m.obj[c].type # "free"
  BY ListedApart
<1>4. c \in Ancestors(m, c) /\ c \notin Ancestors(m, m.obj[c].parent)
  BY <1>1, AncestorsUp DEF Acyclic
<1>5. v \in Ids \ {c} /\ old \in Ids \ {c, v}
  BY ListedApart
<1>6. /\ x \in Heaps /\ x.bufs = m.bufs /\ x.lost = m.lost
      /\ \A j \in Ids \ {old, v} : x.obj[j] = m.obj[j]
      /\ SameKind(x.obj[v], m.obj[v]) /\ x.obj[v].ref = m.obj[v].ref + 1
      /\ x.obj[v].parent = m.obj[v].parent /\ x.obj[v].items = m.obj[v].items
      /\ SameKind(x.obj[old], m.obj[old]) /\ x.obj[old].ref = m.obj[old].ref
      /\ x.obj[old].parent = NULL /\ x.obj[old].items = m.obj[old].items
  <2>1. Turned(x, m, v, old)
    BY <1>1, <1>5, PlacingFields
  <2> HIDE DEF x
  <2> QED BY <2>1 DEF Turned
<1>7. /\ t \in Seq(Item) /\ DOMAIN t = DOMAIN s
      /\ \A l \in DOMAIN s : t[l].key = s[l].key
      /\ \A l \in DOMAIN s : t[l].val = IF l = k THEN v ELSE s[l].val
  <2> HIDE DEF s
  <2> QED BY <1>2, NewItem
<1>8. m2 = Put(x, c, t, v, c)
  BY DEF Placed
<1> HIDE DEF x, t, m2
<1>9. /\ m2 \in Heaps /\ m2.bufs = x.bufs /\ m2.lost = x.lost
      /\ \A j \in Ids \ {c, v} : m2.obj[j] = x.obj[j]
      /\ SameKind(m2.obj[c], x.obj[c]) /\ m2.obj[c].ref = x.obj[c].ref
      /\ m2.obj[c].parent = x.obj[c].parent /\ m2.obj[c].items = t
      /\ SameKind(m2.obj[v], x.obj[v]) /\ m2.obj[v].ref = x.obj[v].ref
      /\ m2.obj[v].parent = c /\ m2.obj[v].items = x.obj[v].items
  <2>1. x \in Heaps /\ t \in Seq(Item) /\ c \in 0 .. N
    BY <1>2, <1>6, <1>7
  <2>2. Differ(m2, x, c, t, v, c)
    BY <1>5, <1>8, <2>1, PutFields
  <2> QED BY <2>2 DEF Differ
<1>10. h2 \in [Ids -> Nat] /\ h2[old] = h[old] + 1 /\ \A j \in Ids \ {old} : h2[j] = h[j]
  BY <1>1, <1>5
<1> HIDE DEF h2, s
<1>11. /\ SameKind(m2.obj[c], m.obj[c]) /\ m2.obj[c].ref = m.obj[c].ref
       /\ m2.obj[c].parent = m.obj[c].parent
  <2>1. x.obj[c] = m.obj[c]
    BY <1>5, <1>6
  <2> QED BY <1>9, <2>1
<1>12. /\ SameKind(m2.obj[v], m.obj[v]) /\ m2.obj[v].ref = m.obj[v].ref + 1
       /\ m2.obj[v].items = m.obj[v].items /\ m2.obj[v].parent = c
  BY <1>6, <1>9 DEF SameKind
<1>13. /\ SameKind(m2.obj[old], m.obj[old]) /\ m2.obj[old].ref = m.obj[old].ref
       /\ m2.obj[old].items = m.obj[old].items /\ m2.obj[old].parent = NULL
  <2>1. m2.obj[old] = x.obj[old]
    BY <1>5, <1>9
  <2> QED BY <1>6, <2>1
<1>14. \A j \in Ids \ {c, v, old} : m2.obj[j] = m.obj[j]
  BY <1>6, <1>9
<1>15. \A j \in Ids : /\ m2.obj[j].type = m.obj[j].type
                      /\ m2.obj[j].managed = m.obj[j].managed
                      /\ m2.obj[j].forgot = m.obj[j].forgot
  BY <1>11, <1>12, <1>13, <1>14 DEF SameKind
<1>16. /\ \A j \in Ids \ {v} : m2.obj[j].ref = m.obj[j].ref
       /\ m2.obj[v].ref = m.obj[v].ref + 1
       /\ \A j \in Ids \ {v, old} : m2.obj[j].parent = m.obj[j].parent
       /\ m2.obj[v].parent = c /\ m2.obj[old].parent = NULL
       /\ \A j \in Ids \ {c} : m2.obj[j].items = m.obj[j].items
  BY <1>11, <1>12, <1>13, <1>14
<1>17. \A l, y \in DOMAIN s : s[l].val = s[y].val => l = y
  BY <1>1 DEF Linked, s
<1>18. v \notin Values(m, c) /\ \A l \in DOMAIN s : s[l].val # v
  <2>1. v \notin Values(m, c)
    BY HeapFacts DEF Ids, NULL
  <2> QED BY <2>1 DEF Values, s
<1>19. Values(m2, c) = {v} \cup (Values(m, c) \ {old})
  <2>1. /\ Values(m2, c) = {t[l].val : l \in DOMAIN s}
        /\ Values(m, c) = {s[l].val : l \in DOMAIN s}
    BY <1>7, <1>9 DEF Values, s
  <2>2. old = s[k].val
    BY DEF s, Lists
  <2> QED BY <1>2, <1>7, <1>17, <2>1, <2>2
<1>20. ASSUME NEW l \in DOMAIN t, NEW y \in DOMAIN t
       PROVE  /\ t[l].val = t[y].val => l = y
              /\ m.obj[c].type = "dict" /\ t[l].key = t[y].key => l = y
  <2>1. m.obj[c].type = "dict" /\ s[l].key = s[y].key => l = y
    BY <1>1, <1>7 DEF UniqueKeys, s
  <2> QED BY <1>7, <1>17, <1>18, <2>1
<1>21. Counted(m2, h2)
  <2> SUFFICES ASSUME NEW j \in Ids
               PROVE  m2.obj[j].ref = h2[j] + Count(m2.obj[j].parent # NULL) + m2.obj[j].forgot
    BY DEF Counted
  <2>1. /\ m.obj[j].ref = h[j] + Count(m.obj[j].parent # NULL) + m.obj[j].forgot
        /\ h[j] \in Nat /\ m.obj[j].forgot \in Nat
    BY <1>1, HeapFields DEF Counted
  <2>2. CASE j = old
    <3>1. m.obj[j].ref = h[j] + 1 + m.obj[j].forgot
      BY <1>2, <1>3, <2>1, <2>2 DEF Count
    <3>2. /\ m2.obj[j].ref = m.obj[j].ref /\ m2.obj[j].parent = NULL
          /\ m2.obj[j].forgot = m.obj[j].forgot /\ h2[j] = h[j] + 1
      BY <1>5, <1>10, <1>15, <1>16, <2>2
    <3> QED BY <2>1, <3>1, <3>2 DEF Count
  <2>3. CASE j = v
    <3>1. m.obj[j].ref = h[j] + 0 + m.obj[j].forgot
      BY <2>1, <2>3 DEF Count
    <3>2. /\ m2.obj[j].ref = m.obj[j].ref + 1 /\ m2.obj[j].parent # NULL
          /\ m2.obj[j].forgot = m.obj[j].forgot /\ h2[j] = h[j]
      BY <1>2, <1>5, <1>10, <1>15, <1>16, <2>3
    <3> QED BY <2>1, <3>1, <3>2 DEF Count
  <2>4. CASE j # old /\ j # v
    BY <1>10, <1>15, <1>16, <2>1, <2>4
  <2> QED BY <2>2, <2>3, <2>4
<1>22. Acyclic(m2)
  <2>1. \A j \in Ids \ {v} : m2.obj[j].parent \in {m.obj[j].parent, NULL}
    BY <1>16
  <2> QED BY <1>1, <1>9, <1>16, <2>1, NewParent
<1>23. ASSUME NEW j \in Ids
       PROVE  IF m.obj[j].type = "free" THEN m2.obj[j] = m.obj[j] ELSE m2.obj[j].ref > 0
  <2>1. m.obj[j].type = "free" => j \notin {c, old, v}
    BY <1>3, HeapFacts
  <2>2. m.obj[j].ref \in Nat
    BY <1>1, HeapFields
  <2>3. CASE m.obj[j].type = "free"
    BY <1>6, <1>9, <2>1, <2>3
  <2>4. CASE m.obj[j].type # "free"
    BY <1>1, <1>16, <2>2, <2>4 DEF Alive
  <2> QED BY <2>3, <2>4
<1>24. \A j \in Values(m2, c) : m.obj[j].parent \in {c, NULL} /\ m2.obj[j].parent = c
  <2>1. \A j \in Values(m, c) : j \in Ids /\ m.obj[j].parent = c
    BY HeapFacts
  <2> QED BY <1>16, <1>18, <1>19, <2>1
<1>25. ASSUME NEW j \in Ids \ Values(m2, c)
       PROVE  m2.obj[j].parent = IF m.obj[j].parent = c THEN NULL ELSE m.obj[j].parent
  <2>1. j # v
    BY <1>19
  <2>2. CASE j = old
    BY <1>3, <1>16, <2>2
  <2>3. CASE j # old
    <3>1. m.obj[j].parent # c
      BY <1>1, <1>2, <1>19, <2>3 DEF Linked
    <3> QED BY <1>16, <2>1, <2>3, <3>1
  <2> QED BY <2>2, <2>3
<1>26. HeapInv(m2, h2)
  <2>1. \A l, y \in DOMAIN m2.obj[c].items :
            m2.obj[c].items[l].val = m2.obj[c].items[y].val => l = y
    BY <1>9, <1>20
  <2>2. m.obj[c].type = "dict" => \A l, y \in DOMAIN m2.obj[c].items :
            m2.obj[c].items[l].key = m2.obj[c].items[y].key => l = y
    BY <1>9, <1>20
  <2>3. m.obj[c].type \in Containers
    BY <1>1, <1>2, EmptySeq DEF Bare, s
  <2>4. Rehung(m2, m, c)
    BY <1>15, <1>16, <1>23, <1>24, <1>25, <2>1, <2>2, <2>3 DEF Rehung
  <2> QED BY <1>9, <1>10, <1>21, <1>22, <2>4, ItemsChange
<1>27. TextsOK(m2, n)
  <2>1. m2.bufs = m.bufs /\ m2.lost = m.lost
    BY <1>6, <1>9
  <2>2. \A j \in Ids : m2.obj[j].managed = m.obj[j].managed
    BY <1>15
  <2> QED BY <2>1, <2>2, SameTexts
<1> QED BY <1>3, <1>5, <1>26, <1>27 DEF m2, h2

\* What goes with old has old above it: neither c nor v.
LEMMA DoomedBelow ==
    ASSUME NEW m, NEW h, HeapInv(m, h), NEW old \in Ids,
           NEW x \in Heaps, NEW j \in Doomed(x, old),
           \A d \in Ids : old \in Ancestors(m, d) => Values(x, d) \subseteq Values(m, d)
    PROVE  j \in Ids /\ old \in Ancestors(m, j)
<1> DEFINE C == {d \in Ids : old \in Ancestors(m, d)}
<1>1. m \in Heaps
  BY DEF HeapInv
<1>2. C \in SUBSET Ids /\ old \in C
  BY <1>1, AncestorsUp
<1>3. ASSUME NEW d \in C, NEW w \in Values(x, d)
      PROVE  w \in C
  <2>1. w \in Ids /\ m.obj[w].parent = d
    BY <1>3, HeapFacts
  <2>2. old \in Ancestors(m, w)
    BY <1>1, <2>1, AncestorsUp
  <2> QED BY <2>1, <2>2
<1> HIDE DEF C
<1>4. Doomed(x, old) \subseteq C
  BY <1>2, <1>3, DoomedClosed
<1> QED BY <1>4 DEF C

\* Two heaps with the same values and counts among what goes with i.
LEMMA SameDoomed ==
    ASSUME NEW x \in Heaps, NEW z \in Heaps, NEW i \in Ids,
           \A d \in Doomed(x, i) : Values(z, d) = Values(x, d),
           \A d \in Ids : z.obj[d].ref = x.obj[d].ref
    PROVE  Doomed(z, i) \subseteq Doomed(x, i)
<1> DEFINE C == Doomed(x, i)
<1>1. C \in SUBSET Ids /\ i \in C
  BY DoomedClosed
<1>2. \A d \in C : \A w \in Values(x, d) : x.obj[w].ref <= 1 => w \in C
  BY DoomedClosed
<1> HIDE DEF C
<1>3. ASSUME NEW d \in C, NEW w \in Values(z, d), z.obj[w].ref <= 1
      PROVE  w \in C
  <2>1. w \in Values(x, d)
    BY <1>3 DEF C
  <2>2. w \in Ids
    BY <1>1, <2>1, ValuesFacts
  <2> QED BY <1>2, <1>3, <2>1, <2>2
<1> QED BY <1>1, <1>3, DoomedClosed DEF C

\* x, where the new value is counted and the old one cut off, and z, where the
\* new one is listed too.
Swapped(m, x, z, t, c, v) ==
    /\ x \in Heaps /\ z \in Heaps /\ t \in Seq(Item)
    /\ z = Put(x, c, t, v, c)
    /\ x.obj[c] = m.obj[c]
    /\ \A j \in Ids : x.obj[j].items = m.obj[j].items
    /\ \A j \in Ids : Values(x, j) = Values(m, j)
    /\ \A j \in Ids \ {c} : Values(z, j) = Values(x, j)
    /\ \A j \in Ids : z.obj[j].ref = x.obj[j].ref /\ z.obj[j].managed = x.obj[j].managed
    /\ \A j \in Ids \ {c, v} : z.obj[j] = x.obj[j]

LEMMA PlacedFields ==
    ASSUME NEW m, NEW h, HeapInv(m, h), NEW c \in Ids, NEW k \in DOMAIN m.obj[c].items,
           NEW v \in Ids \ {c}, NEW old, Lists(m, c, k, old), old \in Ids \ {c, v}
    PROVE  Swapped(m, Placing(m, c, k, v), Placed(m, c, k, v),
                   NewItems(m.obj[c].items, k, v), c, v)
<1> DEFINE x == Placing(m, c, k, v)
           z == Placed(m, c, k, v)
           s == m.obj[c].items
           t == NewItems(s, k, v)
<1>1. m \in Heaps /\ c \in 0 .. N
  BY DEF HeapInv, Ids
<1>2. t \in Seq(Item)
  <2>1. s \in Seq(Item) /\ k \in DOMAIN s
    BY <1>1, HeapFields
  <2> HIDE DEF s
  <2> QED BY <2>1, NewItem
<1>3. /\ x \in Heaps
      /\ \A j \in Ids \ {old, v} : x.obj[j] = m.obj[j]
      /\ x.obj[v].items = m.obj[v].items
      /\ x.obj[old].items = m.obj[old].items
  <2>1. Turned(x, m, v, old)
    BY <1>1, PlacingFields
  <2> HIDE DEF x
  <2> QED BY <2>1 DEF Turned
<1>4. z = Put(x, c, t, v, c)
  BY DEF Placed
<1> HIDE DEF x, t, z
<1>5. /\ z \in Heaps
      /\ \A j \in Ids \ {c, v} : z.obj[j] = x.obj[j]
      /\ SameKind(z.obj[c], x.obj[c]) /\ z.obj[c].ref = x.obj[c].ref
      /\ SameKind(z.obj[v], x.obj[v]) /\ z.obj[v].ref = x.obj[v].ref
      /\ z.obj[v].items = x.obj[v].items
  <2>1. Differ(z, x, c, t, v, c)
    BY <1>1, <1>2, <1>3, <1>4, PutFields
  <2> QED BY <2>1 DEF Differ
<1>6. \A j \in Ids : x.obj[j].items = m.obj[j].items
  BY <1>3
<1>7. \A j \in Ids : Values(x, j) = Values(m, j)
  BY <1>6 DEF Values
<1>8. \A j \in Ids \ {c} : z.obj[j].items = x.obj[j].items
  BY <1>5
<1>9. \A j \in Ids \ {c} : Values(z, j) = Values(x, j)
  BY <1>8 DEF Values
<1>10. \A j \in Ids : z.obj[j].ref = x.obj[j].ref /\ z.obj[j].managed = x.obj[j].managed
  BY <1>5 DEF SameKind
<1>11. x.obj[c] = m.obj[c]
  BY <1>3
<1>12. Swapped(m, x, z, t, c, v)
  BY <1>2, <1>3, <1>4, <1>5, <1>6, <1>7, <1>9, <1>10, <1>11 DEF Swapped
<1> QED BY <1>12 DEF x, t, z

InPlace(y, c, k, v) == [y EXCEPT !.obj[c].items[k].val = v, !.obj[v].parent = c]

BlocksInPlace(f, c, k, v) ==
    [f EXCEPT ![c] = [f[c] EXCEPT !.items = NewItems(f[c].items, k, v)],
              ![v] = [f[v] EXCEPT !.parent = c]]

LEMMA PutInPlace ==
    ASSUME NEW f, f = [j \in Ids |-> f[j]], NEW q, NEW l,
           NEW c \in Ids, NEW v \in Ids \ {c}, NEW k,
           NEW y, y = [obj |-> f, bufs |-> q, lost |-> l]
    PROVE  InPlace(y, c, k, v) = [obj |-> BlocksInPlace(f, c, k, v), bufs |-> q, lost |-> l]
<1> DEFINE bc == [f[c] EXCEPT !.items = NewItems(f[c].items, k, v)]
           g == [f EXCEPT ![c] = bc]
           y1 == [obj |-> g, bufs |-> q, lost |-> l]
<1>1. [y EXCEPT !.obj[c].items[k].val = v] = y1
  BY DEF NewItems
<1>2. [y EXCEPT !.obj[c].items[k].val = v, !.obj[v].parent = c] = [y1 EXCEPT !.obj[v].parent = c]
  <2>1. [y EXCEPT !.obj[c].items[k].val = v, !.obj[v].parent = c]
         = [[y EXCEPT !.obj[c].items[k].val = v] EXCEPT !.obj[v].parent = c]
    OBVIOUS
  <2> HIDE DEF y1
  <2> QED BY <1>1, <2>1
<1> HIDE DEF bc
<1>3. g = [j \in Ids |-> g[j]] /\ g[v] = f[v]
  OBVIOUS
<1>4. [g EXCEPT ![v] = [f[v] EXCEPT !.parent = c]] = [f EXCEPT ![c] = bc, ![v] = [f[v] EXCEPT !.parent = c]]
  OBVIOUS
<1> HIDE DEF g
<1>5. [y1 EXCEPT !.obj[v].parent = c] = [obj |-> [g EXCEPT ![v] = [f[v] EXCEPT !.parent = c]], bufs |-> q, lost |-> l]
  <2>1. [y1 EXCEPT !.obj[v].parent = c] = [y1 EXCEPT !.obj = [g EXCEPT ![v].parent = c]]
    OBVIOUS
  <2>2. [g EXCEPT ![v].parent = c] = [g EXCEPT ![v] = [g[v] EXCEPT !.parent = c]]
    OBVIOUS
  <2> DEFINE e == [g EXCEPT ![v] = [f[v] EXCEPT !.parent = c]]
  <2>3. [g EXCEPT ![v].parent = c] = e
    BY <1>3, <2>2
  <2> HIDE DEF e
  <2>4. [y1 EXCEPT !.obj = e] = [obj |-> e, bufs |-> q, lost |-> l]
    OBVIOUS
  <2>5. [y1 EXCEPT !.obj[v].parent = c] = [y1 EXCEPT !.obj = e]
    BY <2>1, <2>3
  <2> QED BY <2>4, <2>5 DEF e
<1> QED BY <1>2, <1>4, <1>5 DEF bc, InPlace, BlocksInPlace

\* What the code does: the old value is given back, then the new one listed.
LEMMA ReplaceInPlace ==
    ASSUME NEW m, NEW c, NEW k, NEW v, NEW old, Lists(m, c, k, old)
    PROVE  Replace(m, c, k, v) = InPlace(Unref(Placing(m, c, k, v), old), c, k, v)
<1>1. Placing(m, c, k, v) = Ref([m EXCEPT !.obj[old].parent = NULL], v)
  BY DEF Placing, Apart, Lists
<1>2. Replace(m, c, k, v)
        = InPlace(Unref(Ref([m EXCEPT !.obj[old].parent = NULL], v), old), c, k, v)
  BY DEF Replace, InPlace, Lists
<1> QED BY <1>1, <1>2

\* It makes no difference whether the old value is given back before the new
\* one is in its place, as the code does, or after.
LEMMA ReplaceIsUnref ==
    ASSUME NEW m, NEW h, HeapInv(m, h),
           NEW c \in Ids, NEW k \in DOMAIN m.obj[c].items,
           NEW v \in Ids \ {c}, m.obj[v].type # "free", m.obj[v].parent = NULL,
           NEW old, Lists(m, c, k, old), old \in Ids \ {c, v},
           m.obj[old].parent = c
    PROVE  Replace(m, c, k, v) = Unref(Placed(m, c, k, v), old)
<1> DEFINE x == Placing(m, c, k, v)
           z == Placed(m, c, k, v)
           t == NewItems(m.obj[c].items, k, v)
           bc == [x.obj[c] EXCEPT !.items = t]
           bv == [x.obj[v] EXCEPT !.parent = c]
           y == Unref(x, old)
<1>1. m \in Heaps /\ Acyclic(m)
  BY DEF HeapInv
<1>2. /\ x \in Heaps /\ z \in Heaps /\ t \in Seq(Item)
      /\ z = Put(x, c, t, v, c)
      /\ x.obj[c] = m.obj[c]
      /\ \A j \in Ids : Values(x, j) = Values(m, j)
      /\ \A j \in Ids \ {c} : Values(z, j) = Values(x, j)
      /\ \A j \in Ids : z.obj[j].ref = x.obj[j].ref /\ z.obj[j].managed = x.obj[j].managed
      /\ \A j \in Ids \ {c, v} : z.obj[j] = x.obj[j]
  <2>1. Swapped(m, x, z, t, c, v)
    BY PlacedFields
  <2> HIDE DEF x, z, t
  <2> QED BY <2>1 DEF Swapped
<1>3. Replace(m, c, k, v) = InPlace(y, c, k, v)
  BY ReplaceInPlace
<1> HIDE DEF x, z
<1>4. z = [obj |-> [x.obj EXCEPT ![c] = bc, ![v] = bv], bufs |-> x.bufs, lost |-> x.lost]
  <2>1. x \in Heaps /\ z = Put(x, c, t, v, c)
    BY <1>2
  <2> HIDE DEF t
  <2> QED BY <2>1 DEF Put, Heaps
<1>5. /\ x \in Heaps /\ x = [obj |-> x.obj, bufs |-> x.bufs, lost |-> x.lost]
      /\ x.obj = [j \in Ids |-> x.obj[j]]
      /\ x.obj[old].ref \in Nat /\ x.obj[c] \in Block /\ x.obj[v] \in Block
  <2>1. x \in Heaps
    BY <1>2
  <2>2. x = [obj |-> x.obj, bufs |-> x.bufs, lost |-> x.lost] /\ x.obj = [j \in Ids |-> x.obj[j]]
    BY ONLY <2>1 DEF Heaps
  <2> QED BY <2>1, <2>2, HeapFields
<1>6. old \notin Ancestors(m, c) /\ old \notin Ancestors(m, v)
  <2>1. old \notin Ancestors(m, c)
    BY <1>1 DEF Acyclic
  <2>2. Ancestors(m, v) \subseteq {v} \cup Ancestors(m, NULL)
    BY <1>1, AncestorsUp
  <2> QED BY <1>1, <2>1, <2>2, NothingAboveNull
<1>7. CASE x.obj[old].ref <= 1
  <2> DEFINE D == Doomed(x, old)
             f == [j \in Ids |-> IF j \in D THEN Dead
                                 ELSE IF \E d \in D : j \in Values(x, d) THEN LetGo(x.obj[j])
                                 ELSE x.obj[j]]
             g == [j \in Ids |-> IF j \in D THEN Dead
                                 ELSE IF \E d \in D : j \in Values(z, d) THEN LetGo(z.obj[j])
                                 ELSE z.obj[j]]
             q == x.bufs - Cardinality({j \in D : x.obj[j].managed})
  <2>1. \A j \in D : j \in Ids /\ old \in Ancestors(m, j)
    BY <1>2, DoomedBelow
  <2>2. c \notin D /\ v \notin D
    BY <1>6, <2>1
  <2>3. Doomed(z, old) = D
    <3>1. Doomed(z, old) \subseteq Doomed(x, old)
      <4>1. \A d \in Doomed(x, old) : Values(z, d) = Values(x, d)
        BY <1>2, <2>1, <2>2
      <4> QED BY <1>2, <4>1, SameDoomed
    <3>2. Doomed(x, old) \subseteq Doomed(z, old)
      <4>1. \A d \in Doomed(z, old) : Values(x, d) = Values(z, d)
        BY <1>2, <2>1, <2>2, <3>1
      <4> QED BY <1>2, <4>1, SameDoomed
    <3> QED BY <3>1, <3>2
  <2>4. ASSUME NEW d \in D
        PROVE  c \notin Values(x, d) /\ v \notin Values(x, d)
    <3>1. d \in Ids /\ old \in Ancestors(m, d) /\ Values(x, d) = Values(m, d)
      BY <1>2, <2>1
    <3>2. v \notin Values(m, d)
      BY <3>1, HeapFacts DEF Ids, NULL
    <3>3. c \in Values(m, d) => m.obj[c].parent = d
      BY <3>1, HeapFacts
    <3>4. c \notin Values(m, d)
      BY <1>1, <1>6, <3>1, <3>3, AncestorsUp
    <3> QED BY <3>1, <3>2, <3>4
  <2> HIDE DEF D
  <2>5. y = [obj |-> f, bufs |-> q, lost |-> x.lost]
    <3>1. y = [x EXCEPT !.obj = f, !.bufs = q]
      BY <1>7 DEF Unref, Release, D
    <3> HIDE DEF f, q, y
    <3> QED BY <1>5, <3>1
  <2>6. Unref(z, old) = [obj |-> g, bufs |-> q, lost |-> x.lost]
    <3>1. z.obj[old].ref <= 1 /\ z.bufs = x.bufs
      BY <1>2, <1>4, <1>7 DEF Heaps
    <3>2. {j \in D : z.obj[j].managed} = {j \in D : x.obj[j].managed}
      BY <1>2, <2>1
    <3>3. Unref(z, old) = [z EXCEPT !.obj = g, !.bufs = q]
      BY <2>3, <3>1, <3>2 DEF Unref, Release
    <3> HIDE DEF g, q, bc, bv
    <3> QED BY <1>4, <3>3
  <2>7. f[c] = x.obj[c] /\ f[v] = x.obj[v]
    <3> QED BY <2>2, <2>4
  <2>8. g = [f EXCEPT ![c] = bc, ![v] = bv]
    <3> DEFINE e == [f EXCEPT ![c] = bc, ![v] = bv]
    <3>1. ASSUME NEW j \in Ids
          PROVE  g[j] = e[j]
      <4>1. \A d \in D : Values(z, d) = Values(x, d)
        BY <1>2, <2>1, <2>2
      <4>2. z.obj[c] = bc /\ z.obj[v] = bv
        <5>1. z.obj = [x.obj EXCEPT ![c] = bc, ![v] = bv]
          BY <1>4
        <5> HIDE DEF bc, bv
        <5> QED BY <1>5, <5>1
      <4> HIDE DEF bc, bv
      <4>3. CASE j \in {c, v}
        <5>1. e[j] = z.obj[j]
          BY <4>2, <4>3
        <5>2. g[j] = z.obj[j]
          BY <2>2, <2>4, <4>1, <4>3
        <5> QED BY <5>1, <5>2
      <4>4. CASE j \notin {c, v}
        <5>1. e[j] = f[j]
          BY <4>4
        <5>2. z.obj[j] = x.obj[j]
          <6> HIDE DEF f, g, e, y, t
          <6> QED BY <1>2, <4>4
        <5> QED BY <4>1, <5>1, <5>2
      <4> QED BY <4>3, <4>4
    <3>2. g = [j \in Ids |-> g[j]] /\ e = [j \in Ids |-> e[j]]
      OBVIOUS
    <3> HIDE DEF g, e
    <3>3. g = e
      BY <3>1, <3>2
    <3> QED BY <3>3 DEF e
  <2>9. f = [j \in Ids |-> f[j]]
    OBVIOUS
  <2> HIDE DEF f, g, q, y
  <2>10. Replace(m, c, k, v)
           = [obj |-> BlocksInPlace(f, c, k, v), bufs |-> q, lost |-> x.lost]
    BY <1>3, <2>5, <2>9, PutInPlace
  <2>11. BlocksInPlace(f, c, k, v) = [f EXCEPT ![c] = bc, ![v] = bv]
    BY <1>2, <2>7 DEF BlocksInPlace
  <2> HIDE DEF bc, bv, t
  <2>12. Unref(z, old) = Replace(m, c, k, v)
    BY <2>6, <2>8, <2>10, <2>11
  <2> QED BY <2>12 DEF z
<1>8. CASE ~(x.obj[old].ref <= 1)
  <2> DEFINE bo == [x.obj[old] EXCEPT !.ref = @ - 1]
             f == [x.obj EXCEPT ![old] = bo]
  <2>1. y = [obj |-> f, bufs |-> x.bufs, lost |-> x.lost]
    <3>1. x \in Heaps
      BY <1>2
    <3> HIDE DEF x
    <3>2. y = [x EXCEPT !.obj = f]
      BY <1>8, <3>1 DEF Unref, Heaps
    <3> HIDE DEF f, y
    <3> QED BY <3>1, <3>2 DEF Heaps
  <2>2. Unref(z, old) = [obj |-> [z.obj EXCEPT ![old] = bo], bufs |-> x.bufs, lost |-> x.lost]
    <3>1. z.obj[old] = x.obj[old]
      <4> HIDE DEF f, y, t, bc, bv
      <4> QED BY <1>2
    <3>2. Unref(z, old) = [z EXCEPT !.obj[old] = bo]
      BY <1>8, <3>1 DEF Unref
    <3> HIDE DEF bo, bc, bv
    <3> QED BY <1>4, <3>2
  <2>3. x.obj = [j \in Ids |-> x.obj[j]]
    BY <1>5
  <2> HIDE DEF bo
  <2>4. f = [j \in Ids |-> f[j]] /\ f[c] = x.obj[c] /\ f[v] = x.obj[v]
    BY <2>3
  <2>5. [z.obj EXCEPT ![old] = bo] = [f EXCEPT ![c] = bc, ![v] = bv]
    <3>1. z.obj = [x.obj EXCEPT ![c] = bc, ![v] = bv]
      BY <1>4
    <3> HIDE DEF bc, bv
    <3> QED BY <2>3, <3>1
  <2> HIDE DEF f, y
  <2>6. Replace(m, c, k, v)
          = [obj |-> BlocksInPlace(f, c, k, v), bufs |-> x.bufs, lost |-> x.lost]
    <3>1. f = [j \in Ids |-> f[j]] /\ y = [obj |-> f, bufs |-> x.bufs, lost |-> x.lost]
      BY <2>1, <2>4
    <3>2. InPlace(y, c, k, v) = [obj |-> BlocksInPlace(f, c, k, v), bufs |-> x.bufs, lost |-> x.lost]
      BY <3>1, PutInPlace
    <3> QED BY <1>3, <3>2
  <2>7. BlocksInPlace(f, c, k, v) = [f EXCEPT ![c] = bc, ![v] = bv]
    <3>1. x.obj[c] = m.obj[c]
      BY <1>2
    <3> QED BY <2>4, <3>1 DEF BlocksInPlace
  <2>8. Unref(z, old) = Replace(m, c, k, v)
    BY <2>2, <2>5, <2>6, <2>7
  <2> QED BY <2>8 DEF z
<1> QED BY <1>7, <1>8

\* The value under a key or an index is replaced.
LEMMA ReplaceKeeps ==
    ASSUME NEW m, NEW h, HeapInv(m, h), NEW n \in Nat, TextsOK(m, n),
           NEW c \in Ids, NEW k \in DOMAIN m.obj[c].items,
           NEW v \in Ids, m.obj[v].type # "free",
           m.obj[v].parent = NULL, v \notin Ancestors(m, c)
    PROVE  HeapInv(Replace(m, c, k, v), h) /\ TextsOK(Replace(m, c, k, v), n)
<1>1. PICK old : Lists(m, c, k, old)
  BY DEF Lists
<1> DEFINE z == Placed(m, c, k, v)
           h2 == [h EXCEPT ![old] = @ + 1]
<1>2. /\ HeapInv(z, h2) /\ TextsOK(z, n)
      /\ old \in Ids \ {c, v} /\ v # c /\ m.obj[old].parent = c
  <2>1. HeapInv(z, h2)
    BY <1>1, PlacedKeeps
  <2>2. TextsOK(z, n)
    BY <1>1, PlacedKeeps
  <2>3. old \in Ids \ {c, v} /\ v # c /\ m.obj[old].parent = c
    BY <1>1, ListedApart
  <2> QED BY <2>1, <2>2, <2>3
<1>3. Replace(m, c, k, v) = Unref(z, old)
  BY <1>1, <1>2, ReplaceIsUnref
<1>4. h \in [Ids -> Nat]
  BY DEF HeapInv
<1> HIDE DEF z
<1>5. h2[old] > 0 /\ [h2 EXCEPT ![old] = @ - 1] = h
  BY <1>2, <1>4, GiveTake
<1> HIDE DEF h2
<1> QED BY <1>2, <1>3, <1>5, UnrefKeeps

(***************************************************************************)
(* Clear: every value is taken out, then the references are given back.    *)
(***************************************************************************)
Emptied(m, c) ==
    [m EXCEPT !.obj = [j \in Ids |->
        IF j = c THEN [m.obj[j] EXCEPT !.items = <<>>]
        ELSE IF j \in Values(m, c) THEN [m.obj[j] EXCEPT !.parent = NULL]
        ELSE m.obj[j]]]

\* z is m but for c, which is empty, and its values, which are nowhere.
EmptyIs(z, m, c) ==
    /\ SameKind(z.obj[c], m.obj[c]) /\ z.obj[c].ref = m.obj[c].ref
    /\ z.obj[c].parent = m.obj[c].parent /\ z.obj[c].items = <<>>
    /\ \A j \in Values(m, c) :
          /\ SameKind(z.obj[j], m.obj[j]) /\ z.obj[j].ref = m.obj[j].ref
          /\ z.obj[j].parent = NULL /\ z.obj[j].items = m.obj[j].items
    /\ \A j \in Ids \ ({c} \cup Values(m, c)) : z.obj[j] = m.obj[j]

LEMMA EmptiedKeeps ==
    ASSUME NEW m, NEW h, HeapInv(m, h), NEW n \in Nat, TextsOK(m, n),
           NEW c \in Ids, m.obj[c].type # "free"
    PROVE  /\ HeapInv(Emptied(m, c),
                      [j \in Ids |-> IF j \in Values(m, c) THEN h[j] + 1 ELSE h[j]])
           /\ TextsOK(Emptied(m, c), n)
           /\ c \notin Values(m, c)
           /\ EmptyIs(Emptied(m, c), m, c)
<1> DEFINE V == Values(m, c)
           z == Emptied(m, c)
           h2 == [j \in Ids |-> IF j \in V THEN h[j] + 1 ELSE h[j]]
           bc == [m.obj[c] EXCEPT !.items = <<>>]
           bv(j) == [m.obj[j] EXCEPT !.parent = NULL]
           f == [j \in Ids |-> IF j = c THEN bc ELSE IF j \in V THEN bv(j) ELSE m.obj[j]]
<1>1. /\ m \in Heaps /\ h \in [Ids -> Nat] /\ Linked(m) /\ Acyclic(m)
      /\ Counted(m, h) /\ Alive(m) /\ UniqueKeys(m)
  BY DEF HeapInv
<1>2. \A j \in V : /\ j \in Ids /\ m.obj[j].parent = c
                   /\ m.obj[j].type # "free" /\ m.obj[j].ref > 0
  BY HeapFacts
<1>3. c \notin V
  <2>1. c \in Ancestors(m, c) /\ c \notin Ancestors(m, m.obj[c].parent)
    BY <1>1, AncestorsUp DEF Acyclic
  <2> QED BY <1>2, <2>1
<1>4. NULL \in 0 .. N /\ <<>> \in Seq(Item) /\ DOMAIN <<>> = {} /\ c # NULL
  BY IdsFacts, EmptySeq DEF NULL, Ids
<1>5. /\ bc \in Block /\ SameKind(bc, m.obj[c]) /\ bc.ref = m.obj[c].ref
      /\ bc.parent = m.obj[c].parent /\ bc.items = <<>>
  <2> DEFINE o == m.obj[c]
  <2>1. o \in Block
    BY <1>1, HeapFields
  <2> HIDE DEF o
  <2>2. LET b == [o EXCEPT !.items = <<>>]
        IN /\ b \in Block /\ SameKind(b, o) /\ b.ref = o.ref
           /\ b.parent = o.parent /\ b.items = <<>>
    BY <1>4, <2>1 DEF Block, SameKind
  <2> QED BY <2>2 DEF o
<1>6. ASSUME NEW j \in Ids
      PROVE  /\ bv(j) \in Block /\ SameKind(bv(j), m.obj[j]) /\ bv(j).ref = m.obj[j].ref
             /\ bv(j).parent = NULL /\ bv(j).items = m.obj[j].items
  <2> DEFINE o == m.obj[j]
  <2>1. o \in Block
    BY <1>1, HeapFields
  <2> HIDE DEF o
  <2>2. LET b == [o EXCEPT !.parent = NULL]
        IN /\ b \in Block /\ SameKind(b, o) /\ b.ref = o.ref
           /\ b.parent = NULL /\ b.items = o.items
    BY <1>4, <2>1 DEF Block, SameKind
  <2> QED BY <2>2 DEF o
<1>7. z = [m EXCEPT !.obj = f]
  BY DEF Emptied
<1> HIDE DEF bc, bv, V, z
<1>8. f \in [Ids -> Block]
  <2>1. \A j \in Ids : m.obj[j] \in Block
    BY <1>1, HeapFields
  <2> QED BY <1>5, <1>6, <2>1
<1>9. z \in Heaps /\ z.obj = f /\ z.bufs = m.bufs /\ z.lost = m.lost
  <2> HIDE DEF f
  <2> QED BY <1>1, <1>7, <1>8 DEF Heaps
<1>10. z.obj[c] = bc /\ \A j \in V : z.obj[j] = bv(j)
  BY <1>2, <1>3, <1>9
<1>11. \A j \in Ids \ ({c} \cup V) : z.obj[j] = m.obj[j]
  BY <1>9
<1> HIDE DEF f, h2
<1>12. /\ SameKind(z.obj[c], m.obj[c]) /\ z.obj[c].ref = m.obj[c].ref
       /\ z.obj[c].parent = m.obj[c].parent /\ z.obj[c].items = <<>>
  BY <1>5, <1>10
<1>13. \A j \in V : /\ SameKind(z.obj[j], m.obj[j]) /\ z.obj[j].ref = m.obj[j].ref
                    /\ z.obj[j].parent = NULL /\ z.obj[j].items = m.obj[j].items
  BY <1>2, <1>6, <1>10
<1>14. h2 \in [Ids -> Nat] /\ \A j \in Ids : h2[j] = IF j \in V THEN h[j] + 1 ELSE h[j]
  BY <1>1 DEF h2
<1>15. \A j \in Ids : /\ z.obj[j].type = m.obj[j].type /\ z.obj[j].managed = m.obj[j].managed
                      /\ z.obj[j].ref = m.obj[j].ref /\ z.obj[j].forgot = m.obj[j].forgot
  BY <1>11, <1>12, <1>13 DEF SameKind
<1>16. \A j \in Ids \ {c} : z.obj[j].items = m.obj[j].items
  BY <1>11, <1>13
<1>17. \A j \in Ids \ V : z.obj[j].parent = m.obj[j].parent
  BY <1>11, <1>12
<1>18. Values(z, c) = {} /\ DOMAIN z.obj[c].items = {}
  BY <1>4, <1>12 DEF Values
<1>19. \A j \in Ids : j \in V <=> m.obj[j].parent = c
  BY <1>1, <1>2, <1>4 DEF Linked, V
<1>20. Counted(z, h2)
  <2> SUFFICES ASSUME NEW j \in Ids
               PROVE  z.obj[j].ref = h2[j] + Count(z.obj[j].parent # NULL) + z.obj[j].forgot
    BY DEF Counted
  <2>1. /\ m.obj[j].ref = h[j] + Count(m.obj[j].parent # NULL) + m.obj[j].forgot
        /\ h[j] \in Nat /\ m.obj[j].forgot \in Nat
    BY <1>1, HeapFields DEF Counted
  <2>2. CASE j \in V
    <3>1. m.obj[j].ref = h[j] + 1 + m.obj[j].forgot
      BY <1>2, <1>4, <2>1, <2>2 DEF Count
    <3>2. z.obj[j].parent = NULL /\ h2[j] = h[j] + 1
      BY <1>13, <1>14, <2>2
    <3> QED BY <1>15, <2>1, <3>1, <3>2 DEF Count
  <2>3. CASE j \notin V
    BY <1>14, <1>15, <1>17, <2>1, <2>3
  <2> QED BY <2>2, <2>3
<1>21. Acyclic(z)
  <2>1. \A j \in Ids : z.obj[j].parent \in {m.obj[j].parent, NULL}
    BY <1>13, <1>17
  <2> QED BY <1>1, <1>9, <2>1, FewerParents
<1>22. \A j \in Ids : IF m.obj[j].type = "free" THEN z.obj[j] = m.obj[j] ELSE z.obj[j].ref > 0
  BY <1>1, <1>2, <1>11, <1>15 DEF Alive
<1>23. \A j \in Ids \ Values(z, c) :
           z.obj[j].parent = IF m.obj[j].parent = c THEN NULL ELSE m.obj[j].parent
  BY <1>13, <1>17, <1>19
<1>24. HeapInv(z, h2)
  <2>1. Rehung(z, m, c)
    BY <1>12, <1>15, <1>16, <1>18, <1>22, <1>23 DEF Rehung
  <2> QED BY <1>9, <1>14, <1>20, <1>21, <2>1, ItemsChange
<1>25. TextsOK(z, n)
  <2>1. \A j \in Ids : z.obj[j].managed = m.obj[j].managed
    BY <1>15
  <2> QED BY <1>9, <2>1, SameTexts
<1>26. EmptyIs(z, m, c)
  BY <1>11, <1>12, <1>13 DEF EmptyIs, V
<1> QED BY <1>3, <1>24, <1>25, <1>26 DEF z, h2, V

Shared(m, c) == {v \in Values(m, c) : m.obj[v].ref > 1}
Unshared(m, c) == {v \in Values(m, c) : ~(m.obj[v].ref > 1)}
Cleared(m, c) == UNION {Doomed(m, v) : v \in Unshared(m, c)}

\* What goes with the values of c that have no other reference.
LEMMA ClearedFacts ==
    ASSUME NEW m, NEW h, HeapInv(m, h), NEW c \in Ids,
           NEW R, R = Unshared(m, c), NEW D, D = Cleared(m, c)
    PROVE  /\ D \in SUBSET Ids /\ R \subseteq D
           /\ \A j \in D : \A v \in Values(m, j) : m.obj[v].ref <= 1 => v \in D
           /\ \A j \in D \ R : m.obj[j].ref <= 1 /\ m.obj[j].parent \in D
           /\ c \notin D /\ m.obj[c].parent \notin D
           /\ \A v \in Shared(m, c) : v \notin D
<1>1. m \in Heaps /\ Acyclic(m)
  BY DEF HeapInv
<1>2. ASSUME NEW r \in R
      PROVE  /\ r \in Ids /\ m.obj[r].parent = c /\ r \in Doomed(m, r) /\ Doomed(m, r) \subseteq Ids
             /\ \A j \in Doomed(m, r) : \A v \in Values(m, j) :
                   m.obj[v].ref <= 1 => v \in Doomed(m, r)
  <2>1. r \in Ids /\ m.obj[r].parent = c
    BY HeapFacts DEF Unshared
  <2> QED BY <1>1, <2>1, DoomedClosed
<1>3. ASSUME NEW r \in R, NEW j \in Doomed(m, r)
      PROVE  j \in Ids /\ r \in Ancestors(m, j)
  BY <1>1, <1>2, DoomedBelow
<1>4. ASSUME NEW r \in R
      PROVE  r \notin Ancestors(m, c) /\ r \notin Ancestors(m, m.obj[c].parent)
  <2>1. r \notin Ancestors(m, c)
    BY <1>1, <1>2 DEF Acyclic
  <2> QED BY <1>1, <2>1, AncestorsUp
<1>5. D \in SUBSET Ids /\ R \subseteq D
  BY <1>2 DEF Cleared
<1>6. ASSUME NEW j \in D, NEW v \in Values(m, j), m.obj[v].ref <= 1
      PROVE  v \in D
  <2>1. PICK r \in R : j \in Doomed(m, r)
    BY DEF Cleared
  <2>2. v \in Doomed(m, r)
    BY <1>2, <1>6, <2>1
  <2> QED BY <2>1, <2>2 DEF Cleared
<1>7. ASSUME NEW j \in D \ R
      PROVE  m.obj[j].ref <= 1 /\ m.obj[j].parent \in D
  <2>1. PICK r \in R : j \in Doomed(m, r)
    BY DEF Cleared
  <2>2. j # r
    OBVIOUS
  <2>3. m.obj[j].ref <= 1 /\ m.obj[j].parent \in Doomed(m, r)
    BY <1>2, <2>1, <2>2, DoomedHangs
  <2> QED BY <2>1, <2>3 DEF Cleared
<1>8. c \notin D /\ m.obj[c].parent \notin D
  BY <1>3, <1>4 DEF Cleared
<1>9. ASSUME NEW v \in Shared(m, c)
      PROVE  v \notin D
  <2> SUFFICES ASSUME v \in D PROVE FALSE
    OBVIOUS
  <2>1. v \notin R /\ v \in Ids /\ m.obj[v].ref > 1
    BY <1>5 DEF Shared, Unshared
  <2>2. m.obj[v].ref <= 1 /\ m.obj[v].ref \in Nat
    BY <1>1, <1>7, <2>1, HeapFields
  <2> QED BY <2>1, <2>2
<1> QED BY <1>5, <1>6, <1>7, <1>8, <1>9

\* The record Clear leaves.
LEMMA ClearFields ==
    ASSUME NEW m, NEW h, HeapInv(m, h), NEW n \in Nat, TextsOK(m, n),
           NEW c \in Ids, m.obj[c].type # "free",
           NEW K, K = Shared(m, c), NEW D, D = Cleared(m, c)
    PROVE  LET m2 == Clear(m, c)
           IN /\ m2 \in Heaps /\ TextsOK(m2, n)
              /\ SameKind(m2.obj[c], m.obj[c]) /\ m2.obj[c].ref = m.obj[c].ref
              /\ m2.obj[c].parent = m.obj[c].parent /\ m2.obj[c].items = <<>>
              /\ \A j \in K : Lowered(m2.obj[j], m.obj[j])
              /\ \A j \in D : m2.obj[j] = Dead
              /\ \A j \in Ids \ (D \cup K \cup {c}) :
                    IF m.obj[j].parent \in D THEN Lowered(m2.obj[j], m.obj[j])
                    ELSE m2.obj[j] = m.obj[j]
<1> DEFINE x == Release(m, D)
           m2 == Clear(m, c)
           bc == [m.obj[c] EXCEPT !.items = <<>>]
           f == [j \in Ids |-> IF j = c THEN [x.obj[c] EXCEPT !.items = <<>>]
                               ELSE IF j \in K THEN LetGo(x.obj[j])
                               ELSE x.obj[j]]
<1>1. m \in Heaps
  BY DEF HeapInv
<1>2. c \notin Values(m, c)
  BY EmptiedKeeps
<1>3. /\ D \in SUBSET Ids
      /\ c \notin D /\ m.obj[c].parent \notin D
      /\ \A j \in K : j \notin D
  BY ClearedFacts
<1>4. \A j \in K : j \in Ids /\ j # c /\ m.obj[j].parent = c /\ m.obj[j].ref > 1
  BY <1>2, HeapFacts DEF Shared
<1>5. /\ x \in Heaps /\ TextsOK(x, n)
      /\ \A j \in D : x.obj[j] = Dead
      /\ \A j \in Ids \ D : m.obj[j].parent \in D => Lowered(x.obj[j], m.obj[j])
      /\ \A j \in Ids \ D : m.obj[j].parent \notin D => x.obj[j] = m.obj[j]
  BY <1>3, ReleaseFields
<1>6. x.obj[c] = m.obj[c] /\ \A j \in K : x.obj[j] = m.obj[j]
  BY <1>3, <1>4, <1>5
<1>7. m2 = [x EXCEPT !.obj = f]
  <2>1. Values(m, c) \ K = Unshared(m, c)
    BY DEF Shared, Unshared
  <2>2. K = {v \in Values(m, c) : m.obj[v].ref > 1}
    BY DEF Shared
  <2> QED BY <2>1, <2>2 DEF Clear, Cleared
<1>8. f = [j \in Ids |-> IF j = c THEN bc ELSE IF j \in K THEN LetGo(m.obj[j]) ELSE x.obj[j]]
  <2> HIDE DEF x
  <2> QED BY <1>6
<1> HIDE DEF f, x
<1>9. /\ bc \in Block /\ SameKind(bc, m.obj[c]) /\ bc.ref = m.obj[c].ref
      /\ bc.parent = m.obj[c].parent /\ bc.items = <<>>
  <2> DEFINE o == m.obj[c]
  <2>1. o \in Block /\ <<>> \in Seq(Item)
    BY <1>1, HeapFields, EmptySeq
  <2> HIDE DEF o
  <2>2. LET b == [o EXCEPT !.items = <<>>]
        IN /\ b \in Block /\ SameKind(b, o) /\ b.ref = o.ref
           /\ b.parent = o.parent /\ b.items = <<>>
    BY <2>1 DEF Block, SameKind
  <2> QED BY <2>2 DEF o
<1>10. ASSUME NEW j \in K
       PROVE  LetGo(m.obj[j]) \in Block /\ Lowered(LetGo(m.obj[j]), m.obj[j])
  <2> DEFINE o == m.obj[j]
  <2>1. o \in Block /\ o.ref - 1 \in Nat /\ NULL \in 0 .. N
    BY <1>1, <1>4, HeapFields, IdsFacts DEF NULL
  <2> HIDE DEF o
  <2>2. LetGo(o) \in Block /\ Lowered(LetGo(o), o)
    BY <2>1 DEF Block, Lowered, LetGo
  <2> QED BY <2>2 DEF o
<1> HIDE DEF bc
<1>11. f \in [Ids -> Block]
  <2>1. \A j \in Ids : x.obj[j] \in Block
    BY <1>5, HeapFields
  <2> QED BY <1>8, <1>9, <1>10, <2>1
<1>12. m2 \in Heaps /\ m2.obj = f /\ m2.bufs = x.bufs /\ m2.lost = x.lost
  BY <1>5, <1>7, <1>11 DEF Heaps
<1> HIDE DEF m2
<1>13. m2.obj[c] = bc /\ \A j \in K : m2.obj[j] = LetGo(m.obj[j])
  BY <1>4, <1>8, <1>12
<1>14. \A j \in Ids \ (K \cup {c}) : m2.obj[j] = x.obj[j]
  BY <1>8, <1>12
<1>15. \A j \in Ids : m2.obj[j].managed = x.obj[j].managed
  BY <1>6, <1>9, <1>10, <1>13, <1>14 DEF SameKind, Lowered
<1>16. TextsOK(m2, n)
  BY <1>5, <1>12, <1>15, SameTexts
<1>17. \A j \in D : m2.obj[j] = Dead
  BY <1>3, <1>5, <1>14
<1>18. \A j \in Ids \ (D \cup K \cup {c}) :
           IF m.obj[j].parent \in D THEN Lowered(m2.obj[j], m.obj[j])
           ELSE m2.obj[j] = m.obj[j]
  BY <1>5, <1>14
<1> QED BY <1>9, <1>10, <1>12, <1>13, <1>16, <1>17, <1>18 DEF m2

\* A container loses all its values.
LEMMA ClearKeeps ==
    ASSUME NEW m, NEW h, HeapInv(m, h), NEW n \in Nat, TextsOK(m, n),
           NEW c \in Ids, m.obj[c].type # "free"
    PROVE  HeapInv(Clear(m, c), h) /\ TextsOK(Clear(m, c), n)
<1> DEFINE K == Shared(m, c)
           R == Unshared(m, c)
           D == Cleared(m, c)
           z == Emptied(m, c)
           hz == [j \in Ids |-> IF j \in Values(m, c) THEN h[j] + 1 ELSE h[j]]
           y == Release(z, D)
           hy == [j \in Ids |-> IF j \in R THEN hz[j] - 1 ELSE hz[j]]
           m2 == Clear(m, c)
<1>1. m \in Heaps /\ h \in [Ids -> Nat]
  BY DEF HeapInv
<1>2. /\ D \in SUBSET Ids /\ R \subseteq D
      /\ \A j \in D : \A v \in Values(m, j) : m.obj[v].ref <= 1 => v \in D
      /\ \A j \in D \ R : m.obj[j].ref <= 1 /\ m.obj[j].parent \in D
      /\ c \notin D /\ m.obj[c].parent \notin D
      /\ \A v \in K : v \notin D
  BY ClearedFacts
<1>3. /\ m2 \in Heaps /\ TextsOK(m2, n)
      /\ SameKind(m2.obj[c], m.obj[c]) /\ m2.obj[c].ref = m.obj[c].ref
      /\ m2.obj[c].parent = m.obj[c].parent /\ m2.obj[c].items = <<>>
      /\ \A j \in K : Lowered(m2.obj[j], m.obj[j])
      /\ \A j \in D : m2.obj[j] = Dead
      /\ \A j \in Ids \ (D \cup K \cup {c}) :
            IF m.obj[j].parent \in D THEN Lowered(m2.obj[j], m.obj[j])
            ELSE m2.obj[j] = m.obj[j]
  BY ClearFields
<1>4. HeapInv(z, hz) /\ TextsOK(z, n) /\ c \notin Values(m, c)
  BY EmptiedKeeps
<1>5. /\ TextsOK(z, n)
      /\ SameKind(z.obj[c], m.obj[c]) /\ z.obj[c].ref = m.obj[c].ref
      /\ z.obj[c].parent = m.obj[c].parent /\ z.obj[c].items = <<>>
      /\ \A j \in Values(m, c) :
            /\ SameKind(z.obj[j], m.obj[j]) /\ z.obj[j].ref = m.obj[j].ref
            /\ z.obj[j].parent = NULL /\ z.obj[j].items = m.obj[j].items
      /\ \A j \in Ids \ ({c} \cup Values(m, c)) : z.obj[j] = m.obj[j]
  <2>1. TextsOK(z, n) /\ EmptyIs(z, m, c)
    BY EmptiedKeeps
  <2> HIDE DEF z
  <2> QED BY <2>1 DEF EmptyIs
<1>6. /\ K \subseteq Ids /\ R \subseteq Ids /\ Values(m, c) = K \cup R
      /\ \A j \in K : m.obj[j].ref > 1
      /\ \A j \in R : ~(m.obj[j].ref > 1)
      /\ \A j \in Values(m, c) : m.obj[j].parent = c
  <2>1. \A j \in Values(m, c) : j \in Ids /\ m.obj[j].parent = c
    BY HeapFacts
  <2> QED BY <2>1 DEF Shared, Unshared
<1>7. \A j \in Ids : h[j] \in Nat /\ m.obj[j].ref \in Nat /\ m.obj[j].forgot \in Nat
  BY <1>1, HeapFields
<1>8. /\ hz \in [Ids -> Nat]
      /\ \A j \in Ids : hz[j] = IF j \in Values(m, c) THEN h[j] + 1 ELSE h[j]
  BY <1>1
<1> HIDE DEF K, R, D, z, hz, y, m2
<1>9. \A j \in Ids : hy[j] = IF j \in K THEN h[j] + 1 ELSE h[j]
  <2>1. \A j \in R : j \notin K
    BY <1>6
  <2> QED BY <1>6, <1>7, <1>8, <2>1
<1> HIDE DEF hy
<1>10. Goes(z, hz, R, D)
  <2>1. \A r \in R : hz[r] > 0 /\ z.obj[r].ref <= 1
    <3>1. \A r \in R : r \in Ids /\ r \in Values(m, c)
      BY <1>6
    <3> QED BY <1>5, <1>6, <1>7, <1>8, <3>1
  <2>2. \A j \in Ids : z.obj[j].ref = m.obj[j].ref
    BY <1>5
  <2>3. ASSUME NEW j \in D
        PROVE  Values(z, j) = Values(m, j) /\ z.obj[j].items = m.obj[j].items
    <3>1. j \in Ids /\ j # c
      BY <1>2
    <3>2. z.obj[j].items = m.obj[j].items
      BY <1>5, <3>1
    <3> QED BY <3>2 DEF Values
  <2>4. ASSUME NEW j \in D, NEW v \in Values(z, j), z.obj[v].ref <= 1
        PROVE  v \in D
    <3>1. j \in Ids /\ v \in Values(m, j)
      BY <1>2, <2>3
    <3>2. v \in Ids
      BY <3>1, HeapFacts
    <3> QED BY <1>2, <2>2, <2>4, <3>1, <3>2
  <2>5. ASSUME NEW j \in D \ R
        PROVE  z.obj[j].ref <= 1 /\ z.obj[j].parent \in D
    <3>1. j \in Ids /\ j # c /\ m.obj[j].ref <= 1 /\ m.obj[j].parent \in D
      BY <1>2
    <3>2. j \notin Values(m, c)
      BY <1>2, <1>6, <3>1
    <3>3. z.obj[j] = m.obj[j]
      BY <1>5, <3>1, <3>2
    <3> QED BY <3>1, <3>3
  <2> QED BY <1>2, <2>1, <2>4, <2>5 DEF Goes
<1>11. HeapInv(y, hy)
  BY <1>4, <1>10, ReleaseKeeps DEF y, hy
<1>12. /\ \A j \in D : y.obj[j] = Dead
       /\ \A j \in Ids \ D : z.obj[j].parent \in D => Lowered(y.obj[j], z.obj[j])
       /\ \A j \in Ids \ D : z.obj[j].parent \notin D => y.obj[j] = z.obj[j]
  BY <1>2, <1>4, ReleaseFields DEF y
<1>13. ASSUME NEW j \in Ids
       PROVE  /\ m2.obj[j].type = y.obj[j].type /\ m2.obj[j].parent = y.obj[j].parent
              /\ m2.obj[j].items = y.obj[j].items /\ m2.obj[j].forgot = y.obj[j].forgot
              /\ j \notin K => m2.obj[j].ref = y.obj[j].ref
              /\ j \in K => /\ m2.obj[j].ref = y.obj[j].ref - 1 /\ m2.obj[j].ref > 0
                            /\ m2.obj[j].type # "free"
              /\ y.obj[j].type = "free" => m2.obj[j] = y.obj[j]
  <2>1. CASE j \in D
    <3>1. m2.obj[j] = y.obj[j] /\ j \notin K
      BY <1>2, <1>3, <1>12, <2>1
    <3> QED BY <3>1
  <2>2. CASE j = c
    <3>1. y.obj[j] = z.obj[j] /\ j \notin K
      <4>1. z.obj[c].parent \notin D
        BY <1>2, <1>5
      <4> QED BY <1>2, <1>4, <1>6, <1>12, <2>2, <4>1
    <3> QED BY <1>3, <1>5, <2>2, <3>1 DEF SameKind
  <2>3. CASE j \in K
    <3>1. NULL \notin D
      BY <1>2 DEF Ids, NULL
    <3>2. j \in Values(m, c) /\ j \notin D
      BY <1>2, <1>6, <2>3
    <3>3. y.obj[j] = z.obj[j]
      BY <1>5, <1>12, <3>1, <3>2
    <3>4. m.obj[j].type # "free"
      BY <3>2, HeapFacts
    <3>5. m.obj[j].ref > 1 /\ m.obj[j].ref \in Nat
      BY <1>6, <1>7, <2>3
    <3> QED BY <1>3, <1>5, <2>3, <3>2, <3>3, <3>4, <3>5 DEF SameKind, Lowered
  <2>4. CASE j \notin D /\ j \notin K /\ j # c
    <3>1. j \notin Values(m, c) /\ z.obj[j] = m.obj[j]
      BY <1>2, <1>5, <1>6, <2>4
    <3>2. CASE m.obj[j].parent \in D
      <4>1. Lowered(m2.obj[j], m.obj[j]) /\ Lowered(y.obj[j], m.obj[j])
        BY <1>3, <1>12, <2>4, <3>1, <3>2
      <4>2. m.obj[j].type # "free"
        <5>1. m.obj[j].parent # NULL
          BY <1>2, <3>2 DEF Ids, NULL
        <5> QED BY <5>1, HeapFacts
      <4> QED BY <2>4, <4>1, <4>2 DEF Lowered
    <3>3. CASE m.obj[j].parent \notin D
      <4>1. m2.obj[j] = y.obj[j]
        BY <1>3, <1>12, <2>4, <3>1, <3>3
      <4> QED BY <2>4, <4>1
    <3> QED BY <3>2, <3>3
  <2> QED BY <2>1, <2>2, <2>3, <2>4
<1>14. Counted(m2, h)
  <2> SUFFICES ASSUME NEW j \in Ids
               PROVE  m2.obj[j].ref = h[j] + Count(m2.obj[j].parent # NULL) + m2.obj[j].forgot
    BY DEF Counted
  <2>1. y.obj[j].ref = hy[j] + Count(y.obj[j].parent # NULL) + y.obj[j].forgot
    BY <1>11 DEF HeapInv, Counted
  <2>2. h[j] \in Nat /\ y.obj[j].forgot \in Nat
    <3>1. y \in Heaps
      BY <1>11 DEF HeapInv
    <3> QED BY <1>7, <3>1, HeapFields
  <2>3. Count(y.obj[j].parent # NULL) \in Nat
    BY DEF Count
  <2>4. CASE j \in K
    <3>1. hy[j] = h[j] + 1 /\ m2.obj[j].ref = y.obj[j].ref - 1
      BY <1>9, <1>13, <2>4
    <3> QED BY <1>13, <2>1, <2>2, <2>3, <3>1
  <2>5. CASE j \notin K
    <3>1. hy[j] = h[j] /\ m2.obj[j].ref = y.obj[j].ref
      BY <1>9, <1>13, <2>5
    <3> QED BY <1>13, <2>1, <3>1
  <2> QED BY <2>4, <2>5
<1>15. ASSUME NEW j \in Ids
       PROVE  y.obj[j].type # "free" => m2.obj[j].ref > 0
  BY <1>11, <1>13 DEF HeapInv, Alive
<1>16. HeapInv(m2, h)
  BY <1>1, <1>3, <1>11, <1>13, <1>14, <1>15, SameShape
<1> QED BY <1>3, <1>16 DEF m2

(***************************************************************************)
(* The calls on dicts and lists.                                           *)
(***************************************************************************)
LEMMA DictSetKeeps ==
    ASSUME NEW m, NEW h, HeapInv(m, h), NEW n \in Nat, TextsOK(m, n),
           NEW d \in Ids, m.obj[d].type \in Containers, NEW key \in STRING,
           NEW v \in Ids, m.obj[v].type # "free"
    PROVE  HeapInv(DictSet(m, d, key, v), h) /\ TextsOK(DictSet(m, d, key, v), n)
<1>1. CASE Refuses(m, d, v)
  BY <1>1 DEF DictSet
<1>2. CASE ~Refuses(m, d, v)
  <2>1. m.obj[v].parent = NULL /\ v \notin Ancestors(m, d)
    BY <1>2 DEF Refuses
  <2>2. CASE At(m, d, key) # {}
    <3> DEFINE k == CHOOSE k \in At(m, d, key) : TRUE
    <3>1. k \in DOMAIN m.obj[d].items
      BY <2>2 DEF At
    <3>2. DictSet(m, d, key, v) = Replace(m, d, k, v)
      BY <1>2, <2>2 DEF DictSet
    <3> HIDE DEF k
    <3> QED BY <2>1, <3>1, <3>2, ReplaceKeeps
  <2>3. CASE At(m, d, key) = {}
    <3>1. DictSet(m, d, key, v) = AppendItem(m, d, key, v)
      BY <1>2, <2>3 DEF DictSet
    <3> QED BY <2>1, <2>3, <3>1, AppendKeeps
  <2> QED BY <2>2, <2>3
<1> QED BY <1>1, <1>2

LEMMA ListSetKeeps ==
    ASSUME NEW m, NEW h, HeapInv(m, h), NEW n \in Nat, TextsOK(m, n),
           NEW l \in Ids, m.obj[l].type = "list", NEW idx,
           NEW v \in Ids, m.obj[v].type # "free"
    PROVE  HeapInv(ListSet(m, l, idx, v), h) /\ TextsOK(ListSet(m, l, idx, v), n)
<1>1. CASE Refuses(m, l, v)
  BY <1>1 DEF ListSet
<1>2. CASE ~Refuses(m, l, v)
  <2>1. m.obj[v].parent = NULL /\ v \notin Ancestors(m, l)
    BY <1>2 DEF Refuses
  <2>2. CASE idx + 1 \in DOMAIN m.obj[l].items
    <3> DEFINE k == idx + 1
    <3>1. k \in DOMAIN m.obj[l].items
      BY <2>2
    <3>2. ListSet(m, l, idx, v) = Replace(m, l, k, v)
      BY <1>2, <2>2 DEF ListSet
    <3> HIDE DEF k
    <3> QED BY <2>1, <3>1, <3>2, ReplaceKeeps
  <2>3. CASE ~(idx + 1 \in DOMAIN m.obj[l].items)
    <3>1. ListSet(m, l, idx, v) = AppendItem(m, l, Empty, v)
      BY <1>2, <2>3 DEF ListSet
    <3>2. m.obj[l].type \in Containers /\ m.obj[l].type # "dict"
      BY DEF Containers
    <3>3. Empty \in STRING
      BY ObjectAssumption
    <3> QED BY <2>1, <3>1, <3>2, <3>3, AppendKeeps
  <2> QED BY <2>2, <2>3
<1> QED BY <1>1, <1>2

LEMMA DictDelKeeps ==
    ASSUME NEW m, NEW h, HeapInv(m, h), NEW n \in Nat, TextsOK(m, n),
           NEW d \in Ids, NEW key
    PROVE  HeapInv(DictDel(m, d, key), h) /\ TextsOK(DictDel(m, d, key), n)
<1>1. CASE At(m, d, key) = {}
  BY <1>1 DEF DictDel
<1>2. CASE At(m, d, key) # {}
  <2> DEFINE k == CHOOSE k \in At(m, d, key) : TRUE
  <2>1. k \in DOMAIN m.obj[d].items
    BY <1>2 DEF At
  <2>2. DictDel(m, d, key) = WithoutItem(m, d, k)
    BY <1>2 DEF DictDel
  <2> HIDE DEF k
  <2> QED BY <2>1, <2>2, WithoutItemKeeps
<1> QED BY <1>1, <1>2

LEMMA ListDelKeeps ==
    ASSUME NEW m, NEW h, HeapInv(m, h), NEW n \in Nat, TextsOK(m, n),
           NEW l \in Ids, NEW idx
    PROVE  HeapInv(ListDel(m, l, idx), h) /\ TextsOK(ListDel(m, l, idx), n)
<1> DEFINE k == idx + 1
<1>1. CASE k \in DOMAIN m.obj[l].items
  <2>1. ListDel(m, l, idx) = WithoutItem(m, l, k)
    BY <1>1 DEF ListDel
  <2> HIDE DEF k
  <2> QED BY <1>1, <2>1, WithoutItemKeeps
<1>2. CASE k \notin DOMAIN m.obj[l].items
  BY <1>2 DEF ListDel
<1> QED BY <1>1, <1>2

(***************************************************************************)
(* Texts.                                                                  *)
(***************************************************************************)
LEMMA NewObjectTexts ==
    ASSUME NEW m, NEW h, HeapInv(m, h), NEW n \in Nat, TextsOK(m, n),
           HasRoom(m, 1), NEW type \in Types
    PROVE  TextsOK(NewObject(m, type), n)
<1> DEFINE m2 == NewObject(m, type)
<1>1. /\ m2.bufs = m.bufs /\ m2.lost = m.lost
      /\ \A j \in Ids \ {Fresh(m)} : m2.obj[j] = m.obj[j]
      /\ m2.obj[Fresh(m)].managed = FALSE
  <2>1. Born(m2, m, Fresh(m), type)
    BY NewObjectFields
  <2> HIDE DEF m2
  <2> QED BY <2>1 DEF Born
<1>2. Fresh(m) \in Ids /\ m.obj[Fresh(m)].managed = FALSE
  BY FreshFacts, DeadFacts
<1> HIDE DEF m2
<1>3. \A j \in Ids : m2.obj[j].managed = m.obj[j].managed
  BY <1>1, <1>2
<1>4. TextsOK(m2, n)
  BY <1>1, <1>3, SameTexts
<1> QED BY <1>4 DEF m2

\* One block gets another text and another owner for it.
Retext(m, s, text, managed, bufs) ==
    [m EXCEPT !.obj[s].text = text, !.obj[s].managed = managed, !.bufs = bufs]

LEMMA RetextFields ==
    ASSUME NEW m \in Heaps, NEW s \in Ids,
           NEW text \in STRING, NEW managed \in BOOLEAN, NEW bufs \in Int
    PROVE  LET m2 == Retext(m, s, text, managed, bufs)
           IN /\ m2.bufs = bufs /\ m2.lost = m.lost
              /\ m2.obj[s].managed = managed
              /\ \A j \in Ids : /\ m2.obj[j].type = m.obj[j].type
                                 /\ m2.obj[j].ref = m.obj[j].ref
                                 /\ m2.obj[j].parent = m.obj[j].parent
                                 /\ m2.obj[j].items = m.obj[j].items
                                 /\ m2.obj[j].forgot = m.obj[j].forgot
              /\ \A j \in Ids \ {s} : m2.obj[j] = m.obj[j]
              /\ bufs \in Nat => m2 \in Heaps
<1> DEFINE o == m.obj[s]
           b == [o EXCEPT !.text = text, !.managed = managed]
           m2 == [m EXCEPT !.obj[s] = b, !.bufs = bufs]
<1>1. m2 = Retext(m, s, text, managed, bufs)
  BY DEF Retext, Heaps
<1>2. o \in Block
  BY HeapFields
<1> HIDE DEF o
<1>3. /\ b \in Block /\ b.type = o.type /\ b.ref = o.ref
      /\ b.parent = o.parent /\ b.items = o.items
      /\ b.forgot = o.forgot /\ b.managed = managed
  BY <1>2 DEF Block
<1> HIDE DEF b
<1>4. bufs \in Nat => m2 \in Heaps
  BY <1>3 DEF Heaps
<1>5. /\ m2.bufs = bufs /\ m2.lost = m.lost /\ m2.obj[s] = b
      /\ \A j \in Ids \ {s} : m2.obj[j] = m.obj[j]
  BY DEF Heaps
<1> HIDE DEF m2
<1>6. ASSUME NEW j \in Ids
      PROVE  /\ m2.obj[j].type = m.obj[j].type
             /\ m2.obj[j].ref = m.obj[j].ref
             /\ m2.obj[j].parent = m.obj[j].parent
             /\ m2.obj[j].items = m.obj[j].items
             /\ m2.obj[j].forgot = m.obj[j].forgot
  <2>1. CASE j = s
    BY <1>3, <1>5, <2>1 DEF o
  <2>2. CASE j # s
    BY <1>5, <2>2
  <2> QED BY <2>1, <2>2
<1>7. m2.obj[s].managed = managed
  BY <1>3, <1>5
<1> QED BY <1>1, <1>4, <1>5, <1>6, <1>7

LEMMA RetextKeeps ==
    ASSUME NEW m, NEW h, HeapInv(m, h), NEW s \in Ids, m.obj[s].type # "free",
           NEW text \in STRING, NEW managed \in BOOLEAN, NEW bufs \in Nat
    PROVE  HeapInv(Retext(m, s, text, managed, bufs), h)
<1> DEFINE m2 == Retext(m, s, text, managed, bufs)
<1>1. m \in Heaps /\ h \in [Ids -> Nat]
  BY DEF HeapInv
<1>2. m2 \in Heaps /\ \A j \in Ids \ {s} : m2.obj[j] = m.obj[j]
  <2>1. bufs \in Int
    OBVIOUS
  <2>2. /\ \A j \in Ids \ {s} : m2.obj[j] = m.obj[j]
        /\ bufs \in Nat => m2 \in Heaps
    BY <1>1, <2>1, RetextFields
  <2> QED BY <2>2
<1>3. \A j \in Ids : /\ m2.obj[j].type = m.obj[j].type
                     /\ m2.obj[j].ref = m.obj[j].ref
                     /\ m2.obj[j].parent = m.obj[j].parent
                     /\ m2.obj[j].items = m.obj[j].items
                     /\ m2.obj[j].forgot = m.obj[j].forgot
  BY <1>1, RetextFields
<1> HIDE DEF m2
<1>4. Counted(m2, h)
  BY <1>3 DEF HeapInv, Counted
<1>5. \A j \in Ids : m.obj[j].type # "free" => m2.obj[j].ref > 0
  BY <1>3 DEF HeapInv, Alive
<1>6. \A j \in Ids : m.obj[j].type = "free" => m2.obj[j] = m.obj[j]
  BY <1>2
<1>7. HeapInv(m2, h)
  BY <1>1, <1>2, <1>3, <1>4, <1>5, <1>6, SameShape
<1> QED BY <1>7 DEF m2

LEMMA RetextManaged ==
    ASSUME NEW m \in Heaps, NEW s \in Ids,
           NEW text \in STRING, NEW managed \in BOOLEAN, NEW bufs \in Int
    PROVE  Cardinality(Managed(Retext(m, s, text, managed, bufs)))
             = Cardinality(Managed(m)) - Count(m.obj[s].managed) + Count(managed)
<1> DEFINE m2 == Retext(m, s, text, managed, bufs)
           A == Managed(m) \ {s}
<1>1. m2.obj[s].managed = managed /\ \A j \in Ids \ {s} : m2.obj[j] = m.obj[j]
  BY RetextFields
<1> HIDE DEF m2
<1>2. /\ m.obj[s].managed => Managed(m) = A \cup {s}
      /\ ~m.obj[s].managed => Managed(m) = A
      /\ managed => Managed(m2) = A \cup {s}
      /\ ~managed => Managed(m2) = A
  <2>2. \A j \in Ids \ {s} : j \in Managed(m2) <=> j \in Managed(m)
    BY <1>1 DEF Managed
  <2>3. s \in Managed(m2) <=> managed
    BY <1>1 DEF Managed
  <2>4. s \in Managed(m) <=> m.obj[s].managed
    BY DEF Managed
  <2>5. Managed(m) \subseteq Ids /\ Managed(m2) \subseteq Ids
    BY DEF Managed
  <2> QED BY <2>2, <2>3, <2>4, <2>5
<1>3. IsFiniteSet(A) /\ s \notin A
  <2>1. A \in SUBSET Ids
    BY DEF Managed
  <2> QED BY <2>1, IdsFacts, FS_Subset
<1> HIDE DEF A
<1>4. Cardinality(A) \in Nat /\ Cardinality(A \cup {s}) = Cardinality(A) + 1
  BY <1>3, FS_CardinalityType, FS_AddElement
<1>5. Cardinality(Managed(m)) = Cardinality(A) + Count(m.obj[s].managed)
  <2>1. CASE m.obj[s].managed
    BY <1>2, <1>4, <2>1 DEF Count
  <2>2. CASE ~m.obj[s].managed
    BY <1>2, <1>4, <2>2 DEF Count
  <2> QED BY <2>1, <2>2
<1>6. Cardinality(Managed(m2)) = Cardinality(A) + Count(managed)
  <2>1. CASE managed
    BY <1>2, <1>4, <2>1 DEF Count
  <2>2. CASE ~managed
    BY <1>2, <1>4, <2>2 DEF Count
  <2> QED BY <2>1, <2>2
<1>7. Count(m.obj[s].managed) \in Nat /\ Count(managed) \in Nat
  BY DEF Count
<1>8. Cardinality(Managed(m2))
        = Cardinality(Managed(m)) - Count(m.obj[s].managed) + Count(managed)
  BY <1>4, <1>5, <1>6, <1>7
<1> QED BY <1>8 DEF m2

LEMMA CountFacts ==
    \A b \in BOOLEAN : Count(b) \in Nat
  BY DEF Count

\* A text handed over that is not kept: one text more is lost.
Loses(m, from, managed) == [m EXCEPT !.lost[from] = @ + Count(managed)]

LEMMA LosesKeeps ==
    ASSUME NEW m, NEW h, HeapInv(m, h), NEW n \in Nat, NEW managed \in BOOLEAN,
           TextsOK(m, n + Count(managed)), NEW from \in {"given", "made"}
    PROVE  /\ HeapInv(Loses(m, from, managed), h)
           /\ TextsOK(Loses(m, from, managed), n)
           /\ Loses(m, from, managed).obj = m.obj
<1> DEFINE m2 == Loses(m, from, managed)
           c == Count(managed)
<1>1. m \in Heaps /\ h \in [Ids -> Nat] /\ c \in Nat
  BY CountFacts DEF HeapInv
<1> HIDE DEF c
<1>2. /\ m2 = [m EXCEPT !.lost[from] = @ + c]
      /\ m.lost \in [{"given", "made"} -> Nat] /\ m.bufs \in Nat
  BY <1>1 DEF Loses, Heaps, c
<1>3. /\ m2 \in Heaps /\ m2.obj = m.obj /\ m2.bufs = m.bufs
      /\ m2.lost = [m.lost EXCEPT ![from] = @ + c]
  BY <1>1, <1>2 DEF Heaps
<1> HIDE DEF m2
<1>4. HeapInv(m2, h)
  <2>1. Counted(m2, h)
    BY <1>3 DEF HeapInv, Counted
  <2>2. \A j \in Ids : m.obj[j].type # "free" => m2.obj[j].ref > 0
    BY <1>3 DEF HeapInv, Alive
  <2>3. \A j \in Ids : m2.obj[j] = m.obj[j]
    BY <1>3
  <2> QED BY <1>1, <1>3, <2>1, <2>2, <2>3, SameShape
<1>5. TextsOK(m2, n)
  <2>1. Managed(m2) = Managed(m)
    BY <1>3 DEF Managed
  <2>2. m2.lost.given + m2.lost.made = m.lost.given + m.lost.made + c
    BY <1>1, <1>2, <1>3
  <2>3. Cardinality(Managed(m)) \in Nat
    <3>1. Managed(m) \in SUBSET Ids
      BY DEF Managed
    <3> QED BY <3>1, IdsFacts, FS_Subset, FS_CardinalityType
  <2>4. m.bufs = Cardinality(Managed(m)) + m.lost.given + m.lost.made + (n + c)
    BY DEF TextsOK, c
  <2>5. m2.bufs = Cardinality(Managed(m2)) + m2.lost.given + m2.lost.made + n
    <3>1. /\ m.lost.given \in Nat /\ m.lost.made \in Nat
          /\ m2.lost.given \in Nat /\ m2.lost.made \in Nat
      BY <1>1, <1>2, <1>3
    <3> QED BY <1>1, <1>2, <1>3, <2>1, <2>2, <2>3, <2>4, <3>1
  <2> QED BY <2>5 DEF TextsOK
<1> QED BY <1>3, <1>4, <1>5 DEF m2

LEMMA StringSetKeeps ==
    ASSUME NEW m, NEW h, HeapInv(m, h), NEW n \in Nat, NEW managed \in BOOLEAN,
           TextsOK(m, n + Count(managed)), NEW from \in {"given", "made"},
           NEW s \in Ids, m.obj[s].type # "free", NEW text \in STRING
    PROVE  /\ HeapInv(StringSet(m, s, text, managed, from), h)
           /\ TextsOK(StringSet(m, s, text, managed, from), n)
           /\ \A j \in Ids :
                 StringSet(m, s, text, managed, from).obj[j].type = m.obj[j].type
<1>1. m \in Heaps /\ text \in STRING /\ text # NullText
  BY ObjectAssumption DEF HeapInv
<1>2. CASE m.obj[s].text # text \/ m.obj[s].managed
  <2> DEFINE bufs == m.bufs - Count(m.obj[s].managed)
             m2 == Retext(m, s, text, managed, bufs)
  <2>1. m2 = StringSet(m, s, text, managed, from)
    BY <1>1, <1>2 DEF StringSet, Retext, Heaps
  <2>2. /\ m.bufs \in Nat /\ m.lost.given \in Nat /\ m.lost.made \in Nat
        /\ m.obj[s].managed \in BOOLEAN
    BY <1>1, HeapFields DEF Heaps
  <2>3. /\ Count(m.obj[s].managed) \in Nat /\ Count(managed) \in Nat
        /\ m.obj[s].managed => s \in Managed(m) /\ Count(m.obj[s].managed) = 1
        /\ ~m.obj[s].managed => Count(m.obj[s].managed) = 0
    BY <2>2 DEF Count, Managed
  <2>4. IsFiniteSet(Managed(m)) /\ Cardinality(Managed(m)) \in Nat
    <3>1. Managed(m) \in SUBSET Ids
      BY DEF Managed
    <3> QED BY <3>1, IdsFacts, FS_Subset, FS_CardinalityType
  <2>5. s \in Managed(m) => Cardinality(Managed(m)) > 0
    <3>1. Cardinality(Managed(m)) = 0 => Managed(m) = {}
      BY <2>4, FS_EmptySet
    <3> QED BY <2>4, <3>1
  <2>6. m.bufs = Cardinality(Managed(m)) + m.lost.given + m.lost.made
                 + (n + Count(managed))
    BY DEF TextsOK
  <2>7. bufs \in Nat
    BY <2>2, <2>3, <2>4, <2>5, <2>6
  <2>8. /\ m2.bufs = bufs /\ m2.lost = m.lost
        /\ \A j \in Ids : m2.obj[j].type = m.obj[j].type
    BY <1>1, <2>7, RetextFields
  <2>9. HeapInv(m2, h)
    <3> HIDE DEF bufs
    <3> QED BY <1>1, <2>7, RetextKeeps
  <2>10. Cardinality(Managed(m2))
           = Cardinality(Managed(m)) - Count(m.obj[s].managed) + Count(managed)
    <3> HIDE DEF bufs
    <3> QED BY <1>1, <2>7, RetextManaged
  <2> HIDE DEF m2
  <2>11. TextsOK(m2, n)
    <3>1. m2.bufs = Cardinality(Managed(m2)) + m2.lost.given + m2.lost.made + n
      BY <2>2, <2>3, <2>4, <2>6, <2>8, <2>10
    <3> QED BY <3>1 DEF TextsOK
  <2> QED BY <2>1, <2>8, <2>9, <2>11
<1>3. CASE ~(m.obj[s].text # text \/ m.obj[s].managed)
  <2>1. StringSet(m, s, text, managed, from) = Loses(m, from, managed)
    BY <1>1, <1>3 DEF StringSet, Loses
  <2> QED BY <2>1, LosesKeeps
<1> QED BY <1>2, <1>3

LEMMA ScalarSetKeeps ==
    ASSUME NEW m, NEW h, HeapInv(m, h), NEW n \in Nat, TextsOK(m, n),
           NEW s \in Ids, m.obj[s].type # "free", NEW text \in STRING
    PROVE  /\ HeapInv(ScalarSet(m, s, text), h)
           /\ TextsOK(ScalarSet(m, s, text), n)
           /\ \A j \in Ids : ScalarSet(m, s, text).obj[j].type = m.obj[j].type
<1>1. m \in Heaps /\ text \in STRING
  BY ObjectAssumption DEF HeapInv
<1>2. /\ m.bufs \in Nat /\ m.obj[s].managed \in BOOLEAN /\ m.obj[s] \in Block
  BY <1>1, HeapFields DEF Heaps
<1> DEFINE managed == m.obj[s].managed
           bufs == m.bufs
           m2 == Retext(m, s, text, managed, bufs)
<1>3. m2 = ScalarSet(m, s, text)
  <2> DEFINE o == m.obj[s]
  <2>1. o \in Block
    BY <1>2
  <2> HIDE DEF o
  <2>2. [o EXCEPT !.text = text, !.managed = o.managed] = [o EXCEPT !.text = text]
    BY <2>1 DEF Block
  <2>3. m2 = [m EXCEPT !.obj[s] = [o EXCEPT !.text = text, !.managed = o.managed]]
    BY <1>1 DEF Heaps, Retext, o
  <2>4. ScalarSet(m, s, text) = [m EXCEPT !.obj[s] = [o EXCEPT !.text = text]]
    BY <1>1 DEF Heaps, ScalarSet, o
  <2> QED BY <2>2, <2>3, <2>4
<1>4. HeapInv(m2, h)
  <2> HIDE DEF managed, bufs
  <2>1. managed \in BOOLEAN /\ bufs \in Nat
    BY <1>2 DEF managed, bufs
  <2> QED BY <1>1, <2>1, RetextKeeps
<1>5. /\ m2.bufs = m.bufs /\ m2.lost = m.lost
      /\ \A j \in Ids : m2.obj[j].managed = m.obj[j].managed
      /\ \A j \in Ids : m2.obj[j].type = m.obj[j].type
  <2>1. managed \in BOOLEAN /\ bufs \in Int
    BY <1>2
  <2>2. /\ m2.bufs = bufs /\ m2.lost = m.lost
        /\ m2.obj[s].managed = managed
        /\ \A j \in Ids \ {s} : m2.obj[j] = m.obj[j]
        /\ \A j \in Ids : m2.obj[j].type = m.obj[j].type
    <3> HIDE DEF managed, bufs
    <3> QED BY <1>1, <2>1, RetextFields
  <2> HIDE DEF m2
  <2> QED BY <2>2
<1> HIDE DEF m2
<1>6. TextsOK(m2, n)
  BY <1>5, SameTexts
<1> QED BY <1>3, <1>4, <1>5, <1>6

LEMMA AllocatedKeeps ==
    ASSUME NEW m, NEW h, HeapInv(m, h), NEW n \in Nat, TextsOK(m, n),
           NEW managed \in BOOLEAN
    PROVE  /\ HeapInv(Allocated(m, managed), h)
           /\ TextsOK(Allocated(m, managed), n + Count(managed))
           /\ Allocated(m, managed).obj = m.obj
<1> DEFINE m2 == Allocated(m, managed)
           c == Count(managed)
<1>1. m \in Heaps /\ h \in [Ids -> Nat] /\ c \in Nat
  BY CountFacts DEF HeapInv
<1> HIDE DEF c
<1>2. /\ m2 = [m EXCEPT !.bufs = @ + c] /\ m.bufs \in Nat
      /\ m.lost.given \in Nat /\ m.lost.made \in Nat
  BY <1>1 DEF Allocated, Heaps, c
<1>3. m2 \in Heaps /\ m2.obj = m.obj /\ m2.bufs = m.bufs + c /\ m2.lost = m.lost
  BY <1>1, <1>2 DEF Heaps
<1> HIDE DEF m2
<1>4. HeapInv(m2, h)
  <2>1. Counted(m2, h)
    BY <1>3 DEF HeapInv, Counted
  <2>2. \A j \in Ids : m.obj[j].type # "free" => m2.obj[j].ref > 0
    BY <1>3 DEF HeapInv, Alive
  <2>3. \A j \in Ids : m2.obj[j] = m.obj[j]
    BY <1>3
  <2> QED BY <1>1, <1>3, <2>1, <2>2, <2>3, SameShape
<1>5. TextsOK(m2, n + c)
  <2>1. Managed(m2) = Managed(m)
    BY <1>3 DEF Managed
  <2>2. Cardinality(Managed(m)) \in Nat
    <3>1. Managed(m) \in SUBSET Ids
      BY DEF Managed
    <3> QED BY <3>1, IdsFacts, FS_Subset, FS_CardinalityType
  <2>3. m.bufs = Cardinality(Managed(m)) + m.lost.given + m.lost.made + n
    BY DEF TextsOK
  <2>4. m2.bufs = Cardinality(Managed(m2)) + m2.lost.given + m2.lost.made + (n + c)
    BY <1>1, <1>2, <1>3, <2>1, <2>2, <2>3
  <2> QED BY <2>4 DEF TextsOK
<1> QED BY <1>3, <1>4, <1>5 DEF m2, c

\* A block somebody holds is there.
LEMMA HeldIsLive ==
    ASSUME NEW m, NEW h, HeapInv(m, h), NEW i \in Ids, h[i] > 0
    PROVE  m.obj[i].type # "free"
<1>1. m.obj[i].type = "free" => h[i] = 0
  BY HeapFacts
<1> QED BY <1>1

LEMMA StringFromKeeps ==
    ASSUME NEW m, NEW h, HeapInv(m, h), NEW n \in Nat, NEW managed \in BOOLEAN,
           TextsOK(m, n + Count(managed)), NEW from \in {"given", "made"},
           HasRoom(m, 1), NEW text \in STRING
    PROVE  LET x == StringFrom(m, text, managed, from)
           IN /\ HeapInv(x, [h EXCEPT ![Fresh(m)] = @ + 1]) /\ TextsOK(x, n)
              /\ x.obj[Fresh(m)].type = "string"
              /\ \A j \in Ids \ {Fresh(m)} : x.obj[j].type = m.obj[j].type
<1> DEFINE f == Fresh(m)
           h2 == [h EXCEPT ![Fresh(m)] = @ + 1]
           y == NewObject(m, "string")
           x == StringSet(y, f, text, managed, from)
           c == n + Count(managed)
<1>1. f \in Ids /\ "string" \in Types /\ c \in Nat
  BY FreshFacts, CountFacts DEF Types
<1>2. /\ y.obj[f].type = "string"
      /\ \A j \in Ids \ {f} : y.obj[j] = m.obj[j]
  <2>1. Born(y, m, f, "string")
    BY <1>1, NewObjectFields
  <2> HIDE DEF y, f
  <2> QED BY <2>1 DEF Born
<1>3. HeapInv(y, h2)
  BY <1>1, NewObjectKeeps
<1>4. TextsOK(y, c)
  <2> HIDE DEF y
  <2> HIDE DEF c
  <2>1. TextsOK(m, c)
    BY DEF c
  <2> QED BY <1>1, <2>1, NewObjectTexts DEF y
<1>5. x = StringFrom(m, text, managed, from)
  BY DEF StringFrom
<1> HIDE DEF y, f, h2
<1>6. /\ HeapInv(x, h2) /\ TextsOK(x, n)
      /\ \A j \in Ids : x.obj[j].type = y.obj[j].type
  BY <1>1, <1>2, <1>3, <1>4, StringSetKeeps
<1> HIDE DEF x
<1>7. /\ HeapInv(x, h2) /\ TextsOK(x, n) /\ x.obj[f].type = "string"
      /\ \A j \in Ids \ {f} : x.obj[j].type = m.obj[j].type
  BY <1>1, <1>2, <1>6
<1> QED BY <1>5, <1>7 DEF f, h2

LEMMA ScalarFromKeeps ==
    ASSUME NEW m, NEW h, HeapInv(m, h), NEW n \in Nat, TextsOK(m, n),
           HasRoom(m, 1), NEW text \in STRING
    PROVE  LET x == ScalarFrom(m, text)
           IN /\ HeapInv(x, [h EXCEPT ![Fresh(m)] = @ + 1]) /\ TextsOK(x, n)
              /\ x.obj[Fresh(m)].type = "scalar"
              /\ \A j \in Ids \ {Fresh(m)} : x.obj[j].type = m.obj[j].type
<1> DEFINE f == Fresh(m)
           h2 == [h EXCEPT ![Fresh(m)] = @ + 1]
           y == NewObject(m, "scalar")
           x == ScalarSet(y, f, text)
<1>1. f \in Ids /\ "scalar" \in Types
  BY FreshFacts DEF Types
<1>2. /\ y.obj[f].type = "scalar"
      /\ \A j \in Ids \ {f} : y.obj[j] = m.obj[j]
  <2>1. Born(y, m, f, "scalar")
    BY <1>1, NewObjectFields
  <2> HIDE DEF y, f
  <2> QED BY <2>1 DEF Born
<1>3. HeapInv(y, h2)
  BY <1>1, NewObjectKeeps
<1>4. TextsOK(y, n)
  BY <1>1, NewObjectTexts
<1>5. x = ScalarFrom(m, text)
  BY DEF ScalarFrom
<1> HIDE DEF y, f, h2
<1>6. /\ HeapInv(x, h2) /\ TextsOK(x, n)
      /\ \A j \in Ids : x.obj[j].type = y.obj[j].type
  BY <1>1, <1>2, <1>3, <1>4, ScalarSetKeeps
<1> HIDE DEF x
<1>7. /\ HeapInv(x, h2) /\ TextsOK(x, n) /\ x.obj[f].type = "scalar"
      /\ \A j \in Ids \ {f} : x.obj[j].type = m.obj[j].type
  BY <1>1, <1>2, <1>6
<1> QED BY <1>5, <1>7 DEF f, h2

LEMMA ValueIn ==
    ASSUME NEW m \in Heaps, NEW c \in Ids, NEW k \in DOMAIN m.obj[c].items
    PROVE  m.obj[c].items[k].val \in Ids
  BY ValuesFacts DEF Item

LEMMA DictGetLive ==
    ASSUME NEW m \in Heaps, NEW d \in Ids, NEW key
    PROVE  DictGet(m, d, key) # NULL => DictGet(m, d, key) \in Ids
<1>1. CASE At(m, d, key) = {}
  BY <1>1 DEF DictGet
<1>2. CASE At(m, d, key) # {}
  <2> DEFINE k == CHOOSE k \in At(m, d, key) : TRUE
  <2>1. k \in DOMAIN m.obj[d].items
    BY <1>2 DEF At
  <2>2. DictGet(m, d, key) = m.obj[d].items[k].val
    BY <1>2 DEF DictGet
  <2> HIDE DEF k
  <2> QED BY <2>1, <2>2, ValueIn
<1> QED BY <1>1, <1>2

LEMMA DictSetStringKeeps ==
    ASSUME NEW m, NEW h, HeapInv(m, h), NEW n \in Nat, NEW managed \in BOOLEAN,
           TextsOK(m, n + Count(managed)), NEW from \in {"given", "made"},
           NEW d \in Ids, NEW key, NEW text \in STRING
    PROVE  /\ HeapInv(DictSetString(m, d, key, text, managed, from), h)
           /\ TextsOK(DictSetString(m, d, key, text, managed, from), n)
<1> DEFINE s == DictGet(m, d, key)
<1>1. CASE s # NULL /\ m.obj[s].type = "string"
  <2>1. s \in Ids
    <3>1. m \in Heaps
      BY DEF HeapInv
    <3> QED BY <1>1, <3>1, DictGetLive
  <2>2. DictSetString(m, d, key, text, managed, from)
          = StringSet(m, s, text, managed, from)
    BY <1>1 DEF DictSetString
  <2> HIDE DEF s
  <2>3. m.obj[s].type # "free"
    BY <1>1
  <2> QED BY <2>1, <2>2, <2>3, StringSetKeeps
<1>2. CASE ~(s # NULL /\ m.obj[s].type = "string")
  <2>1. DictSetString(m, d, key, text, managed, from) = Loses(m, from, managed)
    BY <1>2 DEF DictSetString, Loses
  <2> QED BY <2>1, LosesKeeps
<1> QED BY <1>1, <1>2

LEMMA ListSetStringKeeps ==
    ASSUME NEW m, NEW h, HeapInv(m, h), NEW n \in Nat, NEW managed \in BOOLEAN,
           TextsOK(m, n + Count(managed)), NEW from \in {"given", "made"},
           NEW l \in Ids, NEW idx, NEW text \in STRING
    PROVE  /\ HeapInv(ListSetString(m, l, idx, text, managed, from), h)
           /\ TextsOK(ListSetString(m, l, idx, text, managed, from), n)
<1> DEFINE s == ListGet(m, l, idx)
<1>1. CASE s # NULL /\ m.obj[s].type = "string"
  <2>1. s \in Ids
    <3> DEFINE k == idx + 1
    <3>1. s = m.obj[l].items[k].val /\ k \in DOMAIN m.obj[l].items
      BY <1>1 DEF ListGet
    <3>2. m \in Heaps
      BY DEF HeapInv
    <3> HIDE DEF k, s
    <3> QED BY <3>1, <3>2, ValueIn
  <2>2. ListSetString(m, l, idx, text, managed, from)
          = StringSet(m, s, text, managed, from)
    BY <1>1 DEF ListSetString
  <2> HIDE DEF s
  <2>3. m.obj[s].type # "free"
    BY <1>1
  <2> QED BY <2>1, <2>2, <2>3, StringSetKeeps
<1>2. CASE ~(s # NULL /\ m.obj[s].type = "string")
  <2>1. ListSetString(m, l, idx, text, managed, from) = Loses(m, from, managed)
    BY <1>2 DEF ListSetString, Loses
  <2> QED BY <2>1, LosesKeeps
<1> QED BY <1>1, <1>2

\* A new value is put under a key, and its creator's reference given up.
LEMMA PutNewKeeps ==
    ASSUME NEW x, NEW h \in [Ids -> Nat], NEW f \in Ids,
           HeapInv(x, [h EXCEPT ![f] = @ + 1]), NEW n \in Nat, TextsOK(x, n),
           NEW d \in Ids, x.obj[d].type \in Containers, NEW key \in STRING
    PROVE  /\ HeapInv(Unref(DictSet(x, d, key, f), f), h)
           /\ TextsOK(Unref(DictSet(x, d, key, f), f), n)
<1> DEFINE h2 == [h EXCEPT ![f] = @ + 1]
           y == DictSet(x, d, key, f)
<1>1. h2[f] > 0 /\ [h2 EXCEPT ![f] = @ - 1] = h
  BY GiveTake
<1> HIDE DEF h2
<1>2. x.obj[f].type # "free"
  BY <1>1, HeldIsLive DEF h2
<1>3. HeapInv(y, h2) /\ TextsOK(y, n)
  BY <1>2, DictSetKeeps DEF h2
<1> HIDE DEF y
<1>4. HeapInv(Unref(y, f), [h2 EXCEPT ![f] = @ - 1]) /\ TextsOK(Unref(y, f), n)
  BY <1>1, <1>3, UnrefKeeps
<1>5. HeapInv(Unref(y, f), h) /\ TextsOK(Unref(y, f), n)
  BY <1>1, <1>4
<1> QED BY <1>5 DEF y

LEMMA DictSetStringUnrefKeeps ==
    ASSUME NEW m, NEW h, HeapInv(m, h), NEW n \in Nat, NEW managed \in BOOLEAN,
           TextsOK(m, n + Count(managed)), NEW from \in {"given", "made"},
           HasRoom(m, 1), NEW d \in Ids, m.obj[d].type \in Containers,
           NEW key \in STRING, NEW text \in STRING
    PROVE  /\ HeapInv(DictSetStringUnref(m, d, key, text, managed, from), h)
           /\ TextsOK(DictSetStringUnref(m, d, key, text, managed, from), n)
<1> DEFINE f == Fresh(m)
           x == StringFrom(m, text, managed, from)
<1>1. f \in Ids /\ m.obj[f].type \notin Containers /\ h \in [Ids -> Nat]
  BY FreshFacts, DeadFacts DEF HeapInv, Containers
<1>2. /\ HeapInv(x, [h EXCEPT ![f] = @ + 1]) /\ TextsOK(x, n)
      /\ \A j \in Ids \ {f} : x.obj[j].type = m.obj[j].type
  BY StringFromKeeps
<1>3. DictSetStringUnref(m, d, key, text, managed, from) = Unref(DictSet(x, d, key, f), f)
  BY DEF DictSetStringUnref
<1> HIDE DEF f, x
<1>4. x.obj[d].type \in Containers
  BY <1>1, <1>2
<1> QED BY <1>1, <1>2, <1>3, <1>4, PutNewKeeps

LEMMA DictSetScalarUnrefKeeps ==
    ASSUME NEW m, NEW h, HeapInv(m, h), NEW n \in Nat, TextsOK(m, n),
           HasRoom(m, 1), NEW d \in Ids, m.obj[d].type \in Containers,
           NEW key \in STRING, NEW text \in STRING
    PROVE  /\ HeapInv(DictSetScalarUnref(m, d, key, text), h)
           /\ TextsOK(DictSetScalarUnref(m, d, key, text), n)
<1> DEFINE f == Fresh(m)
           x == ScalarFrom(m, text)
<1>1. f \in Ids /\ m.obj[f].type \notin Containers /\ h \in [Ids -> Nat]
  BY FreshFacts, DeadFacts DEF HeapInv, Containers
<1>2. /\ HeapInv(x, [h EXCEPT ![f] = @ + 1]) /\ TextsOK(x, n)
      /\ \A j \in Ids \ {f} : x.obj[j].type = m.obj[j].type
  BY ScalarFromKeeps
<1>3. DictSetScalarUnref(m, d, key, text) = Unref(DictSet(x, d, key, f), f)
  BY DEF DictSetScalarUnref
<1> HIDE DEF f, x
<1>4. x.obj[d].type \in Containers
  BY <1>1, <1>2
<1> QED BY <1>1, <1>2, <1>3, <1>4, PutNewKeeps

(***************************************************************************)
(* The program.                                                            *)
(***************************************************************************)

\* The heap is well formed for the references the program holds, and no
\* text is in the hands of a call.
ObjectInv == HeapInv(heap, held) /\ TextsOK(heap, 0)

----------------------------------------------------------------------------
\* The program only names blocks that are there.

LEMMA KnownIsLive ==
    /\ \A i \in Known : i \in Ids /\ heap.obj[i].type # "free"
    /\ \A type \in Types : \A i \in Of(type) : i \in Ids /\ heap.obj[i].type = type
    /\ \A type \in Types : type # "free"
<1>1. \A i \in Known : i \in Ids /\ heap.obj[i].type # "free"
  BY DEF Known, Live
<1>2. \A type \in Types : \A i \in Of(type) : i \in Ids /\ heap.obj[i].type = type
  BY DEF Of
<1>3. \A type \in Types : type # "free"
  BY DEF Types, Containers
<1> QED BY <1>1, <1>2, <1>3

LEMMA TypesAre ==
    /\ "dict" \in Types /\ "list" \in Types /\ "string" \in Types /\ "scalar" \in Types
    /\ Containers \subseteq Types
  BY DEF Types, Containers

\* Counting a text leaves the blocks as they are.
LEMMA AllocatedRoom ==
    ASSUME NEW m, NEW h, HeapInv(m, h), TextsOK(m, 0), NEW managed \in BOOLEAN
    PROVE  LET y == Allocated(m, managed)
           IN /\ HeapInv(y, h) /\ TextsOK(y, 0 + Count(managed)) /\ y.obj = m.obj
              /\ Fresh(y) = Fresh(m) /\ (HasRoom(m, 1) => HasRoom(y, 1))
<1> DEFINE y == Allocated(m, managed)
<1>1. HeapInv(y, h) /\ TextsOK(y, 0 + Count(managed)) /\ y.obj = m.obj
  BY AllocatedKeeps
<1> HIDE DEF y
<1>2. Live(y) = Live(m)
  BY <1>1 DEF Live
<1>3. Fresh(y) = Fresh(m) /\ (HasRoom(m, 1) => HasRoom(y, 1))
  BY <1>2 DEF Fresh, HasRoom
<1> QED BY <1>1, <1>3 DEF y

LEMMA RefTexts ==
    ASSUME NEW m \in Heaps, NEW i \in Ids, TextsOK(m, 0)
    PROVE  TextsOK(Ref(m, i), 0)
<1>1. /\ Ref(m, i).bufs = m.bufs /\ Ref(m, i).lost = m.lost
      /\ \A j \in Ids : Ref(m, i).obj[j].managed = m.obj[j].managed
  BY HeapFields DEF Ref, Heaps, Block
<1> QED BY <1>1, SameTexts

----------------------------------------------------------------------------
\* The inductive invariant.

LEMMA InitHolds == ObjectInit => ObjectInv
<1> SUFFICES ASSUME ObjectInit PROVE ObjectInv
  OBVIOUS
<1>1. /\ heap.obj = [i \in Ids |-> Dead] /\ heap.bufs = 0
      /\ heap.lost = [given |-> 0, made |-> 0] /\ held = [i \in Ids |-> 0]
      /\ heap = [obj |-> heap.obj, bufs |-> 0, lost |-> heap.lost]
  BY DEF ObjectInit
<1>2. \A i \in Ids : heap.obj[i] = Dead /\ held[i] = 0
  BY <1>1
<1>3. heap \in Heaps /\ held \in [Ids -> Nat]
  <2>1. heap.obj \in [Ids -> Block]
    BY <1>1, DeadFacts
  <2>2. heap.lost \in [{"given", "made"} -> Nat]
    BY <1>1
  <2> QED BY <1>1, <2>1, <2>2 DEF Heaps
<1>4. \A i \in Ids : heap.obj[i].parent = NULL /\ DOMAIN heap.obj[i].items = {}
  BY <1>2, DeadFacts
<1>5. Linked(heap) /\ UniqueKeys(heap) /\ Bare(heap)
  BY <1>2, <1>4, DeadFacts DEF Linked, UniqueKeys, Bare
<1>6. Acyclic(heap)
  BY <1>3, <1>4, NothingAboveNull DEF Acyclic
<1>7. Counted(heap, held) /\ Alive(heap)
  BY <1>2, <1>4, DeadFacts DEF Counted, Alive, Count
<1>8. TextsOK(heap, 0)
  <2>1. Managed(heap) = {}
    BY <1>2, DeadFacts DEF Managed
  <2>2. Cardinality(Managed(heap)) = 0
    BY <2>1, FS_EmptySet
  <2> QED BY <1>1, <2>2 DEF TextsOK
<1> QED BY <1>3, <1>5, <1>6, <1>7, <1>8 DEF ObjectInv, HeapInv

\* A step that leaves a heap that is well formed for the references then held.
LEMMA Leaves ==
    ASSUME NEW m, NEW h, HeapInv(m, h), TextsOK(m, 0), heap' = m, held' = h
    PROVE  ObjectInv'
  BY DEF ObjectInv, HeapInv, Linked, Acyclic, Counted, Alive, UniqueKeys, Bare,
         TextsOK

\* The steps that change the references held.
LEMMA CreatesKeeps ==
    ASSUME ObjectInv, ObjectNext,
           \/ \E type \in Containers : NewContainer(type)
           \/ \E text \in Texts : NewScalar(text)
           \/ \E text \in Texts, managed \in BOOLEAN : NewString(text, managed)
    PROVE  ObjectInv'
<1> DEFINE h2 == [held EXCEPT ![Fresh(heap)] = @ + 1]
<1>1. HeapInv(heap, held) /\ TextsOK(heap, 0) /\ 0 \in Nat /\ Texts \subseteq STRING
  BY ObjectAssumption DEF ObjectInv
<1>2. CASE \E type \in Containers : NewContainer(type)
  <2>1. PICK type \in Containers : NewContainer(type)
    BY <1>2
  <2> DEFINE m == NewObject(heap, type)
  <2>2. heap' = m /\ held' = h2 /\ HasRoom(heap, 1) /\ type \in Types
    BY <2>1, TypesAre DEF NewContainer, Creates
  <2>3. HeapInv(m, h2) /\ TextsOK(m, 0)
    BY <1>1, <2>2, NewObjectKeeps, NewObjectTexts
  <2> HIDE DEF m, h2
  <2> QED BY <2>2, <2>3, Leaves
<1>3. CASE \E text \in Texts : NewScalar(text)
  <2>1. PICK text \in Texts : NewScalar(text)
    BY <1>3
  <2> DEFINE m == ScalarFrom(heap, text)
  <2>2. heap' = m /\ held' = h2 /\ HasRoom(heap, 1)
    BY <2>1 DEF NewScalar, Creates
  <2>3. HeapInv(m, h2) /\ TextsOK(m, 0)
    BY <1>1, <2>2, ScalarFromKeeps
  <2> HIDE DEF m, h2
  <2> QED BY <2>2, <2>3, Leaves
<1>4. CASE \E text \in Texts, managed \in BOOLEAN : NewString(text, managed)
  <2>1. PICK text \in Texts, managed \in BOOLEAN : NewString(text, managed)
    BY <1>4
  <2> DEFINE y == Allocated(heap, managed)
             m == StringFrom(y, text, managed, "given")
  <2>2. heap' = m /\ held' = h2 /\ HasRoom(heap, 1)
    BY <2>1 DEF NewString, Creates
  <2>3. /\ HeapInv(y, held) /\ TextsOK(y, 0 + Count(managed))
        /\ Fresh(y) = Fresh(heap) /\ HasRoom(y, 1)
    BY <1>1, <2>2, AllocatedRoom
  <2> HIDE DEF y
  <2>4. HeapInv(m, [held EXCEPT ![Fresh(y)] = @ + 1]) /\ TextsOK(m, 0)
    BY <1>1, <2>3, StringFromKeeps
  <2>5. HeapInv(m, h2) /\ TextsOK(m, 0)
    BY <2>3, <2>4
  <2> HIDE DEF m, h2
  <2> QED BY <2>2, <2>5, Leaves
<1> QED BY <1>2, <1>3, <1>4

LEMMA HoldersKeep ==
    ASSUME ObjectInv, NEW i \in Ids,
           (i \in Known /\ Retain(i)) \/ GiveBack(i)
    PROVE  ObjectInv'
<1>1. HeapInv(heap, held) /\ TextsOK(heap, 0) /\ heap \in Heaps /\ 0 \in Nat
  BY DEF ObjectInv, HeapInv
<1>2. CASE i \in Known /\ Retain(i)
  <2> DEFINE m == Ref(heap, i)
             h2 == [held EXCEPT ![i] = @ + 1]
  <2>1. heap' = m /\ held' = h2
    BY <1>2 DEF Retain
  <2>2. HeapInv(m, h2) /\ TextsOK(m, 0)
    BY <1>1, <1>2, KnownIsLive, RefKeeps, RefTexts
  <2> HIDE DEF m, h2
  <2> QED BY <2>1, <2>2, Leaves
<1>3. CASE GiveBack(i)
  <2> DEFINE m == Unref(heap, i)
             h2 == [held EXCEPT ![i] = @ - 1]
  <2>1. heap' = m /\ held' = h2 /\ held[i] > 0
    BY <1>3 DEF GiveBack
  <2>2. HeapInv(m, h2) /\ TextsOK(m, 0)
    BY <1>1, <2>1, UnrefKeeps
  <2> HIDE DEF m, h2
  <2> QED BY <2>1, <2>2, Leaves
<1> QED BY <1>2, <1>3

\* The calls that leave the references held alone.
LEMMA CallsKeep ==
    ASSUME ObjectInv, NEW m, Calls(m), HeapInv(m, held), TextsOK(m, 0)
    PROVE  ObjectInv'
  BY Leaves DEF Calls

LEMMA ValuesKeep ==
    ASSUME ObjectInv,
           \/ \E d \in Of("dict"), key \in Keys, v \in Known : PutInDict(d, key, v)
           \/ \E l \in Of("list"), v \in Known :
                 \E idx \in Indexes(l) : PutInList(l, idx, v)
           \/ \E d \in Of("dict"), key \in Keys : DeleteKey(d, key)
           \/ \E l \in Of("list") : \E idx \in Indexes(l) : DeleteIndex(l, idx)
           \/ \E c \in Of("dict") \cup Of("list") : ClearContainer(c)
    PROVE  ObjectInv'
<1>1. HeapInv(heap, held) /\ TextsOK(heap, 0) /\ 0 \in Nat /\ Keys \subseteq STRING
  BY ObjectAssumption DEF ObjectInv
<1>2. /\ \A d \in Of("dict") : d \in Ids /\ heap.obj[d].type \in Containers
                                /\ heap.obj[d].type # "free"
      /\ \A l \in Of("list") : l \in Ids /\ heap.obj[l].type = "list"
                                /\ heap.obj[l].type # "free"
      /\ \A v \in Known : v \in Ids /\ heap.obj[v].type # "free"
  BY KnownIsLive, TypesAre DEF Containers
<1>3. ASSUME NEW d \in Of("dict"), NEW key \in Keys, NEW v \in Known,
             PutInDict(d, key, v)
      PROVE  ObjectInv'
  <2> DEFINE m == DictSet(heap, d, key, v)
  <2>1. HeapInv(m, held) /\ TextsOK(m, 0)
    BY <1>1, <1>2, DictSetKeeps
  <2>2. Calls(m)
    BY <1>3 DEF PutInDict
  <2> HIDE DEF m
  <2> QED BY <2>1, <2>2, CallsKeep
<1>4. ASSUME NEW l \in Of("list"), NEW v \in Known, NEW idx \in Indexes(l),
             PutInList(l, idx, v)
      PROVE  ObjectInv'
  <2> DEFINE m == ListSet(heap, l, idx, v)
  <2>1. HeapInv(m, held) /\ TextsOK(m, 0)
    BY <1>1, <1>2, ListSetKeeps
  <2>2. Calls(m)
    BY <1>4 DEF PutInList
  <2> HIDE DEF m
  <2> QED BY <2>1, <2>2, CallsKeep
<1>5. ASSUME NEW d \in Of("dict"), NEW key \in Keys, DeleteKey(d, key)
      PROVE  ObjectInv'
  <2> DEFINE m == DictDel(heap, d, key)
  <2>1. HeapInv(m, held) /\ TextsOK(m, 0)
    BY <1>1, <1>2, DictDelKeeps
  <2>2. Calls(m)
    BY <1>5 DEF DeleteKey
  <2> HIDE DEF m
  <2> QED BY <2>1, <2>2, CallsKeep
<1>6. ASSUME NEW l \in Of("list"), NEW idx \in Indexes(l), DeleteIndex(l, idx)
      PROVE  ObjectInv'
  <2> DEFINE m == ListDel(heap, l, idx)
  <2>1. HeapInv(m, held) /\ TextsOK(m, 0)
    BY <1>1, <1>2, ListDelKeeps
  <2>2. Calls(m)
    BY <1>6 DEF DeleteIndex
  <2> HIDE DEF m
  <2> QED BY <2>1, <2>2, CallsKeep
<1>7. ASSUME NEW c \in Of("dict") \cup Of("list"), ClearContainer(c)
      PROVE  ObjectInv'
  <2> DEFINE m == Clear(heap, c)
  <2>1. HeapInv(m, held) /\ TextsOK(m, 0)
    <3>1. c \in Ids /\ heap.obj[c].type # "free"
      BY <1>2
    <3> QED BY <1>1, <3>1, ClearKeeps
  <2>2. Calls(m)
    BY <1>7 DEF ClearContainer
  <2> HIDE DEF m
  <2> QED BY <2>1, <2>2, CallsKeep
<1> QED BY <1>3, <1>4, <1>5, <1>6, <1>7

LEMMA TextsKeep ==
    ASSUME ObjectInv,
           \/ \E i \in Of("scalar"), text \in Texts : SetScalar(i, text)
           \/ \E s \in Of("string"), text \in Texts, managed \in BOOLEAN :
                 SetString(s, text, managed)
           \/ \E d \in Of("dict"), key \in Keys, text \in Texts, managed \in BOOLEAN :
                 SetStringAt(d, key, text, managed)
           \/ \E l \in Of("list"), text \in Texts, managed \in BOOLEAN :
                 \E idx \in Indexes(l) : SetStringIn(l, idx, text, managed)
    PROVE  ObjectInv'
<1>1. HeapInv(heap, held) /\ TextsOK(heap, 0) /\ 0 \in Nat /\ Texts \subseteq STRING
  BY ObjectAssumption DEF ObjectInv
<1>2. /\ \A i \in Of("scalar") : i \in Ids /\ heap.obj[i].type # "free"
      /\ \A s \in Of("string") : s \in Ids /\ heap.obj[s].type # "free"
      /\ \A d \in Of("dict") : d \in Ids
      /\ \A l \in Of("list") : l \in Ids
  BY KnownIsLive, TypesAre
<1>3. ASSUME NEW i \in Of("scalar"), NEW text \in Texts, SetScalar(i, text)
      PROVE  ObjectInv'
  <2> DEFINE m == ScalarSet(heap, i, text)
  <2>1. HeapInv(m, held) /\ TextsOK(m, 0)
    BY <1>1, <1>2, ScalarSetKeeps
  <2>2. Calls(m)
    BY <1>3 DEF SetScalar
  <2> HIDE DEF m
  <2> QED BY <2>1, <2>2, CallsKeep
<1>4. ASSUME NEW s \in Of("string"), NEW text \in Texts, NEW managed \in BOOLEAN,
             SetString(s, text, managed)
      PROVE  ObjectInv'
  <2> DEFINE y == Allocated(heap, managed)
             m == StringSet(y, s, text, managed, "given")
  <2>1. HeapInv(y, held) /\ TextsOK(y, 0 + Count(managed)) /\ y.obj = heap.obj
    BY <1>1, AllocatedRoom
  <2>2. Calls(m)
    BY <1>4 DEF SetString
  <2> HIDE DEF y
  <2>3. HeapInv(m, held) /\ TextsOK(m, 0)
    <3>1. s \in Ids /\ y.obj[s].type # "free"
      BY <1>2, <2>1
    <3> QED BY <1>1, <2>1, <3>1, StringSetKeeps
  <2> HIDE DEF m
  <2> QED BY <2>2, <2>3, CallsKeep
<1>5. ASSUME NEW d \in Of("dict"), NEW key \in Keys, NEW text \in Texts,
             NEW managed \in BOOLEAN, SetStringAt(d, key, text, managed)
      PROVE  ObjectInv'
  <2> DEFINE y == Allocated(heap, managed)
             m == DictSetString(y, d, key, text, managed, "given")
  <2>1. HeapInv(y, held) /\ TextsOK(y, 0 + Count(managed))
    BY <1>1, AllocatedRoom
  <2>2. Calls(m)
    BY <1>5 DEF SetStringAt
  <2> HIDE DEF y
  <2>3. HeapInv(m, held) /\ TextsOK(m, 0)
    BY <1>1, <1>2, <2>1, DictSetStringKeeps
  <2> HIDE DEF m
  <2> QED BY <2>2, <2>3, CallsKeep
<1>6. ASSUME NEW l \in Of("list"), NEW text \in Texts, NEW managed \in BOOLEAN,
             NEW idx \in Indexes(l), SetStringIn(l, idx, text, managed)
      PROVE  ObjectInv'
  <2> DEFINE y == Allocated(heap, managed)
             m == ListSetString(y, l, idx, text, managed, "given")
  <2>1. HeapInv(y, held) /\ TextsOK(y, 0 + Count(managed))
    BY <1>1, AllocatedRoom
  <2>2. Calls(m)
    BY <1>6 DEF SetStringIn
  <2> HIDE DEF y
  <2>3. HeapInv(m, held) /\ TextsOK(m, 0)
    BY <1>1, <1>2, <2>1, ListSetStringKeeps
  <2> HIDE DEF m
  <2> QED BY <2>2, <2>3, CallsKeep
<1> QED BY <1>3, <1>4, <1>5, <1>6

LEMMA AddsKeep ==
    ASSUME ObjectInv,
           \/ \E d \in Of("dict"), key \in Keys, text \in Texts, managed \in BOOLEAN :
                 AddString(d, key, text, managed)
           \/ \E d \in Of("dict"), key \in Keys, text \in Texts : AddScalar(d, key, text)
    PROVE  ObjectInv'
<1>1. /\ HeapInv(heap, held) /\ TextsOK(heap, 0) /\ 0 \in Nat
      /\ Keys \subseteq STRING /\ Texts \subseteq STRING
  BY ObjectAssumption DEF ObjectInv
<1>2. \A d \in Of("dict") : d \in Ids /\ heap.obj[d].type \in Containers
  BY KnownIsLive, TypesAre DEF Containers
<1>3. ASSUME NEW d \in Of("dict"), NEW key \in Keys, NEW text \in Texts,
             NEW managed \in BOOLEAN, AddString(d, key, text, managed)
      PROVE  ObjectInv'
  <2> DEFINE y == Allocated(heap, managed)
             m == DictSetStringUnref(y, d, key, text, managed, "given")
  <2>1. Calls(m) /\ HasRoom(heap, 1)
    BY <1>3 DEF AddString
  <2>2. /\ HeapInv(y, held) /\ TextsOK(y, 0 + Count(managed)) /\ y.obj = heap.obj
        /\ HasRoom(y, 1)
    BY <1>1, <2>1, AllocatedRoom
  <2> HIDE DEF y
  <2>3. HeapInv(m, held) /\ TextsOK(m, 0)
    <3>1. d \in Ids /\ y.obj[d].type \in Containers /\ key \in STRING
      BY <1>1, <1>2, <2>2
    <3> QED BY <1>1, <2>2, <3>1, DictSetStringUnrefKeeps
  <2> HIDE DEF m
  <2> QED BY <2>1, <2>3, CallsKeep
<1>4. ASSUME NEW d \in Of("dict"), NEW key \in Keys, NEW text \in Texts,
             AddScalar(d, key, text)
      PROVE  ObjectInv'
  <2> DEFINE m == DictSetScalarUnref(heap, d, key, text)
  <2>1. Calls(m) /\ HasRoom(heap, 1)
    BY <1>4 DEF AddScalar
  <2>2. HeapInv(m, held) /\ TextsOK(m, 0)
    BY <1>1, <1>2, <2>1, DictSetScalarUnrefKeeps
  <2> HIDE DEF m
  <2> QED BY <2>1, <2>2, CallsKeep
<1> QED BY <1>3, <1>4

LEMMA NextKeeps == ObjectInv /\ [ObjectNext]_objectVars => ObjectInv'
<1> SUFFICES ASSUME ObjectInv, [ObjectNext]_objectVars PROVE ObjectInv'
  OBVIOUS
<1>1. CASE UNCHANGED objectVars
  BY <1>1, Leaves DEF objectVars, ObjectInv
<1>2. CASE ObjectNext
  <2>1. CASE \/ \E type \in Containers : NewContainer(type)
             \/ \E text \in Texts : NewScalar(text)
             \/ \E text \in Texts, managed \in BOOLEAN : NewString(text, managed)
    BY <1>2, <2>1, CreatesKeeps
  <2>2. CASE (\E i \in Known : Retain(i)) \/ (\E i \in Ids : GiveBack(i))
    <3>1. \E i \in Ids : (i \in Known /\ Retain(i)) \/ GiveBack(i)
      BY <2>2, KnownIsLive
    <3> QED BY <3>1, HoldersKeep
  <2>3. CASE \/ \E d \in Of("dict"), key \in Keys, v \in Known : PutInDict(d, key, v)
             \/ \E l \in Of("list"), v \in Known :
                   \E idx \in Indexes(l) : PutInList(l, idx, v)
             \/ \E d \in Of("dict"), key \in Keys : DeleteKey(d, key)
             \/ \E l \in Of("list") : \E idx \in Indexes(l) : DeleteIndex(l, idx)
             \/ \E c \in Of("dict") \cup Of("list") : ClearContainer(c)
    BY <2>3, ValuesKeep
  <2>4. CASE \/ \E i \in Of("scalar"), text \in Texts : SetScalar(i, text)
             \/ \E s \in Of("string"), text \in Texts, managed \in BOOLEAN :
                   SetString(s, text, managed)
             \/ \E d \in Of("dict"), key \in Keys, text \in Texts, managed \in BOOLEAN :
                   SetStringAt(d, key, text, managed)
             \/ \E l \in Of("list"), text \in Texts, managed \in BOOLEAN :
                   \E idx \in Indexes(l) : SetStringIn(l, idx, text, managed)
    BY <2>4, TextsKeep
  <2>5. CASE \/ \E d \in Of("dict"), key \in Keys, text \in Texts, managed \in BOOLEAN :
                   AddString(d, key, text, managed)
             \/ \E d \in Of("dict"), key \in Keys, text \in Texts : AddScalar(d, key, text)
    BY <2>5, AddsKeep
  <2> QED BY <1>2, <2>1, <2>2, <2>3, <2>4, <2>5 DEF ObjectNext
<1> QED BY <1>1, <1>2

\* The heap is well formed for the references the program holds.
THEOREM ObjectInvHolds == ObjectSpec => []ObjectInv
<1> QED BY InitHolds, NextKeeps, PTL DEF ObjectSpec

----------------------------------------------------------------------------
\* The properties.

LEMMA InvTypes == ObjectInv => ObjectTypeOK
  BY DEF ObjectInv, HeapInv, Heaps, Block, Item, ObjectTypeOK

\* Blocks, counters and references have their types, whatever is called.
THEOREM ObjectTypeCorrect == ObjectSpec => []ObjectTypeOK
<1> QED BY ObjectInvHolds, InvTypes, PTL

\* A block is listed as often as it has a parent: once or not at all.
LEMMA ListedByParent ==
    ASSUME ObjectInv, NEW i \in Ids
    PROVE  Listings(i) = Count(heap.obj[i].parent # NULL)
<1> DEFINE p == heap.obj[i].parent
           L == UNION {{<<c, k>> : k \in {n \in DOMAIN heap.obj[c].items :
                                             heap.obj[c].items[n].val = i}} :
                       c \in Live(heap)}
<1>1. HeapInv(heap, held) /\ heap \in Heaps /\ Linked(heap)
  BY DEF ObjectInv, HeapInv
<1>2. \A c \in Ids : \A k \in DOMAIN heap.obj[c].items :
             heap.obj[c].items[k].val = i => p = c
  BY <1>1 DEF Linked
<1>3. \A x \in L : \E c \in Ids : \E k \in DOMAIN heap.obj[c].items :
                     x = <<c, k>> /\ heap.obj[c].items[k].val = i
  BY DEF Live
<1>4. CASE p = NULL
  <2>1. L = {}
    BY <1>2, <1>3, <1>4 DEF Ids, NULL
  <2> QED BY <1>4, <2>1, FS_EmptySet DEF Listings, Count
<1>5. CASE p # NULL
  <2>1. p \in Ids
    BY <1>1, <1>5, HeapFields DEF Ids, NULL
  <2>2. i \in Values(heap, p)
    BY <1>1, <1>5 DEF Linked
  <2>3. PICK k \in DOMAIN heap.obj[p].items : heap.obj[p].items[k].val = i
    BY <2>2 DEF Values
  <2>4. p \in Live(heap)
    BY <1>1, <2>1, <2>2, HeapFacts DEF Live
  <2>5. L = {<<p, k>>}
    <3>1. <<p, k>> \in L
      BY <2>3, <2>4
    <3>2. ASSUME NEW x \in L
          PROVE  x = <<p, k>>
      <4>1. PICK c \in Ids : \E n \in DOMAIN heap.obj[c].items :
                   x = <<c, n>> /\ heap.obj[c].items[n].val = i
        BY <1>3, <3>2
      <4>2. PICK n \in DOMAIN heap.obj[c].items :
                   x = <<c, n>> /\ heap.obj[c].items[n].val = i
        BY <4>1
      <4>3. c = p
        BY <1>2, <4>2
      <4>4. n = k
        BY <1>1, <2>1, <2>3, <4>2, <4>3 DEF Linked
      <4> QED BY <4>2, <4>3, <4>4
    <3> HIDE DEF L
    <3> QED BY <3>1, <3>2
  <2>6. Cardinality(L) = 1
    <3> HIDE DEF L
    <3> QED BY <2>5, FS_Singleton
  <2> QED BY <1>5, <2>6 DEF Listings, Count
<1> QED BY <1>4, <1>5

LEMMA InvCounts == ObjectInv => RefsCounted
<1>1. ASSUME ObjectInv PROVE RefsCounted
  <2> SUFFICES ASSUME NEW i \in Ids
               PROVE  heap.obj[i].ref = held[i] + Listings(i) + heap.obj[i].forgot
    BY DEF RefsCounted
  <2>1. heap.obj[i].ref = held[i] + Count(heap.obj[i].parent # NULL) + heap.obj[i].forgot
    BY <1>1 DEF ObjectInv, HeapInv, Counted
  <2> QED BY <1>1, <2>1, ListedByParent
<1> QED BY <1>1

\* The reference count of a block is the number of its holders: the program,
\* the container that lists it, and the functions that forgot it.
THEOREM RefsCountedHolds == ObjectSpec => []RefsCounted
<1> QED BY ObjectInvHolds, InvCounts, PTL

LEMMA InvTrees == ObjectInv => Trees
<1>1. ASSUME ObjectInv PROVE Trees
  <2> SUFFICES ASSUME NEW i \in Live(heap)
               PROVE  /\ {c \in Ids : i \in Values(heap, c)} =
                            IF heap.obj[i].parent = NULL THEN {} ELSE {heap.obj[i].parent}
                      /\ Listings(i) <= 1
                      /\ i \notin Ancestors(heap, heap.obj[i].parent)
    BY DEF Trees
  <2>1. HeapInv(heap, held) /\ heap \in Heaps /\ Linked(heap) /\ Acyclic(heap) /\ i \in Ids
    BY <1>1 DEF ObjectInv, HeapInv, Live
  <2>2. \A c \in Ids : i \in Values(heap, c) => heap.obj[i].parent = c
    BY <2>1, HeapFacts
  <2>3. heap.obj[i].parent # NULL =>
            heap.obj[i].parent \in Ids /\ i \in Values(heap, heap.obj[i].parent)
    BY <2>1, HeapFields DEF Linked, Ids, NULL
  <2>4. {c \in Ids : i \in Values(heap, c)} =
            IF heap.obj[i].parent = NULL THEN {} ELSE {heap.obj[i].parent}
    BY <2>2, <2>3 DEF Ids, NULL
  <2>5. Listings(i) <= 1
    BY <1>1, <2>1, ListedByParent DEF Count
  <2> QED BY <2>1, <2>4, <2>5 DEF Acyclic
<1> QED BY <1>1

\* Objects are trees: the parent pointer names the one container that lists
\* the block, and no block is above itself.
THEOREM TreesHold == ObjectSpec => []Trees
<1> QED BY ObjectInvHolds, InvTrees, PTL

LEMMA InvKeys == ObjectInv => KeysOnce
<1>1. ASSUME ObjectInv PROVE KeysOnce
  <2> SUFFICES ASSUME NEW d \in Of("dict"), NEW key \in Keys
               PROVE  Cardinality(At(heap, d, key)) <= 1
    BY DEF KeysOnce
  <2>1. d \in Ids /\ heap.obj[d].type = "dict" /\ UniqueKeys(heap)
    BY <1>1, KnownIsLive, TypesAre DEF ObjectInv, HeapInv
  <2>2. \A k, l \in At(heap, d, key) : k = l
    BY <2>1 DEF UniqueKeys, At
  <2>3. CASE At(heap, d, key) = {}
    BY <2>3, FS_EmptySet
  <2>4. CASE At(heap, d, key) # {}
    <3>1. PICK k : At(heap, d, key) = {k}
      BY <2>2, <2>4
    <3> QED BY <3>1, FS_Singleton
  <2> QED BY <2>3, <2>4
<1> QED BY <1>1

\* A dict has a key at most once.
THEOREM KeysOnceHolds == ObjectSpec => []KeysOnce
<1> QED BY ObjectInvHolds, InvKeys, PTL

\* Above every block there is one without a parent: going up, what is still
\* above gets less and less.
LEMMA RootAbove ==
    ASSUME NEW m, NEW h, HeapInv(m, h), NEW i \in Ids, m.obj[i].type # "free"
    PROVE  \E r \in Ancestors(m, i) :
              r \in Ids /\ m.obj[r].type # "free" /\ m.obj[r].parent = NULL
<1> DEFINE A == Ancestors(m, i)
           Size(r) == Cardinality(Ancestors(m, r))
           Sizes == {Size(r) : r \in A}
<1>1. m \in Heaps /\ Acyclic(m) /\ Linked(m) /\ i \in 0 .. N /\ i # NULL
  BY DEF HeapInv, Ids, NULL
<1>2. /\ A \subseteq Ids /\ i \in A
      /\ \A j \in A : m.obj[j].parent # NULL => m.obj[j].parent \in A
  BY <1>1, AncestorsClosed
<1>3. A \subseteq Live(m)
  <2>1. \A j \in Live(m) : m.obj[j].parent # NULL => m.obj[j].parent \in Live(m)
    <3> SUFFICES ASSUME NEW j \in Ids, m.obj[j].parent # NULL
                 PROVE  m.obj[j].parent \in Live(m)
      BY DEF Live
    <3>1. m.obj[j].parent \in Ids
      BY <1>1, HeapFields DEF Ids, NULL
    <3>2. j \in Values(m, m.obj[j].parent)
      BY <1>1 DEF Linked
    <3> QED BY <3>1, <3>2, HeapFacts DEF Live
  <2>2. Live(m) \in SUBSET Ids /\ i \in Live(m)
    BY DEF Live
  <2> QED BY <1>1, <2>1, <2>2, AncestorsLeast
<1>4. \A r \in A : IsFiniteSet(Ancestors(m, r)) /\ Size(r) \in Nat
  <2> SUFFICES ASSUME NEW r \in A
               PROVE  IsFiniteSet(Ancestors(m, r)) /\ Size(r) \in Nat
    OBVIOUS
  <2>1. r \in 0 .. N
    BY <1>2 DEF Ids
  <2>2. Ancestors(m, r) \in SUBSET Ids
    BY <1>1, <2>1, AncestorsClosed
  <2> QED BY <2>2, IdsFacts, FS_Subset, FS_CardinalityType
<1>5. PICK x \in Sizes : \A y \in Sizes : x <= y
  <2>1. Sizes \subseteq Nat /\ Sizes # {}
    BY <1>2, <1>4
  <2> HIDE DEF Sizes
  <2> QED BY <2>1, Smallest
<1>6. PICK r \in A : \A y \in A : Size(r) <= Size(y)
  BY <1>5
<1>7. ASSUME m.obj[r].parent # NULL
      PROVE  FALSE
  <2> DEFINE p == m.obj[r].parent
  <2>1. p \in A /\ r \in Ids /\ p \in Ids
    BY <1>2, <1>7
  <2>2. Ancestors(m, p) \subseteq Ancestors(m, r) /\ r \in Ancestors(m, r)
    BY <1>1, <2>1, AncestorsUp
  <2>3. r \notin Ancestors(m, p)
    BY <1>1, <2>1 DEF Acyclic
  <2>4. Size(p) < Size(r)
    <3> DEFINE S == Ancestors(m, p)
               T == Ancestors(m, r)
    <3>1. S \subseteq T /\ S # T /\ IsFiniteSet(T)
      BY <1>4, <2>2, <2>3
    <3>2. Cardinality(S) < Cardinality(T)
      <4>1. Cardinality(S) \in Nat /\ Cardinality(T) \in Nat
        BY <1>4, <2>1
      <4> HIDE DEF S, T
      <4>2. S \in SUBSET T
        BY <3>1
      <4>3. Cardinality(S) <= Cardinality(T) /\ (Cardinality(S) = Cardinality(T) => S = T)
        BY <3>1, <4>2, FS_Subset
      <4> QED BY <3>1, <4>1, <4>3
    <3> QED BY <3>2
  <2>5. Size(r) <= Size(p) /\ Size(r) \in Nat /\ Size(p) \in Nat
    BY <1>4, <1>6, <2>1
  <2> HIDE DEF Size
  <2> QED BY <2>4, <2>5
<1> QED BY <1>3, <1>7 DEF Live

LEMMA InvReaches == ObjectInv => NoOrphans
<1>1. ASSUME ObjectInv PROVE NoOrphans
  <2> SUFFICES ASSUME NEW i \in Live(heap)
               PROVE  \E r \in Ancestors(heap, i) : held[r] > 0 \/ heap.obj[r].forgot > 0
    BY DEF NoOrphans
  <2>1. /\ HeapInv(heap, held) /\ heap \in Heaps /\ held \in [Ids -> Nat]
        /\ Counted(heap, held) /\ Alive(heap)
        /\ i \in Ids /\ heap.obj[i].type # "free"
    BY <1>1 DEF ObjectInv, HeapInv, Live
  <2>2. PICK r \in Ancestors(heap, i) :
                 r \in Ids /\ heap.obj[r].type # "free" /\ heap.obj[r].parent = NULL
    BY <2>1, RootAbove
  <2>3. heap.obj[r].ref = held[r] + 0 + heap.obj[r].forgot /\ heap.obj[r].ref > 0
    BY <2>1, <2>2 DEF Counted, Alive, Count
  <2>4. held[r] \in Nat /\ heap.obj[r].forgot \in Nat
    BY <2>1, <2>2, HeapFields
  <2>5. held[r] > 0 \/ heap.obj[r].forgot > 0
    BY <2>3, <2>4
  <2> QED BY <2>5
<1> QED BY <1>1

\* Nothing unreachable stays: above every block there is one the program
\* holds, or one whose reference some function forgot.
THEOREM NoOrphansHolds == ObjectSpec => []NoOrphans
<1> QED BY ObjectInvHolds, InvReaches, PTL

LEMMA InvAccounts == ObjectInv => TextsAccounted
<1>1. ASSUME ObjectInv PROVE TextsAccounted
  <2>1. heap.lost.given \in Nat /\ heap.lost.made \in Nat
    BY <1>1 DEF ObjectInv, HeapInv, Heaps
  <2>2. Cardinality(Managed(heap)) \in Nat
    <3>1. Managed(heap) \in SUBSET Ids
      BY DEF Managed
    <3> QED BY <3>1, IdsFacts, FS_Subset, FS_CardinalityType
  <2>3. heap.bufs = Cardinality(Managed(heap)) + heap.lost.given + heap.lost.made
    BY <1>1, <2>1, <2>2 DEF ObjectInv, TextsOK
  <2> QED BY <2>3 DEF TextsAccounted, Managed
<1> QED BY <1>1

\* Every text buffer allocated is the managed value of one string, or one of
\* those counted as lost.
THEOREM TextsAccountedHolds == ObjectSpec => []TextsAccounted
<1> QED BY ObjectInvHolds, InvAccounts, PTL

----------------------------------------------------------------------------
\* What ToString writes: n levels of it, of each block.

Page(m, F, n) ==
    [j \in Ids |->
        [kind |-> m.obj[j].type,
         text |-> m.obj[j].text,
         items |-> IF n = 0 THEN <<>>
                   ELSE [k \in DOMAIN m.obj[j].items |->
                            <<m.obj[j].items[k].key,
                              F[n - 1][m.obj[j].items[k].val]>>]]]

IsPrinted(m, F, k) == F = [n \in 0 .. k |-> Page(m, F, n)]

Shown(m, n, i) == (CHOOSE F : IsPrinted(m, F, N))[n][i]

Inside(m, n, i) ==
    IF n = 0 THEN <<>>
    ELSE [k \in DOMAIN m.obj[i].items |->
             <<m.obj[i].items[k].key, Shown(m, n - 1, m.obj[i].items[k].val)>>]

\* The pages of a heap exist, for any number of levels.
LEMMA PrintedExists ==
    ASSUME NEW m, NEW k \in Nat
    PROVE  \E F : IsPrinted(m, F, k)
<1> DEFINE Bad == {n \in Nat : ~ \E F : IsPrinted(m, F, n)}
<1> SUFFICES ASSUME Bad # {} PROVE FALSE
  OBVIOUS
<1>1. PICK x \in Bad : \A y \in Bad : x <= y
  BY Smallest
<1>2. CASE x = 0
  <2> DEFINE G == [n \in 0 .. 0 |-> Page(m, <<>>, 0)]
  <2>1. Page(m, <<>>, 0) = Page(m, G, 0)
    BY DEF Page
  <2>2. G = [n \in 0 .. 0 |-> Page(m, G, n)]
    <3>1. \A n \in 0 .. 0 : n = 0
      OBVIOUS
    <3> HIDE DEF G
    <3>2. G = [n \in 0 .. 0 |-> Page(m, <<>>, 0)]
      BY DEF G
    <3> QED BY <2>1, <3>1, <3>2
  <2> HIDE DEF G
  <2>3. IsPrinted(m, G, 0)
    BY <2>2 DEF IsPrinted
  <2> QED BY <1>1, <1>2, <2>3
<1>3. CASE x # 0
  <2>1. x - 1 \in Nat /\ x - 1 \notin Bad /\ x \in Nat
    BY <1>1, <1>3
  <2>2. PICK F : IsPrinted(m, F, x - 1)
    BY <2>1
  <2> DEFINE G == [n \in 0 .. x |-> IF n = x THEN Page(m, F, x) ELSE F[n]]
  <2>3. \A n \in 0 .. x - 1 : F[n] = Page(m, F, n)
    BY <2>2 DEF IsPrinted
  <2>4. G = [n \in 0 .. x |-> G[n]]
    OBVIOUS
  <2>5. G[x] = Page(m, F, x) /\ \A n \in 0 .. x - 1 : G[n] = F[n]
    BY <2>1
  <2> HIDE DEF G
  <2>6. ASSUME NEW n \in 0 .. x
        PROVE  Page(m, F, n) = Page(m, G, n)
    <3>1. CASE n = 0
      BY <3>1 DEF Page
    <3>2. CASE n # 0
      <4>1. F[n - 1] = G[n - 1]
        BY <2>1, <2>5, <3>2
      <4> QED BY <4>1 DEF Page
    <3> QED BY <3>1, <3>2
  <2>7. ASSUME NEW n \in 0 .. x
        PROVE  G[n] = Page(m, G, n)
    <3>1. n = x \/ n \in 0 .. x - 1
      BY <2>1
    <3>2. G[n] = Page(m, F, n)
      BY <2>3, <2>5, <3>1
    <3> QED BY <2>6, <3>2
  <2>8. IsPrinted(m, G, x)
    BY <2>4, <2>7 DEF IsPrinted
  <2> QED BY <1>1, <2>8
<1> QED BY <1>2, <1>3

LEMMA ShownIs ==
    ASSUME NEW m, NEW i \in Ids, NEW n \in 0 .. N
    PROVE  Shown(m, n, i)
             = [kind |-> m.obj[i].type, text |-> m.obj[i].text, items |-> Inside(m, n, i)]
<1> DEFINE G == CHOOSE F : IsPrinted(m, F, N)
<1>1. IsPrinted(m, G, N)
  BY PrintedExists, IdsFacts
<1>2. Shown(m, n, i) = G[n][i]
  BY DEF Shown
<1>3. Inside(m, n, i) = IF n = 0 THEN <<>>
                        ELSE [k \in DOMAIN m.obj[i].items |->
                                 <<m.obj[i].items[k].key,
                                   G[n - 1][m.obj[i].items[k].val]>>]
  BY DEF Inside, Shown
<1> HIDE DEF G
<1>4. G[n] = Page(m, G, n)
  BY <1>1 DEF IsPrinted
<1>5. G[n][i] = [kind |-> m.obj[i].type, text |-> m.obj[i].text,
                 items |-> IF n = 0 THEN <<>>
                           ELSE [k \in DOMAIN m.obj[i].items |->
                                    <<m.obj[i].items[k].key,
                                      G[n - 1][m.obj[i].items[k].val]>>]]
  BY <1>4 DEF Page
<1> QED BY <1>2, <1>3, <1>5

LEMMA ToStringIs ==
    ASSUME NEW m, NEW i
    PROVE  ToString(m, i) = Shown(m, N, i)
  BY DEF ToString, Shown, IsPrinted, Page

\* Blocks that keep their kind, text and items, and whose values do, keep
\* what is written of them.
LEMMA SameShown ==
    ASSUME NEW m, NEW m2, NEW S \in SUBSET Ids,
           \A j \in S : /\ Values(m, j) \subseteq S
                        /\ m2.obj[j].type = m.obj[j].type /\ m2.obj[j].text = m.obj[j].text
                        /\ m2.obj[j].items = m.obj[j].items
    PROVE  \A n \in 0 .. N : \A j \in S : Shown(m2, n, j) = Shown(m, n, j)
<1> DEFINE Bad == {n \in 0 .. N : \E j \in S : Shown(m2, n, j) # Shown(m, n, j)}
<1> SUFFICES ASSUME Bad # {} PROVE FALSE
  OBVIOUS
<1>1. PICK x \in Bad : \A y \in Bad : x <= y
  <2>1. Bad \subseteq Nat
    OBVIOUS
  <2> HIDE DEF Bad
  <2> QED BY <2>1, Smallest
<1>2. PICK j \in S : Shown(m2, x, j) # Shown(m, x, j)
  BY <1>1
<1>3. x \in 0 .. N /\ j \in Ids
  BY <1>1
<1>4. Inside(m2, x, j) = Inside(m, x, j)
  <2>1. CASE x = 0
    BY <2>1 DEF Inside
  <2>2. CASE x # 0
    <3>1. x - 1 \in 0 .. N /\ x - 1 \notin Bad
      BY <1>1, <2>2, IdsFacts
    <3>2. \A k \in DOMAIN m.obj[j].items :
             Shown(m2, x - 1, m.obj[j].items[k].val) = Shown(m, x - 1, m.obj[j].items[k].val)
      <4>1. \A k \in DOMAIN m.obj[j].items : m.obj[j].items[k].val \in S
        BY DEF Values
      <4> QED BY <3>1, <4>1
    <3>3. m2.obj[j].items = m.obj[j].items
      OBVIOUS
    <3> HIDE DEF Bad
    <3> QED BY <2>2, <3>2, <3>3 DEF Inside
  <2> QED BY <2>1, <2>2
<1>5. Shown(m2, x, j) = Shown(m, x, j)
  <2> HIDE DEF Bad
  <2> QED BY <1>3, <1>4, ShownIs
<1> QED BY <1>2, <1>5

\* A block hangs below as many others as it has ancestors.
LEMMA DeeperByOne ==
    ASSUME NEW m, NEW h, HeapInv(m, h), NEW c \in Ids, NEW v \in Values(m, c)
    PROVE  /\ v \in Ids /\ Cardinality(Ancestors(m, c)) \in Nat
           /\ Cardinality(Ancestors(m, v)) = Cardinality(Ancestors(m, c)) + 1
<1>1. m \in Heaps /\ Acyclic(m)
  BY DEF HeapInv
<1>2. v \in Ids /\ m.obj[v].parent = c
  BY HeapFacts
<1>3. Ancestors(m, v) = Ancestors(m, c) \cup {v} /\ v \notin Ancestors(m, c)
  BY <1>1, <1>2, AncestorsUp DEF Acyclic
<1>4. Ancestors(m, c) \in SUBSET Ids
  <2>1. c \in 0 .. N
    BY DEF Ids
  <2> QED BY <1>1, <2>1, AncestorsClosed
<1>5. IsFiniteSet(Ancestors(m, c))
  BY <1>4, IdsFacts, FS_Subset
<1> QED BY <1>2, <1>3, <1>5, FS_AddElement, FS_CardinalityType

\* N levels are enough: nothing hangs deeper than that.
LEMMA Settles ==
    ASSUME NEW m, NEW h, HeapInv(m, h), NEW i \in Ids
    PROVE  N - 1 \in 0 .. N /\ Shown(m, N, i) = Shown(m, N - 1, i)
<1> USE IdsFacts
<1> DEFINE Depth(j) == Cardinality(Ancestors(m, j))
           Wrong(n, j) == Depth(j) + n >= N /\ Shown(m, n + 1, j) # Shown(m, n, j)
           Bad == {n \in 0 .. N - 1 : \E j \in Ids : Wrong(n, j)}
<1>1. ASSUME NEW j \in Ids
      PROVE  /\ Ancestors(m, j) \in SUBSET Ids /\ j \in Ancestors(m, j)
             /\ IsFiniteSet(Ancestors(m, j)) /\ Depth(j) \in Nat /\ Depth(j) > 0
  <2>1. Ancestors(m, j) \in SUBSET Ids /\ j \in Ancestors(m, j)
    <3>1. j \in 0 .. N /\ m \in Heaps
      BY DEF Ids, HeapInv
    <3> QED BY <3>1, AncestorsClosed, AncestorsUp
  <2>2. IsFiniteSet(Ancestors(m, j))
    BY <2>1, FS_Subset
  <2>3. Depth(j) \in Nat /\ Depth(j) # 0
    BY <2>1, <2>2, FS_CardinalityType, FS_EmptySet
  <2> QED BY <2>1, <2>2, <2>3
<1>2. Bad = {}
  <2> SUFFICES ASSUME Bad # {} PROVE FALSE
    OBVIOUS
  <2>1. PICK x \in Bad : \A y \in Bad : x <= y
    <3>1. Bad \subseteq Nat
      OBVIOUS
    <3> HIDE DEF Bad
    <3> QED BY <3>1, Smallest
  <2>2. PICK j \in Ids : Wrong(x, j)
    BY <2>1
  <2>3. x \in 0 .. N - 1 /\ x \in 0 .. N /\ x + 1 \in 0 .. N /\ x + 1 # 0
    BY <2>1
  <2>4. Inside(m, x + 1, j) = Inside(m, x, j)
    <3>1. CASE x = 0
      <4>1. Values(m, j) = {}
        <5> SUFFICES ASSUME NEW v \in Values(m, j) PROVE FALSE
          OBVIOUS
        <5>1. v \in Ids /\ Depth(v) = Depth(j) + 1
          BY DeeperByOne
        <5>2. Depth(v) <= N
          <6>1. Ancestors(m, v) \in SUBSET Ids
            BY <1>1, <5>1
          <6> QED BY <6>1, FS_Subset
        <5>3. Depth(j) >= N /\ Depth(j) \in Nat
          BY <1>1, <2>2, <3>1
        <5> HIDE DEF Depth
        <5> QED BY <5>1, <5>2, <5>3
      <4>2. m.obj[j].items = <<>>
        <5>1. DOMAIN m.obj[j].items = {}
          BY <4>1 DEF Values
        <5>2. m.obj[j].items \in Seq(Item)
          BY HeapFields DEF HeapInv
        <5> HIDE DEF Depth, Wrong, Bad
        <5>3. Len(m.obj[j].items) \in Nat /\ DOMAIN m.obj[j].items = 1 .. Len(m.obj[j].items)
          BY <5>2, LenProperties
        <5>4. Len(m.obj[j].items) = 0
          <6>1. 1 \notin 1 .. Len(m.obj[j].items)
            BY <5>1, <5>3
          <6> QED BY <5>3, <6>1
        <5> QED BY <5>2, <5>4, EmptySeq
      <4> QED BY <2>3, <3>1, <4>2 DEF Inside
    <3>2. CASE x # 0
      <4>1. x - 1 \in 0 .. N - 1 /\ x - 1 \notin Bad
        BY <2>1, <2>3, <3>2
      <4>2. ASSUME NEW v \in Values(m, j)
            PROVE  Shown(m, x, v) = Shown(m, x - 1, v)
        <5>1. v \in Ids /\ Depth(v) = Depth(j) + 1 /\ Depth(j) \in Nat
          BY DeeperByOne
        <5>2. ~Wrong(x - 1, v)
          BY <4>1, <5>1
        <5>3. Depth(j) + x >= N
          BY <2>2
        <5>4. Depth(v) + (x - 1) >= N /\ (x - 1) + 1 = x
          <6> HIDE DEF Depth
          <6> QED BY <2>3, <5>1, <5>3
        <5> QED BY <5>2, <5>4
      <4>3. \A k \in DOMAIN m.obj[j].items :
               Shown(m, x, m.obj[j].items[k].val) = Shown(m, x - 1, m.obj[j].items[k].val)
        BY <4>2 DEF Values
      <4>4. (x + 1) - 1 = x
        BY <2>3
      <4> QED BY <2>3, <3>2, <4>3, <4>4 DEF Inside
    <3> QED BY <3>1, <3>2
  <2>5. Shown(m, x + 1, j) = Shown(m, x, j)
    <3> HIDE DEF Bad, Wrong, Depth
    <3> QED BY <2>3, <2>4, ShownIs
  <2> QED BY <2>2, <2>5
<1>3. N - 1 \in 0 .. N - 1 /\ N - 1 \in 0 .. N
  BY DEF Ids
<1>4. ~Wrong(N - 1, i)
  BY <1>2, <1>3
<1>5. Depth(i) + (N - 1) >= N /\ (N - 1) + 1 = N
  <2>1. Depth(i) \in Nat /\ Depth(i) > 0
    BY <1>1
  <2> HIDE DEF Depth
  <2> QED BY <2>1
<1> QED BY <1>3, <1>4, <1>5

\* Two objects are equal when one level less of their texts is the same.
LEMMA EqualIs ==
    ASSUME NEW m, NEW h, HeapInv(m, h), NEW i \in Ids, NEW j \in Ids
    PROVE  Equal(m, i, j) <=> Shown(m, N - 1, i) = Shown(m, N - 1, j)
<1>1. N - 1 \in 0 .. N /\ \A l \in Ids : ToString(m, l) = Shown(m, N - 1, l)
  BY Settles, ToStringIs
<1>2. \A l \in Ids : Shown(m, N - 1, l).kind = m.obj[l].type
                     /\ Shown(m, N - 1, l).text = m.obj[l].text
  BY <1>1, ShownIs
<1>3. CASE m.obj[i].type \in Containers
  BY <1>1, <1>2, <1>3 DEF Equal
<1>4. CASE m.obj[i].type \notin Containers
  <2>1. ASSUME m.obj[j].type = m.obj[i].type, m.obj[j].text = m.obj[i].text
        PROVE  Shown(m, N - 1, i) = Shown(m, N - 1, j)
    <3>1. m.obj[i].items = <<>> /\ m.obj[j].items = <<>>
      BY <1>4, <2>1 DEF HeapInv, Bare
    <3>2. Inside(m, N - 1, i) = Inside(m, N - 1, j)
      BY <3>1 DEF Inside
    <3> QED BY <1>1, <2>1, <3>2, ShownIs
  <2> QED BY <1>2, <1>4, <2>1 DEF Equal
<1> QED BY <1>3, <1>4

----------------------------------------------------------------------------
\* What calls change of it.

SameWords(m2, m, j) ==
    /\ m2.obj[j].type = m.obj[j].type /\ m2.obj[j].text = m.obj[j].text
    /\ m2.obj[j].items = m.obj[j].items

\* Giving back a reference changes no text that is not below the block.
LEMMA UnrefAside ==
    ASSUME NEW m, NEW h, HeapInv(m, h), NEW n \in Nat, TextsOK(m, n),
           NEW i \in Ids, NEW j \in Ids, i \notin Ancestors(m, j)
    PROVE  SameWords(Unref(m, i), m, j)
<1>1. m \in Heaps /\ j # i
  BY AncestorsUp DEF HeapInv
<1>2. CASE m.obj[i].ref <= 1
  <2> DEFINE D == Doomed(m, i)
  <2>1. \A d \in D : d \in Ids /\ i \in Ancestors(m, d)
    BY <1>1, DoomedBelow
  <2>2. Unref(m, i) = Release(m, D)
    BY <1>2 DEF Unref
  <2> HIDE DEF D
  <2>3. D \in SUBSET Ids /\ j \notin D
    BY <2>1
  <2> DEFINE x == Release(m, D)
  <2>4. Lowered(x.obj[j], m.obj[j]) \/ x.obj[j] = m.obj[j]
    BY <2>3, ReleaseFields
  <2> HIDE DEF x
  <2>5. SameWords(x, m, j)
    BY <2>4 DEF Lowered, SameWords
  <2> QED BY <2>2, <2>5 DEF x
<1>3. CASE ~(m.obj[i].ref <= 1)
  <2>1. Unref(m, i) = [m EXCEPT !.obj[i].ref = @ - 1]
    BY <1>3 DEF Unref
  <2>2. [m EXCEPT !.obj[i].ref = @ - 1].obj[j] = m.obj[j]
    BY <1>1 DEF Heaps
  <2> QED BY <2>1, <2>2 DEF SameWords
<1> QED BY <1>2, <1>3

\* What is neither below old nor above c, when old is a value of c.
Aside(m, c, old) ==
    {j \in Ids : old \notin Ancestors(m, j) /\ j \notin Ancestors(m, c)}

LEMMA AsideClosed ==
    ASSUME NEW m, NEW h, HeapInv(m, h), NEW c \in Ids, NEW old \in Values(m, c)
    PROVE  /\ c \notin Aside(m, c, old) /\ old \notin Ancestors(m, c)
           /\ \A j \in Aside(m, c, old) : Values(m, j) \subseteq Aside(m, c, old)
           /\ \A w \in Values(m, c) \ {old} : w \in Aside(m, c, old)
           /\ \A v \in Ids : m.obj[v].parent = NULL /\ v \notin Ancestors(m, c)
                             => v \in Aside(m, c, old)
<1>1. m \in Heaps /\ Acyclic(m)
  BY DEF HeapInv
<1>2. old \in Ids /\ m.obj[old].parent = c
  BY HeapFacts
<1>3. \A j \in Ids : \A w \in Values(m, j) : w \in Ids /\ m.obj[w].parent = j
  BY HeapFacts
<1>4. c \in Ancestors(m, c) /\ old \notin Ancestors(m, c)
  BY <1>1, <1>2, AncestorsUp DEF Acyclic
<1>5. ASSUME NEW j \in Aside(m, c, old), NEW w \in Values(m, j)
      PROVE  w \in Aside(m, c, old)
  <2>1. /\ j \in Ids /\ old \notin Ancestors(m, j) /\ j \notin Ancestors(m, c)
        /\ w \in Ids /\ m.obj[w].parent = j /\ j # NULL
    BY <1>3 DEF Aside, Ids, NULL
  <2>2. w # old
    BY <1>2, <1>4, <2>1
  <2>3. old \notin Ancestors(m, w)
    BY <1>1, <2>1, <2>2, AncestorsUp
  <2>4. w \notin Ancestors(m, c)
    <3>1. c \in 0 .. N
      BY DEF Ids
    <3> QED BY <1>1, <2>1, <3>1, AncestorsClosed
  <2> QED BY <2>1, <2>3, <2>4 DEF Aside
<1>6. ASSUME NEW w \in Values(m, c) \ {old}
      PROVE  w \in Aside(m, c, old)
  <2>1. w \in Ids /\ m.obj[w].parent = c
    BY <1>3
  <2>2. w \notin Ancestors(m, c)
    BY <1>1, <2>1 DEF Acyclic
  <2>3. old \notin Ancestors(m, w)
    BY <1>1, <1>4, <2>1, AncestorsUp
  <2> QED BY <2>1, <2>2, <2>3 DEF Aside
<1>7. ASSUME NEW v \in Ids, m.obj[v].parent = NULL, v \notin Ancestors(m, c)
      PROVE  v \in Aside(m, c, old)
  <2>1. v # old
    BY <1>2, <1>7 DEF Ids, NULL
  <2>2. old \notin Ancestors(m, v)
    BY <1>1, <1>7, <2>1, AncestorsUp, NothingAboveNull
  <2> QED BY <1>7, <2>2 DEF Aside
<1> QED BY <1>4, <1>5, <1>6, <1>7 DEF Aside

\* v stands in the item k of c in place of old, and nothing else is written
\* otherwise.
Stands(z, m, c, k, v, old) ==
    /\ z \in Heaps
    /\ \A j \in Ids \ {c} : SameWords(z, m, j)
    /\ z.obj[c].type = m.obj[c].type /\ z.obj[c].text = m.obj[c].text
    /\ z.obj[c].items = NewItems(m.obj[c].items, k, v)
    /\ z.obj[v].parent = c /\ z.obj[old].parent = NULL
    /\ \A j \in Ids \ {v, old} : z.obj[j].parent = m.obj[j].parent

LEMMA PlacedStands ==
    ASSUME NEW m, NEW h, HeapInv(m, h), NEW c \in Ids, NEW k \in DOMAIN m.obj[c].items,
           NEW v \in Ids \ {c}, NEW old, Lists(m, c, k, old), old \in Ids \ {c, v}
    PROVE  Stands(Placed(m, c, k, v), m, c, k, v, old)
<1> DEFINE x == Placing(m, c, k, v)
           t == NewItems(m.obj[c].items, k, v)
           z == Put(x, c, t, v, c)
<1>1. m \in Heaps /\ z = Placed(m, c, k, v)
  BY DEF HeapInv, Placed
<1>2. Turned(x, m, v, old)
  BY <1>1, PlacingFields
<1>3. t \in Seq(Item)
  <2> DEFINE s == m.obj[c].items
  <2>1. s \in Seq(Item) /\ k \in DOMAIN s
    BY <1>1, HeapFields
  <2> HIDE DEF s
  <2>2. NewItems(s, k, v) \in Seq(Item)
    BY <2>1, NewItem
  <2> QED BY <2>2 DEF s
<1> HIDE DEF t, x
<1>4. Differ(z, x, c, t, v, c)
  <2>1. x \in Heaps /\ c \in 0 .. N
    BY <1>2 DEF Turned, Ids
  <2> QED BY <1>3, <2>1, PutFields
<1> HIDE DEF z
<1>5. \A j \in Ids : SameWords(x, m, j)
  BY <1>2 DEF Turned, SameKind, SameWords
<1>6. /\ \A j \in Ids \ {old} : x.obj[j].parent = m.obj[j].parent
      /\ x.obj[old].parent = NULL
  BY <1>2 DEF Turned
<1>7. /\ z \in Heaps /\ \A j \in Ids \ {c} : SameWords(z, x, j)
      /\ z.obj[c].type = x.obj[c].type /\ z.obj[c].text = x.obj[c].text
      /\ z.obj[c].items = t /\ z.obj[v].parent = c
      /\ \A j \in Ids \ {v} : z.obj[j].parent = x.obj[j].parent
  BY <1>4 DEF Differ, SameKind, SameWords
<1>8. \A j \in Ids \ {c} : SameWords(z, m, j)
  BY <1>5, <1>7 DEF SameWords
<1>9. z.obj[c].type = m.obj[c].type /\ z.obj[c].text = m.obj[c].text
  BY <1>5, <1>7 DEF SameWords
<1>10. Stands(z, m, c, k, v, old)
  BY <1>6, <1>7, <1>8, <1>9 DEF Stands, t
<1> QED BY <1>1, <1>10

\* Nothing above what is aside, or above c, is old.
LEMMA StillAside ==
    ASSUME NEW m, NEW h, HeapInv(m, h), NEW c \in Ids, NEW k, NEW v \in Ids,
           NEW old \in Values(m, c), NEW z, Stands(z, m, c, k, v, old), v # old,
           NEW j \in Ids, old \notin Ancestors(m, j)
    PROVE  old \notin Ancestors(z, j)
<1> DEFINE C == {i \in Ids : old \notin Ancestors(m, i)}
<1>1. m \in Heaps /\ z \in Heaps /\ j \in 0 .. N /\ j # NULL
  BY DEF HeapInv, Stands, Ids, NULL
<1>2. old \in Ids /\ c \in C
  BY HeapFacts, AsideClosed
<1>3. \A i \in Ids \ {v, old} : z.obj[i].parent = m.obj[i].parent
  BY DEF Stands
<1>4. z.obj[v].parent = c
  BY DEF Stands
<1>5. ASSUME NEW i \in C, z.obj[i].parent # NULL
      PROVE  z.obj[i].parent \in C
  <2>1. i \in Ids /\ i # old
    BY <1>1, AncestorsUp
  <2>2. CASE i = v
    BY <1>2, <1>4, <2>2
  <2>3. CASE i # v
    <3>1. z.obj[i].parent = m.obj[i].parent /\ m.obj[i].parent \in Ids
      BY <1>1, <1>3, <1>5, <2>1, <2>3, HeapFields DEF Ids, NULL
    <3>2. old \notin Ancestors(m, m.obj[i].parent)
      BY <1>1, <2>1, AncestorsUp
    <3> QED BY <3>1, <3>2
  <2> QED BY <2>2, <2>3
<1>6. j \in C /\ old \notin C /\ C \in SUBSET Ids
  BY <1>1, <1>2, AncestorsUp
<1> HIDE DEF C
<1>7. Ancestors(z, j) \subseteq C
  BY <1>1, <1>5, <1>6, AncestorsLeast
<1> QED BY <1>6, <1>7

\* Replacing a value changes the text of its container when the two values
\* are written differently.
LEMMA ReplaceTells ==
    ASSUME NEW m, NEW h, HeapInv(m, h), NEW n \in Nat, TextsOK(m, n),
           NEW c \in Ids, NEW k \in DOMAIN m.obj[c].items,
           NEW v \in Ids, m.obj[v].type # "free",
           m.obj[v].parent = NULL, v \notin Ancestors(m, c),
           NEW old, Lists(m, c, k, old)
    PROVE  ToString(Replace(m, c, k, v), c) # ToString(m, c)
             <=> Shown(m, N - 1, v) # Shown(m, N - 1, old)
<1> DEFINE z == Placed(m, c, k, v)
           h2 == [h EXCEPT ![old] = @ + 1]
           m2 == Unref(z, old)
           s == m.obj[c].items
           S == Aside(m, c, old)
<1>1. /\ old \in Values(m, c) /\ old \in Ids \ {c, v} /\ v \in Ids \ {c}
      /\ m.obj[old].parent = c
  BY ListedApart
<1>2. Replace(m, c, k, v) = m2
  BY <1>1, ReplaceIsUnref
<1>3. HeapInv(z, h2) /\ TextsOK(z, n)
  BY PlacedKeeps
<1>4. Stands(z, m, c, k, v, old)
  BY <1>1, PlacedStands
<1> HIDE DEF z, h2
<1>5. ASSUME NEW j \in Ids, old \notin Ancestors(m, j)
      PROVE  SameWords(m2, z, j)
  <2>1. old \notin Ancestors(z, j)
    BY <1>1, <1>4, <1>5, StillAside
  <2> QED BY <1>1, <1>3, <2>1, UnrefAside
<1>6. /\ c \notin S /\ old \notin Ancestors(m, c)
      /\ \A j \in S : Values(m, j) \subseteq S
      /\ \A w \in Values(m, c) \ {old} : w \in S
      /\ v \in S
  BY <1>1, AsideClosed
<1>7. \A j \in S : j \in Ids /\ old \notin Ancestors(m, j)
  BY DEF Aside
<1> HIDE DEF m2, S
<1>8. \A j \in S : SameWords(m2, m, j)
  BY <1>4, <1>5, <1>6, <1>7 DEF Stands, SameWords
<1>9. \A i \in 0 .. N : \A j \in S : Shown(m2, i, j) = Shown(m, i, j)
  <2>1. S \in SUBSET Ids
    BY <1>7
  <2> QED BY <1>6, <1>8, <2>1, SameShown DEF SameWords
<1>10. /\ m2.obj[c].type = m.obj[c].type /\ m2.obj[c].text = m.obj[c].text
       /\ m2.obj[c].items = NewItems(s, k, v)
  BY <1>4, <1>5, <1>6 DEF Stands, SameWords
<1>11. /\ s \in Seq(Item) /\ k \in DOMAIN s /\ s[k].val = old
       /\ \A l \in DOMAIN s : s[l].val = old => l = k
       /\ \A l \in DOMAIN s : s[l].val \in Values(m, c)
  BY HeapFields DEF HeapInv, Linked, Lists, Values
<1> DEFINE t == NewItems(s, k, v)
<1> HIDE DEF s
<1>12. /\ DOMAIN t = DOMAIN s
       /\ \A l \in DOMAIN s : t[l].key = s[l].key
       /\ \A l \in DOMAIN s : t[l].val = IF l = k THEN v ELSE s[l].val
  BY <1>11, NewItem
<1>13. N \in 0 .. N /\ N - 1 \in 0 .. N /\ N # 0
  BY IdsFacts DEF Ids
<1> HIDE DEF t
<1> DEFINE was == [l \in DOMAIN s |-> <<s[l].key, Shown(m, N - 1, s[l].val)>>]
           is == [l \in DOMAIN t |-> <<t[l].key, Shown(m2, N - 1, t[l].val)>>]
<1>14. /\ ToString(m, c) = [kind |-> m.obj[c].type, text |-> m.obj[c].text, items |-> was]
       /\ ToString(m2, c) = [kind |-> m.obj[c].type, text |-> m.obj[c].text, items |-> is]
  <2>1. Inside(m, N, c) = was
    BY <1>13 DEF Inside, s
  <2>2. Inside(m2, N, c) = is
    BY <1>10, <1>13 DEF Inside, t
  <2> HIDE DEF was, is
  <2> QED BY <1>10, <1>13, <2>1, <2>2, ShownIs, ToStringIs
<1>15. \A l \in DOMAIN s \ {k} : is[l] = was[l]
  <2> SUFFICES ASSUME NEW l \in DOMAIN s, l # k PROVE is[l] = was[l]
    OBVIOUS
  <2>1. s[l].val \in S
    BY <1>6, <1>11
  <2>2. Shown(m2, N - 1, s[l].val) = Shown(m, N - 1, s[l].val)
    BY <1>9, <1>13, <2>1
  <2>3. t[l].key = s[l].key /\ t[l].val = s[l].val
    BY <1>12
  <2> QED BY <1>12, <2>2, <2>3
<1>16. was[k] = <<s[k].key, Shown(m, N - 1, old)>> /\ is[k] = <<s[k].key, Shown(m, N - 1, v)>>
  <2>1. Shown(m2, N - 1, v) = Shown(m, N - 1, v)
    BY <1>6, <1>9, <1>13
  <2> QED BY <1>11, <1>12, <2>1
<1>17. is = was <=> is[k] = was[k]
  <2>1. is = [l \in DOMAIN s |-> is[l]] /\ was = [l \in DOMAIN s |-> was[l]]
    BY <1>12
  <2> HIDE DEF is, was
  <2> QED BY <1>15, <2>1
<1> HIDE DEF is, was
<1>18. is[k] = was[k] <=> Shown(m, N - 1, v) = Shown(m, N - 1, old)
  BY <1>16
<1>19. ToString(m2, c) = ToString(m, c) <=> is = was
  BY <1>14
<1> QED BY <1>2, <1>17, <1>18, <1>19

\* A value more changes the text of its container.
LEMMA AppendTells ==
    ASSUME NEW m, NEW h, HeapInv(m, h), NEW c \in Ids, NEW v \in Ids \ {c},
           NEW key \in STRING
    PROVE  ToString(AppendItem(m, c, key, v), c) # ToString(m, c)
<1> DEFINE m2 == AppendItem(m, c, key, v)
           s == m.obj[c].items
           e == [key |-> key, val |-> v]
<1>1. m \in Heaps
  BY DEF HeapInv
<1>2. m2.obj[c].items = Append(s, e)
  BY <1>1, AppendFields
<1>3. s \in Seq(Item) /\ e \in Item
  BY <1>1, HeapFields DEF Item
<1> HIDE DEF m2, e
<1>4. N \in 0 .. N /\ N # 0
  BY IdsFacts DEF Ids
<1>5. DOMAIN Inside(m, N, c) = DOMAIN s /\ DOMAIN Inside(m2, N, c) = DOMAIN Append(s, e)
  BY <1>2, <1>4 DEF Inside
<1> HIDE DEF s
<1>6. DOMAIN s = 1 .. Len(s) /\ Len(s) \in Nat /\ DOMAIN Append(s, e) = 1 .. Len(s) + 1
  BY <1>3, AppendProperties, LenProperties
<1>7. Len(s) + 1 \in DOMAIN Append(s, e) /\ Len(s) + 1 \notin DOMAIN s
  BY <1>6
<1>8. Inside(m2, N, c) # Inside(m, N, c)
  BY <1>5, <1>7
<1>9. /\ ToString(m, c) = [kind |-> m.obj[c].type, text |-> m.obj[c].text,
                           items |-> Inside(m, N, c)]
      /\ ToString(m2, c) = [kind |-> m2.obj[c].type, text |-> m2.obj[c].text,
                            items |-> Inside(m2, N, c)]
  BY <1>4, ShownIs, ToStringIs
<1>10. ToString(m2, c) # ToString(m, c)
  BY <1>8, <1>9
<1> QED BY <1>10 DEF m2

----------------------------------------------------------------------------
\* What the setters answer.

LEMMA DictSetTells ==
    ASSUME NEW m, NEW h, HeapInv(m, h), NEW n \in Nat, TextsOK(m, n),
           NEW d \in Ids, NEW key \in STRING, NEW v \in Ids, m.obj[v].type # "free"
    PROVE  DictSetReturns(m, d, key, v)
             <=> ToString(DictSet(m, d, key, v), d) # ToString(m, d)
<1>1. CASE Refuses(m, d, v)
  BY <1>1 DEF DictSet, DictSetReturns
<1>2. CASE ~Refuses(m, d, v)
  <2>1. /\ m.obj[v].parent = NULL /\ v \notin Ancestors(m, d) /\ v \in Ids \ {d}
    <3>1. d \in Ancestors(m, d)
      BY AncestorsUp DEF HeapInv
    <3> QED BY <1>2, <3>1 DEF Refuses
  <2>2. CASE At(m, d, key) # {}
    <3> DEFINE k == CHOOSE k \in At(m, d, key) : TRUE
               old == m.obj[d].items[k].val
    <3>1. k \in DOMAIN m.obj[d].items
      BY <2>2 DEF At
    <3>2. DictSet(m, d, key, v) = Replace(m, d, k, v) /\ DictGet(m, d, key) = old
      BY <1>2, <2>2 DEF DictSet, DictGet
    <3>3. DictSetReturns(m, d, key, v) <=> ~Equal(m, old, v)
      BY <1>2, <2>2, <3>2 DEF DictSetReturns
    <3> HIDE DEF k
    <3>4. old \in Ids
      BY <3>1, ValueIn DEF HeapInv
    <3>5. Lists(m, d, k, old)
      BY DEF Lists
    <3> HIDE DEF old
    <3>6. Equal(m, old, v) <=> Shown(m, N - 1, old) = Shown(m, N - 1, v)
      BY <3>4, EqualIs
    <3>7. ToString(Replace(m, d, k, v), d) # ToString(m, d)
            <=> Shown(m, N - 1, v) # Shown(m, N - 1, old)
      BY <2>1, <3>1, <3>5, ReplaceTells
    <3> QED BY <3>2, <3>3, <3>6, <3>7
  <2>3. CASE At(m, d, key) = {}
    <3>1. DictSet(m, d, key, v) = AppendItem(m, d, key, v) /\ DictSetReturns(m, d, key, v)
      BY <1>2, <2>3 DEF DictSet, DictSetReturns
    <3> QED BY <2>1, <3>1, AppendTells
  <2> QED BY <2>2, <2>3
<1> QED BY <1>1, <1>2

LEMMA ListSetTells ==
    ASSUME NEW m, NEW h, HeapInv(m, h), NEW n \in Nat, TextsOK(m, n),
           NEW l \in Ids, NEW idx, NEW v \in Ids, m.obj[v].type # "free"
    PROVE  ListSetReturns(m, l, idx, v)
             <=> ToString(ListSet(m, l, idx, v), l) # ToString(m, l)
<1>1. CASE Refuses(m, l, v)
  BY <1>1 DEF ListSet, ListSetReturns
<1>2. CASE ~Refuses(m, l, v)
  <2>1. /\ m.obj[v].parent = NULL /\ v \notin Ancestors(m, l) /\ v \in Ids \ {l}
    <3>1. l \in Ancestors(m, l)
      BY AncestorsUp DEF HeapInv
    <3> QED BY <1>2, <3>1 DEF Refuses
  <2>2. CASE idx + 1 \in DOMAIN m.obj[l].items
    <3> DEFINE k == idx + 1
               old == m.obj[l].items[k].val
    <3>1. k \in DOMAIN m.obj[l].items
      BY <2>2
    <3>2. ListSet(m, l, idx, v) = Replace(m, l, k, v) /\ ListGet(m, l, idx) = old
      BY <1>2, <2>2 DEF ListSet, ListGet
    <3> HIDE DEF k
    <3>3. old \in Ids /\ old # NULL
      BY <3>1, ValueIn DEF HeapInv, Ids, NULL
    <3>4. ListSetReturns(m, l, idx, v) <=> ~Equal(m, old, v)
      BY <1>2, <3>2, <3>3 DEF ListSetReturns
    <3>5. Lists(m, l, k, old)
      BY DEF Lists
    <3> HIDE DEF old
    <3>6. Equal(m, old, v) <=> Shown(m, N - 1, old) = Shown(m, N - 1, v)
      BY <3>3, EqualIs
    <3>7. ToString(Replace(m, l, k, v), l) # ToString(m, l)
            <=> Shown(m, N - 1, v) # Shown(m, N - 1, old)
      BY <2>1, <3>1, <3>5, ReplaceTells
    <3> QED BY <3>2, <3>4, <3>6, <3>7
  <2>3. CASE ~(idx + 1 \in DOMAIN m.obj[l].items)
    <3>1. ListSet(m, l, idx, v) = AppendItem(m, l, Empty, v)
          /\ ListSetReturns(m, l, idx, v)
      BY <1>2, <2>3 DEF ListSet, ListSetReturns, ListGet
    <3>2. Empty \in STRING
      BY ObjectAssumption
    <3> QED BY <2>1, <3>1, <3>2, AppendTells
  <2> QED BY <2>2, <2>3
<1> QED BY <1>1, <1>2

\* What is written of a leaf is its text.
LEMMA LeafTells ==
    ASSUME NEW m, NEW m2, NEW s \in Ids, m2.obj[s].type = m.obj[s].type,
           m.obj[s].items = <<>>, m2.obj[s].items = <<>>
    PROVE  ToString(m2, s) # ToString(m, s) <=> m2.obj[s].text # m.obj[s].text
<1>1. N \in 0 .. N
  BY IdsFacts
<1>2. Inside(m, N, s) = Inside(m2, N, s)
  BY DEF Inside
<1> QED BY <1>1, <1>2, ShownIs, ToStringIs

LEMMA StringSetTells ==
    ASSUME NEW m, NEW h, HeapInv(m, h), NEW s \in Ids, m.obj[s].type = "string",
           NEW text, NEW managed
    PROVE  LET set == StringSet(m, s, text, managed, "given")
               changed == ToString(set, s) # ToString(m, s)
           IN /\ StringSetReturns(m, s, text) <=> changed
              /\ changed => StringSetBuffReturns(m, s, text)
<1> DEFINE set == StringSet(m, s, text, managed, "given")
           changed == ToString(set, s) # ToString(m, s)
<1>1. m \in Heaps /\ m.obj[s].items = <<>>
  BY DEF HeapInv, Bare, Containers
<1>2. changed <=> text # NullText /\ m.obj[s].text # text
  <2>1. CASE text = NullText
    BY <2>1 DEF StringSet
  <2>2. CASE text # NullText /\ (m.obj[s].text # text \/ m.obj[s].managed)
    <3> DEFINE o == m.obj[s]
               b == [o EXCEPT !.text = text, !.managed = managed]
    <3>1. o \in Block
      BY <1>1, HeapFields
    <3>2. set.obj[s] = b
      BY <1>1, <2>2 DEF StringSet, Heaps
    <3> HIDE DEF o, set
    <3>3. b.text = text /\ b.type = o.type /\ b.items = o.items
      BY <3>1 DEF Block
    <3>4. set.obj[s].type = m.obj[s].type /\ set.obj[s].items = <<>>
      BY <1>1, <3>2, <3>3 DEF o
    <3>5. changed <=> set.obj[s].text # m.obj[s].text
      BY <1>1, <3>4, LeafTells
    <3> QED BY <2>2, <3>2, <3>3, <3>5
  <2>3. CASE text # NullText /\ ~(m.obj[s].text # text \/ m.obj[s].managed)
    <3>1. set.obj = m.obj
      BY <1>1, <2>3 DEF StringSet, Heaps
    <3>2. changed <=> set.obj[s].text # m.obj[s].text
      <4> HIDE DEF set
      <4> QED BY <1>1, <3>1, LeafTells
    <3> QED BY <2>3, <3>1, <3>2
  <2> QED BY <2>1, <2>2, <2>3
<1> QED BY <1>2 DEF StringSetReturns, StringSetBuffReturns

LEMMA ScalarSetTells ==
    ASSUME NEW m, NEW h, HeapInv(m, h), NEW i \in Ids, m.obj[i].type = "scalar", NEW text
    PROVE  ScalarSetReturns(m, i, text)
             <=> ToString(ScalarSet(m, i, text), i) # ToString(m, i)
<1> DEFINE set == ScalarSet(m, i, text)
           o == m.obj[i]
           b == [o EXCEPT !.text = text]
<1>1. m \in Heaps /\ m.obj[i].items = <<>>
  BY DEF HeapInv, Bare, Containers
<1>2. o \in Block
  BY <1>1, HeapFields
<1>3. set.obj[i] = b
  BY <1>1 DEF ScalarSet, Heaps
<1> HIDE DEF o, set
<1>4. b.text = text /\ b.type = o.type /\ b.items = o.items
  BY <1>2 DEF Block
<1>5. set.obj[i].type = m.obj[i].type /\ set.obj[i].items = <<>>
  BY <1>1, <1>3, <1>4 DEF o
<1>6. ToString(set, i) # ToString(m, i) <=> set.obj[i].text # m.obj[i].text
  BY <1>1, <1>5, LeafTells
<1> QED BY <1>3, <1>4, <1>6 DEF ScalarSetReturns, o, set

LEMMA InvAnswers == ObjectInv => AnswersTellChange
<1>1. ASSUME ObjectInv PROVE AnswersTellChange
  <2>1. /\ HeapInv(heap, held) /\ TextsOK(heap, 0) /\ 0 \in Nat
        /\ Keys \subseteq STRING
    BY <1>1, ObjectAssumption DEF ObjectInv
  <2>2. \A v \in Live(heap) : v \in Ids /\ heap.obj[v].type # "free"
    BY DEF Live
  <2>3. ASSUME NEW d \in Of("dict"), NEW key \in Keys, NEW v \in Live(heap)
        PROVE  DictSetReturns(heap, d, key, v)
                 <=> ToString(DictSet(heap, d, key, v), d) # ToString(heap, d)
    <3>1. d \in Ids /\ key \in STRING
      BY <2>1, KnownIsLive, TypesAre
    <3> QED BY <2>1, <2>2, <3>1, DictSetTells
  <2>4. ASSUME NEW l \in Of("list"), NEW v \in Live(heap), NEW idx \in Indexes(l)
        PROVE  ListSetReturns(heap, l, idx, v)
                 <=> ToString(ListSet(heap, l, idx, v), l) # ToString(heap, l)
    <3>1. l \in Ids
      BY KnownIsLive, TypesAre
    <3> QED BY <2>1, <2>2, <3>1, ListSetTells
  <2>5. ASSUME NEW s \in Of("string"), NEW text \in Texts \cup {NullText},
               NEW managed \in BOOLEAN
        PROVE  LET set == StringSet(heap, s, text, managed, "given")
                   changed == ToString(set, s) # ToString(heap, s)
               IN /\ StringSetReturns(heap, s, text) <=> changed
                  /\ changed => StringSetBuffReturns(heap, s, text)
    <3>1. s \in Ids /\ heap.obj[s].type = "string"
      BY KnownIsLive, TypesAre
    <3> QED BY <2>1, <3>1, StringSetTells
  <2>6. ASSUME NEW i \in Of("scalar"), NEW text \in Texts
        PROVE  ScalarSetReturns(heap, i, text)
                 <=> ToString(ScalarSet(heap, i, text), i) # ToString(heap, i)
    <3>1. i \in Ids /\ heap.obj[i].type = "scalar"
      BY KnownIsLive, TypesAre
    <3> QED BY <2>1, <3>1, ScalarSetTells
  <2> QED BY <2>3, <2>4, <2>5, <2>6 DEF AnswersTellChange
<1> QED BY <1>1

\* The setters of dicts, lists, strings, numbers and booleans answer whether the
\* text of the object has changed, and that of buffers answers true if it has:
\* the comparison the code makes before it puts the value in its place sees all
\* the text will show, and giving the old value back disturbs none of it.
THEOREM AnswersTellChangeHolds == ObjectSpec => []AnswersTellChange
<1> QED BY ObjectInvHolds, InvAnswers, PTL
===============================================================================
