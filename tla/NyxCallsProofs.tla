---------------------------- MODULE NyxCallsProofs ----------------------------
(***************************************************************************)
(* What NyxCalls states of the node's pure functions, for every input:     *)
(* texts, bytes, numbers and streams are read back from what was written.  *)
(***************************************************************************)
EXTENDS NyxCalls, SequenceTheorems, WellFoundedInduction, TLAPS

(***************************************************************************)
(* Pieces one after the other, and their sizes.                            *)
(***************************************************************************)

\* Every set of numbers has a least one.
LEMMA Smallest ==
    ASSUME NEW T, T \subseteq Nat, T # {}
    PROVE  \E x \in T : \A y \in T : x <= y
<1>1. IsWellFoundedOn(OpToRel(<,Nat), Nat)
  BY NatLessThanWellFounded
<1>2. PICK x \in T : \A y \in T : ~(<<y, x>> \in OpToRel(<,Nat))
  BY <1>1, WFMin
<1>3. \A y \in T : ~(y < x)
  BY <1>2 DEF OpToRel
<1>4. \A y \in T : x <= y
  <2> TAKE y \in T
  <2>1. x \in Nat /\ y \in Nat
    OBVIOUS
  <2> QED BY <1>3, <2>1
<1> QED BY <1>4

JoinStep(f, join, k) == IF k = 0 THEN <<>> ELSE join[k - 1] \o f[k]
IsJoin(f, join, n) == join = [k \in 0 .. n |-> JoinStep(f, join, k)]

SumStep(f, sum, k) == IF k = 0 THEN 0 ELSE sum[k - 1] + f[k]
IsSum(f, sum, n) == sum = [k \in 0 .. n |-> SumStep(f, sum, k)]

\* The function that Concat looks for exists.
LEMMA JoinExists ==
    ASSUME NEW f, NEW k \in Nat
    PROVE  \E F : IsJoin(f, F, k)
<1> DEFINE Bad == {n \in Nat : ~ \E F : IsJoin(f, F, n)}
<1> SUFFICES ASSUME Bad # {} PROVE FALSE
  OBVIOUS
<1>1. PICK x \in Bad : \A y \in Bad : x <= y
  BY Smallest
<1>2. PICK F : x # 0 => IsJoin(f, F, x - 1)
  <2>1. x # 0 => x - 1 \in Nat /\ x - 1 \notin Bad
    BY <1>1
  <2> QED BY <2>1
<1> DEFINE G == [n \in 0 .. x |-> IF n = x THEN JoinStep(f, F, x) ELSE F[n]]
<1>3. /\ x \in Nat /\ G = [n \in 0 .. x |-> G[n]] /\ G[x] = JoinStep(f, F, x)
      /\ \A n \in 0 .. x - 1 : G[n] = F[n]
  OBVIOUS
<1> HIDE DEF G, Bad
<1>4. ASSUME NEW n \in 0 .. x
      PROVE  G[n] = JoinStep(f, G, n)
  <2>1. G[n] = JoinStep(f, F, n)
    <3>1. n = x \/ (x # 0 /\ n \in 0 .. x - 1)
      BY <1>3
    <3>2. CASE n = x
      BY <1>3, <3>2
    <3>3. CASE x # 0 /\ n \in 0 .. x - 1
      <4>1. \A j \in 0 .. x - 1 : F[j] = JoinStep(f, F, j)
        BY <1>2, <3>3 DEF IsJoin
      <4>2. F[n] = JoinStep(f, F, n) /\ G[n] = F[n]
        BY <1>3, <3>3, <4>1
      <4> QED BY <4>2
    <3> QED BY <3>1, <3>2, <3>3
  <2>2. JoinStep(f, F, n) = JoinStep(f, G, n)
    <3>1. ASSUME n # 0 PROVE F[n - 1] = G[n - 1]
      <4>1. n - 1 \in 0 .. x - 1
        BY <1>3, <3>1
      <4> QED BY <1>3, <4>1
    <3> QED BY <3>1 DEF JoinStep
  <2> QED BY <2>1, <2>2
<1>5. IsJoin(f, G, x)
  BY <1>3, <1>4 DEF IsJoin
<1> QED BY <1>1, <1>5 DEF Bad

\* The recursive functions of NyxPieces are their equations.
LEMMA ConcatIs ==
    ASSUME NEW f, NEW n \in Nat
    PROVE  \E F : IsJoin(f, F, n) /\ Concat(f, n) = F[n]
<1> DEFINE F == CHOOSE F : IsJoin(f, F, n)
<1>1. IsJoin(f, F, n)
  BY JoinExists
<1>2. Concat(f, n) = F[n]
  BY DEF Concat, IsJoin, JoinStep
<1> QED BY <1>1, <1>2

\* Two such functions agree as far as both go.
LEMMA JoinAgree ==
    ASSUME NEW f, NEW n \in Nat, NEW m \in Nat, m <= n,
           NEW F, IsJoin(f, F, n), NEW G, IsJoin(f, G, m)
    PROVE  \A k \in 0 .. m : F[k] = G[k]
<1> DEFINE Bad == {k \in 0 .. m : F[k] # G[k]}
<1> SUFFICES ASSUME Bad # {} PROVE FALSE
  OBVIOUS
<1>1. PICK k \in Bad : \A j \in Bad : k <= j
  <2>1. Bad \subseteq Nat
    OBVIOUS
  <2> HIDE DEF Bad
  <2> QED BY <2>1, Smallest
<1>2. F[k] = JoinStep(f, F, k) /\ G[k] = JoinStep(f, G, k)
  <2>1. k \in 0 .. n /\ k \in 0 .. m
    OBVIOUS
  <2> QED BY <2>1 DEF IsJoin
<1>3. k # 0 => F[k - 1] = G[k - 1]
  <2>1. k # 0 => k - 1 \in 0 .. m /\ ~(k <= k - 1)
    OBVIOUS
  <2> QED BY <1>1, <2>1
<1>4. F[k] = G[k]
  BY <1>2, <1>3 DEF JoinStep
<1> QED BY <1>4

\* Concat by the number of pieces.
LEMMA ConcatNext ==
    ASSUME NEW f, NEW n \in Nat
    PROVE  /\ Concat(f, 0) = <<>>
           /\ n # 0 => Concat(f, n) = Concat(f, n - 1) \o f[n]
<1>1. Concat(f, 0) = <<>>
  <2>1. PICK F : IsJoin(f, F, 0) /\ Concat(f, 0) = F[0]
    BY ConcatIs
  <2> QED BY <2>1 DEF IsJoin, JoinStep
<1>2. ASSUME n # 0
      PROVE  Concat(f, n) = Concat(f, n - 1) \o f[n]
  <2>1. n - 1 \in Nat /\ n - 1 <= n /\ n - 1 \in 0 .. n - 1 /\ n \in 0 .. n
    BY <1>2
  <2>2. PICK F : IsJoin(f, F, n) /\ Concat(f, n) = F[n]
    BY ConcatIs
  <2>3. PICK G : IsJoin(f, G, n - 1) /\ Concat(f, n - 1) = G[n - 1]
    BY <2>1, ConcatIs
  <2>4. F[n - 1] = G[n - 1]
    BY <2>1, <2>2, <2>3, JoinAgree
  <2>5. F[n] = JoinStep(f, F, n)
    BY <2>1, <2>2 DEF IsJoin
  <2> QED BY <1>2, <2>2, <2>3, <2>4, <2>5 DEF JoinStep
<1> QED BY <1>1, <1>2

\* The function that Total looks for exists.
LEMMA SumExists ==
    ASSUME NEW f, NEW k \in Nat
    PROVE  \E F : IsSum(f, F, k)
<1> DEFINE Bad == {n \in Nat : ~ \E F : IsSum(f, F, n)}
<1> SUFFICES ASSUME Bad # {} PROVE FALSE
  OBVIOUS
<1>1. PICK x \in Bad : \A y \in Bad : x <= y
  BY Smallest
<1>2. PICK F : x # 0 => IsSum(f, F, x - 1)
  <2>1. x # 0 => x - 1 \in Nat /\ x - 1 \notin Bad
    BY <1>1
  <2> QED BY <2>1
<1> DEFINE G == [n \in 0 .. x |-> IF n = x THEN SumStep(f, F, x) ELSE F[n]]
<1>3. /\ x \in Nat /\ G = [n \in 0 .. x |-> G[n]] /\ G[x] = SumStep(f, F, x)
      /\ \A n \in 0 .. x - 1 : G[n] = F[n]
  OBVIOUS
<1> HIDE DEF G, Bad
<1>4. ASSUME NEW n \in 0 .. x
      PROVE  G[n] = SumStep(f, G, n)
  <2>1. G[n] = SumStep(f, F, n)
    <3>1. n = x \/ (x # 0 /\ n \in 0 .. x - 1)
      BY <1>3
    <3>2. CASE n = x
      BY <1>3, <3>2
    <3>3. CASE x # 0 /\ n \in 0 .. x - 1
      <4>1. \A j \in 0 .. x - 1 : F[j] = SumStep(f, F, j)
        BY <1>2, <3>3 DEF IsSum
      <4>2. F[n] = SumStep(f, F, n) /\ G[n] = F[n]
        BY <1>3, <3>3, <4>1
      <4> QED BY <4>2
    <3> QED BY <3>1, <3>2, <3>3
  <2>2. SumStep(f, F, n) = SumStep(f, G, n)
    <3>1. ASSUME n # 0 PROVE F[n - 1] = G[n - 1]
      <4>1. n - 1 \in 0 .. x - 1
        BY <1>3, <3>1
      <4> QED BY <1>3, <4>1
    <3> QED BY <3>1 DEF SumStep
  <2> QED BY <2>1, <2>2
<1>5. IsSum(f, G, x)
  BY <1>3, <1>4 DEF IsSum
<1> QED BY <1>1, <1>5 DEF Bad

LEMMA TotalIs ==
    ASSUME NEW f, NEW n \in Nat
    PROVE  \E F : IsSum(f, F, n) /\ Total(f, n) = F[n]
<1> DEFINE F == CHOOSE F : IsSum(f, F, n)
<1>1. IsSum(f, F, n)
  BY SumExists
<1>2. Total(f, n) = F[n]
  BY DEF Total, IsSum, SumStep
<1> QED BY <1>1, <1>2

\* Two such functions agree as far as both go.
LEMMA SumAgree ==
    ASSUME NEW f, NEW n \in Nat, NEW m \in Nat, m <= n,
           NEW F, IsSum(f, F, n), NEW G, IsSum(f, G, m)
    PROVE  \A k \in 0 .. m : F[k] = G[k]
<1> DEFINE Bad == {k \in 0 .. m : F[k] # G[k]}
<1> SUFFICES ASSUME Bad # {} PROVE FALSE
  OBVIOUS
<1>1. PICK k \in Bad : \A j \in Bad : k <= j
  <2>1. Bad \subseteq Nat
    OBVIOUS
  <2> HIDE DEF Bad
  <2> QED BY <2>1, Smallest
<1>2. F[k] = SumStep(f, F, k) /\ G[k] = SumStep(f, G, k)
  <2>1. k \in 0 .. n /\ k \in 0 .. m
    OBVIOUS
  <2> QED BY <2>1 DEF IsSum
<1>3. k # 0 => F[k - 1] = G[k - 1]
  <2>1. k # 0 => k - 1 \in 0 .. m /\ ~(k <= k - 1)
    OBVIOUS
  <2> QED BY <1>1, <2>1
<1>4. F[k] = G[k]
  BY <1>2, <1>3 DEF SumStep
<1> QED BY <1>4

\* Total by the number of pieces.
LEMMA TotalNext ==
    ASSUME NEW f, NEW n \in Nat
    PROVE  /\ Total(f, 0) = 0
           /\ n # 0 => Total(f, n) = Total(f, n - 1) + f[n]
<1>1. Total(f, 0) = 0
  <2>1. PICK F : IsSum(f, F, 0) /\ Total(f, 0) = F[0]
    BY TotalIs
  <2> QED BY <2>1 DEF IsSum, SumStep
<1>2. ASSUME n # 0
      PROVE  Total(f, n) = Total(f, n - 1) + f[n]
  <2>1. n - 1 \in Nat /\ n - 1 <= n /\ n - 1 \in 0 .. n - 1 /\ n \in 0 .. n
    BY <1>2
  <2>2. PICK F : IsSum(f, F, n) /\ Total(f, n) = F[n]
    BY TotalIs
  <2>3. PICK G : IsSum(f, G, n - 1) /\ Total(f, n - 1) = G[n - 1]
    BY <2>1, TotalIs
  <2>4. F[n - 1] = G[n - 1]
    BY <2>1, <2>2, <2>3, SumAgree
  <2>5. F[n] = SumStep(f, F, n)
    BY <2>1, <2>2 DEF IsSum
  <2> QED BY <1>2, <2>2, <2>3, <2>4, <2>5 DEF SumStep
<1> QED BY <1>1, <1>2

ArePieces(S, f, n) == \A k \in 1 .. n : f[k] \in Seq(S)
AreSizes(g, f, n) == \A k \in 1 .. n : g[k] = Len(f[k])

\* What pieces make one after the other, and how long it is.
LEMMA ConcatType ==
    ASSUME NEW S, NEW f, NEW n \in Nat, ArePieces(S, f, n)
    PROVE  \A k \in 0 .. n : Concat(f, k) \in Seq(S)
<1> DEFINE Bad == {k \in 0 .. n : Concat(f, k) \notin Seq(S)}
<1> SUFFICES ASSUME Bad # {} PROVE FALSE
  OBVIOUS
<1>1. PICK k \in Bad : \A j \in Bad : k <= j
  <2>1. Bad \subseteq Nat
    OBVIOUS
  <2> HIDE DEF Bad
  <2> QED BY <2>1, Smallest
<1>2. k \in Nat
  OBVIOUS
<1>3. k # 0
  <2>1. Concat(f, 0) = <<>>
    BY ConcatNext
  <2>2. <<>> \in Seq(S)
    BY EmptySeq
  <2> QED BY <2>1, <2>2
<1>4. k - 1 \in 0 .. n /\ k \in 1 .. n /\ ~(k <= k - 1)
  BY <1>2, <1>3
<1>5. Concat(f, k - 1) \in Seq(S)
  BY <1>1, <1>4
<1>6. Concat(f, k) = Concat(f, k - 1) \o f[k]
  BY <1>2, <1>3, ConcatNext
<1>7. f[k] \in Seq(S)
  BY <1>4 DEF ArePieces
<1>8. Concat(f, k) \in Seq(S)
  BY <1>5, <1>6, <1>7, ConcatProperties
<1> QED BY <1>8

LEMMA TotalType ==
    ASSUME NEW f, NEW n \in Nat, \A k \in 1 .. n : f[k] \in Nat
    PROVE  \A k \in 0 .. n : Total(f, k) \in Nat
<1> DEFINE Bad == {k \in 0 .. n : Total(f, k) \notin Nat}
<1> SUFFICES ASSUME Bad # {} PROVE FALSE
  OBVIOUS
<1>1. PICK k \in Bad : \A j \in Bad : k <= j
  <2>1. Bad \subseteq Nat
    OBVIOUS
  <2> HIDE DEF Bad
  <2> QED BY <2>1, Smallest
<1>2. k \in Nat
  OBVIOUS
<1>3. k # 0
  <2>1. Total(f, 0) = 0
    BY TotalNext
  <2> QED BY <2>1
<1>4. k - 1 \in 0 .. n /\ k \in 1 .. n /\ ~(k <= k - 1)
  BY <1>2, <1>3
<1>5. Total(f, k - 1) \in Nat
  BY <1>1, <1>4
<1>6. Total(f, k) = Total(f, k - 1) + f[k]
  BY <1>2, <1>3, TotalNext
<1>7. f[k] \in Nat
  BY <1>4
<1>8. Total(f, k) \in Nat
  BY <1>5, <1>6, <1>7
<1> QED BY <1>8

\* A total only grows.
LEMMA TotalGrows ==
    ASSUME NEW f, NEW n \in Nat, \A k \in 1 .. n : f[k] \in Nat
    PROVE  \A k \in 0 .. n : Total(f, k) <= Total(f, n)
<1> DEFINE Bad == {d \in 0 .. n : ~(Total(f, n - d) <= Total(f, n))}
<1>1. Bad = {}
  <2> SUFFICES ASSUME Bad # {} PROVE FALSE
    OBVIOUS
  <2>1. PICK d \in Bad : \A e \in Bad : d <= e
    <3>1. Bad \subseteq Nat
      OBVIOUS
    <3> HIDE DEF Bad
    <3> QED BY <3>1, Smallest
  <2>2. d \in Nat /\ d # 0 /\ d <= n
    <3>1. Total(f, n) \in Nat
      BY TotalType, SMTT(30)
    <3> QED BY <3>1
  <2>3. d - 1 \in 0 .. n /\ ~(d <= d - 1) /\ n - d \in 0 .. n /\ n - d + 1 \in 1 .. n
    BY <2>2
  <2>4. Total(f, n - (d - 1)) <= Total(f, n)
    BY <2>1, <2>3
  <2>5. n - (d - 1) = n - d + 1 /\ (n - d + 1) - 1 = n - d /\ n - d + 1 # 0 /\ n - d + 1 \in Nat
    BY <2>2
  <2>6. Total(f, n - d + 1) = Total(f, n - d) + f[n - d + 1]
    BY <2>5, TotalNext
  <2>7. Total(f, n - d) \in Nat /\ Total(f, n) \in Nat /\ f[n - d + 1] \in Nat
    <3>1. n \in 0 .. n
      OBVIOUS
    <3> QED BY <2>3, <3>1, TotalType
  <2>8. Total(f, n - d) <= Total(f, n)
    BY <2>4, <2>5, <2>6, <2>7
  <2> QED BY <2>8
<1> TAKE k \in 0 .. n
<1>2. n - k \in 0 .. n /\ n - (n - k) = k
  OBVIOUS
<1>3. n - k \notin Bad
  BY <1>1
<1> QED BY <1>2, <1>3

\* What is concatenated is as long as its pieces together.
LEMMA ConcatLength ==
    ASSUME NEW S, NEW f, NEW g, NEW n \in Nat,
           ArePieces(S, f, n), AreSizes(g, f, n)
    PROVE  \A k \in 0 .. n : Len(Concat(f, k)) = Total(g, k)
<1> DEFINE Bad == {k \in 0 .. n : Len(Concat(f, k)) # Total(g, k)}
<1> SUFFICES ASSUME Bad # {} PROVE FALSE
  OBVIOUS
<1>1. PICK k \in Bad : \A j \in Bad : k <= j
  <2>1. Bad \subseteq Nat
    OBVIOUS
  <2> HIDE DEF Bad
  <2> QED BY <2>1, Smallest
<1>2. k \in Nat
  OBVIOUS
<1>3. k # 0
  <2>1. Concat(f, 0) = <<>> /\ Len(<<>>) = 0 /\ Total(g, 0) = 0
    BY ConcatNext, TotalNext
  <2> QED BY <2>1
<1>4. k - 1 \in 0 .. n /\ k \in 1 .. n /\ ~(k <= k - 1)
  BY <1>2, <1>3
<1>5. Len(Concat(f, k - 1)) = Total(g, k - 1)
  BY <1>1, <1>4
<1>6. Concat(f, k) = Concat(f, k - 1) \o f[k] /\ Total(g, k) = Total(g, k - 1) + g[k]
  BY <1>2, <1>3, ConcatNext, TotalNext
<1>7. f[k] \in Seq(S) /\ g[k] = Len(f[k]) /\ Concat(f, k - 1) \in Seq(S)
  BY <1>4, ConcatType DEF ArePieces, AreSizes
<1>8. Len(Concat(f, k - 1) \o f[k]) = Len(Concat(f, k - 1)) + Len(f[k])
  BY <1>7, ConcatProperties
<1>9. Len(Concat(f, k)) = Total(g, k)
  BY <1>5, <1>6, <1>7, <1>8
<1> QED BY <1>9

\* Where a piece is.
LEMMA ConcatPlace ==
    ASSUME NEW S, NEW f, NEW n \in Nat, ArePieces(S, f, n), NEW k \in 1 .. n
    PROVE  /\ Len(Concat(f, k - 1)) \in Nat /\ Len(f[k]) \in Nat
           /\ Len(Concat(f, k)) = Len(Concat(f, k - 1)) + Len(f[k])
           /\ Len(Concat(f, k)) <= Len(Concat(f, n))
<1> DEFINE g == [j \in 1 .. n |-> Len(f[j])]
<1>1. \A j \in 1 .. n : g[j] = Len(f[j]) /\ g[j] \in Nat
  BY LenProperties DEF ArePieces
<1> HIDE DEF g
<1>2. \A j \in 0 .. n : Len(Concat(f, j)) = Total(g, j)
  <2>1. AreSizes(g, f, n)
    BY <1>1 DEF AreSizes
  <2> QED BY <2>1, ConcatLength
<1>3. \A j \in 0 .. n : Total(g, j) <= Total(g, n)
  BY <1>1, TotalGrows
<1>4. \A j \in 0 .. n : Total(g, j) \in Nat
  BY <1>1, TotalType
<1>5. k \in 0 .. n /\ k - 1 \in 0 .. n /\ n \in 0 .. n /\ k \in Nat /\ k # 0
  OBVIOUS
<1>6. Total(g, k) = Total(g, k - 1) + g[k]
  BY <1>5, TotalNext
<1> QED BY <1>1, <1>2, <1>3, <1>4, <1>5, <1>6

\* Where the byte r of the piece k is.
LEMMA ConcatAt ==
    ASSUME NEW S, NEW f, NEW n \in Nat, ArePieces(S, f, n),
           NEW k \in 1 .. n, NEW r \in 1 .. Len(f[k])
    PROVE  /\ Len(Concat(f, k - 1)) + r \in 1 .. Len(Concat(f, n))
           /\ Concat(f, n)[Len(Concat(f, k - 1)) + r] = f[k][r]
<1> DEFINE p == Len(Concat(f, k - 1)) + r
<1>1. f[k] \in Seq(S) /\ k \in Nat /\ k # 0 /\ k - 1 \in 0 .. n
  BY DEF ArePieces
<1>2. p \in Nat /\ p >= 1 /\ p <= Len(Concat(f, k))
  <2>1. /\ Len(Concat(f, k - 1)) \in Nat /\ Len(f[k]) \in Nat
        /\ Len(Concat(f, k)) = Len(Concat(f, k - 1)) + Len(f[k])
    BY ConcatPlace
  <2> QED BY <2>1
<1> DEFINE Bad == {j \in k .. n : Concat(f, j)[p] # f[k][r]}
<1>3. Bad = {}
  <2> SUFFICES ASSUME Bad # {} PROVE FALSE
    OBVIOUS
  <2>1. PICK j \in Bad : \A i \in Bad : j <= i
    <3>1. Bad \subseteq Nat
      BY <1>1
    <3> HIDE DEF Bad
    <3> QED BY <3>1, Smallest
  <2>2. j \in Nat /\ j # 0 /\ j \in 1 .. n /\ j - 1 \in 0 .. n /\ k <= j
    BY <1>1
  <2>3. Concat(f, j) = Concat(f, j - 1) \o f[j]
    BY <2>2, ConcatNext
  <2>4. f[j] \in Seq(S) /\ Concat(f, j - 1) \in Seq(S)
    BY <2>2, ConcatType DEF ArePieces
  <2>5. CASE j = k
    <3>1. Concat(f, j)[p] = f[k][r]
      BY <2>3, <2>4, <2>5, ConcatProperties
    <3> QED BY <3>1
  <2>6. CASE j # k
    <3>1. j - 1 \in k .. n /\ ~(j <= j - 1)
      BY <2>2, <2>6
    <3>2. Concat(f, j - 1)[p] = f[k][r]
      BY <2>1, <3>1
    <3>3. Len(Concat(f, k)) <= Len(Concat(f, j - 1))
      <4>1. j - 1 \in Nat /\ k \in 1 .. j - 1 /\ ArePieces(S, f, j - 1)
        BY <2>2, <3>1 DEF ArePieces
      <4> QED BY <4>1, ConcatPlace
    <3>4. p \in 1 .. Len(Concat(f, j - 1))
      <4>1. Len(Concat(f, j - 1)) \in Nat /\ Len(Concat(f, k)) \in Nat
        <5>1. k \in 0 .. n
          OBVIOUS
        <5>2. Concat(f, k) \in Seq(S)
          BY <5>1, ConcatType
        <5> QED BY <2>4, <5>2, LenProperties
      <4> QED BY <1>2, <3>3, <4>1
    <3>5. Concat(f, j)[p] = Concat(f, j - 1)[p]
      BY <2>3, <2>4, <3>4, ConcatProperties
    <3> QED BY <3>2, <3>5
  <2> QED BY <2>5, <2>6
<1>4. n \notin Bad /\ n \in k .. n
  BY <1>1, <1>3
<1>5. Len(Concat(f, k)) <= Len(Concat(f, n)) /\ Len(Concat(f, n)) \in Nat
  <2>1. n \in 0 .. n
    OBVIOUS
  <2> QED BY <2>1, ConcatPlace, ConcatType, LenProperties
<1> QED BY <1>2, <1>4, <1>5, <1>1, ConcatPlace

(***************************************************************************)
(* Every call is made on an input of its kind and answered once.           *)
(***************************************************************************)
Made(name, inputs, answer) == op = name => input \in inputs /\ (answered => output = answer)

\* A number is printed as one of the texts it may have.
Formatted ==
    op = "format" =>
        /\ input \in FormatInputs
        /\ answered => \E text \in VariantToString(input.format, input.variant) :
                          output = FormatAnswer(input.format, text)

CallsInv ==
    /\ Made("text", TextInputs, TextAnswer(input))
    /\ Made("bytes", ByteInputs, BytesAnswer(input))
    /\ Made("character", CharacterInputs, CharacterAnswer(input))
    /\ Formatted
    /\ Made("stream", StreamInputs, StreamAnswer(input))

\* What is answered is the answer of the function called, on what it was given
\* (the program that calls the functions).
THEOREM CallsInvHolds == CallsSpec => []CallsInv
<1>1. CallsInit => CallsInv
  BY DEF CallsInit, Given, CallsInv, Made, Formatted
<1>2. CallsInv /\ [CallsNext]_vars => CallsInv'
  <2> SUFFICES ASSUME CallsInv, [CallsNext]_vars PROVE CallsInv'
    OBVIOUS
  <2>1. CASE WriteAndReadText
    BY <2>1 DEF WriteAndReadText, Call, CallsInv, Made, Formatted
  <2>2. CASE EncodeBytes
    BY <2>2 DEF EncodeBytes, Call, CallsInv, Made, Formatted
  <2>3. CASE ReadCharacter
    BY <2>3 DEF ReadCharacter, Call, CallsInv, Made, Formatted
  <2>4. CASE PrintAndReadNumber
    <3>1. PICK text \in VariantToString(input.format, input.variant) :
             Call("format", FormatAnswer(input.format, text))
      BY <2>4 DEF PrintAndReadNumber
    <3>2. op' = "format" /\ op = "format" /\ input' = input
          /\ output' = FormatAnswer(input.format, text)
      BY <3>1 DEF Call
    <3>3. Formatted'
      BY <3>2 DEF CallsInv, Formatted
    <3> QED BY <3>2, <3>3 DEF CallsInv, Made
  <2>5. CASE Publish
    BY <2>5 DEF Publish, Call, CallsInv, Made, Formatted
  <2>6. CASE UNCHANGED vars
    BY <2>6 DEF vars, CallsInv, Made, Formatted
  <2> QED BY <2>1, <2>2, <2>3, <2>4, <2>5, <2>6 DEF CallsNext
<1> QED BY <1>1, <1>2, PTL DEF CallsSpec

(***************************************************************************)
(* Numbers.                                                                *)
(***************************************************************************)

\* The scale of each number of decimals: sixty minutes of whole parts.
LEMMA Scales ==
    ASSUME NEW f
    PROVE  /\ PerDegree(f) \in {60, 600, 3600, 36000, 360000}
           /\ PerMinute(f) \in {1, 10, 60, 600, 6000}
           /\ PerDegree(f) = 60 * PerMinute(f)
  BY DEF PerDegree, PerMinute

Whole(f, x) == x.deg * 2 * PerDegree(f) + x.half

\* Whatever its degrees, a double under "m" is printed as a sexagesimal.
LEMMA SexagesimalKind ==
    ASSUME NEW f, NEW value, NEW T \in Sexagesimal(f, value)
    PROVE  T.kind = "sexagesimal"
<1>1. PICK negatives, degs, mms, rests : T \in SexagesimalTexts(negatives, degs, mms, rests)
  BY DEF Sexagesimal
<1> QED BY <1>1 DEF SexagesimalTexts

\* A double is printed as one text, as long as the degree after its own is an
\* int.
LEMMA SexagesimalText ==
    ASSUME NEW f, NEW value \in [negative : BOOLEAN, deg : Nat, half : 0..2 * PerDegree(f) - 1],
           value.deg + 1 \in Ints, NEW T \in Sexagesimal(f, value)
    PROVE  LET parts == (value.half + 1) \div 2
               mm == parts \div PerMinute(f)
           IN /\ T.kind = "sexagesimal" /\ T.negative = value.negative
              /\ T.deg = IF mm >= 60 THEN value.deg + 1 ELSE value.deg
              /\ T.mm = IF mm >= 60 THEN 0 ELSE mm
              /\ T.rest = parts % PerMinute(f)
<1> DEFINE parts == (value.half + 1) \div 2
           mm == parts \div PerMinute(f)
           rest == parts % PerMinute(f)
<1>1. value.deg \in Ints /\ AnInt(value.deg + 1) = {value.deg + 1}
  <2>1. value.deg \in Nat
    OBVIOUS
  <2>2. PICK W \in Nat : W = Word32 \div 2
    BY FormatAssumption
  <2>3. value.deg \in -W .. W - 1
    BY <2>1, <2>2 DEF Ints
  <2> QED BY <2>2, <2>3 DEF Ints, AnInt
<1>2. T \in SexagesimalTexts({value.negative},
                             IF mm >= 60 THEN {value.deg + 1} ELSE {value.deg},
                             {IF mm >= 60 THEN 0 ELSE mm}, {rest})
  BY <1>1 DEF Sexagesimal
<1> HIDE DEF mm, rest
<1>3. /\ T.kind \in {"sexagesimal"} /\ T.negative \in {value.negative}
      /\ T.deg \in (IF mm >= 60 THEN {value.deg + 1} ELSE {value.deg})
      /\ T.mm \in {IF mm >= 60 THEN 0 ELSE mm} /\ T.rest \in {rest}
  BY <1>2 DEF SexagesimalTexts
<1> QED BY <1>3 DEF mm, rest

\* Printing a double keeps minutes and parts below sixty, and rounds to the
\* nearest part, whatever is carried.
LEMMA SexagesimalReadBack ==
    ASSUME NEW f, NEW value \in [negative : BOOLEAN, deg : Nat, half : 0..2 * PerDegree(f) - 1],
           value.deg + 1 \in Ints, NEW T \in Sexagesimal(f, value)
    PROVE  LET read == SextOd(f, T)
           IN /\ T.kind = "sexagesimal"
              /\ T.mm < 60 /\ T.rest < PerMinute(f)
              /\ read.type = "double"
              /\ read.value.negative = value.negative
              /\ Whole(f, read.value) - Whole(f, value) \in {0, 1}
              /\ Whole(f, read.value) % 2 = 0
<1> DEFINE P == PerMinute(f)
           D == PerDegree(f)
           parts == (value.half + 1) \div 2
           mm == parts \div P
           rest == parts % P
<1>1. /\ P \in {1, 10, 60, 600, 6000} /\ D = 60 * P /\ P \in Nat /\ D \in Nat
  BY Scales
<1>2. value.half \in Nat /\ value.half < 2 * D /\ value.deg \in Nat
  BY <1>1
<1>7. /\ T.kind = "sexagesimal" /\ T.negative = value.negative /\ T.rest = rest
      /\ T.mm = IF mm >= 60 THEN 0 ELSE mm
      /\ T.deg = IF mm >= 60 THEN value.deg + 1 ELSE value.deg
  BY SexagesimalText
<1> HIDE DEF P, D
<1>3. parts \in Nat /\ parts <= D /\ 2 * parts - value.half \in {0, 1}
  BY <1>1, <1>2
<1> HIDE DEF parts
<1>4. mm \in Nat /\ rest \in Nat /\ rest < P /\ parts = P * mm + rest
  BY <1>1, <1>3
<1>5. mm <= 60 /\ (mm >= 60 => mm = 60 /\ rest = 0)
  BY <1>1, <1>3, <1>4
<1> HIDE DEF mm, rest
<1>8. /\ T.mm < 60 /\ T.mm \in 0..59 /\ T.rest \in 0..P - 1 /\ T.deg \in Nat /\ ~(T.deg < 0)
  BY <1>1, <1>2, <1>4, <1>5, <1>7
<1> DEFINE R == SextOd(f, T)
           h == 2 * (T.mm * P + T.rest)
<1>9. R = [type |-> "double", value |-> [negative |-> T.negative, deg |-> T.deg, half |-> h]]
  BY <1>7, <1>8 DEF SextOd, P
<1>10. R.type = "double" /\ R.value.negative = T.negative /\ R.value.deg = T.deg /\ R.value.half = h
  BY <1>9
<1> HIDE DEF R
<1> DEFINE X == value.deg * D
<1>11. X \in Nat /\ value.deg * 2 * D = 2 * X /\ (value.deg + 1) * 2 * D = 2 * X + 2 * D
  BY <1>1, <1>2
<1>12. h = 2 * (T.mm * P + T.rest) /\ T.mm * P \in Nat
  BY <1>1, <1>8
<1> HIDE DEF h, X
<1>13. T.deg * 2 * D + h = 2 * X + 2 * parts
  <2>1. CASE mm >= 60
    <3>1. T.deg = value.deg + 1 /\ T.mm = 0 /\ T.rest = 0 /\ parts = D
      BY <1>1, <1>4, <1>5, <1>7, <2>1
    <3>2. h = 0
      BY <1>1, <1>12, <3>1
    <3> QED BY <1>1, <1>11, <3>1, <3>2
  <2>2. CASE ~(mm >= 60)
    <3>1. T.deg = value.deg /\ h = 2 * parts
      <4>1. T.mm = mm /\ T.rest = rest
        BY <1>7, <2>2
      <4>2. T.mm * P + T.rest = parts
        BY <1>1, <1>4, <4>1
      <4> QED BY <1>7, <1>12, <2>2, <4>2
    <3> QED BY <1>11, <3>1
  <2> QED BY <2>1, <2>2
<1>14. Whole(f, R.value) = 2 * X + 2 * parts /\ Whole(f, value) = 2 * X + value.half
  BY <1>10, <1>11, <1>13 DEF D, Whole
<1>15. /\ Whole(f, R.value) - Whole(f, value) \in {0, 1} /\ Whole(f, R.value) % 2 = 0
  BY <1>2, <1>3, <1>11, <1>14
<1> QED BY <1>4, <1>7, <1>8, <1>10, <1>15 DEF P, D, R

\* A number that its conversion prints, of the width the conversion reads.
LEMMA CastKeeps ==
    ASSUME NEW format, NEW v, IsVariant(v, format), v.type # "double"
    PROVE  Cast(v.type, v.value) = v.value
<1> DEFINE W == Word32 \div 2
<1>1. Word32 = 2 * W /\ W \in Nat /\ W >= 1 /\ Word32 \in Nat
  BY FormatAssumption
<1> HIDE DEF W
<1>2. CASE v.type = "int"
  <2>1. v.value \in -W .. W - 1
    BY <1>2 DEF IsVariant, Ints, W
  <2>2. (v.value + W) % Word32 = v.value + W
    <3>1. v.value + W \in 0 .. Word32 - 1
      BY <1>1, <2>1
    <3> QED BY <1>1, <3>1
  <2> QED BY <1>1, <1>2, <2>1, <2>2 DEF Cast, W
<1>3. CASE v.type = "uint"
  <2>1. v.value \in 0 .. Word32 - 1
    BY <1>3 DEF IsVariant
  <2>2. v.value % Word32 = v.value
    BY <1>1, <2>1
  <2> QED BY <1>3, <2>2 DEF Cast
<1>4. CASE v.type # "int" /\ v.type # "uint"
  BY <1>4 DEF Cast
<1> QED BY <1>2, <1>3, <1>4

\* Half of the last digit at most is lost, whichever way it is rounded.
LEMMA RoundingsRound ==
    ASSUME NEW half \in Nat, NEW h \in Roundings(half)
    PROVE  h \in Nat /\ h - half \in -1..1 /\ h % 2 = 0
<1>1. CASE half % 2 = 0
  BY <1>1 DEF Roundings
<1>2. CASE half % 2 # 0 /\ half % 4 = 1
  <2>1. h = half - 1 \/ h = half + 1
    BY <1>2 DEF Roundings
  <2>2. half >= 1 /\ (half - 1) % 2 = 0 /\ (half + 1) % 2 = 0
    BY <1>2
  <2> QED BY <2>1, <2>2
<1>3. CASE half % 2 # 0 /\ half % 4 # 1
  <2>1. h = half + 1
    BY <1>3 DEF Roundings
  <2>2. (half + 1) % 2 = 0
    BY <1>3
  <2> QED BY <2>1, <2>2
<1> QED BY <1>1, <1>2, <1>3

\* What is printed is read back, format by format.
LEMMA FormatAnswerReadsBack ==
    ASSUME NEW i \in FormatInputs, op = "format", answered, input = i,
           NEW text \in VariantToString(i.format, i.variant),
           output = FormatAnswer(i.format, text)
    PROVE  FormatsReadBack
<1> DEFINE s == i.format
           v == i.variant
           format == ParseFormat(s)
           read == StringToVariant(s, text)
           type == TypePrinted(format.lcnt, format.conv)
<1>1. IsVariant(v, format) /\ IsFormat(s)
  BY CallsAssumption
<1>2. output.text = text /\ output.read = read
  BY DEF FormatAnswer
<1> HIDE DEF read
<1> SUFFICES ASSUME format.ok, v.type = type
             PROVE  /\ read.type = v.type
                    /\ format.lcnt = 2 => text = Zero
                    /\ (format.lcnt # 2 /\ \A t \in Written(s, format, v) :
                           ~(PrintedLength(s, format, v, t) > BufferSize)) => text # Zero
                    /\ text = Zero => read.value = IF format.conv = "m" THEN NotANumber.value
                                                   ELSE Nought(v.type)
                    /\ (format.conv = "m" /\ format.lcnt # 2 /\ format.w <= BufferSize
                        /\ v.value.deg + 1 \in Ints) =>
                          /\ text.mm < 60 /\ text.rest < PerMinute(format.f)
                          /\ read.value.negative = v.value.negative
                          /\ Whole(format.f, read.value) - Whole(format.f, v.value) \in {0, 1}
                          /\ Whole(format.f, read.value) % 2 = 0
                    /\ (format.conv # "m" /\ text # Zero) =>
                          IF s.prefix > 0 THEN read.value = Nought(v.type)
                          ELSE IF v.type = "double"
                          THEN /\ read.value.negative = v.value.negative
                               /\ read.value.half - v.value.half \in -1..1
                               /\ read.value.half % 2 = 0
                          ELSE read.value = v.value
  BY <1>2 DEF FormatsReadBack, Whole
<1>3. /\ text \in VariantToString(s, v) /\ read = StringToVariant(s, text)
      /\ format = ParseFormat(s) /\ type = TypePrinted(format.lcnt, format.conv)
  BY DEF read
<1>4. format.w \in Nat
  <2>1. format.w = 0 \/ format.w = s.w
    BY ZenonT(30) DEF ParseFormat, Rejected
  <2>2. s.w \in Nat
    BY <1>1 DEF IsFormat
  <2> HIDE DEF format, s
  <2> QED BY <2>1, <2>2
<1> HIDE DEF s, v, format, type
<1>5. type # "none" /\ type \in {"int", "uint", "long", "ulong", "double"}
  BY <1>1 DEF IsVariant
<1>5a. ASSUME format.lcnt # 2,
               \A t \in Written(s, format, v) : ~(PrintedLength(s, format, v, t) > BufferSize)
       PROVE  text # Zero
  <2>1. text \in {IF PrintedLength(s, format, v, t) > BufferSize THEN Zero ELSE t :
                     t \in Written(s, format, v)}
    BY <1>3, <1>5a DEF VariantToString
  <2>2. text \in Written(s, format, v)
    BY <1>5a, <2>1
  <2>3. CASE format.conv = "m"
    <3>1. text \in Sexagesimal(format.f, v.value)
      BY <2>2, <2>3 DEF Written
    <3>2. text.kind = "sexagesimal"
      BY <3>1, SexagesimalKind
    <3> QED BY <3>2 DEF Zero
  <2>4. CASE format.conv # "m"
    <3>1. PICK x \in Printed(v) : text = IF s.prefix > 0 THEN Prefixed(x) ELSE Number(x)
      BY <2>2, <2>4 DEF Written
    <3>2. text.kind \in {"prefixed", "number"}
      BY <3>1 DEF Prefixed, Number
    <3> QED BY <3>2 DEF Zero
  <2> QED BY <2>3, <2>4
<1>6. CASE format.conv = "m"
  <2>1. type = "double" /\ read = SextOd(format.f, text)
    BY <1>3, <1>5, <1>6 DEF TypePrinted, StringToVariant
  <2>2. read.type = "double"
    BY <2>1 DEF SextOd, NotANumber
  <2>3. ASSUME text = Zero PROVE read = NotANumber
    <3>1. text.kind = "zero"
      BY <2>3 DEF Zero
    <3> QED BY <2>1, <3>1 DEF SextOd
  <2>4. ASSUME format.lcnt = 2 PROVE text = Zero
    BY <1>3, <2>4 DEF VariantToString
  <2>5. ASSUME format.lcnt # 2, format.w <= BufferSize, v.value.deg + 1 \in Ints
        PROVE  /\ text.mm < 60 /\ text.rest < PerMinute(format.f)
               /\ read.value.negative = v.value.negative
               /\ Whole(format.f, read.value) - Whole(format.f, v.value) \in {0, 1}
               /\ Whole(format.f, read.value) % 2 = 0
    <3>1. text \in {IF PrintedLength(s, format, v, t) > BufferSize THEN Zero ELSE t :
                       t \in Written(s, format, v)}
      BY <1>3, <2>5 DEF VariantToString
    <3>2. PICK t \in Written(s, format, v) :
             text = IF PrintedLength(s, format, v, t) > BufferSize THEN Zero ELSE t
      BY <3>1
    <3>3. PrintedLength(s, format, v, t) = format.w /\ ~(format.w > BufferSize)
      BY <1>4, <1>6, <2>5, FormatAssumption DEF PrintedLength
    <3>4. text \in Sexagesimal(format.f, v.value)
      BY <1>6, <3>2, <3>3 DEF Written
    <3>5. v.value \in [negative : BOOLEAN, deg : Nat, half : 0 .. 2 * PerDegree(format.f) - 1]
      BY <1>1, <1>6, <2>1 DEF IsVariant
    <3> QED BY <2>1, <2>5, <3>4, <3>5, SexagesimalReadBack
  <2> QED BY <1>5a, <1>6, <2>1, <2>2, <2>3, <2>4, <2>5
<1>7. CASE format.conv # "m"
  <2>1. read = IF text.kind # "number" THEN [type |-> type, value |-> Nought(type)]
               ELSE [type |-> type, value |-> Cast(type, text.value)]
    BY <1>3, <1>5, <1>7 DEF StringToVariant
  <2>2. read.type = type
    BY <2>1
  <2>3. ASSUME format.lcnt = 2 PROVE text = Zero
    BY <1>3, <2>3 DEF VariantToString
  <2>4. ASSUME text = Zero PROVE read.value = Nought(type)
    <3>1. text.kind = "zero"
      BY <2>4 DEF Zero
    <3> QED BY <2>1, <3>1
  <2>5. ASSUME text # Zero
        PROVE  IF s.prefix > 0 THEN read.value = Nought(v.type)
               ELSE IF v.type = "double"
               THEN /\ read.value.negative = v.value.negative
                    /\ read.value.half - v.value.half \in -1..1
                    /\ read.value.half % 2 = 0
               ELSE read.value = v.value
    <3>1. text \in {IF PrintedLength(s, format, v, t) > BufferSize THEN Zero ELSE t :
                       t \in Written(s, format, v)}
      BY <1>3, <2>5 DEF VariantToString
    <3>2. text \in Written(s, format, v)
      BY <2>5, <3>1
    <3>3. PICK x \in Printed(v) : text = IF s.prefix > 0 THEN Prefixed(x) ELSE Number(x)
      BY <1>7, <3>2 DEF Written
    <3>4. CASE s.prefix > 0
      <4>1. text.kind = "prefixed"
        BY <3>3, <3>4 DEF Prefixed
      <4> QED BY <2>1, <3>4, <4>1
    <3>5. CASE ~(s.prefix > 0)
      <4>1. text.kind = "number" /\ text.value = x
        BY <3>3, <3>5 DEF Number
      <4>2. read.value = Cast(type, x)
        BY <2>1, <4>1
      <4>3. CASE v.type = "double"
        <5>1. v.value \in [negative : BOOLEAN, half : Nat, size : Nat]
          BY <1>1, <1>7, <4>3 DEF IsVariant
        <5>2. PICK h \in Roundings(v.value.half) : x = [v.value EXCEPT !.half = h]
          BY <4>3 DEF Printed
        <5>3. x.negative = v.value.negative /\ x.half = h
          BY <5>1, <5>2
        <5>4. read.value = x
          BY <4>2, <4>3 DEF Cast
        <5>5. h - v.value.half \in -1..1 /\ h % 2 = 0
          BY <5>1, RoundingsRound
        <5> QED BY <3>5, <4>3, <5>3, <5>4, <5>5
      <4>4. CASE v.type # "double"
        <5>1. x = v.value
          BY <4>4 DEF Printed
        <5>2. Cast(v.type, v.value) = v.value
          BY <1>1, <4>4, CastKeeps
        <5> QED BY <3>5, <4>2, <4>4, <5>1, <5>2
      <4> QED BY <4>3, <4>4
    <3> QED BY <3>4, <3>5
  <2> QED BY <1>5a, <1>7, <2>2, <2>3, <2>4, <2>5
<1> QED BY <1>6, <1>7

\* A number its format prints is read back with its type and sign, to the
\* nearest last digit, with minutes and seconds below sixty, as long as its
\* degrees are those of an int; what is printed as "0" for want of room, or has
\* something before it, is read as zero (internal_variant_to_string,
\* internal_string_to_variant).
THEOREM FormatsReadBackCorrect == CallsSpec => []FormatsReadBack
<1>1. CallsInv => FormatsReadBack
  <2> SUFFICES ASSUME CallsInv, Done("format") PROVE FormatsReadBack
    BY DEF FormatsReadBack
  <2>1. op = "format" /\ answered
    BY DEF Done
  <2>2. PICK text \in VariantToString(input.format, input.variant) :
           output = FormatAnswer(input.format, text)
    BY <2>1 DEF CallsInv, Formatted
  <2>3. input \in FormatInputs
    BY <2>1 DEF CallsInv, Formatted
  <2> QED BY <2>1, <2>2, <2>3, FormatAnswerReadsBack
<1> QED BY <1>1, CallsInvHolds, PTL

(***************************************************************************)
(* Characters.                                                             *)
(***************************************************************************)
ReadsBackAs(s, u) == s \in Seq(0..255) /\ CodePoint(s) = u /\ Len(s) = Utf8Size(u)

\* UTF-8 has one length for each range, and the code point can be read back.
LEMMA Utf8ReadsBack ==
    ASSUME NEW u \in Nat
    PROVE  ReadsBackAs(Utf8(u), IF IsUnicode(u) THEN u ELSE Question)
<1>1. CASE ~IsUnicode(u)
  <2>1. Utf8(u) = <<63>>
    BY <1>1, SMT DEF Utf8, Question
  <2>2. CodePoint(<<63>>) = 63
    BY SMT DEF CodePoint
  <2>3. Len(<<63>>) = Utf8Size(63) /\ <<63>> \in Seq(0..255)
    BY SMT DEF Utf8Size
  <2> QED BY <1>1, <2>1, <2>2, <2>3, SMT DEF Question, ReadsBackAs
<1>2. CASE IsUnicode(u) /\ u <= 127
  <2>1. Utf8(u) = <<u>> /\ u \in 0..255
    BY <1>2, SMT DEF Utf8
  <2>2. CodePoint(<<u>>) = u
    BY <2>1, SMT DEF CodePoint
  <2>3. Len(<<u>>) = Utf8Size(u) /\ <<u>> \in Seq(0..255)
    BY <1>2, <2>1, SMT DEF Utf8Size
  <2> QED BY <1>2, <2>1, <2>2, <2>3, SMT DEF ReadsBackAs
<1>3. CASE IsUnicode(u) /\ ~(u <= 127) /\ u <= 2047
  <2> DEFINE x == 192 + (u \div 64)
             y == Continuation(u)
  <2>1. Utf8(u) = <<x, y>>
    BY <1>3, SMT DEF Utf8
  <2>2. x \in 0..255 /\ y \in 0..255 /\ 64 * (x - 192) + (y - 128) = u
    BY <1>3, SMT DEF Continuation
  <2> HIDE DEF x, y
  <2>3. CodePoint(<<x, y>>) = u
    BY <2>2, SMT DEF CodePoint
  <2>4. Len(<<x, y>>) = Utf8Size(u) /\ <<x, y>> \in Seq(0..255)
    BY <1>3, <2>2, SMT DEF Utf8Size
  <2> QED BY <1>3, <2>1, <2>3, <2>4, SMT DEF ReadsBackAs
<1>4. CASE IsUnicode(u) /\ ~(u <= 127) /\ ~(u <= 2047) /\ u <= 65535
  <2> DEFINE x == 224 + (u \div 4096)
             y == Continuation(u \div 64)
             z == Continuation(u)
  <2>1. Utf8(u) = <<x, y, z>>
    BY <1>4, SMT DEF Utf8
  <2>2. /\ x \in 0..255 /\ y \in 0..255 /\ z \in 0..255
        /\ 4096 * (x - 224) + 64 * (y - 128) + (z - 128) = u
    BY <1>4, SMT DEF Continuation
  <2> HIDE DEF x, y, z
  <2>3. CodePoint(<<x, y, z>>) = u
    BY <2>2, SMT DEF CodePoint
  <2>4. Len(<<x, y, z>>) = Utf8Size(u) /\ <<x, y, z>> \in Seq(0..255)
    BY <1>4, <2>2, SMT DEF Utf8Size
  <2> QED BY <1>4, <2>1, <2>3, <2>4, SMT DEF ReadsBackAs
<1>5. CASE IsUnicode(u) /\ ~(u <= 127) /\ ~(u <= 2047) /\ ~(u <= 65535)
  <2> DEFINE w == 240 + (u \div 262144)
             x == Continuation(u \div 4096)
             y == Continuation(u \div 64)
             z == Continuation(u)
  <2>1. Utf8(u) = <<w, x, y, z>>
    BY <1>5, SMT DEF Utf8
  <2>2. /\ w \in 0..255 /\ x \in 0..255 /\ y \in 0..255 /\ z \in 0..255
        /\ 262144 * (w - 240) + 4096 * (x - 128) + 64 * (y - 128) + (z - 128) = u
    BY <1>5, SMT DEF Continuation, IsUnicode
  <2> HIDE DEF w, x, y, z
  <2>3. CodePoint(<<w, x, y, z>>) = u
    BY <2>2, SMT DEF CodePoint
  <2>4. Len(<<w, x, y, z>>) = Utf8Size(u) /\ <<w, x, y, z>> \in Seq(0..255)
    BY <1>5, <2>2, SMT DEF Utf8Size
  <2> QED BY <1>5, <2>1, <2>3, <2>4, SMT DEF ReadsBackAs
<1> QED BY <1>1, <1>2, <1>3, <1>4, <1>5, SMT

\* Sequences by their length, and two of them one after the other.
OfLength(S, s, n) == n \in Nat /\ s \in Seq(S) /\ Len(s) = n
Joins(u, s, t, m, n) ==
    /\ Len(u) = m + n
    /\ \A i \in 1 .. m : u[i] = s[i]
    /\ \A i \in 1 .. n : u[m + i] = t[i]

\* The places of two sequences one after the other.
LEMMA TwoPieces ==
    ASSUME NEW S, NEW s, NEW t, NEW m, NEW n,
           OfLength(S, s, m), OfLength(S, t, n)
    PROVE  OfLength(S, s \o t, m + n) /\ Joins(s \o t, s, t, m, n)
<1>1. m \in Nat /\ n \in Nat /\ s \in Seq(S) /\ t \in Seq(S) /\ Len(s) = m /\ Len(t) = n
  BY DEF OfLength
<1>2. /\ s \o t \in Seq(S) /\ Len(s \o t) = m + n
      /\ \A i \in 1 .. m + n : (s \o t)[i] = IF i <= m THEN s[i] ELSE t[i - m]
  BY <1>1, ConcatProperties
<1> DEFINE u == s \o t
<1> HIDE DEF u
<1>3. \A i \in 1 .. m : u[i] = s[i]
  BY <1>1, <1>2 DEF u
<1>4. \A i \in 1 .. n : u[m + i] = t[i]
  <2> SUFFICES ASSUME NEW i \in 1 .. n PROVE u[m + i] = t[i]
    OBVIOUS
  <2>1. m + i \in 1 .. m + n /\ ~(m + i <= m) /\ (m + i) - m = i
    BY <1>1
  <2> QED BY <1>2, <2>1 DEF u
<1> QED BY <1>1, <1>2, <1>3, <1>4 DEF u, OfLength, Joins

\* The function jsoncpy computes.
CopyStep(s, copy, left) ==
    LET at == Len(s) - left + 1
    IN IF left = 0 THEN Readable(<<>>)
       ELSE IF s[at] # Backslash THEN Before(<<s[at]>>, copy[left - 1])
       ELSE IF left = 1 THEN Unreadable
       ELSE IF s[at + 1] # 117 THEN Before(<<Unescaped(s[at + 1])>>, copy[left - 2])
       ELSE IF left < 6 THEN Unreadable
       ELSE Before(Utf8(HexValue(SubSeq(s, at + 2, at + 5))), copy[left - 6])
IsCopy(s, copy, n) == copy = [left \in 0 .. n |-> CopyStep(s, copy, left)]

\* jsoncpy is its equation.
LEMMA CopyExists ==
    ASSUME NEW s, NEW k \in Nat
    PROVE  \E F : IsCopy(s, F, k)
<1> DEFINE Bad == {n \in Nat : ~ \E F : IsCopy(s, F, n)}
<1> SUFFICES ASSUME Bad # {} PROVE FALSE
  OBVIOUS
<1>1. PICK x \in Bad : \A y \in Bad : x <= y
  BY Smallest
<1>2. PICK F : x # 0 => IsCopy(s, F, x - 1)
  <2>1. x # 0 => x - 1 \in Nat /\ x - 1 \notin Bad
    BY <1>1
  <2> QED BY <2>1
<1> DEFINE G == [n \in 0 .. x |-> IF n = x THEN CopyStep(s, F, x) ELSE F[n]]
<1>3. /\ x \in Nat /\ G = [n \in 0 .. x |-> G[n]] /\ G[x] = CopyStep(s, F, x)
      /\ \A n \in 0 .. x - 1 : G[n] = F[n]
  OBVIOUS
<1> HIDE DEF G, Bad
<1>4. ASSUME NEW n \in 0 .. x
      PROVE  G[n] = CopyStep(s, G, n)
  <2>1. G[n] = CopyStep(s, F, n)
    <3>1. n = x \/ (x # 0 /\ n \in 0 .. x - 1)
      BY <1>3
    <3>2. CASE n = x
      BY <1>3, <3>2
    <3>3. CASE x # 0 /\ n \in 0 .. x - 1
      <4>1. \A j \in 0 .. x - 1 : F[j] = CopyStep(s, F, j)
        BY <1>2, <3>3 DEF IsCopy
      <4>2. F[n] = CopyStep(s, F, n) /\ G[n] = F[n]
        BY <1>3, <3>3, <4>1
      <4> QED BY <4>2
    <3> QED BY <3>1, <3>2, <3>3
  <2>2. CopyStep(s, F, n) = CopyStep(s, G, n)
    <3>1. ASSUME n # 0 PROVE F[n - 1] = G[n - 1]
      <4>1. n - 1 \in 0 .. x - 1
        BY <1>3, <3>1
      <4> QED BY <1>3, <4>1
    <3>2. ASSUME n # 0, n # 1 PROVE F[n - 2] = G[n - 2]
      <4>1. n - 2 \in 0 .. x - 1
        BY <1>3, <3>2
      <4> QED BY <1>3, <4>1
    <3>3. ASSUME n # 0, ~(n < 6) PROVE F[n - 6] = G[n - 6]
      <4>1. n - 6 \in 0 .. x - 1
        BY <1>3, <3>3
      <4> QED BY <1>3, <4>1
    <3> QED BY <3>1, <3>2, <3>3 DEF CopyStep
  <2> QED BY <2>1, <2>2
<1>5. IsCopy(s, G, x)
  BY <1>3, <1>4 DEF IsCopy
<1> QED BY <1>1, <1>5 DEF Bad

LEMMA JsonCopyIs ==
    ASSUME NEW s, Len(s) \in Nat
    PROVE  \E F : IsCopy(s, F, Len(s)) /\ JsonCopy(s) = F[Len(s)]
<1> DEFINE F == CHOOSE F : IsCopy(s, F, Len(s))
<1>1. IsCopy(s, F, Len(s))
  BY CopyExists
<1>2. JsonCopy(s) = F[Len(s)]
  BY DEF JsonCopy, IsCopy, CopyStep
<1> QED BY <1>1, <1>2

\* The function by which strtol sums digits.
HexStep(s, value, k) == IF k = 0 THEN 0 ELSE 16 * value[k - 1] + HexDigit(s[k])
IsHex(s, value, n) == value = [k \in 0 .. n |-> HexStep(s, value, k)]

\* strtol of four characters is its equation.
LEMMA HexExists ==
    ASSUME NEW s, NEW k \in Nat
    PROVE  \E F : IsHex(s, F, k)
<1> DEFINE Bad == {n \in Nat : ~ \E F : IsHex(s, F, n)}
<1> SUFFICES ASSUME Bad # {} PROVE FALSE
  OBVIOUS
<1>1. PICK x \in Bad : \A y \in Bad : x <= y
  BY Smallest
<1>2. PICK F : x # 0 => IsHex(s, F, x - 1)
  <2>1. x # 0 => x - 1 \in Nat /\ x - 1 \notin Bad
    BY <1>1
  <2> QED BY <2>1
<1> DEFINE G == [n \in 0 .. x |-> IF n = x THEN HexStep(s, F, x) ELSE F[n]]
<1>3. /\ x \in Nat /\ G = [n \in 0 .. x |-> G[n]] /\ G[x] = HexStep(s, F, x)
      /\ \A n \in 0 .. x - 1 : G[n] = F[n]
  OBVIOUS
<1> HIDE DEF G, Bad
<1>4. ASSUME NEW n \in 0 .. x
      PROVE  G[n] = HexStep(s, G, n)
  <2>1. G[n] = HexStep(s, F, n)
    <3>1. n = x \/ (x # 0 /\ n \in 0 .. x - 1)
      BY <1>3
    <3>2. CASE n = x
      BY <1>3, <3>2
    <3>3. CASE x # 0 /\ n \in 0 .. x - 1
      <4>1. \A j \in 0 .. x - 1 : F[j] = HexStep(s, F, j)
        BY <1>2, <3>3 DEF IsHex
      <4>2. F[n] = HexStep(s, F, n) /\ G[n] = F[n]
        BY <1>3, <3>3, <4>1
      <4> QED BY <4>2
    <3> QED BY <3>1, <3>2, <3>3
  <2>2. HexStep(s, F, n) = HexStep(s, G, n)
    <3>1. ASSUME n # 0 PROVE F[n - 1] = G[n - 1]
      <4>1. n - 1 \in 0 .. x - 1
        BY <1>3, <3>1
      <4> QED BY <1>3, <4>1
    <3> QED BY <3>1 DEF HexStep
  <2> QED BY <2>1, <2>2
<1>5. IsHex(s, G, x)
  BY <1>3, <1>4 DEF IsHex
<1> QED BY <1>1, <1>5 DEF Bad

FourDigits == 0..65535

LEMMA FourDigitsAre ==
    ASSUME NEW u \in Nat
    PROVE  u \in FourDigits <=> u < 65536
  BY SMTT(30) DEF FourDigits

LEMMA FourDigitsNat == FourDigits \subseteq Nat
  BY SMT DEF FourDigits

\* A digit of a \u, and the four of them.
LEMMA HexCharacterReads ==
    ASSUME NEW n \in 0..15
    PROVE  HexDigit(HexCharacter(n)) = n
<1>1. CASE n < 10
  <2>1. HexCharacter(n) = 48 + n /\ 48 + n \in 48..57
    BY <1>1 DEF HexCharacter
  <2> QED BY <2>1 DEF HexDigit
<1>2. CASE ~(n < 10)
  <2>1. HexCharacter(n) = 87 + n /\ 87 + n \in 97..102
    BY <1>2 DEF HexCharacter
  <2> QED BY <2>1 DEF HexDigit
<1> QED BY <1>1, <1>2

\* The four digits of a \u are read as its value.
LEMMA HexValueReads ==
    ASSUME NEW u \in FourDigits
    PROVE  HexValue(HexOf(u)) = u
<1> DEFINE s == HexOf(u)
           good == {n \in 0..4 : \A k \in 1..n : HexDigit(s[k]) < 16}
           used == CHOOSE n \in good : \A other \in good : other <= n
           F == CHOOSE F : IsHex(s, F, 4)
           d1 == (u \div 4096) % 16
           d2 == (u \div 256) % 16
           d3 == (u \div 16) % 16
           d4 == u % 16
<1>1. /\ d1 \in 0..15 /\ d2 \in 0..15 /\ d3 \in 0..15 /\ d4 \in 0..15
      /\ 4096 * d1 + 256 * d2 + 16 * d3 + d4 = u
  <2>1. u \in Nat /\ u < 65536
    BY FourDigitsAre, FourDigitsNat, SMT
  <2>2. u = 16 * (u \div 16) + d4 /\ d4 \in 0..15
    BY <2>1, SMT
  <2>3. u \div 16 = 16 * (u \div 256) + d3 /\ d3 \in 0..15
    BY <2>1, SMT
  <2>4. u \div 256 = 16 * (u \div 4096) + d2 /\ d2 \in 0..15
    BY <2>1, SMT
  <2>5. u \div 4096 = d1 /\ d1 \in 0..15 /\ u \div 16 \in Nat /\ u \div 256 \in Nat
    BY <2>1, SMT
  <2> HIDE DEF d1, d2, d3, d4
  <2> QED BY <2>1, <2>2, <2>3, <2>4, <2>5, SMT
<1>2. /\ s[1] = HexCharacter(d1) /\ s[2] = HexCharacter(d2)
      /\ s[3] = HexCharacter(d3) /\ s[4] = HexCharacter(d4)
  BY DEF HexOf
<1> HIDE DEF d1, d2, d3, d4, s
<1>3. /\ HexDigit(s[1]) = d1 /\ HexDigit(s[2]) = d2
      /\ HexDigit(s[3]) = d3 /\ HexDigit(s[4]) = d4
  BY <1>1, <1>2, HexCharacterReads
<1>4. used = 4
  <2>1. \A k \in 1..4 : HexDigit(s[k]) < 16
    <3> SUFFICES ASSUME NEW k \in 1..4 PROVE HexDigit(s[k]) < 16
      OBVIOUS
    <3>1. k = 1 \/ k = 2 \/ k = 3 \/ k = 4
      OBVIOUS
    <3> QED BY <1>1, <1>3, <3>1
  <2>2. 4 \in good /\ \A other \in good : other <= 4
    BY <2>1
  <2>3. used \in good /\ \A other \in good : other <= used
    <3> HIDE DEF good
    <3> QED BY <2>2
  <2>4. used \in 0..4 /\ 4 <= used
    BY <2>2, <2>3
  <2> HIDE DEF used
  <2> QED BY <2>4
<1>5. IsHex(s, F, 4)
  BY HexExists
<1>6. HexValue(s) = F[4]
  <2>1. HexValue(s) = F[used]
    BY DEF HexValue, IsHex, HexStep
  <2> QED BY <1>4, <2>1
<1> HIDE DEF F, used
<1>7. /\ F[0] = HexStep(s, F, 0) /\ F[1] = HexStep(s, F, 1) /\ F[2] = HexStep(s, F, 2)
      /\ F[3] = HexStep(s, F, 3) /\ F[4] = HexStep(s, F, 4)
  <2>1. \A k \in 0 .. 4 : F[k] = HexStep(s, F, k)
    BY <1>5 DEF IsHex
  <2> QED BY <2>1
<1>8. /\ F[0] = 0 /\ F[1] = 16 * F[0] + HexDigit(s[1]) /\ F[2] = 16 * F[1] + HexDigit(s[2])
      /\ F[3] = 16 * F[2] + HexDigit(s[3]) /\ F[4] = 16 * F[3] + HexDigit(s[4])
  BY <1>7 DEF HexStep
<1> QED BY <1>1, <1>3, <1>6, <1>8, SMT DEF s

\* A character written as a \u is read as its bytes.
LEMMA CharacterInJson ==
    ASSUME NEW u \in FourDigits
    PROVE  JsonCopy(<<Backslash, 117>> \o HexOf(u)) = Readable(Utf8(u))
<1> DEFINE h == HexOf(u)
           s == <<Backslash, 117>> \o h
<1> DEFINE t == <<Backslash, 117>>
<1>1. h \in Seq(Int) /\ Len(h) = 4
  <2> DEFINE h1 == HexCharacter((u \div 4096) % 16)
             h2 == HexCharacter((u \div 256) % 16)
             h3 == HexCharacter((u \div 16) % 16)
             h4 == HexCharacter(u % 16)
  <2>1. \A n \in Int : HexCharacter(n) \in Int
    BY SMT DEF HexCharacter
  <2>2. (u \div 4096) % 16 \in Int /\ (u \div 256) % 16 \in Int /\ (u \div 16) % 16 \in Int /\ u % 16 \in Int
    BY FourDigitsNat, SMT
  <2>3. h1 \in Int /\ h2 \in Int /\ h3 \in Int /\ h4 \in Int
    BY <2>1, <2>2
  <2>4. h = <<h1, h2, h3, h4>>
    BY DEF HexOf
  <2> HIDE DEF h1, h2, h3, h4, h
  <2> QED BY <2>3, <2>4
<1>2. t \in Seq(Int) /\ Len(t) = 2 /\ t[1] = Backslash /\ t[2] = 117
  BY DEF Backslash
<1> HIDE DEF h, t
<1>3. /\ Len(s) = 6 /\ s[1] = Backslash /\ s[2] = 117
      /\ s[3] = h[1] /\ s[4] = h[2] /\ s[5] = h[3] /\ s[6] = h[4]
  <2>1. /\ Len(t \o h) = 6
        /\ \A i \in 1 .. 2 : (t \o h)[i] = t[i]
        /\ \A i \in 1 .. 4 : (t \o h)[2 + i] = h[i]
    <3>1. OfLength(Int, t, 2) /\ OfLength(Int, h, 4)
      BY <1>1, <1>2 DEF OfLength
    <3>2. OfLength(Int, t \o h, 2 + 4) /\ Joins(t \o h, t, h, 2, 4)
      BY <3>1, TwoPieces
    <3> QED BY <3>2 DEF Joins
  <2>2. s = t \o h
    BY DEF t
  <2> HIDE DEF s
  <2> QED BY <1>2, <2>1, <2>2, SMTT(30)
<1>3a. Len(s) = 6
  BY <1>3
<1>4. SubSeq(s, 3, 6) = h
  <2>1. SubSeq(s, 3, 6) = [i \in 1 .. 4 |-> s[i + 2]]
    BY <1>3
  <2>2. h = [i \in 1 .. 4 |-> h[i]]
    BY <1>1
  <2>3. \A i \in 1 .. 4 : s[i + 2] = h[i]
    <3> SUFFICES ASSUME NEW i \in 1 .. 4 PROVE s[i + 2] = h[i]
      OBVIOUS
    <3>1. i = 1 \/ i = 2 \/ i = 3 \/ i = 4
      OBVIOUS
    <3> HIDE DEF s
    <3> QED BY <1>3, <3>1
  <2> HIDE DEF s
  <2> QED BY <2>1, <2>2, <2>3
<1> HIDE DEF s
<1>5. PICK F : IsCopy(s, F, Len(s)) /\ JsonCopy(s) = F[Len(s)]
  <2>1. Len(s) \in Nat
    BY <1>3
  <2> QED BY <2>1, JsonCopyIs
<1>6. F[0] = Readable(<<>>)
  <2>1. F[0] = CopyStep(s, F, 0)
    BY <1>3, <1>5 DEF IsCopy
  <2> QED BY <2>1 DEF CopyStep
<1>7. F[6] = Before(Utf8(HexValue(SubSeq(s, 3, 6))), F[0])
  <2>1. F[6] = CopyStep(s, F, 6)
    <3>1. 6 \in 0 .. Len(s)
      BY <1>3a
    <3> QED BY <1>5, <3>1 DEF IsCopy
  <2> QED BY <1>3, <2>1 DEF CopyStep
<1>8. F[6] = Before(Utf8(u), Readable(<<>>))
  BY <1>4, <1>6, <1>7, HexValueReads DEF h
<1>9. Utf8(u) \o <<>> = Utf8(u)
  <2>1. Utf8(u) \in Seq(0..255)
    <3>1. u \in Nat
      BY FourDigitsNat
    <3> QED BY <3>1, Utf8ReadsBack, SMT DEF ReadsBackAs
  <2> QED BY <2>1, ConcatEmptySeq
<1> QED BY <1>3, <1>5, <1>8, <1>9 DEF Before, Readable, s, h

\* The calls on a character.
LEMMA CharacterAnswerReadsBack ==
    ASSUME NEW u \in Nat, NEW bytes, bytes = Utf8(u), NEW inJson,
           inJson = JsonCopy(<<Backslash, 117>> \o HexOf(u)),
           op = "character", input = u, output = [bytes |-> bytes, inJson |-> inJson]
    PROVE  EncodingsRoundTrip
<1>1. u < 65536 => inJson = Readable(bytes)
  <2>1. u < 65536 => u \in FourDigits
    BY FourDigitsAre
  <2> QED BY <2>1, CharacterInJson, SMT
<1>2. ReadsBackAs(bytes, IF IsUnicode(u) THEN u ELSE Question)
  BY Utf8ReadsBack, SMT
<1>3. output.bytes = bytes /\ output.inJson = inJson
  OBVIOUS
<1>4. ~Done("bytes")
  BY DEF Done
<1>5. /\ CodePoint(bytes) = IF IsUnicode(u) THEN u ELSE Question
      /\ Len(bytes) = Utf8Size(CodePoint(bytes))
  BY <1>2, SMT DEF ReadsBackAs
<1> QED BY <1>1, <1>3, <1>4, <1>5, SMT DEF EncodingsRoundTrip

(***************************************************************************)
(* Base64.                                                                 *)
(***************************************************************************)

AreOfLength(f, n, size) == \A k \in 1 .. n : Len(f[k]) = size
Laid(c, f, n, size) ==
    /\ Len(c) = size * n
    /\ \A k \in 1 .. n : \A r \in 1 .. size : c[size * (k - 1) + r] = f[k][r]

\* Pieces of one size are at the multiples of it.
LEMMA EqualPieces ==
    ASSUME NEW S, NEW f, NEW n \in Nat, NEW size \in Nat,
           ArePieces(S, f, n), AreOfLength(f, n, size)
    PROVE  Concat(f, n) \in Seq(S) /\ Laid(Concat(f, n), f, n, size)
<1> DEFINE Bad == {k \in 0 .. n : Len(Concat(f, k)) # size * k}
<1>1. Bad = {}
  <2> SUFFICES ASSUME Bad # {} PROVE FALSE
    OBVIOUS
  <2>1. PICK k \in Bad : \A j \in Bad : k <= j
    <3>1. Bad \subseteq Nat
      OBVIOUS
    <3> HIDE DEF Bad
    <3> QED BY <3>1, Smallest
  <2>2. k \in Nat
    OBVIOUS
  <2>3. k # 0
    <3>1. Concat(f, 0) = <<>> /\ Len(<<>>) = 0
      BY ConcatNext
    <3>2. size * 0 = 0
      OBVIOUS
    <3> QED BY <3>1, <3>2
  <2>4. k - 1 \in 0 .. n /\ k \in 1 .. n /\ ~(k <= k - 1)
    BY <2>2, <2>3
  <2>5. Len(Concat(f, k - 1)) = size * (k - 1)
    BY <2>1, <2>4
  <2>6. Len(f[k]) = size /\ Len(Concat(f, k)) = Len(Concat(f, k - 1)) + Len(f[k])
    BY <2>4, ConcatPlace DEF AreOfLength
  <2>7. size * (k - 1) + size = size * k
    BY <2>2
  <2>8. Len(Concat(f, k)) = size * k
    BY <2>5, <2>6, <2>7
  <2> QED BY <2>8
<1>2. ASSUME NEW k \in 1 .. n, NEW r \in 1 .. size
      PROVE  Concat(f, n)[size * (k - 1) + r] = f[k][r]
  <2>1. r \in 1 .. Len(f[k])
    BY DEF AreOfLength
  <2>2. Concat(f, n)[Len(Concat(f, k - 1)) + r] = f[k][r]
    BY <2>1, ConcatAt
  <2>3. k - 1 \in 0 .. n
    OBVIOUS
  <2>4. Len(Concat(f, k - 1)) = size * (k - 1)
    BY <1>1, <2>3
  <2> QED BY <2>2, <2>4
<1>3. n \in 0 .. n
  OBVIOUS
<1>4. Concat(f, n) \in Seq(S) /\ Len(Concat(f, n)) = size * n
  BY <1>1, <1>3, ConcatType
<1> QED BY <1>2, <1>4 DEF Laid

\* What a character of the text counts for.
Value(c) == IF c = Pad THEN 0 ELSE DigitValue[c]
Character == 0..127
Octet == 0..255

\* The tables of the encoder and the decoder are inverse of each other.
LEMMA DigitReads ==
    ASSUME NEW n \in 0..63
    PROVE  /\ Digit[n] \in Character /\ Digit[n] # Pad
           /\ Value(Digit[n]) = n
  BY SMTT(30) DEF Digit, DigitValue, Value, Pad, Character

\* Four characters stand for three bytes.
Stand(c1, c2, c3, c4, b1, b2, b3) ==
    262144 * Value(c1) + 4096 * Value(c2) + 64 * Value(c3) + Value(c4)
    = 65536 * b1 + 256 * b2 + b3

Triple(b1, b2, b3) == 65536 * b1 + 256 * b2 + b3
D1(t) == t \div 262144
D2(t) == (t \div 4096) % 64
D3(t) == (t \div 64) % 64
D4(t) == t % 64

\* Three bytes are four times six bits, and back.
LEMMA SixBits ==
    ASSUME NEW b1 \in Octet, NEW b2 \in Octet, NEW b3 \in Octet,
           NEW t, t = Triple(b1, b2, b3)
    PROVE  /\ D1(t) \in 0..63 /\ D2(t) \in 0..63 /\ D3(t) \in 0..63 /\ D4(t) \in 0..63
           /\ t = 262144 * D1(t) + 4096 * D2(t) + 64 * D3(t) + D4(t)
           /\ b3 = 0 => D4(t) = 0
           /\ b3 = 0 /\ b2 = 0 => D3(t) = 0
<1>1. t \in Nat /\ t < 16777216
  BY SMT DEF Triple, Octet
<1>2. t = 64 * (t \div 64) + D4(t) /\ D4(t) \in 0..63
  BY <1>1, SMT DEF D4
<1>3. t \div 64 = 64 * (t \div 4096) + D3(t) /\ D3(t) \in 0..63
  BY <1>1, SMT DEF D3
<1>4. t \div 4096 = 64 * (t \div 262144) + D2(t) /\ D2(t) \in 0..63
  BY <1>1, SMT DEF D2
<1>5. D1(t) = t \div 262144 /\ D1(t) \in 0..63
  BY <1>1, SMT DEF D1
<1>6. b3 = 0 => D4(t) = 0
  BY SMT DEF D4, Triple, Octet
<1>7. b3 = 0 /\ b2 = 0 => D3(t) = 0
  BY SMT DEF D3, Triple, Octet
<1>8. t = 262144 * D1(t) + 4096 * D2(t) + 64 * D3(t) + D4(t)
  <2> DEFINE q1 == t \div 262144
             q2 == t \div 4096
             q3 == t \div 64
  <2>1. q1 \in Nat /\ q2 \in Nat /\ q3 \in Nat
    BY <1>1, SMT
  <2>2. t = 64 * q3 + D4(t) /\ q3 = 64 * q2 + D3(t) /\ q2 = 64 * q1 + D2(t) /\ D1(t) = q1
    BY <1>2, <1>3, <1>4, <1>5
  <2> HIDE DEF q1, q2, q3
  <2>3. ASSUME NEW d1 \in Nat, NEW d2 \in Nat, NEW d3 \in Nat, NEW d4 \in Nat,
               t = 64 * q3 + d4, q3 = 64 * q2 + d3, q2 = 64 * q1 + d2, d1 = q1
        PROVE  t = 262144 * d1 + 4096 * d2 + 64 * d3 + d4
    BY <1>1, <2>1, <2>3, SMT
  <2>4. D1(t) \in Nat /\ D2(t) \in Nat /\ D3(t) \in Nat /\ D4(t) \in Nat
    BY <1>2, <1>3, <1>4, <1>5
  <2> QED BY <2>2, <2>3, <2>4, SMT
<1> QED BY <1>2, <1>3, <1>4, <1>5, <1>6, <1>7, <1>8

LEMMA EightBits ==
    ASSUME NEW b1 \in Octet, NEW b2 \in Octet, NEW b3 \in Octet,
           NEW t, t = Triple(b1, b2, b3)
    PROVE  (t \div 65536) % 256 = b1 /\ (t \div 256) % 256 = b2 /\ t % 256 = b3
  BY SMT DEF Triple, Octet

LEMMA Four ==
    ASSUME NEW S, NEW a \in S, NEW b \in S, NEW c \in S, NEW d \in S,
           NEW q, q = <<a, b, c, d>>
    PROVE  /\ q \in Seq(S) /\ Len(q) = 4
           /\ q[1] = a /\ q[2] = b /\ q[3] = c /\ q[4] = d
  BY SMT

LEMMA Prefix ==
    ASSUME NEW S, NEW s, NEW n, OfLength(S, s, n), NEW m \in Nat, m <= n
    PROVE  OfLength(S, SubSeq(s, 1, m), m) /\ \A i \in 1 .. m : SubSeq(s, 1, m)[i] = s[i]
<1>1. n \in Nat /\ s \in Seq(S) /\ Len(s) = n
  BY DEF OfLength
<1> DEFINE t == SubSeq(s, 1, m)
<1>2. t = [i \in 1 .. m |-> s[i]]
  BY <1>1
<1>3. t \in Seq(S)
  <2>1. \A i \in 1 .. m : s[i] \in S
    BY <1>1
  <2> QED BY <1>2, <2>1
<1>4. Len(t) = m
  BY <1>2
<1> QED BY <1>2, <1>3, <1>4 DEF OfLength

\* Four digits.
AreDigits(q, n1, n2, n3, n4) ==
    /\ q[1] \in Character /\ q[2] \in Character /\ q[3] \in Character /\ q[4] \in Character
    /\ q[1] # Pad /\ q[2] # Pad /\ q[3] # Pad /\ q[4] # Pad
    /\ Value(q[1]) = n1 /\ Value(q[2]) = n2 /\ Value(q[3]) = n3 /\ Value(q[4]) = n4

\* Four digits are decoded to the three bytes they stand for.
LEMMA DigitsRead ==
    ASSUME NEW n1 \in 0..63, NEW n2 \in 0..63, NEW n3 \in 0..63, NEW n4 \in 0..63,
           NEW q, q = <<Digit[n1], Digit[n2], Digit[n3], Digit[n4]>>
    PROVE  OfLength(Character, q, 4) /\ AreDigits(q, n1, n2, n3, n4)
<1> DEFINE c1 == Digit[n1]
           c2 == Digit[n2]
           c3 == Digit[n3]
           c4 == Digit[n4]
<1>1. /\ c1 \in Character /\ c1 # Pad /\ Value(c1) = n1
      /\ c2 \in Character /\ c2 # Pad /\ Value(c2) = n2
  BY DigitReads
<1>2. /\ c3 \in Character /\ c3 # Pad /\ Value(c3) = n3
      /\ c4 \in Character /\ c4 # Pad /\ Value(c4) = n4
  BY DigitReads
<1>3. q = <<c1, c2, c3, c4>>
  OBVIOUS
<1> HIDE DEF c1, c2, c3, c4
<1>4. /\ q \in Seq(Character) /\ Len(q) = 4
      /\ q[1] = c1 /\ q[2] = c2 /\ q[3] = c3 /\ q[4] = c4
  BY <1>1, <1>2, <1>3, Four
<1>5. OfLength(Character, q, 4)
  BY <1>4 DEF OfLength
<1> QED BY <1>1, <1>2, <1>4, <1>5 DEF AreDigits

\* Three bytes of s from i on, as four digits.
LEMMA DigitsStand ==
    ASSUME NEW s \in Seq(Octet), NEW i \in 1 .. Len(s)
    PROVE  LET q == Digits(s, i)
           IN /\ OfLength(Character, q, 4)
              /\ \E n1, n2, n3, n4 \in 0..63 : AreDigits(q, n1, n2, n3, n4)
              /\ Stand(q[1], q[2], q[3], q[4], s[i], Byte(s, i + 1), Byte(s, i + 2))
              /\ Byte(s, i + 2) = 0 => Value(q[4]) = 0
              /\ Byte(s, i + 2) = 0 /\ Byte(s, i + 1) = 0 => Value(q[3]) = 0
<1> DEFINE b2 == Byte(s, i + 1)
           b3 == Byte(s, i + 2)
           t == Triple(s[i], b2, b3)
           q == Digits(s, i)
<1>1. s[i] \in Octet /\ b2 \in Octet /\ b3 \in Octet
  <2>1. \A k \in DOMAIN s : s[k] \in Octet
    OBVIOUS
  <2>2. 0 \in Octet
    BY DEF Octet
  <2>3. i \in DOMAIN s
    OBVIOUS
  <2> QED BY <2>1, <2>2, <2>3 DEF Byte
<1>2. q = <<Digit[D1(t)], Digit[D2(t)], Digit[D3(t)], Digit[D4(t)]>>
  BY SMT DEF Digits, Triple, D1, D2, D3, D4
<1> HIDE DEF q, b2, b3
<1>3. /\ D1(t) \in 0..63 /\ D2(t) \in 0..63 /\ D3(t) \in 0..63 /\ D4(t) \in 0..63
      /\ t = 262144 * D1(t) + 4096 * D2(t) + 64 * D3(t) + D4(t)
      /\ b3 = 0 => D4(t) = 0
      /\ b3 = 0 /\ b2 = 0 => D3(t) = 0
  BY <1>1, SixBits, SMTT(30)
<1>4. t = 65536 * s[i] + 256 * b2 + b3
  BY SMT DEF Triple
<1> HIDE DEF t
<1> DEFINE n1 == D1(t)
           n2 == D2(t)
           n3 == D3(t)
           n4 == D4(t)
<1>5. n1 \in 0..63 /\ n2 \in 0..63 /\ n3 \in 0..63 /\ n4 \in 0..63
  BY <1>3
<1>6. 65536 * s[i] + 256 * b2 + b3 = 262144 * n1 + 4096 * n2 + 64 * n3 + n4
  BY <1>3, <1>4, SMT
<1>7. (b3 = 0 => n4 = 0) /\ (b3 = 0 /\ b2 = 0 => n3 = 0)
  BY <1>3
<1>8. q = <<Digit[n1], Digit[n2], Digit[n3], Digit[n4]>>
  BY <1>2
<1> HIDE DEF n1, n2, n3, n4
<1>9. OfLength(Character, q, 4) /\ AreDigits(q, n1, n2, n3, n4)
  BY <1>5, <1>8, DigitsRead
<1>10. Stand(q[1], q[2], q[3], q[4], s[i], b2, b3)
  <2>1. Value(q[1]) = n1 /\ Value(q[2]) = n2 /\ Value(q[3]) = n3 /\ Value(q[4]) = n4
    BY <1>9 DEF AreDigits
  <2> QED BY <1>6, <2>1, SMT DEF Stand
<1>11. (b3 = 0 => Value(q[4]) = 0) /\ (b3 = 0 /\ b2 = 0 => Value(q[3]) = 0)
  BY <1>7, <1>9 DEF AreDigits
<1> QED BY <1>5, <1>9, <1>10, <1>11 DEF q, b2, b3

\* The characters of the last, shorter group.
LEMMA RestStands ==
    ASSUME NEW s \in Seq(Octet), NEW m \in {1, 2}, Len(s) % 3 = m
    PROVE  LET r == EncodeRest(s)
               i == Len(s) - m + 1
           IN /\ OfLength(Character, r, 4)
              /\ r[4] = Pad /\ (r[3] = Pad <=> m = 1)
              /\ Stand(r[1], r[2], r[3], r[4], Byte(s, i), Byte(s, i + 1), Byte(s, i + 2))
<1> DEFINE i == Len(s) - m + 1
           r == EncodeRest(s)
           q == Digits(s, i)
<1>1. Len(s) \in Nat /\ i \in 1 .. Len(s) /\ i \in DOMAIN s
  <2>1. Len(s) \in Nat
    OBVIOUS
  <2>2. Len(s) >= m
    BY <2>1
  <2> QED BY <2>1, <2>2
<1>2. /\ OfLength(Character, q, 4)
      /\ \E n1, n2, n3, n4 \in 0..63 : AreDigits(q, n1, n2, n3, n4)
      /\ Stand(q[1], q[2], q[3], q[4], s[i], Byte(s, i + 1), Byte(s, i + 2))
      /\ Byte(s, i + 2) = 0 => Value(q[4]) = 0
      /\ Byte(s, i + 2) = 0 /\ Byte(s, i + 1) = 0 => Value(q[3]) = 0
  BY <1>1, DigitsStand
<1>3. Byte(s, i) = s[i] /\ Byte(s, i + 2) = 0 /\ (m = 1 => Byte(s, i + 1) = 0)
  <2>1. DOMAIN s = 1 .. Len(s)
    OBVIOUS
  <2>2. i + 2 \notin DOMAIN s /\ (m = 1 => i + 1 \notin DOMAIN s)
    BY <1>1, <2>1
  <2> QED BY <1>1, <2>2 DEF Byte
<1>4. Pad \in Character /\ Value(Pad) = 0
  BY DEF Pad, Character, Value
<1>5. q[3] # Pad
  BY <1>2 DEF AreDigits
<1>6. CASE m = 1
  <2> DEFINE head == SubSeq(q, 1, 2)
             tail == <<Pad, Pad>>
  <2>1. r = head \o tail
    <3>1. Len(s) % 3 = 1 /\ Len(s) % 3 # 2 /\ i = Len(s)
      BY <1>1, <1>6
    <3> QED BY <3>1 DEF EncodeRest
  <2>2. OfLength(Character, tail, 2) /\ tail[1] = Pad /\ tail[2] = Pad
    BY <1>4 DEF OfLength
  <2> HIDE DEF q, r, i
  <2>3. OfLength(Character, head, 2) /\ head[1] = q[1] /\ head[2] = q[2]
    BY <1>2, Prefix
  <2> HIDE DEF head, tail
  <2>4. OfLength(Character, r, 2 + 2) /\ Joins(r, head, tail, 2, 2)
    BY <2>1, <2>2, <2>3, TwoPieces
  <2>5. r[1] = q[1] /\ r[2] = q[2] /\ r[3] = Pad /\ r[4] = Pad
    BY <2>2, <2>3, <2>4 DEF Joins
  <2>6. OfLength(Character, r, 4)
    BY <2>4
  <2>7. Stand(r[1], r[2], r[3], r[4], s[i], Byte(s, i + 1), Byte(s, i + 2))
    BY <1>2, <1>3, <1>4, <1>6, <2>5, SMT DEF Stand
  <2> QED BY <1>3, <1>6, <2>5, <2>6, <2>7 DEF r, i
<1>7. CASE m = 2
  <2> DEFINE head == SubSeq(q, 1, 3)
             tail == <<Pad>>
  <2>1. r = head \o tail
    <3>1. Len(s) % 3 = 2 /\ i = Len(s) - 1
      BY <1>1, <1>7
    <3> QED BY <3>1 DEF EncodeRest
  <2>2. OfLength(Character, tail, 1) /\ tail[1] = Pad
    BY <1>4 DEF OfLength
  <2> HIDE DEF q, r, i
  <2>3. OfLength(Character, head, 3) /\ head[1] = q[1] /\ head[2] = q[2] /\ head[3] = q[3]
    BY <1>2, Prefix
  <2> HIDE DEF head, tail
  <2>4. OfLength(Character, r, 3 + 1) /\ Joins(r, head, tail, 3, 1)
    BY <2>1, <2>2, <2>3, TwoPieces
  <2>5. r[1] = q[1] /\ r[2] = q[2] /\ r[3] = q[3] /\ r[4] = Pad
    BY <2>2, <2>3, <2>4 DEF Joins
  <2>6. OfLength(Character, r, 4)
    BY <2>4
  <2>7. Stand(r[1], r[2], r[3], r[4], s[i], Byte(s, i + 1), Byte(s, i + 2))
    BY <1>2, <1>3, <1>4, <2>5, SMT DEF Stand
  <2> QED BY <1>3, <1>5, <1>7, <2>5, <2>6, <2>7 DEF r, i
<1> QED BY <1>6, <1>7

\* The group j of the text stands for the group j of the bytes.
Group(e, s, j) ==
    Stand(e[4 * j - 3], e[4 * j - 2], e[4 * j - 1], e[4 * j],
          Byte(s, 3 * j - 2), Byte(s, 3 * j - 1), Byte(s, 3 * j))

Groups(e, s, n) == \A j \in 1 .. n : Group(e, s, j)

\* The groups of three bytes, and the rest.
LEMMA WholeGroups ==
    ASSUME NEW s \in Seq(Octet), NEW n, n = Len(s) \div 3,
           NEW f, f = [i \in 1 .. n |-> Digits(s, 3 * i - 2)],
           NEW e, e = Concat(f, n)
    PROVE  /\ OfLength(Character, e, 4 * n) /\ Groups(e, s, n)
           /\ n # 0 => e[4 * n - 1] # Pad /\ e[4 * n] # Pad
<1>1. Len(s) \in Nat /\ n \in Nat /\ 3 * n <= Len(s) /\ DOMAIN s = 1 .. Len(s)
  OBVIOUS
<1>2. ASSUME NEW j \in 1 .. n
      PROVE  /\ OfLength(Character, f[j], 4)
             /\ f[j][3] # Pad /\ f[j][4] # Pad
             /\ Stand(f[j][1], f[j][2], f[j][3], f[j][4],
                      Byte(s, 3 * j - 2), Byte(s, 3 * j - 1), Byte(s, 3 * j))
  <2> DEFINE i == 3 * j - 2
             q == Digits(s, i)
  <2>1. i \in 1 .. Len(s) /\ i \in DOMAIN s /\ i + 1 = 3 * j - 1 /\ i + 2 = 3 * j
    BY <1>1
  <2>2. f[j] = q
    OBVIOUS
  <2>3. Byte(s, i) = s[i]
    BY <2>1 DEF Byte
  <2> HIDE DEF i
  <2>4. /\ OfLength(Character, q, 4)
        /\ \E n1, n2, n3, n4 \in 0..63 : AreDigits(q, n1, n2, n3, n4)
        /\ Stand(q[1], q[2], q[3], q[4], s[i], Byte(s, i + 1), Byte(s, i + 2))
    BY <2>1, DigitsStand
  <2> HIDE DEF q
  <2>5. q[3] # Pad /\ q[4] # Pad
    BY <2>4 DEF AreDigits
  <2>6. i = 3 * j - 2
    BY DEF i
  <2> QED BY <2>1, <2>2, <2>3, <2>4, <2>5, <2>6
<1>3. ArePieces(Character, f, n) /\ AreOfLength(f, n, 4)
  BY <1>2 DEF ArePieces, AreOfLength, OfLength
<1>4. e \in Seq(Character) /\ Laid(e, f, n, 4)
  <2>1. 4 \in Nat
    OBVIOUS
  <2> QED BY <1>1, <1>3, <2>1, EqualPieces
<1>5. OfLength(Character, e, 4 * n)
  BY <1>1, <1>4 DEF OfLength, Laid
<1>6. ASSUME NEW j \in 1 .. n
      PROVE  /\ e[4 * j - 3] = f[j][1] /\ e[4 * j - 2] = f[j][2]
             /\ e[4 * j - 1] = f[j][3] /\ e[4 * j] = f[j][4]
  <2>1. \A r \in 1 .. 4 : e[4 * (j - 1) + r] = f[j][r]
    BY <1>4 DEF Laid
  <2>2. /\ 4 * (j - 1) + 1 = 4 * j - 3 /\ 4 * (j - 1) + 2 = 4 * j - 2
        /\ 4 * (j - 1) + 3 = 4 * j - 1 /\ 4 * (j - 1) + 4 = 4 * j
    BY <1>1
  <2> QED BY <2>1, <2>2
<1>7. Groups(e, s, n)
  BY <1>2, <1>6 DEF Groups, Group
<1>8. n # 0 => e[4 * n - 1] # Pad /\ e[4 * n] # Pad
  <2>1. n # 0 => n \in 1 .. n
    BY <1>1
  <2> QED BY <1>2, <1>6, <2>1
<1> QED BY <1>5, <1>7, <1>8

\* The text of all the bytes: whole groups, and pads for what the last one lacks.
LEMMA EncodesGroups ==
    ASSUME NEW s \in Seq(Octet)
    PROVE  \E n \in Nat :
             /\ OfLength(Character, Base64Encode(s), 4 * n)
             /\ Groups(Base64Encode(s), s, n)
             /\ 3 * n - Pads(Base64Encode(s)) = Len(s)
             /\ n = (Len(s) + 2) \div 3
<1> DEFINE k == Len(s) \div 3
           f == [i \in 1 .. k |-> Digits(s, 3 * i - 2)]
           c == Concat(f, k)
           r == EncodeRest(s)
           e == Base64Encode(s)
<1>1. Len(s) \in Nat /\ k \in Nat /\ Len(s) = 3 * k + (Len(s) % 3) /\ Len(s) % 3 \in 0..2
  OBVIOUS
<1>2. /\ OfLength(Character, c, 4 * k) /\ Groups(c, s, k)
      /\ k # 0 => c[4 * k - 1] # Pad /\ c[4 * k] # Pad
  BY WholeGroups
<1>3. e = c \o r
  BY DEF Base64Encode
<1> HIDE DEF c
<1>4. CASE Len(s) % 3 = 0
  <2>1. r = <<>>
    BY <1>4 DEF EncodeRest
  <2>2. e = c
    BY <1>2, <1>3, <2>1, ConcatEmptySeq DEF OfLength
  <2>3. (Len(s) + 2) \div 3 = k /\ Len(s) = 3 * k
    BY <1>1, <1>4
  <2>4. Len(c) = 4 * k
    BY <1>2 DEF OfLength
  <2> HIDE DEF k, e
  <2>5. Pads(c) = 0
    <3>1. CASE k = 0
      <4>1. c = <<>>
        BY <1>2, <3>1 DEF OfLength
      <4> QED BY <4>1 DEF Pads
    <3>2. CASE k # 0
      <4>1. c # <<>>
        BY <1>1, <2>4, <3>2
      <4> QED BY <1>1, <1>2, <2>4, <3>2, <4>1 DEF Pads
    <3> QED BY <3>1, <3>2
  <2> QED BY <1>1, <1>2, <2>2, <2>3, <2>5 DEF e
<1>5. CASE Len(s) % 3 # 0
  <2> DEFINE m == Len(s) % 3
             n == k + 1
  <2>1. m \in {1, 2} /\ Len(s) - m + 1 = 3 * n - 2 /\ Len(s) = 3 * n - 3 + m
        /\ (Len(s) + 2) \div 3 = n /\ n \in Nat
    BY <1>1, <1>5
  <2>2. /\ OfLength(Character, r, 4)
        /\ r[4] = Pad /\ (r[3] = Pad <=> m = 1)
        /\ Stand(r[1], r[2], r[3], r[4], Byte(s, 3 * n - 2), Byte(s, 3 * n - 1), Byte(s, 3 * n))
    <3>1. 3 * n - 2 + 1 = 3 * n - 1 /\ 3 * n - 2 + 2 = 3 * n
      BY <2>1
    <3>2. /\ OfLength(Character, r, 4)
          /\ r[4] = Pad /\ (r[3] = Pad <=> m = 1)
          /\ Stand(r[1], r[2], r[3], r[4], Byte(s, Len(s) - m + 1),
                   Byte(s, Len(s) - m + 1 + 1), Byte(s, Len(s) - m + 1 + 2))
      BY <2>1, RestStands
    <3> QED BY <2>1, <3>1, <3>2
  <2> HIDE DEF r, m, e, f
  <2>3. OfLength(Character, e, 4 * k + 4) /\ Joins(e, c, r, 4 * k, 4)
    BY <1>2, <1>3, <2>2, TwoPieces
  <2>4. /\ \A i \in 1 .. 4 * k : e[i] = c[i]
        /\ e[4 * n - 3] = r[1] /\ e[4 * n - 2] = r[2] /\ e[4 * n - 1] = r[3] /\ e[4 * n] = r[4]
    <3>1. /\ \A i \in 1 .. 4 * k : e[i] = c[i]
          /\ \A i \in 1 .. 4 : e[4 * k + i] = r[i]
      BY <2>3 DEF Joins
    <3>2. /\ 4 * k + 1 = 4 * n - 3 /\ 4 * k + 2 = 4 * n - 2
          /\ 4 * k + 3 = 4 * n - 1 /\ 4 * k + 4 = 4 * n
      BY <1>1
    <3> HIDE DEF k, n
    <3> QED BY <3>1, <3>2
  <2>5. OfLength(Character, e, 4 * n) /\ Len(e) = 4 * n
    <3>1. 4 * k + 4 = 4 * n
      BY <1>1
    <3> HIDE DEF k, n
    <3> QED BY <2>3, <3>1 DEF OfLength
  <2>6. ASSUME NEW j \in 1 .. n
        PROVE  Group(e, s, j)
    <3>1. CASE j = n
      BY <2>2, <2>4, <3>1 DEF Group
    <3>2. CASE j # n
      <4>1. j \in 1 .. k
        BY <1>1, <3>2
      <4>2. /\ 4 * j - 3 \in 1 .. 4 * k /\ 4 * j - 2 \in 1 .. 4 * k
            /\ 4 * j - 1 \in 1 .. 4 * k /\ 4 * j \in 1 .. 4 * k
        BY <1>1, <4>1
      <4> HIDE DEF k, n
      <4>3. Group(c, s, j)
        BY <1>2, <4>1 DEF Groups
      <4>4. /\ e[4 * j - 3] = c[4 * j - 3] /\ e[4 * j - 2] = c[4 * j - 2]
            /\ e[4 * j - 1] = c[4 * j - 1] /\ e[4 * j] = c[4 * j]
        BY <2>4, <4>2
      <4> QED BY <4>3, <4>4 DEF Group
    <3> QED BY <3>1, <3>2
  <2>7. Groups(e, s, n)
    BY <2>6 DEF Groups
  <2>8. 3 * n - Pads(e) = Len(s)
    <3>1. e # <<>> /\ e[Len(e)] = Pad /\ (e[Len(e) - 1] = Pad <=> m = 1)
      BY <2>1, <2>2, <2>4, <2>5
    <3>2. Pads(e) = 1 + (IF m = 1 THEN 1 ELSE 0)
      BY <3>1 DEF Pads
    <3> HIDE DEF n, k
    <3> QED BY <2>1, <3>2
  <2> QED BY <2>1, <2>5, <2>7, <2>8 DEF e
<1> QED BY <1>4, <1>5

\* Four characters give back the bytes they stand for.
LEMMA BytesRead ==
    ASSUME NEW e, NEW i, NEW b1 \in Octet, NEW b2 \in Octet, NEW b3 \in Octet,
           Stand(e[i], e[i + 1], e[i + 2], e[i + 3], b1, b2, b3)
    PROVE  Bytes(e, i) = <<b1, b2, b3>>
<1> DEFINE t == 262144 * Value(e[i]) + 4096 * Value(e[i + 1]) + 64 * Value(e[i + 2])
                + Value(e[i + 3])
<1>1. Bytes(e, i) = <<(t \div 65536) % 256, (t \div 256) % 256, t % 256>>
  BY SMT DEF Bytes, Value
<1>2. t = Triple(b1, b2, b3)
  BY SMT DEF Stand, Triple
<1> HIDE DEF t
<1>3. (t \div 65536) % 256 = b1 /\ (t \div 256) % 256 = b2 /\ t % 256 = b3
  BY <1>2, EightBits
<1> QED BY <1>1, <1>3, SMT

\* Base64 decodes to the bytes that were encoded, and has the length allocated.
LEMMA Base64ReadsBack ==
    ASSUME NEW s \in Seq(Octet)
    PROVE  /\ Base64Decode(Base64Encode(s)) = s
           /\ Len(Base64Encode(s)) = EncodedLength(Len(s))
<1> DEFINE e == Base64Encode(s)
<1>1. PICK n \in Nat :
        /\ OfLength(Character, e, 4 * n) /\ Groups(e, s, n)
        /\ 3 * n - Pads(e) = Len(s) /\ n = (Len(s) + 2) \div 3
  BY EncodesGroups
<1>2. Len(e) = 4 * n /\ Len(e) \div 4 = n /\ Len(s) \in Nat /\ DOMAIN s = 1 .. Len(s)
  BY <1>1 DEF OfLength
<1> HIDE DEF e
<1>3. \A k : Byte(s, k) \in Octet
  <2>1. \A k \in DOMAIN s : s[k] \in Octet
    OBVIOUS
  <2>2. 0 \in Octet
    BY DEF Octet
  <2> QED BY <2>1, <2>2 DEF Byte
<1> DEFINE f == [i \in 1 .. n |-> Bytes(e, 4 * i - 3)]
<1>4. ASSUME NEW j \in 1 .. n
      PROVE  f[j] = <<Byte(s, 3 * j - 2), Byte(s, 3 * j - 1), Byte(s, 3 * j)>>
  <2>1. Group(e, s, j)
    BY <1>1 DEF Groups
  <2>2. 4 * j - 3 + 1 = 4 * j - 2 /\ 4 * j - 3 + 2 = 4 * j - 1 /\ 4 * j - 3 + 3 = 4 * j
    OBVIOUS
  <2>3. f[j] = Bytes(e, 4 * j - 3)
    OBVIOUS
  <2> HIDE DEF f
  <2>4. Stand(e[4 * j - 3], e[4 * j - 3 + 1], e[4 * j - 3 + 2], e[4 * j - 3 + 3],
              Byte(s, 3 * j - 2), Byte(s, 3 * j - 1), Byte(s, 3 * j))
    BY <2>1, <2>2 DEF Group
  <2>5. Byte(s, 3 * j - 2) \in Octet /\ Byte(s, 3 * j - 1) \in Octet /\ Byte(s, 3 * j) \in Octet
    BY <1>3
  <2>6. Bytes(e, 4 * j - 3) = <<Byte(s, 3 * j - 2), Byte(s, 3 * j - 1), Byte(s, 3 * j)>>
    BY <2>4, <2>5, BytesRead
  <2> QED BY <2>3, <2>6
<1> DEFINE c == Concat(f, n)
<1>5. Base64Decode(e) = SubSeq(c, 1, Len(s))
  BY <1>1, <1>2 DEF Base64Decode
<1> HIDE DEF f
<1>6. ASSUME NEW j \in 1 .. n
      PROVE  /\ f[j] \in Seq(Octet) /\ Len(f[j]) = 3
             /\ f[j][1] = Byte(s, 3 * j - 2) /\ f[j][2] = Byte(s, 3 * j - 1)
             /\ f[j][3] = Byte(s, 3 * j)
  <2> DEFINE b1 == Byte(s, 3 * j - 2)
             b2 == Byte(s, 3 * j - 1)
             b3 == Byte(s, 3 * j)
  <2>1. b1 \in Octet /\ b2 \in Octet /\ b3 \in Octet
    BY <1>3
  <2>2. f[j] = <<b1, b2, b3>>
    BY <1>4
  <2> HIDE DEF b1, b2, b3
  <2>3. /\ f[j] \in Seq(Octet) /\ Len(f[j]) = 3
        /\ f[j][1] = b1 /\ f[j][2] = b2 /\ f[j][3] = b3
    BY <2>1, <2>2
  <2> QED BY <2>3 DEF b1, b2, b3
<1>7. ArePieces(Octet, f, n) /\ AreOfLength(f, n, 3)
  BY <1>6 DEF ArePieces, AreOfLength
<1>8. c \in Seq(Octet) /\ Laid(c, f, n, 3)
  <2>1. 3 \in Nat
    OBVIOUS
  <2> QED BY <1>7, <2>1, EqualPieces
<1> HIDE DEF c
<1>9. OfLength(Octet, c, 3 * n)
  BY <1>8 DEF OfLength, Laid
<1>10. Len(s) <= 3 * n
  BY <1>1, <1>2
<1>11. ASSUME NEW p \in 1 .. Len(s)
       PROVE  c[p] = s[p]
  <2> DEFINE j == (p + 2) \div 3
             r == p - 3 * (j - 1)
  <2>1. j \in 1 .. n /\ r \in 1 .. 3 /\ p = 3 * (j - 1) + r
    BY <1>2, <1>10
  <2> HIDE DEF j, r
  <2>2. c[p] = f[j][r]
    BY <1>8, <2>1 DEF Laid
  <2>3. f[j][r] = Byte(s, p)
    <3>1. r = 1 \/ r = 2 \/ r = 3
      BY <2>1
    <3>2. /\ r = 1 => p = 3 * j - 2
          /\ r = 2 => p = 3 * j - 1
          /\ r = 3 => p = 3 * j
      BY <2>1
    <3> QED BY <1>6, <2>1, <3>1, <3>2
  <2>4. Byte(s, p) = s[p]
    BY <1>2 DEF Byte
  <2> QED BY <2>2, <2>3, <2>4
<1>12. SubSeq(c, 1, Len(s)) = s
  <2> DEFINE u == SubSeq(c, 1, Len(s))
  <2>1. OfLength(Octet, u, Len(s)) /\ \A i \in 1 .. Len(s) : u[i] = c[i]
    BY <1>2, <1>9, <1>10, Prefix
  <2> HIDE DEF u
  <2>2. u \in Seq(Octet) /\ Len(u) = Len(s) /\ \A i \in 1 .. Len(s) : u[i] = s[i]
    BY <1>11, <2>1 DEF OfLength
  <2>3. u = s
    BY <2>2, SeqEqual
  <2> QED BY <2>3 DEF u
<1>13. 4 * n = EncodedLength(Len(s))
  BY <1>1 DEF EncodedLength
<1> QED BY <1>2, <1>5, <1>12, <1>13 DEF e

(***************************************************************************)
(* The checksum of a zlib stream.                                          *)
(***************************************************************************)

\* Quotient and remainder are what they say, and nothing else is.
LEMMA Division ==
    ASSUME NEW m \in Nat, m # 0, NEW x \in Nat
    PROVE  x \div m \in Nat /\ x % m \in Nat /\ x % m < m /\ x = m * (x \div m) + (x % m)
  BY SMT

LEMMA DivisionUnique ==
    ASSUME NEW m \in Nat, m # 0, NEW x \in Nat,
           NEW q \in Nat, NEW r \in Nat, r < m, x = m * q + r
    PROVE  x \div m = q /\ x % m = r
<1> DEFINE p == x \div m
           t == x % m
<1>1. p \in Nat /\ t \in Nat /\ t < m /\ x = m * p + t
  BY Division
<1> HIDE DEF p, t
<1>2. ASSUME NEW a \in Nat, NEW b \in Nat, a < b
      PROVE  m * a + m <= m * b
  <2>1. PICK d \in Nat : b = a + 1 + d
    <3>1. b - a - 1 \in Nat /\ b = a + 1 + (b - a - 1)
      BY <1>2
    <3> QED BY <3>1
  <2>2. m * b = m * a + m + m * d /\ m * d \in Nat /\ m * a \in Nat
    BY <2>1, SMT
  <2> QED BY <2>2
<1>3. m * q \in Nat /\ m * p \in Nat
  BY <1>1, SMT
<1>4. ~(p < q)
  BY <1>1, <1>2, <1>3
<1>5. ~(q < p)
  BY <1>1, <1>2, <1>3
<1>6. p = q
  BY <1>1, <1>4, <1>5
<1>7. t = r
  BY <1>1, <1>3, <1>6
<1> QED BY <1>6, <1>7 DEF p, t

\* Remainders may be taken at every step or at the end.
LEMMA ModSum ==
    ASSUME NEW m \in Nat, m # 0, NEW x \in Nat, NEW y \in Nat
    PROVE  ((x % m) + y) % m = (x + y) % m
<1> DEFINE a == x \div m
           b == x % m
           z == b + y
           c == z \div m
           d == z % m
<1>1. a \in Nat /\ b \in Nat /\ x = m * a + b
  BY Division
<1>2. z \in Nat
  BY <1>1
<1>3. c \in Nat /\ d \in Nat /\ d < m /\ z = m * c + d
  <2> HIDE DEF z
  <2> QED BY <1>2, Division
<1>4. z = b + y /\ ((x % m) + y) % m = d
  OBVIOUS
<1> HIDE DEF a, b, c, d, z
<1>5. x + y = m * (a + c) + d
  <2>1. m * (a + c) = m * a + m * c /\ m * a \in Nat /\ m * c \in Nat
    BY <1>1, <1>3, SMT
  <2> QED BY <1>1, <1>2, <1>3, <1>4, <2>1
<1>6. x + y \in Nat /\ a + c \in Nat
  BY <1>1, <1>3
<1>7. (x + y) % m = d
  BY <1>3, <1>5, <1>6, DivisionUnique
<1> QED BY <1>4, <1>7

\* The function of the checksum.
AdlerStep(s, sum, k) ==
    IF k = 0 THEN [a |-> 1, b |-> 0]
    ELSE [a |-> (sum[k - 1].a + s[k]) % AdlerMod,
          b |-> (sum[k - 1].b + sum[k - 1].a + s[k]) % AdlerMod]
IsAdler(s, sum, n) == sum = [k \in 0 .. n |-> AdlerStep(s, sum, k)]

\* The checksum is its equation.
LEMMA AdlerExists ==
    ASSUME NEW s, NEW k \in Nat
    PROVE  \E F : IsAdler(s, F, k)
<1> DEFINE Bad == {n \in Nat : ~ \E F : IsAdler(s, F, n)}
<1> SUFFICES ASSUME Bad # {} PROVE FALSE
  OBVIOUS
<1>1. PICK x \in Bad : \A y \in Bad : x <= y
  BY Smallest
<1>2. PICK F : x # 0 => IsAdler(s, F, x - 1)
  <2>1. x # 0 => x - 1 \in Nat /\ x - 1 \notin Bad
    BY <1>1
  <2> QED BY <2>1
<1> DEFINE G == [n \in 0 .. x |-> IF n = x THEN AdlerStep(s, F, x) ELSE F[n]]
<1>3. /\ x \in Nat /\ G = [n \in 0 .. x |-> G[n]] /\ G[x] = AdlerStep(s, F, x)
      /\ \A n \in 0 .. x - 1 : G[n] = F[n]
  OBVIOUS
<1> HIDE DEF G, Bad
<1>4. ASSUME NEW n \in 0 .. x
      PROVE  G[n] = AdlerStep(s, G, n)
  <2>1. G[n] = AdlerStep(s, F, n)
    <3>1. n = x \/ (x # 0 /\ n \in 0 .. x - 1)
      BY <1>3
    <3>2. CASE n = x
      BY <1>3, <3>2
    <3>3. CASE x # 0 /\ n \in 0 .. x - 1
      <4>1. \A j \in 0 .. x - 1 : F[j] = AdlerStep(s, F, j)
        BY <1>2, <3>3 DEF IsAdler
      <4>2. F[n] = AdlerStep(s, F, n) /\ G[n] = F[n]
        BY <1>3, <3>3, <4>1
      <4> QED BY <4>2
    <3> QED BY <3>1, <3>2, <3>3
  <2>2. AdlerStep(s, F, n) = AdlerStep(s, G, n)
    <3>1. ASSUME n # 0 PROVE F[n - 1] = G[n - 1]
      <4>1. n - 1 \in 0 .. x - 1
        BY <1>3, <3>1
      <4> QED BY <1>3, <4>1
    <3> QED BY <3>1 DEF AdlerStep
  <2> QED BY <2>1, <2>2
<1>5. IsAdler(s, G, x)
  BY <1>3, <1>4 DEF IsAdler
<1> QED BY <1>1, <1>5 DEF Bad

LEMMA Adler32Is ==
    ASSUME NEW s, Len(s) \in Nat
    PROVE  \E F : IsAdler(s, F, Len(s)) /\ Adler32(s) = F[Len(s)]
<1> DEFINE F == CHOOSE F : IsAdler(s, F, Len(s))
<1>1. IsAdler(s, F, Len(s))
  BY AdlerExists
<1>2. Adler32(s) = F[Len(s)]
  BY DEF Adler32, IsAdler, AdlerStep
<1> QED BY <1>1, <1>2

LEMMA AdlerModulus == AdlerMod \in Nat /\ AdlerMod # 0 /\ 1 < AdlerMod /\ AdlerMod <= 65521
  BY EncodingAssumption, SMT


\* The running sums are the sums of the definition, reduced.
LEMMA AdlerSums ==
    ASSUME NEW s \in Seq(Octet)
    PROVE  LET sums == [n \in DOMAIN s |-> AdlerA(s, n)]
           IN /\ Adler32(s).a = AdlerA(s, Len(s)) /\ Adler32(s).a \in 0 .. AdlerMod - 1
              /\ Adler32(s).b = Total(sums, Len(s)) % AdlerMod
              /\ Adler32(s).b \in 0 .. AdlerMod - 1
<1> DEFINE sums == [n \in DOMAIN s |-> AdlerA(s, n)]
           len == Len(s)
           M == AdlerMod
<1>1. len \in Nat /\ DOMAIN s = 1 .. len /\ \A k \in 1 .. len : s[k] \in Nat
  <2>1. \A k \in DOMAIN s : s[k] \in Octet
    OBVIOUS
  <2>2. Octet \subseteq Nat
    BY DEF Octet
  <2>3. len \in Nat /\ DOMAIN s = 1 .. len
    OBVIOUS
  <2> QED BY <2>1, <2>2, <2>3
<1>2. PICK F : IsAdler(s, F, len) /\ Adler32(s) = F[len]
  BY <1>1, Adler32Is
<1>3. \A k \in 0 .. len : Total(s, k) \in Nat
  BY <1>1, TotalType
<1>4. M \in Nat /\ M # 0 /\ 1 < M
  BY AdlerModulus
<1>5. \A k \in 0 .. len : AdlerA(s, k) = (1 + Total(s, k)) % M /\ AdlerA(s, k) \in Nat
  BY <1>3, <1>4, Division DEF AdlerA
<1>6. \A k \in 1 .. len : sums[k] = AdlerA(s, k) /\ sums[k] \in Nat
  BY <1>1, <1>5
<1> HIDE DEF sums, len, M
<1>7. \A k \in 0 .. len : Total(sums, k) \in Nat
  BY <1>1, <1>6, TotalType
<1> DEFINE Bad == {k \in 0 .. len : ~(F[k].a = AdlerA(s, k) /\ F[k].b = Total(sums, k) % M)}
<1>8. Bad = {}
  <2> SUFFICES ASSUME Bad # {} PROVE FALSE
    OBVIOUS
  <2>1. PICK k \in Bad : \A j \in Bad : k <= j
    <3>1. Bad \subseteq Nat
      BY <1>1
    <3> HIDE DEF Bad
    <3> QED BY <3>1, Smallest
  <2>2. k \in 0 .. len /\ k \in Nat
    BY <1>1
  <2>3. F[k] = AdlerStep(s, F, k)
    BY <1>2, <2>2 DEF IsAdler
  <2>4. CASE k = 0
    <3>1. F[0].a = 1 /\ F[0].b = 0
      BY <2>3, <2>4 DEF AdlerStep
    <3>2. Total(s, 0) = 0 /\ Total(sums, 0) = 0
      BY TotalNext
    <3>3. 0 % M = 0 /\ 1 % M = 1
      <4>1. 0 = M * 0 + 0 /\ 1 = M * 0 + 1
        BY <1>4
      <4> QED BY <1>4, <4>1, DivisionUnique
    <3>4. AdlerA(s, 0) = 1
      BY <3>2, <3>3 DEF AdlerA, M
    <3> QED BY <2>4, <3>1, <3>2, <3>3, <3>4
  <2>5. CASE k # 0
    <3>1. k - 1 \in 0 .. len /\ k \in 1 .. len /\ ~(k <= k - 1) /\ k - 1 \in Nat
      BY <1>1, <2>2, <2>5
    <3>2. F[k - 1].a = AdlerA(s, k - 1) /\ F[k - 1].b = Total(sums, k - 1) % M
      BY <2>1, <3>1
    <3> DEFINE a == AdlerA(s, k - 1)
               x == 1 + Total(s, k - 1)
               y == s[k]
               B == Total(sums, k - 1)
    <3>3. a = x % M /\ x \in Nat /\ y \in Nat /\ B \in Nat /\ a \in Nat
      <4>1. y \in Nat
        BY <1>1, <3>1
      <4>2. B \in Nat
        BY <1>7, <3>1
      <4>3. Total(s, k - 1) \in Nat
        BY <1>3, <3>1
      <4>4. a = x % M /\ a \in Nat
        BY <1>5, <3>1
      <4> QED BY <4>1, <4>2, <4>3, <4>4
    <3>4. F[k].a = (a + y) % M /\ F[k].b = ((B % M) + a + y) % M
      BY <2>3, <2>5, <3>2 DEF AdlerStep, M
    <3>5. Total(s, k) = Total(s, k - 1) + s[k] /\ Total(sums, k) = Total(sums, k - 1) + sums[k]
      BY <2>2, <2>5, TotalNext
    <3>6. AdlerA(s, k) = (x + y) % M
      <4>1. 1 + Total(s, k) = x + y
        BY <1>1, <1>3, <3>1, <3>5
      <4> QED BY <1>5, <2>2, <4>1
    <3>7. Total(sums, k) = B + AdlerA(s, k)
      BY <1>6, <3>1, <3>5
    <3> HIDE DEF a, x, y, B
    <3>8. (a + y) % M = (x + y) % M
      BY <1>4, <3>3, ModSum
    <3>9. ((B % M) + (a + y)) % M = (B + (a + y)) % M
      <4>1. a + y \in Nat
        BY <3>3
      <4> QED BY <1>4, <3>3, <4>1, ModSum
    <3>10. (((a + y) % M) + B) % M = ((a + y) + B) % M
      <4>1. a + y \in Nat
        BY <3>3
      <4> QED BY <1>4, <3>3, <4>1, ModSum
    <3>11. (a + y) % M \in Nat /\ B % M \in Nat
      <4>1. a + y \in Nat
        BY <3>3
      <4> QED BY <1>4, <3>3, <4>1, Division
    <3>12. /\ (B % M) + a + y = (B % M) + (a + y) /\ B + (a + y) = (a + y) + B
           /\ ((a + y) % M) + B = B + ((a + y) % M)
      BY <3>3, <3>11
    <3>13. F[k].b = (B + ((a + y) % M)) % M
      BY <3>4, <3>9, <3>10, <3>12
    <3>14. F[k].b = Total(sums, k) % M
      BY <3>6, <3>7, <3>8, <3>13
    <3> QED BY <2>1, <3>4, <3>6, <3>8, <3>14
  <2> QED BY <2>4, <2>5
<1>9. F[len].a = AdlerA(s, len) /\ F[len].b = Total(sums, len) % M
  <2>1. len \in 0 .. len
    BY <1>1
  <2> QED BY <1>8, <2>1
<1>10. AdlerA(s, len) \in 0 .. M - 1 /\ Total(sums, len) % M \in 0 .. M - 1
  <2>1. len \in 0 .. len
    BY <1>1
  <2>2. 1 + Total(s, len) \in Nat /\ Total(sums, len) \in Nat
    BY <1>3, <1>7, <2>1
  <2>3. /\ (1 + Total(s, len)) % M \in Nat /\ (1 + Total(s, len)) % M < M
        /\ Total(sums, len) % M \in Nat /\ Total(sums, len) % M < M
    BY <1>4, <2>2, Division
  <2> QED BY <1>4, <1>5, <2>1, <2>3
<1> QED BY <1>2, <1>9, <1>10 DEF sums, len, M

(***************************************************************************)
(* Stored blocks.                                                          *)
(***************************************************************************)

\* A part of a sequence.
IsSlice(u, s, a, m) == \A i \in 1 .. m : u[i] = s[a + i]

LEMMA Slice ==
    ASSUME NEW S, NEW s, NEW n, OfLength(S, s, n), NEW a \in Nat, NEW m \in Nat, a + m <= n,
           NEW b, b = a + 1, NEW c, c = a + m
    PROVE  OfLength(S, SubSeq(s, b, c), m) /\ IsSlice(SubSeq(s, b, c), s, a, m)
<1>1. n \in Nat /\ s \in Seq(S) /\ Len(s) = n
  BY DEF OfLength
<1> DEFINE t == SubSeq(s, a + 1, a + m)
<1>2. t = [i \in 1 .. m |-> s[a + i]]
  <2>1. t = [i \in 1 .. a + m - (a + 1) + 1 |-> s[a + 1 + i - 1]]
    BY <1>1
  <2>2. a + m - (a + 1) + 1 = m /\ \A i \in 1 .. m : a + 1 + i - 1 = a + i
    OBVIOUS
  <2> HIDE DEF t
  <2> QED BY <2>1, <2>2
<1>3. t = SubSeq(s, b, c)
  OBVIOUS
<1> HIDE DEF t
<1>4. \A i \in 1 .. m : t[i] = s[a + i] /\ a + i \in 1 .. n
  BY <1>1, <1>2
<1>5. \A i \in 1 .. m : t[i] \in S
  BY <1>1, <1>4
<1>6. t = [i \in 1 .. m |-> t[i]]
  BY <1>2
<1>7. t \in Seq(S) /\ Len(t) = m
  BY <1>5, <1>6
<1> QED BY <1>3, <1>4, <1>7 DEF OfLength, IsSlice

\* A whole sequence in two parts.
LEMMA ThreePieces ==
    ASSUME NEW S, NEW s, NEW t, NEW u, NEW k, NEW m, NEW n,
           OfLength(S, s, k), OfLength(S, t, m), OfLength(S, u, n)
    PROVE  (s \o t) \o u = s \o (t \o u)
<1>1. s \in Seq(S) /\ t \in Seq(S) /\ u \in Seq(S)
  BY DEF OfLength
<1> QED BY <1>1, ConcatAssociative

\* Two sequences of the same bytes are one.
LEMMA SameSeq ==
    ASSUME NEW S, NEW u, NEW v, NEW n, OfLength(S, u, n), OfLength(S, v, n),
           \A i \in 1 .. n : u[i] = v[i]
    PROVE  u = v
<1>1. u \in Seq(S) /\ v \in Seq(S) /\ Len(u) = n /\ Len(v) = n
  BY DEF OfLength
<1> QED BY <1>1, SeqEqual

\* A block holds at least one byte, and its length fits two.
LEMMA BlockBound == MaxBlock \in Nat /\ MaxBlock >= 1 /\ MaxBlock <= 65535
  BY EncodingAssumption, SMT

LEMMA ChunkIs ==
    ASSUME NEW n \in Nat, n # 0
    PROVE  /\ Chunk(n) \in 1 .. n /\ Chunk(n) <= MaxBlock /\ Chunk(n) \in Nat
           /\ n - Chunk(n) \in 0 .. n - 1
           /\ Chunk(n) # n => Chunk(n) = MaxBlock
  BY BlockBound, SMT DEF Chunk

\* How many blocks n bytes take.
Blocks(n) == (n + MaxBlock - 1) \div MaxBlock

\* How many blocks there are.
LEMMA BlocksNext ==
    ASSUME NEW n \in Nat
    PROVE  /\ Blocks(n) \in Nat
           /\ Blocks(0) = 0
           /\ n # 0 => Blocks(n) = 1 + Blocks(n - Chunk(n))
<1> DEFINE M == MaxBlock
<1>1. M \in Nat /\ M >= 1 /\ M # 0
  BY BlockBound
<1>2. \A k \in Nat : Blocks(k) = (k + M - 1) \div M /\ k + M - 1 \in Nat
  BY <1>1 DEF Blocks
<1>3. \A k \in Nat : (n # 0 => Chunk(n) = IF n < M THEN n ELSE M)
  BY DEF Chunk
<1> HIDE DEF M
<1>4. Blocks(n) \in Nat
  BY <1>1, <1>2, Division
<1>5. \A q, r \in Nat : r < M => (M * q + r) \div M = q
  <2> TAKE q, r \in Nat
  <2> HAVE r < M
  <2>1. M * q + r \in Nat
    BY <1>1
  <2> QED BY <1>1, <2>1, DivisionUnique
<1>6. Blocks(0) = 0
  <2>1. 0 + M - 1 = M * 0 + (M - 1) /\ M - 1 \in Nat /\ M - 1 < M
    BY <1>1
  <2> QED BY <1>2, <1>5, <2>1
<1>7. ASSUME n # 0
      PROVE  Blocks(n) = 1 + Blocks(n - Chunk(n))
  <2>1. CASE n < M
    <3>1. n - Chunk(n) = 0
      BY <1>1, <1>3, <1>7, <2>1
    <3>2. n + M - 1 = M * 1 + (n - 1) /\ n - 1 \in Nat /\ n - 1 < M
      BY <1>1, <1>7, <2>1
    <3>3. Blocks(n) = 1
      BY <1>2, <1>5, <3>2
    <3> QED BY <1>6, <3>1, <3>3
  <2>2. CASE ~(n < M)
    <3> DEFINE k == n - M
               q == (k + M - 1) \div M
               r == (k + M - 1) % M
    <3>1. n - Chunk(n) = k /\ k \in Nat /\ k + M - 1 \in Nat
      BY <1>1, <1>3, <1>7, <2>2
    <3>2. q \in Nat /\ r \in Nat /\ r < M /\ k + M - 1 = M * q + r
      BY <1>1, <3>1, Division
    <3>3. Blocks(k) = q
      BY <1>2, <3>1
    <3>4. n = k + M
      BY <1>1
    <3> HIDE DEF k, q, r
    <3>5. n + M - 1 = M * (q + 1) + r
      <4>1. M * (q + 1) = M * q + M
        BY <1>1, <3>2
      <4> QED BY <1>1, <3>1, <3>2, <3>4, <4>1
    <3>6. q + 1 \in Nat
      BY <3>2
    <3>7. Blocks(n) = q + 1
      BY <1>2, <1>5, <3>2, <3>5, <3>6
    <3> QED BY <3>1, <3>2, <3>3, <3>7
  <2> QED BY <2>1, <2>2
<1> QED BY <1>4, <1>6, <1>7

\* The loop that writes the blocks.
BlockStep(s, blocks, left) ==
    LET done == Len(s) - left
        n == Chunk(left)
    IN IF left = 0 THEN <<>>
       ELSE Stored(SubSeq(s, done + 1, done + n), n = left) \o blocks[left - n]
IsBlocks(s, blocks, n) == blocks = [left \in 0 .. n |-> BlockStep(s, blocks, left)]

\* The loop of nyx_zlib_deflate is its equation.
LEMMA BlocksExists ==
    ASSUME NEW s, NEW k \in Nat
    PROVE  \E F : IsBlocks(s, F, k)
<1> DEFINE Bad == {n \in Nat : ~ \E F : IsBlocks(s, F, n)}
<1> SUFFICES ASSUME Bad # {} PROVE FALSE
  OBVIOUS
<1>1. PICK x \in Bad : \A y \in Bad : x <= y
  BY Smallest
<1>2. PICK F : x # 0 => IsBlocks(s, F, x - 1)
  <2>1. x # 0 => x - 1 \in Nat /\ x - 1 \notin Bad
    BY <1>1
  <2> QED BY <2>1
<1> DEFINE G == [n \in 0 .. x |-> IF n = x THEN BlockStep(s, F, x) ELSE F[n]]
<1>3. /\ x \in Nat /\ G = [n \in 0 .. x |-> G[n]] /\ G[x] = BlockStep(s, F, x)
      /\ \A n \in 0 .. x - 1 : G[n] = F[n]
  OBVIOUS
<1> HIDE DEF G, Bad
<1>4. ASSUME NEW n \in 0 .. x
      PROVE  G[n] = BlockStep(s, G, n)
  <2>1. G[n] = BlockStep(s, F, n)
    <3>1. n = x \/ (x # 0 /\ n \in 0 .. x - 1)
      BY <1>3
    <3>2. CASE n = x
      BY <1>3, <3>2
    <3>3. CASE x # 0 /\ n \in 0 .. x - 1
      <4>1. \A j \in 0 .. x - 1 : F[j] = BlockStep(s, F, j)
        BY <1>2, <3>3 DEF IsBlocks
      <4>2. F[n] = BlockStep(s, F, n) /\ G[n] = F[n]
        BY <1>3, <3>3, <4>1
      <4> QED BY <4>2
    <3> QED BY <3>1, <3>2, <3>3
  <2>2. BlockStep(s, F, n) = BlockStep(s, G, n)
    <3>1. ASSUME n # 0 PROVE F[n - Chunk(n)] = G[n - Chunk(n)]
      <4>1. n - Chunk(n) \in 0 .. x - 1
        <5>1. n - Chunk(n) \in 0 .. n - 1
          BY <3>1, ChunkIs
        <5> QED BY <1>3, <5>1
      <4> QED BY <1>3, <4>1
    <3> QED BY <3>1 DEF BlockStep
  <2> QED BY <2>1, <2>2
<1>5. IsBlocks(s, G, x)
  BY <1>3, <1>4 DEF IsBlocks
<1> QED BY <1>1, <1>5 DEF Bad

LEMMA StoredBlocksIs ==
    ASSUME NEW s, Len(s) \in Nat
    PROVE  \E F : IsBlocks(s, F, Len(s)) /\ StoredBlocks(s) = F[Len(s)]
<1> DEFINE F == CHOOSE F : IsBlocks(s, F, Len(s))
<1>1. IsBlocks(s, F, Len(s))
  BY BlocksExists
<1>2. StoredBlocks(s) = F[Len(s)]
  BY DEF StoredBlocks, IsBlocks, BlockStep
<1> QED BY <1>1, <1>2

\* A block is five bytes and its chunk.
LEMMA StoredIs ==
    ASSUME NEW chunk, NEW n, OfLength(Octet, chunk, n), n <= 65535, NEW last \in BOOLEAN,
           NEW b, b = Stored(chunk, last)
    PROVE  /\ OfLength(Octet, b, 5 + n)
           /\ b[1] = (IF last THEN 1 ELSE 0)
           /\ b[2] = n % 256 /\ b[3] = n \div 256
           /\ b[4] = 255 - (n % 256) /\ b[5] = 255 - (n \div 256)
           /\ \A i \in 1 .. n : b[5 + i] = chunk[i]
<1> DEFINE b1 == IF last THEN 1 ELSE 0
           b2 == n % 256
           b3 == n \div 256
           b4 == 255 - (n % 256)
           b5 == 255 - (n \div 256)
           head == <<b1, b2, b3, b4, b5>>
<1>1. n \in Nat /\ Len(chunk) = n
  BY DEF OfLength
<1>2. b = head \o chunk
  BY <1>1 DEF Stored
<1>3. b1 \in Octet /\ b2 \in Octet /\ b3 \in Octet /\ b4 \in Octet /\ b5 \in Octet
  <2>1. n % 256 \in 0..255 /\ n \div 256 \in 0..255
    BY <1>1, SMT
  <2> QED BY <2>1, SMT DEF Octet
<1> HIDE DEF b1, b2, b3, b4, b5
<1>4. head \in Seq(Octet) /\ Len(head) = 5 /\ 5 \in Nat
  BY <1>3, SMT
<1>5. head[1] = b1 /\ head[2] = b2 /\ head[3] = b3 /\ head[4] = b4 /\ head[5] = b5
  OBVIOUS
<1> HIDE DEF head
<1>6. OfLength(Octet, head, 5)
  BY <1>4 DEF OfLength
<1>7. OfLength(Octet, b, 5 + n) /\ Joins(b, head, chunk, 5, n)
  BY <1>2, <1>6, TwoPieces
<1>8. b[1] = b1 /\ b[2] = b2 /\ b[3] = b3 /\ b[4] = b4 /\ b[5] = b5
  <2>1. \A i \in 1 .. 5 : b[i] = head[i]
    BY <1>7 DEF Joins
  <2> QED BY <1>5, <2>1
<1>9. \A i \in 1 .. n : b[5 + i] = chunk[i]
  BY <1>7 DEF Joins
<1> QED BY <1>7, <1>8, <1>9 DEF b1, b2, b3, b4, b5

\* What the loop has written for the last bytes.
LEMMA BlocksType ==
    ASSUME NEW s, NEW len, OfLength(Octet, s, len), NEW F, IsBlocks(s, F, len)
    PROVE  \A left \in 0 .. len : OfLength(Octet, F[left], left + 5 * Blocks(left))
<1> DEFINE Bad == {left \in 0 .. len : ~OfLength(Octet, F[left], left + 5 * Blocks(left))}
<1>1. len \in Nat /\ Len(s) = len
  BY DEF OfLength
<1> SUFFICES ASSUME Bad # {} PROVE FALSE
  OBVIOUS
<1>2. PICK left \in Bad : \A j \in Bad : left <= j
  <2>1. Bad \subseteq Nat
    OBVIOUS
  <2> HIDE DEF Bad
  <2> QED BY <2>1, Smallest
<1>3. left \in 0 .. len /\ left \in Nat
  BY <1>1
<1>4. F[left] = BlockStep(s, F, left)
  BY <1>3 DEF IsBlocks
<1>5. CASE left = 0
  <2>1. F[left] = <<>>
    BY <1>4, <1>5 DEF BlockStep
  <2>2. Blocks(0) = 0
    BY BlocksNext
  <2>3. OfLength(Octet, <<>>, 0)
    BY DEF OfLength
  <2> QED BY <1>5, <2>1, <2>2, <2>3
<1>6. CASE left # 0
  <2> DEFINE n == Chunk(left)
             done == len - left
             chunk == SubSeq(s, done + 1, done + n)
             b == Stored(chunk, n = left)
             rest == left - n
  <2>1. /\ n \in Nat /\ n <= 65535 /\ rest \in Nat /\ rest < left /\ rest \in 0 .. len
        /\ done \in Nat /\ done + n <= len /\ left = n + rest
    <3>1. n \in 1 .. left /\ n <= MaxBlock /\ n \in Nat
      BY <1>3, <1>6, ChunkIs
    <3> HIDE DEF n
    <3> QED BY <1>1, <1>3, <3>1, BlockBound, SMT
  <2>2. Blocks(left) = 1 + Blocks(rest) /\ Blocks(rest) \in Nat
    <3>1. Blocks(left) = 1 + Blocks(rest)
      BY <1>3, <1>6, BlocksNext
    <3> HIDE DEF rest
    <3> QED BY <2>1, <3>1, BlocksNext
  <2>3. F[left] = b \o F[rest]
    BY <1>1, <1>4, <1>6 DEF BlockStep
  <2> HIDE DEF n, done, rest, Bad
  <2>4. OfLength(Octet, chunk, n)
    <3> DEFINE from == done + 1
               to == done + n
    <3>1. from = done + 1 /\ to = done + n /\ chunk = SubSeq(s, from, to)
      OBVIOUS
    <3> HIDE DEF from, to, chunk
    <3>2. OfLength(Octet, SubSeq(s, from, to), n)
      <4>1. n \in Nat /\ done \in Nat /\ done + n <= len
        BY <2>1
      <4> QED BY <3>1, <4>1, Slice
    <3> QED BY <3>1, <3>2
  <2>5. OfLength(Octet, b, 5 + n)
    <3> DEFINE last == (n = left)
    <3>1. last \in BOOLEAN /\ b = Stored(chunk, last)
      OBVIOUS
    <3> HIDE DEF last, b, chunk
    <3> QED BY <2>1, <2>4, <3>1, StoredIs
  <2>6. OfLength(Octet, F[rest], rest + 5 * Blocks(rest))
    <3>1. rest \notin Bad
      BY <1>2, <1>3, <2>1
    <3> QED BY <2>1, <3>1 DEF Bad
  <2> HIDE DEF b
  <2>7. OfLength(Octet, b \o F[rest], (5 + n) + (rest + 5 * Blocks(rest)))
    BY <2>5, <2>6, TwoPieces
  <2>8. (5 + n) + (rest + 5 * Blocks(rest)) = left + 5 * Blocks(left)
    BY <2>1, <2>2
  <2>9. OfLength(Octet, F[left], left + 5 * Blocks(left))
    BY <2>3, <2>7, <2>8
  <2> QED BY <1>3, <2>9 DEF Bad
<1> QED BY <1>5, <1>6

\* The inflater, by how many bytes are left to read.
Inflated(bytes, rest) == [ok |-> TRUE, bytes |-> bytes, rest |-> rest]

ChunkAt(w, p, n) == SubSeq(w, p + 6, p + 5 + n)
RestAt(w, p, n) == SubSeq(w, p + 6 + n, Len(w))
IsLast(w, p) == w[p + 1] = 1

AfterBlock(w, p, n, more) ==
    IF IsLast(w, p) THEN Inflated(ChunkAt(w, p, n), RestAt(w, p, n))
    ELSE IF more.ok THEN Inflated(ChunkAt(w, p, n) \o more.bytes, more.rest)
    ELSE NotInflated

Declared(w, p) == w[p + 2] + 256 * w[p + 3]

IsRefused(w, p, left) ==
    \/ left < 5 + Declared(w, p) \/ w[p + 1] \notin {0, 1}
    \/ w[p + 2] + w[p + 4] # 255 \/ w[p + 3] + w[p + 5] # 255

InflateStep(w, inflate, left) ==
    LET p == Len(w) - left
    IN IF left < 5 THEN NotInflated
       ELSE IF IsRefused(w, p, left) THEN NotInflated
       ELSE AfterBlock(w, p, Declared(w, p), inflate[left - 5 - Declared(w, p)])
IsInflate(w, inflate, n) == inflate = [left \in 0 .. n |-> InflateStep(w, inflate, left)]

\* The inflater of the RFC is its equation.
LEMMA InflateExists ==
    ASSUME NEW w \in Seq(Octet), NEW k \in Nat, k <= Len(w)
    PROVE  \E F : IsInflate(w, F, k)
<1> DEFINE Bad == {n \in 0 .. k : ~ \E F : IsInflate(w, F, n)}
<1> SUFFICES ASSUME Bad # {} PROVE FALSE
  <2>1. k \in 0 .. k
    OBVIOUS
  <2> QED BY <2>1
<1>1. PICK x \in Bad : \A y \in Bad : x <= y
  <2>1. Bad \subseteq Nat
    OBVIOUS
  <2> HIDE DEF Bad
  <2> QED BY <2>1, Smallest
<1>2. PICK F : x # 0 => IsInflate(w, F, x - 1)
  <2>1. x # 0 => x - 1 \in 0 .. k /\ ~(x <= x - 1)
    OBVIOUS
  <2>2. x # 0 => x - 1 \notin Bad
    BY <1>1, <2>1
  <2> QED BY <2>1, <2>2
<1> DEFINE G == [n \in 0 .. x |-> IF n = x THEN InflateStep(w, F, x) ELSE F[n]]
<1>3. /\ x \in Nat /\ x <= Len(w) /\ G = [n \in 0 .. x |-> G[n]] /\ G[x] = InflateStep(w, F, x)
      /\ \A n \in 0 .. x - 1 : G[n] = F[n]
  OBVIOUS
<1> HIDE DEF G, Bad
<1>4. ASSUME NEW n \in 0 .. x
      PROVE  G[n] = InflateStep(w, G, n)
  <2>1. G[n] = InflateStep(w, F, n)
    <3>1. n = x \/ (x # 0 /\ n \in 0 .. x - 1)
      BY <1>3
    <3>2. CASE n = x
      BY <1>3, <3>2
    <3>3. CASE x # 0 /\ n \in 0 .. x - 1
      <4>1. \A j \in 0 .. x - 1 : F[j] = InflateStep(w, F, j)
        BY <1>2, <3>3 DEF IsInflate
      <4>2. F[n] = InflateStep(w, F, n) /\ G[n] = F[n]
        BY <1>3, <3>3, <4>1
      <4> QED BY <4>2
    <3> QED BY <3>1, <3>2, <3>3
  <2>2. InflateStep(w, F, n) = InflateStep(w, G, n)
    <3> DEFINE p == Len(w) - n
               c == Declared(w, p)
    <3>1. CASE n < 5
      BY <3>1 DEF InflateStep
    <3>2. CASE ~(n < 5)
      <4>1. Len(w) \in Nat /\ p + 2 \in 1 .. Len(w) /\ p + 3 \in 1 .. Len(w)
        BY <1>3, <3>2
      <4>2. w[p + 2] \in Octet /\ w[p + 3] \in Octet
        BY <4>1
      <4>3. c \in Nat
        <5>1. \A i, j \in Octet : i + 256 * j \in Nat
          BY SMT DEF Octet
        <5> QED BY <4>2, <5>1 DEF Declared
      <4>4. CASE IsRefused(w, p, n)
        BY <3>2, <4>4 DEF InflateStep
      <4>5. CASE ~IsRefused(w, p, n)
        <5>1. ~(n < 5 + c)
          BY <4>5 DEF IsRefused
        <5>2. InflateStep(w, F, n) = AfterBlock(w, p, c, F[n - 5 - c])
          BY <3>2, <4>5 DEF InflateStep
        <5>3. InflateStep(w, G, n) = AfterBlock(w, p, c, G[n - 5 - c])
          BY <3>2, <4>5 DEF InflateStep
        <5> HIDE DEF c
        <5>4. n - 5 - c \in 0 .. x - 1
          BY <1>3, <4>3, <5>1
        <5>5. F[n - 5 - c] = G[n - 5 - c]
          BY <1>3, <5>4
        <5> QED BY <5>2, <5>3, <5>5
      <4> QED BY <4>4, <4>5
    <3> QED BY <3>1, <3>2
  <2> QED BY <2>1, <2>2
<1>5. IsInflate(w, G, x)
  BY <1>3, <1>4 DEF IsInflate
<1> QED BY <1>1, <1>5 DEF Bad

LEMMA InflateIs ==
    ASSUME NEW w \in Seq(Octet)
    PROVE  \E I : IsInflate(w, I, Len(w)) /\ InflateBlocks(w) = I[Len(w)]
<1> DEFINE I == CHOOSE I : IsInflate(w, I, Len(w))
<1>1. IsInflate(w, I, Len(w))
  <2>1. Len(w) \in Nat /\ Len(w) <= Len(w)
    OBVIOUS
  <2> QED BY <2>1, InflateExists
<1>2. InflateBlocks(w) = I[Len(w)]
  BY DEF InflateBlocks, IsInflate, InflateStep, AfterBlock, IsRefused, Declared,
         Inflated, ChunkAt, RestAt, IsLast
<1> QED BY <1>1, <1>2

\* What the inflater does at a block that begins at p + 1.
AtBlock(w, p, n, last) ==
    /\ w[p + 1] = (IF last THEN 1 ELSE 0)
    /\ w[p + 2] = n % 256 /\ w[p + 3] = n \div 256
    /\ w[p + 4] = 255 - (n % 256) /\ w[p + 5] = 255 - (n \div 256)

SplitAt(len, p, n, r, left) ==
    /\ p \in Nat /\ n \in Nat /\ r \in Nat
    /\ len = p + 5 + n + r /\ left = 5 + n + r

\* One block is inflated, then what follows it.
LEMMA InflateReads ==
    ASSUME NEW w, NEW len, OfLength(Octet, w, len),
           NEW p, NEW n, NEW r, NEW left, SplitAt(len, p, n, r, left),
           NEW I, NEW last \in BOOLEAN, AtBlock(w, p, n, last)
    PROVE  /\ InflateStep(w, I, left) = AfterBlock(w, p, n, I[r])
           /\ IsLast(w, p) <=> last
<1>0. p \in Nat /\ n \in Nat /\ r \in Nat /\ len = p + 5 + n + r /\ left = 5 + n + r
  BY DEF SplitAt
<1> DEFINE a == n % 256
           b == n \div 256
<1>1. Len(w) - left = p /\ ~(left < 5) /\ ~(left < 5 + n) /\ left - 5 - n = r
  BY <1>0 DEF OfLength
<1>2. /\ w[p + 1] = (IF last THEN 1 ELSE 0)
      /\ w[p + 2] = a /\ w[p + 3] = b /\ w[p + 4] = 255 - a /\ w[p + 5] = 255 - b
  BY DEF AtBlock
<1>3. a \in Nat /\ b \in Nat /\ a + 256 * b = n
  BY <1>0
<1> HIDE DEF a, b
<1>4. /\ w[p + 1] \in {0, 1} /\ (w[p + 1] = 1 <=> last)
      /\ w[p + 2] + w[p + 4] = 255 /\ w[p + 3] + w[p + 5] = 255
      /\ w[p + 2] + 256 * w[p + 3] = n
  BY <1>2, <1>3
<1>5. Declared(w, p) = n
  BY <1>4 DEF Declared
<1>6. ~IsRefused(w, p, left)
  BY <1>1, <1>4, <1>5 DEF IsRefused
<1>7. InflateStep(w, I, left) = AfterBlock(w, p, n, I[r])
  BY <1>1, <1>5, <1>6 DEF InflateStep
<1> QED BY <1>4, <1>7 DEF IsLast

\* w ends with u.
Ends(w, p, u, n) == \A i \in 1 .. n : w[p + i] = u[i]

\* What the loop wrote for the last bytes, with z behind it, inflates to them.
BlocksInflate(s, F, I, w, z, left, zlen) ==
    LET n == left + 5 * Blocks(left) + zlen
    IN n <= Len(w) /\ Ends(w, Len(w) - n, F[left] \o z, n)
       => I[n] = Inflated(SubSeq(s, Len(s) - left + 1, Len(s)), z)

LEMMA MoreInflated ==
    ASSUME NEW w, NEW p, NEW n, ~IsLast(w, p),
           NEW bytes, NEW z, NEW more, more = Inflated(bytes, z)
    PROVE  AfterBlock(w, p, n, more) = Inflated(ChunkAt(w, p, n) \o bytes, z)
<1>1. more.ok /\ more.bytes = bytes /\ more.rest = z
  BY DEF Inflated
<1> QED BY <1>1 DEF AfterBlock

\* Stored blocks are inflated to the bytes they store.
LEMMA BlocksAreInflated ==
    ASSUME NEW s, NEW len, OfLength(Octet, s, len), NEW F, IsBlocks(s, F, len),
           NEW w, NEW wlen, OfLength(Octet, w, wlen), NEW I, IsInflate(w, I, wlen),
           NEW z, NEW zlen, OfLength(Octet, z, zlen)
    PROVE  \A left \in 1 .. len : BlocksInflate(s, F, I, w, z, left, zlen)
<1> DEFINE Bad == {left \in 1 .. len : ~BlocksInflate(s, F, I, w, z, left, zlen)}
<1>1. len \in Nat /\ Len(s) = len /\ wlen \in Nat /\ Len(w) = wlen /\ zlen \in Nat /\ z \in Seq(Octet)
  BY DEF OfLength
<1> SUFFICES ASSUME Bad # {} PROVE FALSE
  OBVIOUS
<1>2. PICK left \in Bad : \A j \in Bad : left <= j
  <2>1. Bad \subseteq Nat
    OBVIOUS
  <2> HIDE DEF Bad
  <2> QED BY <2>1, Smallest
<1>3. left \in 1 .. len /\ left \in Nat /\ left # 0
  BY <1>1
<1>4. F[left] = BlockStep(s, F, left)
  <2>1. left \in 0 .. len
    BY <1>3
  <2> QED BY <2>1 DEF IsBlocks
<1> DEFINE n == Chunk(left)
           done == len - left
           chunk == SubSeq(s, done + 1, done + n)
           last == (n = left)
           b == Stored(chunk, last)
           rest == left - n
           vlen == rest + 5 * Blocks(rest) + zlen
           L == left + 5 * Blocks(left) + zlen
           p == wlen - L
           v == F[rest] \o z
           u == F[left] \o z
<1>5. /\ n \in Nat /\ n <= 65535 /\ rest \in Nat /\ rest < left /\ rest \in 0 .. len
      /\ done \in Nat /\ done + n <= len /\ left = n + rest /\ done + left = len
  <2>1. n \in 1 .. left /\ n <= MaxBlock /\ n \in Nat
    BY <1>3, ChunkIs
  <2> HIDE DEF n
  <2> QED BY <1>1, <1>3, <2>1, BlockBound, SMT
<1>6. Blocks(left) = 1 + Blocks(rest) /\ Blocks(rest) \in Nat
  <2>1. Blocks(left) = 1 + Blocks(rest)
    BY <1>3, BlocksNext
  <2> HIDE DEF rest
  <2> QED BY <1>5, <2>1, BlocksNext
<1>7. F[left] = b \o F[rest]
  BY <1>1, <1>3, <1>4 DEF BlockStep
<1>8. last \in BOOLEAN /\ (last <=> rest = 0)
  BY <1>5
<1> SUFFICES ASSUME L <= wlen, Ends(w, p, u, L)
             PROVE  I[L] = Inflated(SubSeq(s, done + 1, len), z)
  BY <1>1, <1>2 DEF BlocksInflate
<1> HIDE DEF n, done, rest, Bad
<1>9. OfLength(Octet, chunk, n) /\ \A i \in 1 .. n : chunk[i] = s[done + i]
  <2> DEFINE from == done + 1
             to == done + n
  <2>1. from = done + 1 /\ to = done + n /\ chunk = SubSeq(s, from, to)
    OBVIOUS
  <2>2. n \in Nat /\ done \in Nat /\ done + n <= len
    BY <1>5
  <2> HIDE DEF from, to, chunk
  <2>3. OfLength(Octet, SubSeq(s, from, to), n) /\ IsSlice(SubSeq(s, from, to), s, done, n)
    BY <2>1, <2>2, Slice
  <2> QED BY <2>1, <2>3 DEF IsSlice
<1> HIDE DEF chunk, last
<1>10. /\ OfLength(Octet, b, 5 + n)
       /\ b[1] = (IF last THEN 1 ELSE 0)
       /\ b[2] = n % 256 /\ b[3] = n \div 256
       /\ b[4] = 255 - (n % 256) /\ b[5] = 255 - (n \div 256)
       /\ \A i \in 1 .. n : b[5 + i] = chunk[i]
  BY <1>5, <1>8, <1>9, StoredIs
<1> HIDE DEF b
<1>11. OfLength(Octet, F[rest], rest + 5 * Blocks(rest))
  BY <1>5, BlocksType
<1>12. OfLength(Octet, v, vlen)
  BY <1>11, TwoPieces
<1>13. u = b \o v
  <2> DEFINE f == F[rest]
             flen == rest + 5 * Blocks(rest)
             blen == 5 + n
  <2>1. u = (b \o f) \o z /\ v = f \o z
    BY <1>7
  <2>2. OfLength(Octet, b, blen) /\ OfLength(Octet, f, flen)
    BY <1>10, <1>11
  <2> HIDE DEF u, v, f, flen, blen
  <2>3. (b \o f) \o z = b \o (f \o z)
    BY <2>2, ThreePieces, SMTT(30)
  <2> QED BY <2>1, <2>3
<1>14. L = 5 + n + vlen /\ L \in Nat /\ vlen \in Nat /\ p \in Nat /\ wlen = p + 5 + n + vlen
  <2> DEFINE k == Blocks(rest)
  <2>1. Blocks(left) = 1 + k /\ k \in Nat
    BY <1>6
  <2>2. vlen = rest + 5 * k + zlen /\ L = left + 5 * Blocks(left) + zlen /\ p = wlen - L
        /\ L <= wlen
    OBVIOUS
  <2> HIDE DEF k, vlen, L, p
  <2>3. L = 5 + n + vlen /\ L \in Nat /\ vlen \in Nat
    BY <1>1, <1>5, <2>1, <2>2
  <2>4. wlen = p + 5 + n + vlen /\ p \in Nat
    <3>1. wlen \in Nat /\ n \in Nat
      BY <1>1, <1>5
    <3>2. p = wlen - L /\ L <= wlen
      BY <2>2
    <3> QED BY <2>3, <3>1, <3>2
  <2> QED BY <2>3, <2>4
<1> HIDE DEF vlen, L, p, v, u
<1>15. /\ \A i \in 1 .. 5 + n : u[i] = b[i]
       /\ \A i \in 1 .. vlen : u[5 + n + i] = v[i]
  <2>1. Joins(u, b, v, 5 + n, vlen)
    BY <1>10, <1>12, <1>13, TwoPieces, ZenonT(30)
  <2> QED BY <2>1 DEF Joins
<1>16. \A i \in 1 .. 5 + n + vlen : w[p + i] = u[i]
  BY <1>14 DEF Ends
<1>17. AtBlock(w, p, n, last)
  <2>1. /\ 1 \in 1 .. 5 + n /\ 2 \in 1 .. 5 + n /\ 3 \in 1 .. 5 + n /\ 4 \in 1 .. 5 + n
        /\ 5 \in 1 .. 5 + n
    BY <1>5
  <2>2. \A i \in 1 .. 5 + n : w[p + i] = b[i]
    <3>1. \A i \in 1 .. 5 + n : i \in 1 .. 5 + n + vlen
      BY <1>5, <1>14
    <3> QED BY <1>15, <1>16, <3>1
  <2> QED BY <1>10, <2>1, <2>2 DEF AtBlock
<1>18. ChunkAt(w, p, n) = chunk
  <2> DEFINE a == p + 5
             from == p + 6
             to == p + 5 + n
             t == SubSeq(w, from, to)
  <2>1. a \in Nat /\ a + n <= wlen /\ from = a + 1 /\ to = a + n /\ n \in Nat
    BY <1>5, <1>14
  <2>2. \A i \in 1 .. n : w[a + i] = chunk[i]
    <3> TAKE i \in 1 .. n
    <3>1. p + (5 + i) = p + 5 + i /\ 5 + i \in 1 .. 5 + n + vlen /\ 5 + i \in 1 .. 5 + n
      BY <1>5, <1>14
    <3>2. w[p + (5 + i)] = u[5 + i] /\ u[5 + i] = b[5 + i] /\ b[5 + i] = chunk[i]
      BY <1>10, <1>15, <1>16, <3>1
    <3> QED BY <3>1, <3>2
  <2> HIDE DEF a, from, to
  <2>3. OfLength(Octet, t, n) /\ IsSlice(t, w, a, n)
    BY <2>1, Slice
  <2> HIDE DEF t
  <2>4. t = chunk
    BY <1>9, <2>2, <2>3, SameSeq DEF IsSlice
  <2> QED BY <2>4 DEF t, from, to, ChunkAt
<1>19. I[L] = InflateStep(w, I, L)
  <2>1. L \in 0 .. wlen
    BY <1>1, <1>14
  <2> QED BY <2>1 DEF IsInflate
<1>20. I[L] = AfterBlock(w, p, n, I[vlen]) /\ (IsLast(w, p) <=> last)
  <2>1. SplitAt(wlen, p, n, vlen, L)
    BY <1>5, <1>14 DEF SplitAt
  <2> QED BY <1>8, <1>17, <1>19, <2>1, InflateReads
<1>21. \A i \in 1 .. vlen : w[p + 5 + n + i] = v[i]
  <2> TAKE i \in 1 .. vlen
  <2>1. p + 5 + n + i = p + (5 + n + i) /\ 5 + n + i \in 1 .. 5 + n + vlen
    BY <1>5, <1>14
  <2> QED BY <1>15, <1>16, <2>1
<1>22. CASE last
  <2>1. rest = 0 /\ n = left
    BY <1>5, <1>8, <1>22
  <2>2. v = z /\ vlen = zlen
    <3>1. F[0] = <<>>
      <4>1. F[0] = BlockStep(s, F, 0)
        BY <1>1 DEF IsBlocks
      <4> QED BY <4>1 DEF BlockStep
    <3>2. v = z
      BY <1>1, <2>1, <3>1, ConcatEmptySeq DEF v
    <3>3. Blocks(0) = 0
      BY BlocksNext
    <3> QED BY <1>1, <2>1, <3>2, <3>3 DEF vlen
  <2>3. RestAt(w, p, n) = z
    <3> DEFINE a == p + 5 + n
               from == p + 6 + n
               t == SubSeq(w, from, wlen)
    <3>1. a \in Nat /\ a + zlen <= wlen /\ from = a + 1 /\ wlen = a + zlen /\ zlen \in Nat
      BY <1>1, <1>5, <1>14, <2>2
    <3>2. \A i \in 1 .. zlen : w[a + i] = z[i]
      BY <1>21, <2>2
    <3> HIDE DEF a, from
    <3>3. OfLength(Octet, t, zlen) /\ IsSlice(t, w, a, zlen)
      BY <3>1, Slice
    <3> HIDE DEF t
    <3>4. t = z
      BY <3>2, <3>3, SameSeq DEF IsSlice
    <3> QED BY <1>1, <3>4 DEF t, from, RestAt
  <2>4. chunk = SubSeq(s, done + 1, len)
    <3>1. done + n = len
      BY <1>5, <2>1
    <3> QED BY <3>1 DEF chunk
  <2>5. I[L] = Inflated(chunk, z)
    BY <1>18, <1>20, <1>22, <2>3 DEF AfterBlock
  <2> QED BY <2>4, <2>5
<1>23. CASE ~last
  <2>1. rest \in 1 .. len /\ rest # 0 /\ ~(left <= rest)
    BY <1>3, <1>5, <1>8, <1>23
  <2>2. BlocksInflate(s, F, I, w, z, rest, zlen)
    <3>1. rest \notin Bad
      BY <1>2, <2>1
    <3> QED BY <2>1, <3>1 DEF Bad
  <2>3. vlen <= Len(w) /\ Len(w) - vlen = p + 5 + n
    BY <1>1, <1>5, <1>14
  <2>4. Ends(w, Len(w) - vlen, v, vlen)
    BY <1>21, <2>3 DEF Ends
  <2> DEFINE tail == SubSeq(s, len - rest + 1, len)
  <2>5. I[vlen] = Inflated(tail, z)
    BY <1>1, <2>2, <2>3, <2>4 DEF BlocksInflate, vlen, v
  <2>6. I[L] = Inflated(chunk \o tail, z)
    <3> HIDE DEF tail
    <3>1. AfterBlock(w, p, n, I[vlen]) = Inflated(ChunkAt(w, p, n) \o tail, z)
      BY <1>20, <1>23, <2>5, MoreInflated
    <3> QED BY <1>18, <1>20, <3>1
  <2>7. chunk \o tail = SubSeq(s, done + 1, len)
    <3> DEFINE a == done + n
               from == len - rest + 1
               first == done + 1
               whole == SubSeq(s, first, len)
    <3>1. /\ a \in Nat /\ a + rest <= len /\ rest \in Nat /\ from = a + 1 /\ len = a + rest
          /\ first = done + 1 /\ len = done + left /\ done + left <= len /\ a = done + n
      BY <1>1, <1>5
    <3>2. tail = SubSeq(s, from, len)
      OBVIOUS
    <3> HIDE DEF a, tail, from, first
    <3>3. OfLength(Octet, tail, rest) /\ IsSlice(tail, s, a, rest)
      BY <3>1, <3>2, Slice
    <3>4. OfLength(Octet, whole, left) /\ IsSlice(whole, s, done, left)
      BY <1>3, <1>5, <3>1, Slice
    <3> DEFINE j == chunk \o tail
    <3> HIDE DEF whole
    <3>6. OfLength(Octet, j, n + rest) /\ Joins(j, chunk, tail, n, rest)
      BY <1>9, <3>3, TwoPieces
    <3> HIDE DEF j
    <3>7. ASSUME NEW i \in 1 .. left PROVE j[i] = whole[i]
      <4>1. whole[i] = s[done + i]
        BY <3>4 DEF IsSlice
      <4>2. CASE i <= n
        <5>1. i \in 1 .. n
          BY <1>5, <4>2
        <5>2. j[i] = chunk[i]
          BY <3>6, <5>1 DEF Joins
        <5> QED BY <1>9, <4>1, <5>1, <5>2
      <4>3. CASE ~(i <= n)
        <5> DEFINE k == i - n
        <5>1. k \in 1 .. rest /\ i = n + k /\ a + k = done + i
          BY <1>5, <3>1, <4>3
        <5> HIDE DEF k
        <5>2. j[n + k] = tail[k]
          BY <3>6, <5>1 DEF Joins
        <5>3. tail[k] = s[a + k]
          BY <3>3, <5>1 DEF IsSlice
        <5> QED BY <4>1, <5>1, <5>2, <5>3
      <4> QED BY <4>2, <4>3
    <3>8. OfLength(Octet, j, left)
      BY <1>5, <3>6
    <3>9. j = whole
      BY <3>4, <3>7, <3>8, SameSeq
    <3> QED BY <3>9 DEF j, whole, first
  <2> QED BY <2>6, <2>7
<1> QED BY <1>22, <1>23

(***************************************************************************)
(* The zlib stream.                                                        *)
(***************************************************************************)

\* The four bytes of the checksum are those of its definition.
LEMMA ChecksumIs ==
    ASSUME NEW s \in Seq(Octet), NEW h,
           h = <<Adler32(s).b \div 256, Adler32(s).b % 256,
                 Adler32(s).a \div 256, Adler32(s).a % 256>>
    PROVE  OfLength(Octet, h, 4) /\ h = Adler(s)
<1> DEFINE sums == [n \in DOMAIN s |-> AdlerA(s, n)]
           a == Adler32(s).a
           b == Adler32(s).b
<1>1. /\ a = AdlerA(s, Len(s)) /\ a \in 0 .. AdlerMod - 1
      /\ b = Total(sums, Len(s)) % AdlerMod /\ b \in 0 .. AdlerMod - 1
  BY AdlerSums
<1>2. Adler(s) = <<b \div 256, b % 256, a \div 256, a % 256>>
  BY <1>1 DEF Adler
<1>3. h = <<b \div 256, b % 256, a \div 256, a % 256>>
  OBVIOUS
<1> HIDE DEF a, b, sums
<1>4. a \in Nat /\ b \in Nat /\ a <= 65520 /\ b <= 65520
  BY <1>1, AdlerModulus, SMT
<1> DEFINE c1 == b \div 256
           c2 == b % 256
           c3 == a \div 256
           c4 == a % 256
<1>5. c1 \in Octet /\ c2 \in Octet /\ c3 \in Octet /\ c4 \in Octet
  BY <1>4, SMT DEF Octet
<1>6. h = <<c1, c2, c3, c4>> /\ Adler(s) = h
  BY <1>2, <1>3
<1> HIDE DEF c1, c2, c3, c4
<1>7. h \in Seq(Octet) /\ Len(h) = 4
  BY <1>5, <1>6, Four
<1> QED BY <1>6, <1>7 DEF OfLength

\* The stream inflates to the bytes, and has the size allocated for it.
LEMMA ZlibReadsBack ==
    ASSUME NEW s \in Seq(Octet), s # <<>>, NEW z, z = ZlibDeflate(s)
    PROVE  /\ z \in Seq(Octet) /\ z # <<>>
           /\ Inflates(z, s) /\ Len(z) = DeflatedSize(Len(s))
<1> DEFINE len == Len(s)
           B == StoredBlocks(s)
           h == <<Adler32(s).b \div 256, Adler32(s).b % 256,
                  Adler32(s).a \div 256, Adler32(s).a % 256>>
           magic == <<120, 1>>
           w == B \o h
           blen == len + 5 * Blocks(len)
           wlen == blen + 4
<1>1. len \in Nat /\ len # 0 /\ len \in 1 .. len /\ len \in 0 .. len
  BY EmptySeq
<1>2. OfLength(Octet, s, len)
  BY <1>1 DEF OfLength
<1>3. OfLength(Octet, h, 4) /\ h = Adler(s)
  BY ChecksumIs
<1>4. OfLength(Octet, magic, 2) /\ magic[1] = 120 /\ magic[2] = 1
  BY DEF OfLength, Octet
<1>5. z = (magic \o B) \o h
  BY DEF ZlibDeflate
<1>6. PICK F : IsBlocks(s, F, len) /\ B = F[len]
  BY <1>1, StoredBlocksIs
<1>7. Blocks(len) \in Nat /\ Blocks(len) = (len + MaxBlock - 1) \div MaxBlock
  BY <1>1, BlocksNext DEF Blocks
<1>8. DeflatedSize(len) = 2 + Blocks(len) * 5 + len + 4
  BY DEF DeflatedSize, Blocks
<1> HIDE DEF len, h, magic
<1>9. OfLength(Octet, B, blen)
  BY <1>1, <1>2, <1>6, BlocksType
<1> HIDE DEF B
<1>10. z = magic \o w
  <2> HIDE DEF blen
  <2>1. OfLength(Octet, magic, 2) /\ OfLength(Octet, h, 4)
    BY <1>3, <1>4
  <2>2. (magic \o B) \o h = magic \o (B \o h)
    BY <2>1, <1>9, ThreePieces
  <2> QED BY <2>2, <1>5
<1>11. OfLength(Octet, w, wlen) /\ Joins(w, B, h, blen, 4)
  <2> HIDE DEF blen
  <2> QED BY <1>3, <1>9, TwoPieces
<1>12. wlen \in Nat /\ blen \in Nat
  BY <1>1, <1>7
<1> HIDE DEF w, blen
<1>13. OfLength(Octet, z, 2 + wlen) /\ Joins(z, magic, w, 2, wlen)
  <2> HIDE DEF wlen
  <2> QED BY <1>4, <1>10, <1>11, TwoPieces
<1>14. z[1] = 120 /\ z[2] = 1 /\ Len(z) = 2 + wlen
  <2>1. 1 \in 1 .. 2 /\ 2 \in 1 .. 2
    OBVIOUS
  <2> QED BY <1>4, <1>13, <2>1 DEF Joins
<1>15. SubSeq(z, 3, Len(z)) = w
  <2> DEFINE last == Len(z)
             t == SubSeq(z, 3, last)
  <2> HIDE DEF wlen
  <2>1. last = 2 + wlen /\ 2 + wlen <= 2 + wlen /\ 3 = 2 + 1 /\ 2 \in Nat
    BY <1>12, <1>14
  <2> HIDE DEF last
  <2>2. OfLength(Octet, t, wlen) /\ IsSlice(t, z, 2, wlen)
    BY <1>12, <1>13, <2>1, Slice
  <2> HIDE DEF t
  <2>3. \A i \in 1 .. wlen : t[i] = w[i]
    BY <1>13, <2>2 DEF IsSlice, Joins
  <2>4. t = w
    BY <1>11, <2>2, <2>3, SameSeq
  <2> QED BY <2>4 DEF t, last
<1>16. InflateBlocks(w) = Inflated(s, h)
  <2>1. w \in Seq(Octet) /\ Len(w) = wlen
    BY <1>11 DEF OfLength
  <2>2. PICK I : IsInflate(w, I, wlen) /\ InflateBlocks(w) = I[wlen]
    BY <2>1, InflateIs
  <2>3. BlocksInflate(s, F, I, w, h, len, 4)
    <3> HIDE DEF wlen
    <3> QED BY <1>1, <1>2, <1>3, <1>6, <1>11, <2>2, BlocksAreInflated
  <2>4. I[wlen] = Inflated(SubSeq(s, Len(s) - len + 1, Len(s)), h)
    <3>1. wlen = len + 5 * Blocks(len) + 4 /\ wlen <= Len(w) /\ F[len] \o h = w
      BY <1>1, <1>6, <1>7, <2>1 DEF w, blen
    <3>2. \A i \in 1 .. wlen : Len(w) - wlen + i = i
      BY <1>12, <2>1
    <3>3. Ends(w, Len(w) - wlen, w, wlen)
      BY <3>2 DEF Ends
    <3> HIDE DEF wlen
    <3> QED BY <2>3, <3>1, <3>3 DEF BlocksInflate
  <2>5. SubSeq(s, Len(s) - len + 1, Len(s)) = s
    <3> DEFINE t == SubSeq(s, 1, len)
    <3>1. OfLength(Octet, t, len) /\ \A i \in 1 .. len : t[i] = s[i]
      BY <1>1, <1>2, Prefix
    <3> HIDE DEF t
    <3>2. t = s
      BY <1>2, <3>1, SameSeq
    <3>3. Len(s) = len /\ len - len + 1 = 1
      BY <1>1 DEF len
    <3> QED BY <3>2, <3>3 DEF t
  <2> QED BY <2>2, <2>4, <2>5
<1>17. Inflates(z, s)
  <2>1. z[1] % 16 = 8 /\ (256 * z[1] + z[2]) % 31 = 0
    BY <1>14, SMT
  <2> QED BY <1>3, <1>15, <1>16, <2>1 DEF Inflates, Inflated
<1>18. Len(z) = DeflatedSize(len)
  BY <1>1, <1>7, <1>8, <1>14 DEF blen
<1>19. z \in Seq(Octet) /\ z # <<>>
  BY <1>12, <1>13, <1>14 DEF OfLength
<1> QED BY <1>17, <1>18, <1>19 DEF len

LEMMA EmptyDecoded == Base64Decode(<<>>) = <<>>
<1> DEFINE groups == Len(<<>>) \div 4
           f == [i \in 1 .. groups |-> Bytes(<<>>, 4 * i - 3)]
<1>1. groups = 0 /\ Pads(<<>>) = 0
  BY DEF Pads
<1>2. Base64Decode(<<>>) = SubSeq(Concat(f, groups), 1, 3 * groups - Pads(<<>>))
  BY DEF Base64Decode
<1> HIDE DEF groups, f
<1>3. Concat(f, 0) = <<>>
  BY ConcatNext
<1>4. SubSeq(<<>>, 1, 0) = <<>>
  OBVIOUS
<1>5. 3 * groups - Pads(<<>>) = 0
  BY <1>1
<1> QED BY <1>1, <1>2, <1>3, <1>4, <1>5

\* The calls on bytes.
LEMMA BytesAnswerReadsBack ==
    ASSUME NEW s \in Seq(Octet), op = "bytes", input = s, output = BytesAnswer(s)
    PROVE  EncodingsRoundTrip
<1> DEFINE z == ZlibDeflate(s)
           e == ZlibBase64Deflate(s)
<1>1. output.base64 = Base64Encode(s) /\ output.zlib = z /\ output.zlib64 = e
      /\ output.unzip64 = ZlibBase64Inflate(e)
  BY DEF BytesAnswer
<1>2. output.unzip64 = <<>>
  BY <1>1 DEF ZlibBase64Inflate, ZlibInflate
<1>3. Base64Decode(output.base64) = s /\ Len(output.base64) = EncodedLength(Len(s))
  BY <1>1, Base64ReadsBack
<1>4. ASSUME s # <<>>
      PROVE  /\ Base64Decode(e) = z
             /\ Inflates(z, s) /\ Len(z) = DeflatedSize(Len(s))
  <2> HIDE DEF e
  <2>1. z \in Seq(Octet) /\ z # <<>> /\ Inflates(z, s) /\ Len(z) = DeflatedSize(Len(s))
    BY <1>4, ZlibReadsBack
  <2>2. e = Base64Encode(z)
    BY <2>1 DEF ZlibBase64Deflate, e
  <2> HIDE DEF z
  <2>3. Base64Decode(e) = z
    BY <2>1, <2>2, Base64ReadsBack
  <2> QED BY <2>1, <2>3
<1>5. ASSUME s = <<>>
      PROVE  z = <<>> /\ Base64Decode(e) = z
  <2>1. z = <<>>
    BY <1>5 DEF ZlibDeflate
  <2>2. e = <<>>
    BY <2>1 DEF ZlibBase64Deflate
  <2> QED BY <2>1, <2>2, EmptyDecoded
<1> HIDE DEF z, e
<1>6. ~Done("character")
  BY DEF Done
<1> QED BY <1>1, <1>2, <1>3, <1>4, <1>5, <1>6 DEF EncodingsRoundTrip

\* Whatever is encoded is read back, in the length allocated for it, and every
\* character is written as its bytes (zlib.c, base64.c, utf8.c).
THEOREM EncodingsRoundTripCorrect == CallsSpec => []EncodingsRoundTrip
<1>1. CallsInv => EncodingsRoundTrip
  <2> SUFFICES ASSUME CallsInv, Done("bytes") \/ Done("character") PROVE EncodingsRoundTrip
    BY DEF EncodingsRoundTrip
  <2>1. CASE Done("bytes")
    <3>1. op = "bytes" /\ answered
      BY <2>1 DEF Done
    <3>2. input \in ByteInputs /\ output = BytesAnswer(input)
      BY <3>1 DEF CallsInv, Made
    <3>3. input \in Seq(Octet)
      BY <3>2, CallsAssumption DEF Octet
    <3> QED BY <3>1, <3>2, <3>3, BytesAnswerReadsBack
  <2>2. CASE Done("character")
    <3>1. op = "character" /\ answered
      BY <2>2 DEF Done
    <3>2. input \in CharacterInputs /\ output = CharacterAnswer(input)
      BY <3>1 DEF CallsInv, Made
    <3>3. input \in Nat
      BY <3>2, CallsAssumption
    <3> DEFINE bytes == Utf8(input)
               inJson == JsonCopy(<<Backslash, 117>> \o HexOf(input))
    <3>4. output = [bytes |-> bytes, inJson |-> inJson]
      BY <3>2 DEF CharacterAnswer
    <3>5. bytes = Utf8(input) /\ inJson = JsonCopy(<<Backslash, 117>> \o HexOf(input))
      OBVIOUS
    <3> HIDE DEF bytes, inJson
    <3> QED BY <3>1, <3>3, <3>4, <3>5, CharacterAnswerReadsBack
  <2> QED BY <2>1, <2>2
<1> QED BY <1>1, CallsInvHolds, PTL

(***************************************************************************)
(* Streams.                                                                *)
(***************************************************************************)
SizeStep(fields, size, k) ==
    IF k = 0 THEN 0 ELSE (size[k - 1] + 8 + Len(fields[k].data)) % Sizes
IsSize(fields, size, n) == size = [k \in 0 .. n |-> SizeStep(fields, size, k)]

\* The function that adds up the fields of a frame exists.
LEMMA SizeExists ==
    ASSUME NEW fields, NEW k \in Nat
    PROVE  \E F : IsSize(fields, F, k)
<1> DEFINE Bad == {n \in Nat : ~ \E F : IsSize(fields, F, n)}
<1> SUFFICES ASSUME Bad # {} PROVE FALSE
  OBVIOUS
<1>1. PICK x \in Bad : \A y \in Bad : x <= y
  BY Smallest
<1>2. PICK F : x # 0 => IsSize(fields, F, x - 1)
  <2>1. x # 0 => x - 1 \in Nat /\ x - 1 \notin Bad
    BY <1>1
  <2> QED BY <2>1
<1> DEFINE G == [n \in 0 .. x |-> IF n = x THEN SizeStep(fields, F, x) ELSE F[n]]
<1>3. /\ x \in Nat /\ G = [n \in 0 .. x |-> G[n]] /\ G[x] = SizeStep(fields, F, x)
      /\ \A n \in 0 .. x - 1 : G[n] = F[n]
  OBVIOUS
<1> HIDE DEF G, Bad
<1>4. ASSUME NEW n \in 0 .. x
      PROVE  G[n] = SizeStep(fields, G, n)
  <2>1. G[n] = SizeStep(fields, F, n)
    <3>1. n = x \/ (x # 0 /\ n \in 0 .. x - 1)
      BY <1>3
    <3>2. CASE n = x
      BY <1>3, <3>2
    <3>3. CASE x # 0 /\ n \in 0 .. x - 1
      <4>1. \A j \in 0 .. x - 1 : F[j] = SizeStep(fields, F, j)
        BY <1>2, <3>3 DEF IsSize
      <4>2. F[n] = SizeStep(fields, F, n) /\ G[n] = F[n]
        BY <1>3, <3>3, <4>1
      <4> QED BY <4>2
    <3> QED BY <3>1, <3>2, <3>3
  <2>2. SizeStep(fields, F, n) = SizeStep(fields, G, n)
    <3>1. ASSUME n # 0 PROVE F[n - 1] = G[n - 1]
      <4>1. n - 1 \in 0 .. x - 1
        BY <1>3, <3>1
      <4> QED BY <1>3, <4>1
    <3> QED BY <3>1 DEF SizeStep
  <2> QED BY <2>1, <2>2
<1>5. IsSize(fields, G, x)
  BY <1>3, <1>4 DEF IsSize
<1> QED BY <1>1, <1>5 DEF Bad

\* The loop that adds up the size of a frame is its equation.
LEMMA FrameSizeIs ==
    ASSUME NEW fields, Len(fields) \in Nat
    PROVE  \E F : IsSize(fields, F, Len(fields)) /\ FrameSize(fields) = F[Len(fields)]
<1> DEFINE F == CHOOSE F : IsSize(fields, F, Len(fields))
<1>1. IsSize(fields, F, Len(fields))
  BY SizeExists
<1>2. FrameSize(fields) = F[Len(fields)]
  BY DEF FrameSize, IsSize, SizeStep
<1> QED BY <1>1, <1>2


\* The length in the header is that of the fields, reduced to a uint32_t.
LEMMA FrameSizeIs32Bits ==
    ASSUME NEW fields, NEW n \in Nat, n = Len(fields), NEW g,
           \A k \in 1 .. n : g[k] \in Nat /\ g[k] = 8 + Len(fields[k].data)
                             /\ Len(fields[k].data) \in Nat
    PROVE  FrameSize(fields) = Total(g, n) % Sizes
<1> DEFINE M == Sizes
<1>1. M \in Nat /\ M # 0
  BY StreamAssumption
<1>2. PICK F : IsSize(fields, F, n) /\ FrameSize(fields) = F[n]
  BY FrameSizeIs
<1>3. \A k \in 0 .. n : Total(g, k) \in Nat
  BY TotalType
<1> HIDE DEF M
<1> DEFINE Bad == {k \in 0 .. n : F[k] # Total(g, k) % M}
<1>4. Bad = {}
  <2> SUFFICES ASSUME Bad # {} PROVE FALSE
    OBVIOUS
  <2>1. PICK k \in Bad : \A j \in Bad : k <= j
    <3>1. Bad \subseteq Nat
      OBVIOUS
    <3> HIDE DEF Bad
    <3> QED BY <3>1, Smallest
  <2>2. k \in 0 .. n /\ k \in Nat /\ F[k] # Total(g, k) % M
    OBVIOUS
  <2>3. F[k] = SizeStep(fields, F, k)
    BY <1>2, <2>2 DEF IsSize
  <2>4. CASE k = 0
    <3>1. F[0] = 0 /\ Total(g, 0) = 0
      BY <2>3, <2>4, TotalNext DEF SizeStep
    <3>2. 0 % M = 0
      <4>1. 0 = M * 0 + 0 /\ 0 < M
        BY <1>1
      <4> QED BY <1>1, <4>1, DivisionUnique
    <3> QED BY <2>2, <2>4, <3>1, <3>2
  <2>5. CASE k # 0
    <3>1. k - 1 \in 0 .. n /\ k \in 1 .. n /\ ~(k <= k - 1)
      BY <2>2, <2>5
    <3> DEFINE a == Total(g, k - 1)
               b == Len(fields[k].data)
               y == 8 + b
    <3>2. F[k - 1] = a % M
      BY <2>1, <3>1
    <3>3. F[k] = (F[k - 1] + 8 + b) % M
      BY <2>3, <2>5 DEF SizeStep, M
    <3>4. a \in Nat /\ b \in Nat /\ y \in Nat /\ g[k] = y
      BY <1>3, <3>1
    <3>5. Total(g, k) = a + y
      BY <2>2, <2>5, <3>4, TotalNext
    <3> HIDE DEF a, b
    <3>6. a % M \in Nat /\ (a % M) + 8 + b = (a % M) + y
      <4>1. a % M \in Nat
        BY <1>1, <3>4, Division
      <4> QED BY <3>4, <4>1
    <3> HIDE DEF y
    <3>7. ((a % M) + y) % M = (a + y) % M
      BY <1>1, <3>4, ModSum
    <3>8. F[k] = Total(g, k) % M
      BY <3>2, <3>3, <3>5, <3>6, <3>7
    <3> QED BY <2>2, <3>8
  <2> QED BY <2>4, <2>5
<1>5. n \in 0 .. n /\ n \notin Bad
  BY <1>4
<1>6. F[n] = Total(g, n) % M
  BY <1>5
<1> QED BY <1>2, <1>6 DEF M

\* What is smaller than the modulus is not reduced.
LEMMA NotReduced ==
    ASSUME NEW m \in Nat, m # 0, NEW x \in Nat, x < m
    PROVE  x % m = x
<1>1. x = m * 0 + x
  OBVIOUS
<1> QED BY <1>1, DivisionUnique

\* A payload is prepared so that the receiver can decode it.
LEMMA EncodesPayload ==
    ASSUME NEW kind \in Kinds, NEW payload \in Seq(Octet), NEW data, data = Encode(kind, payload)
    PROVE  Decoded(kind, data, payload) /\ Len(data) \in Nat
<1>0. Len(payload) \in Nat
  OBVIOUS
<1>1. CASE kind = "base64"
  <2>1. data = Base64Encode(payload)
    BY <1>1 DEF Encode
  <2>2. Base64Decode(data) = payload /\ Len(data) = EncodedLength(Len(payload))
    BY <2>1, Base64ReadsBack
  <2>3. EncodedLength(Len(payload)) \in Nat
    BY <1>0 DEF EncodedLength
  <2> QED BY <1>1, <2>2, <2>3 DEF Decoded
<1>2. CASE kind = "zlib"
  <2>1. data = ZlibDeflate(payload)
    BY <1>2 DEF Encode
  <2>2. CASE payload = <<>>
    <3>1. data = <<>>
      BY <2>1, <2>2 DEF ZlibDeflate
    <3> QED BY <1>2, <2>2, <3>1 DEF Decoded
  <2>3. CASE payload # <<>>
    <3>1. data \in Seq(Octet) /\ Inflates(data, payload)
      BY <2>1, <2>3, ZlibReadsBack
    <3>2. Len(data) \in Nat
      BY <3>1
    <3> QED BY <1>2, <2>3, <3>1, <3>2 DEF Decoded
  <2> QED BY <2>2, <2>3
<1>3. CASE kind # "base64" /\ kind # "zlib"
  <2>1. data = payload
    BY <1>3 DEF Encode
  <2> QED BY <1>0, <1>3, <2>1 DEF Decoded
<1> QED BY <1>1, <1>2, <1>3

\* The frame has its header, and two pieces for each field in its order.
LEMMA FrameIs ==
    ASSUME NEW fields, NEW n \in Nat, n # 0, n = Len(fields), DOMAIN fields = 1 .. n
    PROVE  /\ Len(Frame(fields)) = 1 + 2 * n
           /\ Frame(fields)[1] = [kind |-> "header", size |-> FrameSize(fields)]
           /\ \A k \in 1 .. n : /\ Frame(fields)[2 * k] = Pieces(fields[k])[1]
                                /\ Frame(fields)[2 * k + 1] = Pieces(fields[k])[2]
<1> DEFINE p == [k \in 1 .. n |-> Pieces(fields[k])]
           head == [kind |-> "header", size |-> FrameSize(fields)]
           S == {head} \cup {Pieces(fields[k])[1] : k \in 1 .. n}
                       \cup {Pieces(fields[k])[2] : k \in 1 .. n}
           h == <<head>>
           c == Concat(p, n)
           F == Frame(fields)
<1>1. F = h \o c
  <2>1. fields # <<>>
    OBVIOUS
  <2> QED BY <2>1 DEF Frame
<1>2. \A k \in 1 .. n : p[k] \in Seq(S) /\ Len(p[k]) = 2
                        /\ p[k][1] = Pieces(fields[k])[1] /\ p[k][2] = Pieces(fields[k])[2]
  <2> SUFFICES ASSUME NEW k \in 1 .. n
               PROVE  p[k] \in Seq(S) /\ Len(p[k]) = 2
                      /\ p[k][1] = Pieces(fields[k])[1] /\ p[k][2] = Pieces(fields[k])[2]
    OBVIOUS
  <2> DEFINE a == [kind |-> "field", name |-> fields[k].name,
                   size |-> Len(fields[k].data) % Sizes]
             b == [kind |-> "data", bytes |-> fields[k].data]
  <2>1. Pieces(fields[k]) = <<a, b>>
    BY DEF Pieces
  <2>2. p[k] = <<a, b>>
    BY <2>1
  <2> HIDE DEF a, b, p
  <2>3. Pieces(fields[k])[1] = a /\ Pieces(fields[k])[2] = b
    BY <2>1
  <2>4. a \in S /\ b \in S
    BY <2>3
  <2> HIDE DEF S
  <2> QED BY <2>2, <2>3, <2>4
<1>3. OfLength(S, h, 1) /\ h[1] = head
  <2>1. head \in S
    OBVIOUS
  <2> HIDE DEF S, head
  <2> QED BY <2>1 DEF OfLength
<1> HIDE DEF S, p, h, head
<1>4. c \in Seq(S) /\ Laid(c, p, n, 2)
  <2>1. ArePieces(S, p, n) /\ AreOfLength(p, n, 2)
    BY <1>2 DEF ArePieces, AreOfLength
  <2>2. 2 \in Nat
    OBVIOUS
  <2> QED BY <2>1, <2>2, EqualPieces
<1> DEFINE d == 2 * n
<1>5. OfLength(S, c, d)
  BY <1>4 DEF Laid, OfLength
<1> HIDE DEF c
<1>6. OfLength(S, F, 1 + d) /\ Joins(F, h, c, 1, d)
  <2> HIDE DEF d
  <2>1. OfLength(S, h \o c, 1 + d) /\ Joins(h \o c, h, c, 1, d)
    BY <1>3, <1>5, TwoPieces
  <2> QED BY <1>1, <2>1
<1> HIDE DEF F
<1>7. F[1] = head /\ Len(F) = 1 + 2 * n
  <2>1. 1 \in 1 .. 1
    OBVIOUS
  <2> QED BY <1>3, <1>6, <2>1 DEF Joins
<1>8. ASSUME NEW k \in 1 .. n, NEW r \in 1 .. 2
      PROVE  F[1 + (2 * (k - 1) + r)] = p[k][r]
  <2>1. 2 * (k - 1) + r \in 1 .. d
    OBVIOUS
  <2>2. c[2 * (k - 1) + r] = p[k][r]
    BY <1>4 DEF Laid
  <2> QED BY <1>6, <2>1, <2>2 DEF Joins
<1>9. ASSUME NEW k \in 1 .. n
      PROVE  F[2 * k] = Pieces(fields[k])[1] /\ F[2 * k + 1] = Pieces(fields[k])[2]
  <2>1. 1 + (2 * (k - 1) + 1) = 2 * k /\ 1 + (2 * (k - 1) + 2) = 2 * k + 1 /\ 1 \in 1 .. 2 /\ 2 \in 1 .. 2
    OBVIOUS
  <2>2. F[1 + (2 * (k - 1) + 1)] = p[k][1] /\ F[1 + (2 * (k - 1) + 2)] = p[k][2]
    BY <1>8, <2>1
  <2> QED BY <1>2, <2>1, <2>2
<1> QED BY <1>7, <1>9 DEF F, head

\* The frame of fields, the receiver's view of it, and the length after its header.
AreFields(fields, kinds, payloads) ==
    fields = [k \in DOMAIN kinds |-> Field(k, Encode(kinds[k], payloads[k]))]
IsTotal(total, frame, kinds) ==
    total = Total([k \in DOMAIN kinds |-> 8 + Len(frame[2 * k + 1].bytes)], Len(kinds))
AddsUp(frame, kinds, payloads, n, total) ==
    /\ Len(frame) = 1 + 2 * n
    /\ frame[1].kind = "header"
    /\ \A k \in 1 .. n :
          /\ frame[2 * k].kind = "field" /\ frame[2 * k].name = k
          /\ frame[2 * k + 1].kind = "data"
          /\ Decoded(kinds[k], frame[2 * k + 1].bytes, payloads[k])
    /\ total < Sizes =>
          /\ frame[1].size = total
          /\ \A k \in 1 .. n : frame[2 * k].size = Len(frame[2 * k + 1].bytes)

\* What is published for an entry whose payloads are all prepared.
LEMMA PublishedAddsUp ==
    ASSUME NEW kinds \in Seq(Kinds), NEW payloads \in Seq(Seq(Octet)), NEW n \in Nat, n # 0,
           n = Len(kinds), n = Len(payloads),
           NEW fields, AreFields(fields, kinds, payloads),
           NEW frame, frame = Frame(fields), NEW total, IsTotal(total, frame, kinds)
    PROVE  AddsUp(frame, kinds, payloads, n, total)
<1> DEFINE data(k) == fields[k].data
           g == [k \in 1 .. n |-> 8 + Len(data(k))]
<1>1. DOMAIN kinds = 1 .. n /\ DOMAIN payloads = 1 .. n
  BY LenProperties
<1>2. \A k \in 1 .. n : fields[k].name = k /\ fields[k].data = Encode(kinds[k], payloads[k])
  BY <1>1 DEF Field, AreFields
<1>3. DOMAIN fields = 1 .. n /\ Len(fields) = n
  <2>1. fields = [k \in 1 .. n |-> fields[k]]
    BY <1>1 DEF AreFields
  <2>2. fields = [k \in 1 .. n |-> fields[k]] => Len(fields) = n
    <3> HIDE DEF data, g
    <3> QED OBVIOUS
  <2> QED BY <1>1, <2>1, <2>2
<1>4. \A k \in 1 .. n : Decoded(kinds[k], data(k), payloads[k]) /\ Len(data(k)) \in Nat
  <2> SUFFICES ASSUME NEW k \in 1 .. n
               PROVE  Decoded(kinds[k], data(k), payloads[k]) /\ Len(data(k)) \in Nat
    OBVIOUS
  <2> DEFINE kind == kinds[k]
             payload == payloads[k]
             bytes == data(k)
  <2>1. kind \in Kinds /\ payload \in Seq(Octet)
    BY <1>1
  <2>2. bytes = Encode(kind, payload)
    BY <1>2
  <2> HIDE DEF kind, payload, bytes
  <2>3. Decoded(kind, bytes, payload) /\ Len(bytes) \in Nat
    BY <2>1, <2>2, EncodesPayload
  <2> QED BY <2>3 DEF kind, payload, bytes
<1>5. /\ Len(frame) = 1 + 2 * n
      /\ frame[1] = [kind |-> "header", size |-> FrameSize(fields)]
      /\ \A k \in 1 .. n : /\ frame[2 * k] = Pieces(fields[k])[1]
                           /\ frame[2 * k + 1] = Pieces(fields[k])[2]
  BY <1>3, FrameIs
<1>6. \A k \in 1 .. n : /\ frame[2 * k].kind = "field" /\ frame[2 * k].name = k
                        /\ frame[2 * k].size = Len(data(k)) % Sizes
                        /\ frame[2 * k + 1].kind = "data" /\ frame[2 * k + 1].bytes = data(k)
  <2> SUFFICES ASSUME NEW k \in 1 .. n
               PROVE  /\ frame[2 * k].kind = "field" /\ frame[2 * k].name = k
                      /\ frame[2 * k].size = Len(data(k)) % Sizes
                      /\ frame[2 * k + 1].kind = "data" /\ frame[2 * k + 1].bytes = data(k)
    OBVIOUS
  <2> DEFINE x == frame[2 * k]
             y == frame[2 * k + 1]
             size == Len(data(k)) % Sizes
  <2>1. x = Pieces(fields[k])[1] /\ y = Pieces(fields[k])[2]
    BY <1>5
  <2>2. x = [kind |-> "field", name |-> k, size |-> size]
        /\ y = [kind |-> "data", bytes |-> data(k)]
    BY <1>2, <2>1 DEF Pieces
  <2> HIDE DEF x, y, size, data
  <2>3. x.kind = "field" /\ x.name = k /\ x.size = size /\ y.kind = "data" /\ y.bytes = data(k)
    BY <2>2
  <2> QED BY <2>3 DEF x, y, size
<1> DEFINE t == [k \in DOMAIN kinds |-> 8 + Len(frame[2 * k + 1].bytes)]
<1>7. t = g /\ total = Total(g, n)
  <2>1. \A k \in 1 .. n : frame[2 * k + 1].bytes = data(k)
    BY <1>6
  <2>2. t = g
    BY <1>1, <2>1
  <2>3. total = Total(t, n)
    BY DEF IsTotal
  <2> HIDE DEF t, g
  <2> QED BY <2>2, <2>3
<1>8. \A k \in 1 .. n : g[k] \in Nat /\ g[k] = 8 + Len(data(k)) /\ Len(data(k)) \in Nat
  BY <1>4
<1> HIDE DEF g, t
<1>9. FrameSize(fields) = Total(g, n) % Sizes
  BY <1>3, <1>8, FrameSizeIs32Bits
<1> HIDE DEF data
<1>10. Sizes \in Nat /\ Sizes # 0 /\ \A k \in 0 .. n : Total(g, k) \in Nat
  BY <1>8, StreamAssumption, TotalType
<1>11. ASSUME total < Sizes
       PROVE  /\ frame[1].size = total
              /\ \A k \in 1 .. n : frame[2 * k].size = Len(frame[2 * k + 1].bytes)
  <2>1. frame[1].size = FrameSize(fields)
    <3> DEFINE head == frame[1]
               size == FrameSize(fields)
    <3>1. head = [kind |-> "header", size |-> size]
      BY <1>5
    <3> HIDE DEF head, size
    <3>2. head.size = size
      BY <3>1
    <3> QED BY <3>2 DEF head, size
  <2>2. total \in Nat
    <3>1. n \in 0 .. n
      OBVIOUS
    <3> QED BY <1>7, <1>10, <3>1
  <2>3. total % Sizes = total
    BY <1>10, <1>11, <2>2, NotReduced
  <2>4. ASSUME NEW k \in 1 .. n PROVE Len(data(k)) % Sizes = Len(data(k))
    <3> DEFINE m == Len(data(k))
               a == Total(g, k - 1)
               b == Total(g, k)
    <3>1. k \in Nat /\ k # 0 /\ k - 1 \in 0 .. n /\ k \in 0 .. n
      OBVIOUS
    <3>2. Total(g, k) = Total(g, k - 1) + g[k]
      BY <3>1, TotalNext
    <3>3. Total(g, k) <= Total(g, n)
      BY <1>8, <3>1, TotalGrows
    <3>4. m \in Nat /\ g[k] = 8 + m /\ a \in Nat /\ b \in Nat /\ b = a + (8 + m) /\ b <= total
      BY <1>7, <1>8, <1>10, <3>1, <3>2, <3>3
    <3> HIDE DEF m, a, b
    <3>5. m < Sizes
      BY <1>10, <1>11, <2>2, <3>4
    <3>6. m % Sizes = m
      BY <1>10, <3>4, <3>5, NotReduced
    <3> QED BY <3>6 DEF m
  <2>5. frame[1].size = total
    BY <1>7, <1>9, <2>1, <2>3
  <2>6. ASSUME NEW k \in 1 .. n PROVE frame[2 * k].size = Len(frame[2 * k + 1].bytes)
    <3>1. frame[2 * k].size = Len(data(k)) % Sizes /\ frame[2 * k + 1].bytes = data(k)
      BY <1>6
    <3>2. Len(data(k)) % Sizes = Len(data(k))
      BY <2>4
    <3> QED BY <3>1, <3>2
  <2> QED BY <2>5, <2>6
<1>12. frame[1].kind = "header"
  BY <1>5
<1>13. \A k \in 1 .. n : Decoded(kinds[k], frame[2 * k + 1].bytes, payloads[k])
  BY <1>4, <1>6
<1> QED BY <1>5, <1>6, <1>11, <1>12, <1>13 DEF AddsUp

\* The calls on a stream.
LEMMA StreamAnswerAddsUp ==
    ASSUME NEW s, IsStream(s), op = "stream", input = s, output = StreamAnswer(s)
    PROVE  FramesAddUp
<1> DEFINE kinds == s.vector.kinds
           payloads == s.payloads
           n == Len(payloads)
           bad == {k \in DOMAIN kinds : kinds[k] = "invalid" \/ k > n}
           stop == IF bad = {} THEN Len(kinds) + 1 ELSE CHOOSE k \in bad : \A j \in bad : k <= j
           made == {k \in 1..stop - 1 : kinds[k] # "raw" /\ payloads[k] # <<>>}
           fields == [k \in DOMAIN kinds |-> Field(k, Encode(kinds[k], payloads[k]))]
<1>1. output = IF ~s.enabled \/ n = 0 THEN Answer(TRUE, <<>>, 0)
               ELSE IF ~s.vector.registered \/ ~s.vector.listed THEN Answer(FALSE, <<>>, 0)
               ELSE IF bad # {} \/ n # Len(kinds) THEN Answer(FALSE, <<>>, Cardinality(made))
               ELSE Answer(TRUE, Frame(fields), 0)
  BY DEF StreamAnswer, StreamPub
<1>2. kinds \in Seq(Kinds) /\ kinds # <<>> /\ payloads \in Seq(Seq(Octet)) /\ n \in Nat
  <2>1. kinds \in Seq(Kinds) /\ kinds # <<>> /\ payloads \in Seq(Seq(Octet))
    BY DEF IsStream, Octet
  <2> QED BY <2>1
<1> HIDE DEF fields, made, bad
<1>3. CASE ~s.enabled \/ n = 0
  <2>1. output.frame = <<>> /\ (s.enabled => payloads = <<>>)
    <3>1. output = Answer(TRUE, <<>>, 0)
      BY <1>1, <1>3
    <3>2. output.frame = <<>>
      BY <3>1 DEF Answer
    <3>3. n = 0 => payloads = <<>>
      BY <1>2, EmptySeq
    <3> QED BY <1>3, <3>2, <3>3
  <2> QED BY <2>1 DEF FramesAddUp
<1>4. CASE ~(~s.enabled \/ n = 0) /\ (~s.vector.registered \/ ~s.vector.listed \/ bad # {} \/ n # Len(kinds))
  <2>1. output = Answer(FALSE, <<>>, 0) \/ output = Answer(FALSE, <<>>, Cardinality(made))
    BY <1>1, <1>4
  <2>2. output.frame = <<>> /\ ~output.returned
    BY <2>1 DEF Answer
  <2> QED BY <2>2 DEF FramesAddUp
<1>5. CASE /\ ~(~s.enabled \/ n = 0)
           /\ ~(~s.vector.registered \/ ~s.vector.listed \/ bad # {} \/ n # Len(kinds))
  <2> DEFINE frame == Frame(fields)
             total == Total([k \in DOMAIN kinds |-> 8 + Len(frame[2 * k + 1].bytes)], Len(kinds))
  <2>1. output = Answer(TRUE, frame, 0)
    BY <1>1, <1>5
  <2>2. output.frame = frame /\ output.returned /\ output.leaked = 0
    BY <2>1 DEF Answer
  <2>3. s.enabled /\ n # 0 /\ n = Len(kinds) /\ DOMAIN kinds = 1 .. n
    BY <1>2, <1>5
  <2>4. AreFields(fields, kinds, payloads)
    BY DEF fields, AreFields
  <2>5. frame = Frame(fields) /\ IsTotal(total, frame, kinds)
    BY DEF IsTotal
  <2> HIDE DEF frame, total
  <2>6. AddsUp(frame, kinds, payloads, n, total)
    <3>1. kinds \in Seq(Kinds) /\ payloads \in Seq(Seq(Octet)) /\ n \in Nat /\ n # 0
          /\ n = Len(kinds) /\ n = Len(payloads)
      BY <1>2, <2>3
    <3> HIDE DEF kinds, payloads, n
    <3> QED BY <2>4, <2>5, <3>1, PublishedAddsUp
  <2>7. input.vector.kinds = kinds /\ input.payloads = payloads /\ input.enabled
    BY <2>3
  <2> HIDE DEF kinds, payloads, n
  <2>8. Len(frame) = 1 + 2 * Len(kinds)
    BY <2>3, <2>6 DEF AddsUp
  <2>9. /\ frame[1].kind = "header"
        /\ \A k \in DOMAIN kinds :
              /\ frame[2 * k].kind = "field" /\ frame[2 * k].name = k
              /\ frame[2 * k + 1].kind = "data"
              /\ Decoded(kinds[k], frame[2 * k + 1].bytes, payloads[k])
    BY <2>3, <2>6 DEF AddsUp
  <2>10. total < Sizes =>
            /\ frame[1].size = total
            /\ \A k \in DOMAIN kinds : frame[2 * k].size = Len(frame[2 * k + 1].bytes)
    BY <2>3, <2>6 DEF AddsUp
  <2>11. total = Total([k \in DOMAIN kinds |-> 8 + Len(frame[2 * k + 1].bytes)], Len(kinds))
    BY <2>5 DEF IsTotal
  <2> QED BY <2>2, <2>7, <2>8, <2>9, <2>10, <2>11 DEF FramesAddUp
<1> QED BY <1>3, <1>4, <1>5

\* An entry is published whole or not at all, and the lengths of its frame are
\* those of what follows (nyx_stream_pub, nyx_nss_pub).
THEOREM FramesAddUpCorrect == CallsSpec => []FramesAddUp
<1>1. CallsInv => FramesAddUp
  <2> SUFFICES ASSUME CallsInv, Done("stream") PROVE FramesAddUp
    BY DEF FramesAddUp
  <2>1. op = "stream" /\ answered
    BY DEF Done
  <2>2. input \in StreamInputs /\ output = StreamAnswer(input)
    BY <2>1 DEF CallsInv, Made
  <2>3. IsStream(input)
    BY <2>2, CallsAssumption
  <2> QED BY <2>1, <2>2, <2>3, StreamAnswerAddsUp
<1> QED BY <1>1, CallsInvHolds, PTL

(***************************************************************************)
(* Texts.                                                                  *)
(***************************************************************************)
TextByte == 1 .. 255

\* What each entity and each control character is written as.
LEMMA EntityIs ==
    /\ Entity[Lt] = <<108, 116, 59>> /\ Entity[Gt] = <<103, 116, 59>>
    /\ Entity[Amp] = <<97, 109, 112, 59>>
    /\ Entity[Quote] = <<113, 117, 111, 116, 59>> /\ Entity[Apos] = <<97, 112, 111, 115, 59>>
<1>1. Entity[Lt] = <<108, 116, 59>>
  BY SMT DEF Entity, Entities, Lt, Gt, Amp, Quote, Apos
<1>2. Entity[Gt] = <<103, 116, 59>>
  BY SMT DEF Entity, Entities, Lt, Gt, Amp, Quote, Apos
<1>3. Entity[Amp] = <<97, 109, 112, 59>>
  BY SMT DEF Entity, Entities, Lt, Gt, Amp, Quote, Apos
<1>4. Entity[Quote] = <<113, 117, 111, 116, 59>>
  BY SMT DEF Entity, Entities, Lt, Gt, Amp, Quote, Apos
<1>5. Entity[Apos] = <<97, 112, 111, 115, 59>>
  BY SMT DEF Entity, Entities, Lt, Gt, Amp, Quote, Apos
<1> QED BY <1>1, <1>2, <1>3, <1>4, <1>5

LEMMA LetterIs ==
    /\ Letter[Backspace] = 98 /\ Letter[FormFeed] = 102 /\ Letter[Newline] = 110
    /\ Letter[Return] = 114 /\ Letter[Tab] = 116
<1>1. Letter[Backspace] = 98
  BY SMT DEF Letter, Controls, Backspace, FormFeed, Newline, Return, Tab
<1>2. Letter[FormFeed] = 102
  BY SMT DEF Letter, Controls, Backspace, FormFeed, Newline, Return, Tab
<1>3. Letter[Newline] = 110
  BY SMT DEF Letter, Controls, Backspace, FormFeed, Newline, Return, Tab
<1>4. Letter[Return] = 114
  BY SMT DEF Letter, Controls, Backspace, FormFeed, Newline, Return, Tab
<1>5. Letter[Tab] = 116
  BY SMT DEF Letter, Controls, Backspace, FormFeed, Newline, Return, Tab
<1> QED BY <1>1, <1>2, <1>3, <1>4, <1>5

\* An entity is a short text without quotes, and no entity begins another.
SafeByte == TextByte \ {Quote}
\* What the entities are written with, and that no two begin alike.
LEMMA EntityType ==
    ASSUME NEW c \in Entities, NEW t, t = Entity[c]
    PROVE  t \in Seq(SafeByte) /\ Len(t) \in 3 .. 5
           /\ EscapedLength({"xml"}, c) = 1 + Len(t) /\ c \in TextByte
<1>1. \A b \in {97, 103, 108, 109, 111, 112, 113, 115, 116, 117, 59} : b \in SafeByte
  BY DEF SafeByte, TextByte, Quote
<1>2. CASE c = Lt
  <2>1. t = <<108, 116, 59>>
    BY <1>2, EntityIs
  <2>2. EscapedLength({"xml"}, c) = 4
    BY <1>2 DEF EscapedLength, Lt, Gt, Amp, Quote, Apos
  <2>3. <<108, 116, 59>> \in Seq(SafeByte) /\ Len(<<108, 116, 59>>) = 3
    BY <1>1
  <2>4. c \in TextByte
    BY <1>2 DEF TextByte, Lt
  <2> QED BY <2>1, <2>2, <2>3, <2>4
<1>3. CASE c = Gt
  <2>1. t = <<103, 116, 59>>
    BY <1>3, EntityIs
  <2>2. EscapedLength({"xml"}, c) = 4
    BY <1>3 DEF EscapedLength, Lt, Gt, Amp, Quote, Apos
  <2>3. <<103, 116, 59>> \in Seq(SafeByte) /\ Len(<<103, 116, 59>>) = 3
    BY <1>1
  <2>4. c \in TextByte
    BY <1>3 DEF TextByte, Gt
  <2> QED BY <2>1, <2>2, <2>3, <2>4
<1>4. CASE c = Amp
  <2>1. t = <<97, 109, 112, 59>>
    BY <1>4, EntityIs
  <2>2. EscapedLength({"xml"}, c) = 5
    BY <1>4 DEF EscapedLength, Lt, Gt, Amp, Quote, Apos
  <2>3. <<97, 109, 112, 59>> \in Seq(SafeByte) /\ Len(<<97, 109, 112, 59>>) = 4
    BY <1>1
  <2>4. c \in TextByte
    BY <1>4 DEF TextByte, Amp
  <2> QED BY <2>1, <2>2, <2>3, <2>4
<1>5. CASE c = Quote
  <2>1. t = <<113, 117, 111, 116, 59>>
    BY <1>5, EntityIs
  <2>2. EscapedLength({"xml"}, c) = 6
    BY <1>5 DEF EscapedLength, Lt, Gt, Amp, Quote, Apos
  <2>3. <<113, 117, 111, 116, 59>> \in Seq(SafeByte) /\ Len(<<113, 117, 111, 116, 59>>) = 5
    BY <1>1
  <2>4. c \in TextByte
    BY <1>5 DEF TextByte, Quote
  <2> QED BY <2>1, <2>2, <2>3, <2>4
<1>6. CASE c = Apos
  <2>1. t = <<97, 112, 111, 115, 59>>
    BY <1>6, EntityIs
  <2>2. EscapedLength({"xml"}, c) = 6
    BY <1>6 DEF EscapedLength, Lt, Gt, Amp, Quote, Apos
  <2>3. <<97, 112, 111, 115, 59>> \in Seq(SafeByte) /\ Len(<<97, 112, 111, 115, 59>>) = 5
    BY <1>1
  <2>4. c \in TextByte
    BY <1>6 DEF TextByte, Apos
  <2> QED BY <2>1, <2>2, <2>3, <2>4
<1> QED BY <1>2, <1>3, <1>4, <1>5, <1>6 DEF Entities

LEMMA EntitiesDiffer ==
    ASSUME NEW c \in Entities, NEW d \in Entities, c # d
    PROVE  \E k \in 1 .. 2 : Entity[c][k] # Entity[d][k]
<1> DEFINE first == [e \in Entities |-> Entity[e][1]]
<1>1. /\ Entity[Lt][1] = 108 /\ Entity[Gt][1] = 103 /\ Entity[Amp][1] = 97 /\ Entity[Amp][2] = 109
      /\ Entity[Quote][1] = 113 /\ Entity[Apos][1] = 97 /\ Entity[Apos][2] = 112
  BY EntityIs
<1>2. Entity[c][1] = Entity[d][1] => Entity[c][2] # Entity[d][2]
  BY <1>1 DEF Entities
<1> QED BY <1>2

\* What a character is written as in each dialect.
XmlPiece(f, c) ==
    IF c \in Entities
    THEN /\ Len(f) = 1 + Len(Entity[c]) /\ f[1] = Amp
         /\ \A k \in 1 .. Len(Entity[c]) : f[1 + k] = Entity[c][k]
    ELSE Len(f) = 1 /\ f[1] = c

Short == Controls \cup {Quote, Backslash}
JsonLetter(c) == IF c \in Controls THEN Letter[c] ELSE c
JsonPiece(f, c) ==
    IF c \in Short THEN Len(f) = 2 /\ f[1] = Backslash /\ f[2] = JsonLetter(c)
    ELSE Len(f) = 1 /\ f[1] = c

\* Pieces of one and of two bytes.
LEMMA OneByte ==
    ASSUME NEW S, NEW c \in S, NEW f, f = <<c>>
    PROVE  f \in Seq(S) /\ Len(f) = 1 /\ f[1] = c
  OBVIOUS

LEMMA TwoBytes ==
    ASSUME NEW S, NEW c \in S, NEW d \in S, NEW f, f = <<c, d>>
    PROVE  f \in Seq(S) /\ Len(f) = 2 /\ f[1] = c /\ f[2] = d
  OBVIOUS

\* What the builder writes a character as, in XML and in JSON.
LEMMA XmlEscapes ==
    ASSUME NEW c \in TextByte, NEW f, f = Escaped({"xml"}, c)
    PROVE  f \in Seq(SafeByte) /\ XmlPiece(f, c) /\ Len(f) = EscapedLength({"xml"}, c)
<1>1. CASE c \in Entities
  <2> DEFINE t == Entity[c]
             m == Len(t)
             h == <<Amp>>
  <2>1. f = h \o t
    BY <1>1 DEF Escaped
  <2>2. t \in Seq(SafeByte) /\ m \in 3 .. 5 /\ EscapedLength({"xml"}, c) = 1 + m
    BY <1>1, EntityType
  <2>3. Amp \in SafeByte
    BY DEF Amp, SafeByte, TextByte, Quote
  <2>4. h \in Seq(SafeByte) /\ Len(h) = 1 /\ h[1] = Amp
    BY <2>3, OneByte
  <2>5. OfLength(SafeByte, h, 1) /\ OfLength(SafeByte, t, m)
    BY <2>2, <2>4 DEF OfLength
  <2> HIDE DEF t, m, h
  <2>6. OfLength(SafeByte, f, 1 + m) /\ Joins(f, h, t, 1, m)
    BY <2>1, <2>5, TwoPieces
  <2>7. f[1] = Amp /\ \A k \in 1 .. m : f[1 + k] = t[k]
    <3>1. 1 \in 1 .. 1
      OBVIOUS
    <3> QED BY <2>4, <2>6, <3>1 DEF Joins
  <2>8. XmlPiece(f, c)
    BY <1>1, <2>6, <2>7 DEF XmlPiece, OfLength, t, m
  <2> QED BY <2>2, <2>6, <2>8 DEF OfLength
<1>2. CASE c \notin Entities
  <2>1. f = <<c>>
    BY <1>2 DEF Escaped
  <2>2. c \in SafeByte /\ EscapedLength({"xml"}, c) = 1
    BY <1>2 DEF SafeByte, EscapedLength, Entities
  <2>3. f \in Seq(SafeByte) /\ Len(f) = 1 /\ f[1] = c
    BY <2>1, <2>2, OneByte
  <2> QED BY <1>2, <2>2, <2>3 DEF XmlPiece
<1> QED BY <1>1, <1>2

LEMMA LettersAre ==
    ASSUME NEW c \in Controls, NEW x, x = Letter[c]
    PROVE  /\ x \in {98, 102, 110, 114, 116} /\ x \in TextByte /\ x # 117 /\ x \notin Short
           /\ c \in TextByte /\ c \notin {Quote, Backslash}
           /\ \A d \in Controls : Letter[d] = x => d = c
<1>1. x \in {98, 102, 110, 114, 116} /\ \A d \in Controls : Letter[d] = x => d = c
  BY LetterIs DEF Controls
<1>2. \A y \in {98, 102, 110, 114, 116} : y \in TextByte /\ y # 117 /\ y \notin Short
  BY DEF TextByte, Short, Controls, Quote, Backslash, Backspace, FormFeed, Newline, Return, Tab
<1>3. c \in TextByte /\ c \notin {Quote, Backslash}
  BY DEF TextByte, Controls, Quote, Backslash, Backspace, FormFeed, Newline, Return, Tab
<1> QED BY <1>1, <1>2, <1>3

LEMMA JsonEscapes ==
    ASSUME NEW c \in TextByte, NEW f, f = Escaped({"json"}, c)
    PROVE  f \in Seq(TextByte) /\ JsonPiece(f, c) /\ Len(f) = EscapedLength({"json"}, c)
<1>1. Backslash \in TextByte
  BY DEF Backslash, TextByte
<1>2. CASE c \in Controls
  <2> DEFINE x == Letter[c]
  <2>1. x \in TextByte /\ c \notin {Quote, Backslash}
    BY <1>2, LettersAre
  <2>2. f = <<Backslash, x>>
    BY <1>2, <2>1 DEF Escaped
  <2>3. EscapedLength({"json"}, c) = 2 /\ c \in Short /\ JsonLetter(c) = x
    BY <1>2 DEF EscapedLength, Short, JsonLetter
  <2> HIDE DEF x
  <2>4. f \in Seq(TextByte) /\ Len(f) = 2 /\ f[1] = Backslash /\ f[2] = x
    BY <1>1, <2>1, <2>2, TwoBytes
  <2> QED BY <2>3, <2>4 DEF JsonPiece
<1>3. CASE c \in {Quote, Backslash}
  <2>1. c \notin Controls
    BY <1>3 DEF Controls, Quote, Backslash, Backspace, FormFeed, Newline, Return, Tab
  <2>2. f = <<Backslash, c>>
    BY <1>3 DEF Escaped
  <2>3. EscapedLength({"json"}, c) = 2 /\ c \in Short /\ JsonLetter(c) = c
    BY <1>3, <2>1 DEF EscapedLength, Short, JsonLetter
  <2>4. f \in Seq(TextByte) /\ Len(f) = 2 /\ f[1] = Backslash /\ f[2] = c
    BY <1>1, <2>2, TwoBytes
  <2> QED BY <2>3, <2>4 DEF JsonPiece
<1>4. CASE c \notin Short
  <2>1. f = <<c>>
    BY <1>4 DEF Escaped, Short
  <2>2. EscapedLength({"json"}, c) = 1
    BY <1>4 DEF EscapedLength, Short
  <2>3. f \in Seq(TextByte) /\ Len(f) = 1 /\ f[1] = c
    BY <2>1, OneByte
  <2> QED BY <1>4, <2>2, <2>3 DEF JsonPiece
<1> QED BY <1>2, <1>3, <1>4 DEF Short

\* The two tables of the string builder agree, whatever the flags are.
LEMMA EscapedSized ==
    ASSUME NEW flags \in {{}, {"json"}, {"xml"}}, NEW c \in TextByte
    PROVE  Escaped(flags, c) \in Seq(TextByte) /\ Len(Escaped(flags, c)) = EscapedLength(flags, c)
<1> DEFINE f == Escaped(flags, c)
<1>1. CASE flags = {}
  <2>1. f = <<c>> /\ EscapedLength(flags, c) = 1
    BY <1>1 DEF Escaped, EscapedLength
  <2> HIDE DEF f
  <2>2. f \in Seq(TextByte) /\ Len(f) = 1
    BY <2>1, OneByte
  <2> QED BY <2>1, <2>2 DEF f
<1>2. CASE flags = {"json"}
  BY <1>2, JsonEscapes
<1>3. CASE flags = {"xml"}
  <2>1. f \in Seq(SafeByte) /\ Len(f) = EscapedLength(flags, c)
    BY <1>3, XmlEscapes
  <2>2. SafeByte \subseteq TextByte
    BY DEF SafeByte
  <2>3. Seq(SafeByte) \subseteq Seq(TextByte)
    <3>1. ASSUME NEW s \in Seq(SafeByte) PROVE s \in Seq(TextByte)
      <4>1. \A i \in 1 .. Len(s) : s[i] \in TextByte
        BY <2>2
      <4>2. s = [i \in 1 .. Len(s) |-> s[i]] /\ Len(s) \in Nat
        OBVIOUS
      <4> HIDE DEF f
      <4> QED BY <4>1, <4>2
    <3> QED BY <3>1
  <2> QED BY <2>1, <2>3
<1> QED BY <1>1, <1>2, <1>3

Flags == {{}, {"json"}, {"xml"}}
IsNode(node) == node.flags \in Flags /\ node.text \in Seq(TextByte)

\* The size counted for a text is the length of what is written.
LEMMA NodeSized ==
    ASSUME NEW node, IsNode(node)
    PROVE  EscapedText(node) \in Seq(TextByte) /\ Len(EscapedText(node)) = EscapedSize(node)
<1> DEFINE t == node.text
           n == Len(t)
           f == [k \in DOMAIN t |-> Escaped(node.flags, t[k])]
           g == [k \in DOMAIN t |-> EscapedLength(node.flags, t[k])]
<1>1. n \in Nat /\ DOMAIN t = 1 .. n /\ \A k \in 1 .. n : t[k] \in TextByte
  <2>1. t \in Seq(TextByte)
    BY DEF IsNode
  <2> HIDE DEF t
  <2> QED BY <2>1
<1>2. EscapedText(node) = Concat(f, n) /\ EscapedSize(node) = Total(g, n)
  BY DEF EscapedText, EscapedSize
<1>3. \A k \in 1 .. n : f[k] \in Seq(TextByte) /\ g[k] = Len(f[k])
  <2> SUFFICES ASSUME NEW k \in 1 .. n PROVE f[k] \in Seq(TextByte) /\ g[k] = Len(f[k])
    OBVIOUS
  <2> DEFINE flags == node.flags
             c == t[k]
  <2>1. flags \in {{}, {"json"}, {"xml"}} /\ c \in TextByte
    BY <1>1 DEF IsNode, Flags
  <2>2. f[k] = Escaped(flags, c) /\ g[k] = EscapedLength(flags, c)
    BY <1>1
  <2> HIDE DEF flags, c, f, g
  <2>3. Escaped(flags, c) \in Seq(TextByte) /\ Len(Escaped(flags, c)) = EscapedLength(flags, c)
    BY <2>1, EscapedSized
  <2> QED BY <2>2, <2>3
<1> HIDE DEF f, g, n, t
<1>4. ArePieces(TextByte, f, n) /\ AreSizes(g, f, n) /\ n \in 0 .. n
  BY <1>1, <1>3 DEF ArePieces, AreSizes
<1>5. Concat(f, n) \in Seq(TextByte) /\ Len(Concat(f, n)) = Total(g, n)
  BY <1>1, <1>4, ConcatType, ConcatLength
<1> QED BY <1>2, <1>5

\* The buffer of the string builder has the size of what is written into it
\* (nyx_string_builder_length, nyx_string_builder_to_string).
LEMMA BuilderSized ==
    ASSUME NEW sb, NEW n \in Nat, n = Len(sb), DOMAIN sb = 1 .. n,
           \A k \in 1 .. n : IsNode(sb[k])
    PROVE  BuiltText(sb) \in Seq(TextByte) /\ BuiltLength(sb) = Len(BuiltText(sb))
<1> DEFINE f == [k \in DOMAIN sb |-> EscapedText(sb[k])]
           g == [k \in DOMAIN sb |-> EscapedSize(sb[k])]
<1>1. BuiltText(sb) = Concat(f, n) /\ BuiltLength(sb) = Total(g, n)
  BY DEF BuiltText, BuiltLength
<1>2. \A k \in 1 .. n : f[k] \in Seq(TextByte) /\ g[k] = Len(f[k])
  BY NodeSized
<1> HIDE DEF f, g
<1>3. ArePieces(TextByte, f, n) /\ AreSizes(g, f, n) /\ n \in 0 .. n
  BY <1>2 DEF ArePieces, AreSizes
<1>4. Concat(f, n) \in Seq(TextByte) /\ Len(Concat(f, n)) = Total(g, n)
  BY <1>3, ConcatType, ConcatLength
<1> QED BY <1>1, <1>4

\* A NULL appended after a text.
LEMMA TwoNodes ==
    ASSUME NEW a, NEW b, NEW v, v = Append(Append(<<>>, a), b)
    PROVE  Len(v) = 2 /\ DOMAIN v = 1 .. 2 /\ v[1] = a /\ v[2] = b
<1> DEFINE u == Append(<<>>, a)
           S == {a, b}
<1>1. u \in Seq(S) /\ Len(u) = 1 /\ u[1] = a /\ b \in S
  OBVIOUS
<1>2. v = Append(u, b)
  OBVIOUS
<1> HIDE DEF S, u
<1>3. v \in Seq(S)
  BY <1>1, <1>2, AppendProperties
<1>4. Len(v) = Len(u) + 1
  BY <1>1, <1>2, AppendProperties
<1>5. v[Len(u) + 1] = b
  BY <1>1, <1>2, AppendProperties
<1>6. \A i \in 1 .. Len(u) : v[i] = u[i]
  BY <1>1, <1>2, AppendProperties
<1>7. DOMAIN v = 1 .. Len(v)
  BY <1>3
<1> QED BY <1>1, <1>4, <1>5, <1>6, <1>7

LEMMA BuiltWithNull ==
    ASSUME NEW flags \in Flags, NEW text \in Seq(TextByte)
    PROVE  BuiltLength(Builder(flags, text)) = Len(BuiltText(Builder(flags, text)))
<1> DEFINE a == [flags |-> flags, text |-> text]
           b == [flags |-> {}, text |-> NullPointer]
           sb == Builder(flags, text)
<1>1. sb = Append(Append(<<>>, a), b)
  BY DEF Builder, AppendText
<1>2. NullPointer \in Seq(TextByte)
  <2>1. 40 \in TextByte /\ 110 \in TextByte /\ 117 \in TextByte /\ 108 \in TextByte /\ 41 \in TextByte
    BY DEF TextByte
  <2> QED BY <2>1 DEF NullPointer
<1>3. IsNode(a) /\ IsNode(b)
  BY <1>2 DEF IsNode, Flags
<1> HIDE DEF a, b, sb
<1>5. Len(sb) = 2 /\ DOMAIN sb = 1 .. 2 /\ sb[1] = a /\ sb[2] = b
  BY <1>1, TwoNodes
<1>6. \A k \in 1 .. 2 : IsNode(sb[k])
  <2> SUFFICES ASSUME NEW k \in 1 .. 2 PROVE IsNode(sb[k])
    OBVIOUS
  <2>1. k = 1 \/ k = 2
    OBVIOUS
  <2> QED BY <1>3, <1>5, <2>1
<1>7. 2 \in Nat /\ 2 = Len(sb)
  BY <1>5
<1> QED BY <1>5, <1>6, <1>7, BuilderSized DEF sb

\* What is written for a text is its characters, escaped one by one.
WrittenAs(f, flags, text, n) == f = [k \in 1 .. n |-> Escaped(flags, text[k])]
\* What is written is the pieces of the characters.
LEMMA WriteIs ==
    ASSUME NEW flags \in Flags, NEW text \in Seq(TextByte), NEW n, n = Len(text),
           NEW f, WrittenAs(f, flags, text, n)
    PROVE  Write(flags, text) = Concat(f, n)
<1> DEFINE a == [flags |-> flags, text |-> text]
           sb == AppendText(<<>>, flags, text, FALSE)
           g == [k \in DOMAIN sb |-> EscapedText(sb[k])]
<1>1. sb = <<a>>
  BY DEF AppendText
<1>2. IsNode(a)
  BY DEF IsNode
<1>3. a.flags = flags /\ a.text = text
  OBVIOUS
<1> HIDE DEF a, sb
<1>4. Len(sb) = 1 /\ DOMAIN sb = 1 .. 1 /\ sb[1] = a /\ 1 \in 1 .. 1
  BY <1>1
<1>5. Write(flags, text) = Concat(g, 1)
  BY <1>4 DEF Write, BuiltText, sb
<1>6. g[1] = EscapedText(a)
  BY <1>4
<1> HIDE DEF g
<1>7. Concat(g, 1) = Concat(g, 0) \o g[1] /\ Concat(g, 0) = <<>>
  <2>1. 1 \in Nat /\ 1 # 0 /\ 1 - 1 = 0
    OBVIOUS
  <2> QED BY <2>1, ConcatNext
<1>8. <<>> \o EscapedText(a) = EscapedText(a)
  <2>1. EscapedText(a) \in Seq(TextByte)
    BY <1>2, NodeSized
  <2> QED BY <2>1, ConcatEmptySeq
<1>9. EscapedText(a) = Concat(f, n)
  <2>1. DOMAIN text = 1 .. n
    BY LenProperties
  <2>2. f = [k \in DOMAIN text |-> Escaped(flags, text[k])]
    BY <2>1 DEF WrittenAs
  <2> QED BY <1>3, <2>2 DEF EscapedText
<1> QED BY <1>5, <1>6, <1>7, <1>8, <1>9

\* From the last piece back to the first.
LEMMA Downwards ==
    ASSUME NEW n \in Nat, NEW P, n \in P, \A k \in 1 .. n : k \in P => k - 1 \in P
    PROVE  0 \in P
<1> DEFINE T == P \cap (0 .. n)
<1>1. PICK x \in T : \A y \in T : x <= y
  <2>1. T \subseteq Nat /\ T # {}
    OBVIOUS
  <2> HIDE DEF T
  <2> QED BY <2>1, Smallest
<1>2. x \in P /\ x \in 0 .. n
  OBVIOUS
<1>3. x = 0
  <2> SUFFICES ASSUME x # 0 PROVE FALSE
    OBVIOUS
  <2>1. x \in 1 .. n /\ x - 1 \in 0 .. n /\ ~(x <= x - 1)
    BY <1>2
  <2>2. x - 1 \in P
    BY <1>2, <2>1
  <2>3. x - 1 \in T
    BY <2>1, <2>2
  <2> QED BY <1>1, <2>1, <2>3
<1> QED BY <1>2, <1>3

\* The pieces f of s end at e; what is before them is x, and after them z.
Located(s, e, f, n) ==
    \A k \in 1 .. n :
        /\ e[k - 1] \in Nat /\ e[k] \in Nat /\ Len(f[k]) \in Nat
        /\ e[k] = e[k - 1] + Len(f[k]) /\ e[k] <= Len(s)
        /\ \A r \in 1 .. Len(f[k]) : s[e[k - 1] + r] = f[k][r]
Around(s, e, n, x, z) ==
    /\ e[0] = Len(x) /\ e[n] \in Nat /\ Len(s) = e[n] + Len(z)
    /\ \A i \in 1 .. Len(x) : s[i] = x[i]
    /\ \A i \in 1 .. Len(z) : s[e[n] + i] = z[i]

\* Pieces between two sequences are located.
LEMMA PiecesLocated ==
    ASSUME NEW S, NEW f, NEW n \in Nat, ArePieces(S, f, n), NEW x \in Seq(S), NEW z \in Seq(S),
           NEW s, s = x \o (Concat(f, n) \o z)
    PROVE  \E e : Located(s, e, f, n) /\ Around(s, e, n, x, z) /\ s \in Seq(S)
<1> DEFINE lx == Len(x)
           lz == Len(z)
           c == Concat(f, n)
           lc == Len(c)
           w == c \o z
           e == [k \in 0 .. n |-> lx + Len(Concat(f, k))]
<1>1. lx \in Nat /\ lz \in Nat /\ OfLength(S, x, lx) /\ OfLength(S, z, lz)
  BY DEF OfLength
<1>2. n \in 0 .. n
  OBVIOUS
<1>3. c \in Seq(S)
  BY <1>2, ConcatType
<1>4. OfLength(S, c, lc) /\ lc \in Nat
  BY <1>3 DEF OfLength
<1> DEFINE lw == lc + lz
<1> HIDE DEF lx, lz, c, lc
<1>5. OfLength(S, w, lw) /\ Joins(w, c, z, lc, lz)
  BY <1>1, <1>4, TwoPieces
<1> HIDE DEF w
<1>6. OfLength(S, s, lx + lw) /\ Joins(s, x, w, lx, lw)
  <2>1. s = x \o w
    BY DEF w, c
  <2> HIDE DEF lw
  <2>2. OfLength(S, x \o w, lx + lw) /\ Joins(x \o w, x, w, lx, lw)
    BY <1>1, <1>5, TwoPieces
  <2> QED BY <2>1, <2>2
<1>7. \A i \in 1 .. lc : s[lx + i] = c[i]
  <2> SUFFICES ASSUME NEW i \in 1 .. lc PROVE s[lx + i] = c[i]
    OBVIOUS
  <2>1. i \in 1 .. lw
    BY <1>1, <1>4
  <2> QED BY <1>5, <1>6, <2>1 DEF Joins
<1>8. \A k \in 0 .. n : e[k] = lx + Len(Concat(f, k))
  OBVIOUS
<1> HIDE DEF e
<1>9. e[0] = lx /\ e[n] = lx + lc
  <2>1. Concat(f, 0) = <<>>
    BY ConcatNext
  <2>2. Len(<<>>) = 0 /\ 0 \in 0 .. n
    OBVIOUS
  <2>3. e[0] = lx + Len(Concat(f, 0)) /\ e[n] = lx + lc
    BY <1>2, <1>8, <2>2 DEF lc, c
  <2>4. Len(Concat(f, 0)) = 0
    BY <2>1, <2>2
  <2>5. lx + 0 = lx
    BY <1>1
  <2>6. e[0] = lx + 0
    BY <2>3, <2>4
  <2> QED BY <2>3, <2>5, <2>6
<1>10. Around(s, e, n, x, z)
  <2>1. \A i \in 1 .. lz : s[(lx + lc) + i] = z[i]
    <3> SUFFICES ASSUME NEW i \in 1 .. lz PROVE s[(lx + lc) + i] = z[i]
      OBVIOUS
    <3>1. lc + i \in 1 .. lw /\ lx + (lc + i) = (lx + lc) + i
      BY <1>1, <1>4
    <3> QED BY <1>5, <1>6, <3>1 DEF Joins
  <2>2. Len(s) = (lx + lc) + lz /\ lx + lc \in Nat
    BY <1>1, <1>4, <1>6 DEF OfLength
  <2>3. \A i \in 1 .. lx : s[i] = x[i]
    BY <1>6 DEF Joins
  <2> QED BY <1>9, <2>1, <2>2, <2>3 DEF Around, lx, lz
<1>11. Located(s, e, f, n)
  <2> SUFFICES ASSUME NEW k \in 1 .. n
               PROVE  /\ e[k - 1] \in Nat /\ e[k] \in Nat /\ Len(f[k]) \in Nat
                      /\ e[k] = e[k - 1] + Len(f[k]) /\ e[k] <= Len(s)
                      /\ \A r \in 1 .. Len(f[k]) : s[e[k - 1] + r] = f[k][r]
    BY DEF Located
  <2> DEFINE a == Len(Concat(f, k - 1))
             b == Len(Concat(f, k))
             m == Len(f[k])
  <2>1. a \in Nat /\ m \in Nat /\ b = a + m /\ b <= lc
    BY ConcatPlace DEF lc, c
  <2>2. e[k - 1] = lx + a /\ e[k] = lx + b
    BY <1>8
  <2>3. \A r \in 1 .. m : a + r \in 1 .. lc /\ c[a + r] = f[k][r]
    BY ConcatAt DEF c, lc
  <2> HIDE DEF a, b, m
  <2>4. \A r \in 1 .. m : s[e[k - 1] + r] = f[k][r]
    <3> SUFFICES ASSUME NEW r \in 1 .. m PROVE s[e[k - 1] + r] = f[k][r]
      OBVIOUS
    <3>1. s[lx + (a + r)] = f[k][r]
      BY <1>7, <2>3
    <3>2. lx + (a + r) = e[k - 1] + r
      BY <1>1, <2>1, <2>2
    <3> QED BY <3>1, <3>2
  <2>5. Len(s) = lx + (lc + lz)
    BY <1>6 DEF OfLength
  <2>6. e[k - 1] \in Nat /\ e[k] \in Nat /\ e[k] = e[k - 1] + m /\ e[k] <= Len(s)
    BY <1>1, <1>4, <2>1, <2>2, <2>5
  <2> QED BY <2>1, <2>4, <2>6 DEF m
<1> QED BY <1>6, <1>10, <1>11 DEF OfLength

Back(a, b, len, left, m) ==
    /\ a \in Nat /\ b \in Nat /\ len \in Nat /\ m \in Nat /\ m >= 1
    /\ b = a + m /\ b <= len /\ left = len - a
LEMMA PlacesBack ==
    ASSUME NEW a, NEW b, NEW len, NEW left, NEW m, Back(a, b, len, left, m)
    PROVE  /\ left \in 1 .. len /\ left \in 0 .. len /\ left >= m
           /\ len - b = left - m /\ a + m <= len /\ len - left + 1 = a + 1
<1>1. /\ a \in Nat /\ b \in Nat /\ len \in Nat /\ m \in Nat /\ m >= 1
      /\ b = a + m /\ b <= len /\ left = len - a
  BY DEF Back
<1> QED BY <1>1

\* A piece, from its place to the next.
Place(s, e, f, n, k, left, m) ==
    /\ n \in Nat /\ Located(s, e, f, n) /\ Len(s) \in Nat /\ k \in 1 .. n
    /\ left = Len(s) - e[k - 1] /\ m = Len(f[k]) /\ m >= 1
\* What a place is, and where the next one is.
LEMMA AtPiece ==
    ASSUME NEW s, NEW e, NEW f, NEW n, NEW k, NEW left, NEW m, Place(s, e, f, n, k, left, m)
    PROVE  /\ left \in 1 .. Len(s) /\ left \in 0 .. Len(s) /\ Len(s) - left + 1 = e[k - 1] + 1
           /\ Len(s) - e[k] = left - m /\ left >= m /\ m \in Nat
           /\ s[e[k - 1] + 1] = f[k][1]
           /\ e[k - 1] \in Nat /\ e[k - 1] + m <= Len(s)
<1>0. /\ Located(s, e, f, n) /\ Len(s) \in Nat /\ k \in 1 .. n
      /\ left = Len(s) - e[k - 1] /\ m = Len(f[k]) /\ m >= 1
  BY DEF Place
<1>1. /\ e[k - 1] \in Nat /\ m \in Nat
      /\ e[k] = e[k - 1] + m /\ e[k] <= Len(s) /\ e[k] \in Nat
      /\ \A r \in 1 .. m : s[e[k - 1] + r] = f[k][r]
  BY <1>0 DEF Located
<1>2. 1 \in 1 .. m
  BY <1>0, <1>1
<1>3. s[e[k - 1] + 1] = f[k][1]
  BY <1>1, <1>2
<1> DEFINE a == e[k - 1]
           b == e[k]
           len == Len(s)
<1>4. a \in Nat /\ b \in Nat /\ m \in Nat /\ len \in Nat /\ b = a + m /\ b <= len /\ left = len - a
  BY <1>0, <1>1
<1> HIDE DEF a, b, len
<1>5. Back(a, b, len, left, m)
  BY <1>0, <1>4 DEF Back
<1>6. /\ left \in 1 .. len /\ left \in 0 .. len /\ left >= m
      /\ len - b = left - m /\ a + m <= len /\ len - left + 1 = a + 1
  BY <1>5, PlacesBack
<1> QED BY <1>3, <1>4, <1>6 DEF a, b, len

LEMMA SuffixNext ==
    ASSUME NEW S, NEW t \in Seq(S), NEW n, n = Len(t), NEW k \in 1 .. n
    PROVE  <<t[k]>> \o SubSeq(t, k + 1, n) = SubSeq(t, k, n)
<1>0. n \in Nat
  OBVIOUS
<1> DEFINE u == SubSeq(t, k + 1, n)
           v == SubSeq(t, k, n)
           h == <<t[k]>>
           a == n - k
<1>1. OfLength(S, t, n)
  BY DEF OfLength
<1>2. OfLength(S, u, a) /\ IsSlice(u, t, k, a)
  <2>1. k \in Nat /\ a \in Nat /\ k + a <= n /\ n = k + a
    BY <1>0
  <2> DEFINE b == k + 1
  <2>2. b = k + 1
    OBVIOUS
  <2> HIDE DEF b, a
  <2>3. OfLength(S, SubSeq(t, b, n), a) /\ IsSlice(SubSeq(t, b, n), t, k, a)
    BY <1>1, <2>1, <2>2, Slice
  <2> QED BY <2>3 DEF b
<1>3. OfLength(S, v, 1 + a) /\ IsSlice(v, t, k - 1, 1 + a)
  <2> DEFINE b == k - 1
             m == 1 + a
  <2>1. b \in Nat /\ m \in Nat /\ b + m <= n /\ n = b + m /\ k = b + 1
    BY <1>0
  <2> HIDE DEF b, m
  <2>2. OfLength(S, SubSeq(t, k, n), m) /\ IsSlice(SubSeq(t, k, n), t, b, m)
    BY <1>1, <2>1, Slice
  <2> QED BY <2>2 DEF b, m
<1>4. OfLength(S, h, 1) /\ h[1] = t[k]
  <2>1. t[k] \in S
    OBVIOUS
  <2> QED BY <2>1, OneByte DEF OfLength
<1> HIDE DEF u, v, h
<1>5. OfLength(S, h \o u, 1 + a) /\ Joins(h \o u, h, u, 1, a)
  <2> HIDE DEF a
  <2> QED BY <1>2, <1>4, TwoPieces
<1>6. \A i \in 1 .. 1 + a : (h \o u)[i] = v[i]
  <2> SUFFICES ASSUME NEW i \in 1 .. 1 + a PROVE (h \o u)[i] = v[i]
    OBVIOUS
  <2>1. v[i] = t[(k - 1) + i]
    BY <1>3 DEF IsSlice
  <2>2. CASE i = 1
    <3>1. (k - 1) + i = k /\ i \in 1 .. 1
      BY <2>2
    <3>2. (h \o u)[i] = t[k]
      BY <1>4, <1>5, <2>2, <3>1 DEF Joins
    <3> QED BY <2>1, <3>1, <3>2
  <2>3. CASE i # 1
    <3> DEFINE j == i - 1
    <3>1. j \in 1 .. a /\ 1 + j = i /\ (k - 1) + i = k + j
      BY <1>0, <2>3
    <3> HIDE DEF j
    <3>2. (h \o u)[i] = t[k + j]
      BY <1>2, <1>5, <3>1 DEF Joins, IsSlice
    <3> QED BY <2>1, <3>1, <3>2
  <2> QED BY <2>2, <2>3
<1>7. h \o u = v
  <2> DEFINE m == 1 + a
             y == h \o u
  <2>1. OfLength(S, y, m) /\ OfLength(S, v, m) /\ \A i \in 1 .. m : y[i] = v[i]
    BY <1>3, <1>5, <1>6
  <2> HIDE DEF m, y
  <2>2. y = v
    BY <2>1, SameSeq
  <2> QED BY <2>2 DEF y
<1> QED BY <1>7 DEF u, v, h

\* The function xmlcpy computes.
EntityAt(s, at) == CHOOSE e \in Entities : Follows(s, at, e)
XmlStep(s, copy, left) ==
    LET at == Len(s) - left + 1
        c == CHOOSE e \in Entities : Follows(s, at, e)
    IN IF left = 0 THEN Readable(<<>>)
       ELSE IF s[at] # Amp THEN Before(<<s[at]>>, copy[left - 1])
       ELSE IF \A e \in Entities : ~Follows(s, at, e) THEN Unreadable
       ELSE Before(<<c>>, copy[left - 1 - Len(Entity[c])])
IsXml(s, copy, n) == copy = [left \in 0 .. n |-> XmlStep(s, copy, left)]

LEMMA EntityFound ==
    ASSUME NEW s, NEW at, NEW e \in Entities, Follows(s, at, e)
    PROVE  EntityAt(s, at) \in Entities /\ Follows(s, at, EntityAt(s, at))
  BY DEF EntityAt

\* xmlcpy is its equation.
LEMMA XmlExists ==
    ASSUME NEW s, Len(s) \in Nat, NEW k \in Nat
    PROVE  \E F : IsXml(s, F, k)
<1> DEFINE Bad == {n \in Nat : ~ \E F : IsXml(s, F, n)}
<1> SUFFICES ASSUME Bad # {} PROVE FALSE
  OBVIOUS
<1>1. PICK x \in Bad : \A y \in Bad : x <= y
  BY Smallest
<1>2. PICK F : x # 0 => IsXml(s, F, x - 1)
  <2>1. x # 0 => x - 1 \in Nat /\ x - 1 \notin Bad
    BY <1>1
  <2> QED BY <2>1
<1> DEFINE G == [n \in 0 .. x |-> IF n = x THEN XmlStep(s, F, x) ELSE F[n]]
<1>3. /\ x \in Nat /\ G = [n \in 0 .. x |-> G[n]] /\ G[x] = XmlStep(s, F, x)
      /\ \A n \in 0 .. x - 1 : G[n] = F[n]
  OBVIOUS
<1> HIDE DEF G, Bad
<1>4. ASSUME NEW n \in 0 .. x
      PROVE  G[n] = XmlStep(s, G, n)
  <2>1. G[n] = XmlStep(s, F, n)
    <3>1. n = x \/ (x # 0 /\ n \in 0 .. x - 1)
      BY <1>3
    <3>2. CASE n = x
      BY <1>3, <3>2
    <3>3. CASE x # 0 /\ n \in 0 .. x - 1
      <4>1. \A j \in 0 .. x - 1 : F[j] = XmlStep(s, F, j)
        BY <1>2, <3>3 DEF IsXml
      <4>2. F[n] = XmlStep(s, F, n) /\ G[n] = F[n]
        BY <1>3, <3>3, <4>1
      <4> QED BY <4>2
    <3> QED BY <3>1, <3>2, <3>3
  <2>2. XmlStep(s, F, n) = XmlStep(s, G, n)
    <3>1. ASSUME n # 0 PROVE F[n - 1] = G[n - 1]
      <4>1. n - 1 \in 0 .. x - 1
        BY <1>3, <3>1
      <4> QED BY <1>3, <4>1
    <3> DEFINE at == Len(s) - n + 1
               c == EntityAt(s, at)
               d == n - 1 - Len(Entity[c])
    <3>2. ASSUME n # 0, ~\A e \in Entities : ~Follows(s, at, e)
          PROVE  F[d] = G[d]
      <4>1. c \in Entities /\ Follows(s, at, c)
        <5> HIDE DEF at, c
        <5>1. PICK e \in Entities : Follows(s, at, e)
          BY <3>2
        <5> QED BY <5>1, EntityFound DEF c
      <4> DEFINE l == Len(Entity[c])
                 len == Len(s)
      <4>2. l \in 3 .. 5
        <5> HIDE DEF c
        <5> QED BY <4>1, EntityType
      <4>3. (len - n + 1) + l <= len
        BY <4>1 DEF Follows
      <4> HIDE DEF l, c, at
      <4>4. len \in Nat /\ n \in 0 .. x /\ x \in Nat
        BY <1>3
      <4> HIDE DEF len
      <4>5. n - 1 - l \in 0 .. x - 1
        BY <4>2, <4>3, <4>4
      <4>6. d \in 0 .. x - 1
        BY <4>5 DEF l
      <4> QED BY <1>3, <4>6
    <3> QED BY <3>1, <3>2 DEF XmlStep, EntityAt
  <2> QED BY <2>1, <2>2
<1>5. IsXml(s, G, x)
  BY <1>3, <1>4 DEF IsXml
<1> QED BY <1>1, <1>5 DEF Bad

LEMMA XmlCopyIs ==
    ASSUME NEW s, Len(s) \in Nat
    PROVE  \E F : IsXml(s, F, Len(s)) /\ XmlCopy(s) = F[Len(s)]
<1> DEFINE F == CHOOSE F : IsXml(s, F, Len(s))
<1>1. IsXml(s, F, Len(s))
  BY XmlExists
<1>2. XmlCopy(s) = F[Len(s)]
  BY DEF XmlCopy, IsXml, XmlStep
<1> QED BY <1>1, <1>2


LEMMA BeforeReadable ==
    ASSUME NEW u, NEW v
    PROVE  /\ Before(u, Readable(v)) = Readable(u \o v)
           /\ Before(u, Unreadable) = Unreadable
  BY DEF Before, Readable, Unreadable

\* An entity in the text is told from the others.
LEMMA FollowsOne ==
    ASSUME NEW s, NEW at, NEW c \in Entities, NEW d \in Entities,
           Follows(s, at, c), Follows(s, at, d)
    PROVE  c = d
<1> SUFFICES ASSUME c # d PROVE FALSE
  OBVIOUS
<1>1. PICK k \in 1 .. 2 : Entity[c][k] # Entity[d][k]
  BY EntitiesDiffer
<1>2. \A e \in Entities : k \in DOMAIN Entity[e]
  <2> SUFFICES ASSUME NEW e \in Entities PROVE k \in DOMAIN Entity[e]
    OBVIOUS
  <2> DEFINE t == Entity[e]
  <2>1. t \in Seq(SafeByte) /\ Len(t) \in 3 .. 5
    BY EntityType
  <2> HIDE DEF t
  <2>2. k \in DOMAIN t
    BY <2>1
  <2> QED BY <2>2 DEF t
<1>3. s[at + k] = Entity[c][k] /\ s[at + k] = Entity[d][k]
  BY <1>2 DEF Follows
<1> QED BY <1>1, <1>3

\* One step of xmlcpy, at a piece.
LEMMA XmlStepIs ==
    ASSUME NEW s, NEW F, NEW left, left # 0, NEW at, at = Len(s) - left + 1
    PROVE  /\ s[at] # Amp => XmlStep(s, F, left) = Before(<<s[at]>>, F[left - 1])
           /\ \A c \in Entities : s[at] = Amp /\ Follows(s, at, c) =>
                 XmlStep(s, F, left) = Before(<<c>>, F[left - 1 - Len(Entity[c])])
<1>1. XmlStep(s, F, left) =
        IF s[at] # Amp THEN Before(<<s[at]>>, F[left - 1])
        ELSE IF \A e \in Entities : ~Follows(s, at, e) THEN Unreadable
        ELSE Before(<<EntityAt(s, at)>>, F[left - 1 - Len(Entity[EntityAt(s, at)])])
  BY DEF XmlStep, EntityAt
<1>2. ASSUME NEW c \in Entities, s[at] = Amp, Follows(s, at, c)
      PROVE  XmlStep(s, F, left) = Before(<<c>>, F[left - 1 - Len(Entity[c])])
  <2>1. EntityAt(s, at) \in Entities /\ Follows(s, at, EntityAt(s, at))
    BY <1>2, EntityFound
  <2>2. EntityAt(s, at) = c
    BY <1>2, <2>1, FollowsOne
  <2> QED BY <1>1, <1>2, <2>2
<1> QED BY <1>1, <1>2

\* What is escaped for XML is read back by xmlcpy.
LEMMA XmlCopyReads ==
    ASSUME NEW t \in Seq(TextByte), NEW n \in Nat, n = Len(t),
           NEW f, \A k \in 1 .. n : XmlPiece(f[k], t[k]),
           NEW s, NEW e, Located(s, e, f, n), Len(s) \in Nat, e[0] = 0, e[n] = Len(s)
    PROVE  XmlCopy(s) = Readable(t)
<1>1. PICK F : IsXml(s, F, Len(s)) /\ XmlCopy(s) = F[Len(s)]
  BY XmlCopyIs
<1>2. \A left \in 0 .. Len(s) : F[left] = XmlStep(s, F, left)
  BY <1>1 DEF IsXml
<1> DEFINE rest(j) == SubSeq(t, j + 1, n)
           P == {j \in 0 .. n : F[Len(s) - e[j]] = Readable(rest(j))}
<1>3. n \in P
  <2>1. Len(s) - e[n] = 0 /\ 0 \in 0 .. Len(s)
    OBVIOUS
  <2>2. F[0] = Readable(<<>>)
    BY <1>2, <2>1 DEF XmlStep
  <2>3. rest(n) = <<>>
    <3>1. n < n + 1
      OBVIOUS
    <3> QED BY <3>1
  <2> HIDE DEF rest
  <2>4. F[0] = Readable(rest(n)) /\ n \in 0 .. n
    BY <2>2, <2>3
  <2>5. F[Len(s) - e[n]] = F[0]
    BY <2>1
  <2> QED BY <2>4, <2>5
<1>4. ASSUME NEW k \in 1 .. n, k \in P
      PROVE  k - 1 \in P
  <2> DEFINE left == Len(s) - e[k - 1]
             at == e[k - 1] + 1
             c == t[k]
             m == Len(f[k])
  <2>1. F[Len(s) - e[k]] = Readable(rest(k))
    BY <1>4
  <2>2. XmlPiece(f[k], c) /\ c \in TextByte
    OBVIOUS
  <2>3. m >= 1 /\ m \in Nat
    <3>1. CASE c \in Entities
      <4> DEFINE l == Len(Entity[c])
      <4>1. l \in 3 .. 5
        <5> HIDE DEF c
        <5> QED BY <3>1, EntityType
      <4>2. m = 1 + l
        BY <2>2, <3>1 DEF XmlPiece
      <4> HIDE DEF l, m
      <4> QED BY <4>1, <4>2
    <3>2. CASE c \notin Entities
      BY <2>2, <3>2 DEF XmlPiece
    <3> QED BY <3>1, <3>2
  <2>4. Place(s, e, f, n, k, left, m) /\ m = Len(f[k])
    <3>1. left = Len(s) - e[k - 1] /\ m = Len(f[k])
      OBVIOUS
    <3> HIDE DEF left, m
    <3> QED BY <2>3, <3>1 DEF Place
  <2> HIDE DEF left, m
  <2>5. /\ left \in 1 .. Len(s) /\ left \in 0 .. Len(s) /\ Len(s) - left + 1 = e[k - 1] + 1
        /\ Len(s) - e[k] = left - m /\ left >= m /\ m \in Nat
        /\ s[e[k - 1] + 1] = f[k][1]
        /\ e[k - 1] \in Nat /\ e[k - 1] + m <= Len(s)
    BY <2>4, AtPiece, SMTT(30)
  <2>5a. e[k - 1] \in Nat /\ F[Len(s) - e[k]] = F[left - m] /\ left = Len(s) - e[k - 1]
    BY <2>5 DEF left
  <2>6. F[left] = XmlStep(s, F, left)
    BY <1>2, <2>5
  <2>7. left # 0 /\ at = Len(s) - left + 1
    BY <2>5
  <2> HIDE DEF at
  <2>8. /\ s[at] # Amp => F[left] = Before(<<s[at]>>, F[left - 1])
        /\ \A d \in Entities : s[at] = Amp /\ Follows(s, at, d) =>
              F[left] = Before(<<d>>, F[left - 1 - Len(Entity[d])])
    BY <2>6, <2>7, XmlStepIs
  <2>9. s[at] = f[k][1]
    BY <2>5 DEF at
  <2>10. F[left] = Before(<<c>>, F[left - m])
    <3>1. CASE c \notin Entities
      <4>1. m = 1 /\ f[k][1] = c
        BY <2>2, <3>1 DEF XmlPiece, m
      <4>2. c # Amp
        BY <3>1 DEF Entities
      <4> HIDE DEF c
      <4> QED BY <2>8, <2>9, <4>1, <4>2
    <3>2. CASE c \in Entities
      <4> DEFINE l == Len(Entity[c])
      <4>1. m = 1 + l /\ f[k][1] = Amp /\ \A i \in 1 .. l : f[k][1 + i] = Entity[c][i]
        BY <2>2, <3>2 DEF XmlPiece, m
      <4>2. l \in 3 .. 5 /\ DOMAIN Entity[c] = 1 .. l
        <5> DEFINE u == Entity[c]
        <5>1. u \in Seq(SafeByte) /\ Len(u) \in 3 .. 5
          <6> HIDE DEF c
          <6> QED BY <3>2, EntityType
        <5> HIDE DEF u
        <5>2. DOMAIN u = 1 .. Len(u)
          BY <5>1
        <5> QED BY <5>1, <5>2 DEF u
      <4>3. Follows(s, at, c)
        <5>1. \A i \in 1 .. l : s[at + i] = Entity[c][i]
          <6> SUFFICES ASSUME NEW i \in 1 .. l PROVE s[at + i] = Entity[c][i]
            OBVIOUS
          <6> HIDE DEF l
          <6> DEFINE j == 1 + i
          <6>1. j \in 1 .. m /\ e[k - 1] + j = (e[k - 1] + 1) + i
            <7>1. i \in Nat /\ l \in Nat /\ i <= l /\ m = 1 + l
              BY <4>1, <4>2
            <7>2. j \in 1 .. m
              BY <7>1
            <7> DEFINE a == e[k - 1]
            <7>3. a \in Nat
              BY <2>5a
            <7> HIDE DEF a
            <7>4. a + j = (a + 1) + i
              BY <7>1, <7>3
            <7> QED BY <7>2, <7>4 DEF a
          <6>2. s[e[k - 1] + j] = f[k][j]
            <7> HIDE DEF j
            <7> QED BY <6>1, <2>4 DEF Located
          <6>3. s[e[k - 1] + j] = s[at + i]
            BY <6>1 DEF at
          <6>4. f[k][j] = Entity[c][i]
            BY <4>1
          <6> QED BY <6>2, <6>3, <6>4
        <5> HIDE DEF l, c
        <5>2. at + l <= Len(s)
          BY <2>5, <4>1, <4>2 DEF at
        <5> QED BY <4>2, <5>1, <5>2 DEF Follows, l
      <4> HIDE DEF l, c
      <4>4. F[left] = Before(<<c>>, F[left - 1 - l])
        BY <2>8, <2>9, <3>2, <4>1, <4>3 DEF l
      <4>5. left - 1 - l = left - m
        BY <2>5, <4>1, <4>2, SMTT(30)
      <4> QED BY <4>4, <4>5
    <3> QED BY <3>1, <3>2
  <2>11. F[left] = Readable(<<c>> \o rest(k))
    <3> HIDE DEF rest, c
    <3> QED BY <2>1, <2>5a, <2>10, BeforeReadable
  <2>12. <<c>> \o rest(k) = rest(k - 1)
    <3>1. k - 1 + 1 = k
      OBVIOUS
    <3>2. <<t[k]>> \o SubSeq(t, k + 1, n) = SubSeq(t, k, n)
      BY SuffixNext
    <3> QED BY <3>1, <3>2
  <2>13. k - 1 \in 0 .. n
    OBVIOUS
  <2> HIDE DEF rest, c
  <2> QED BY <2>5a, <2>11, <2>12, <2>13
<1> HIDE DEF P
<1>5. 0 \in P
  BY <1>3, <1>4, Downwards
<1>6. F[Len(s) - e[0]] = Readable(rest(0)) /\ Len(s) - e[0] = Len(s)
  BY <1>5 DEF P
<1>7. rest(0) = t
  <2> DEFINE u == SubSeq(t, 1, n)
  <2>1. OfLength(TextByte, t, n) /\ n \in Nat /\ n <= n
    BY DEF OfLength
  <2>2. OfLength(TextByte, u, n) /\ \A i \in 1 .. n : u[i] = t[i]
    BY <2>1, Prefix
  <2> HIDE DEF u
  <2>3. u = t
    BY <2>1, <2>2, SameSeq
  <2>4. 0 + 1 = 1
    OBVIOUS
  <2> QED BY <2>3, <2>4 DEF u
<1> QED BY <1>1, <1>6, <1>7

\* The letter after a backslash stands for the character it was written for.
LEMMA LetterReads ==
    ASSUME NEW c \in Short
    PROVE  JsonLetter(c) # 117 /\ Unescaped(JsonLetter(c)) = c
<1> DEFINE x == JsonLetter(c)
           good == {d \in Controls : Letter[d] = x}
<1>1. CASE c \in Controls
  <2>1. x = Letter[c]
    BY <1>1 DEF JsonLetter
  <2>2. x # 117 /\ \A d \in Controls : Letter[d] = x => d = c
    BY <1>1, <2>1, LettersAre
  <2>3. \E d \in Controls : Letter[d] = x
    BY <1>1, <2>1
  <2> DEFINE y == CHOOSE d \in Controls : Letter[d] = x
  <2>4. y \in Controls /\ Letter[y] = x
    BY <2>3
  <2>5. Unescaped(x) = y
    BY <2>3 DEF Unescaped
  <2> QED BY <2>2, <2>4, <2>5
<1>2. CASE c \notin Controls
  <2>1. x = c /\ c \in {Quote, Backslash}
    BY <1>2 DEF JsonLetter, Short
  <2>2. \A d \in Controls : Letter[d] # x
    <3> SUFFICES ASSUME NEW d \in Controls, Letter[d] = x PROVE FALSE
      OBVIOUS
    <3>1. x \notin Short
      BY LettersAre
    <3> QED BY <2>1, <3>1 DEF Short
  <2>3. Unescaped(x) = x
    BY <2>2 DEF Unescaped
  <2>4. x # 117
    BY <2>1 DEF Quote, Backslash
  <2> QED BY <2>1, <2>3, <2>4
<1> QED BY <1>1, <1>2

StepAt(s, left, at) == left # 0 /\ at = Len(s) - left + 1

\* One step of jsoncpy, at a piece or at a backslash with nothing after it.
LEMMA CopyStepIs ==
    ASSUME NEW s, NEW F, NEW left, NEW at, StepAt(s, left, at)
    PROVE  /\ s[at] # Backslash => CopyStep(s, F, left) = Before(<<s[at]>>, F[left - 1])
           /\ s[at] = Backslash /\ left = 1 => CopyStep(s, F, left) = Unreadable
           /\ s[at] = Backslash /\ left # 1 /\ s[at + 1] # 117 =>
                CopyStep(s, F, left) = Before(<<Unescaped(s[at + 1])>>, F[left - 2])
<1>1. CopyStep(s, F, left) =
       IF s[at] # Backslash THEN Before(<<s[at]>>, F[left - 1])
       ELSE IF left = 1 THEN Unreadable
       ELSE IF s[at + 1] # 117 THEN Before(<<Unescaped(s[at + 1])>>, F[left - 2])
       ELSE IF left < 6 THEN Unreadable
       ELSE Before(Utf8(HexValue(SubSeq(s, at + 2, at + 5))), F[left - 6])
  BY DEF CopyStep, StepAt
<1> QED BY <1>1

\* A short escape takes two bytes, any other character one.
JsonPlace(s, e, f, n, k, c, left, at) ==
    /\ n \in Nat /\ Located(s, e, f, n) /\ Len(s) \in Nat /\ k \in 1 .. n
    /\ JsonPiece(f[k], c)
    /\ left = Len(s) - e[k - 1] /\ at = Len(s) - left + 1
\* The piece a place is at, and where the next one is.
LEMMA JsonAtPiece ==
    ASSUME NEW s, NEW e, NEW f, NEW n, NEW k, NEW c, NEW left, NEW at,
           JsonPlace(s, e, f, n, k, c, left, at)
    PROVE  /\ left # 0 /\ left \in 0 .. Len(s) /\ left \in Nat
           /\ c \notin Short => s[at] = c /\ Len(s) - e[k] = left - 1
           /\ c \in Short => /\ s[at] = Backslash /\ s[at + 1] = JsonLetter(c)
                             /\ Len(s) - e[k] = left - 2 /\ left # 1 /\ left > 1
<1> DEFINE m == Len(f[k])
<1>0. /\ n \in Nat /\ Located(s, e, f, n) /\ Len(s) \in Nat /\ k \in 1 .. n
      /\ JsonPiece(f[k], c)
      /\ left = Len(s) - e[k - 1] /\ at = Len(s) - left + 1
  BY DEF JsonPlace
<1>1. (c \in Short => m = 2) /\ (c \notin Short => m = 1)
  BY <1>0 DEF JsonPiece
<1>2. Place(s, e, f, n, k, left, m) /\ m = Len(f[k])
  <2>1. m = Len(f[k])
    OBVIOUS
  <2> HIDE DEF m
  <2>2. m >= 1
    BY <1>1
  <2> QED BY <1>0, <2>1, <2>2 DEF Place
<1> HIDE DEF m
<1>3. /\ left \in 1 .. Len(s) /\ left \in 0 .. Len(s) /\ Len(s) - left + 1 = e[k - 1] + 1
      /\ Len(s) - e[k] = left - m /\ left >= m /\ m \in Nat
      /\ s[e[k - 1] + 1] = f[k][1]
      /\ e[k - 1] \in Nat /\ e[k - 1] + m <= Len(s)
  BY <1>2, AtPiece
<1>4. left \in Nat /\ left # 0 /\ left >= m
  <2>1. left \in 1 .. Len(s) /\ left >= m
    BY <1>3
  <2> QED BY <1>0, <2>1
<1>4a. at = e[k - 1] + 1 /\ s[at] = f[k][1]
  BY <1>0, <1>3
<1>5. CASE c \notin Short
  <2>1. m = 1 /\ f[k][1] = c
    BY <1>0, <1>1, <1>5 DEF JsonPiece
  <2> QED BY <1>3, <1>4, <1>4a, <1>5, <2>1
<1>6. CASE c \in Short
  <2>1. m = 2 /\ f[k][1] = Backslash /\ f[k][2] = JsonLetter(c)
    BY <1>0, <1>1, <1>6 DEF JsonPiece
  <2>2. s[e[k - 1] + 2] = f[k][2]
    <3>1. 2 \in 1 .. Len(f[k])
      BY <1>2, <2>1
    <3> QED BY <1>0, <3>1 DEF Located
  <2>3. at + 1 = e[k - 1] + 2
    <3> DEFINE a == e[k - 1]
    <3>1. a \in Nat /\ at = a + 1
      BY <1>3, <1>4a
    <3> HIDE DEF a
    <3>2. at + 1 = a + 2
      BY <3>1
    <3> QED BY <3>2 DEF a
  <2>4. left > 1 /\ left # 1
    BY <1>4, <2>1
  <2>5. s[at + 1] = JsonLetter(c)
    BY <2>1, <2>2, <2>3
  <2> QED BY <1>3, <1>4, <1>4a, <1>6, <2>1, <2>4, <2>5
<1> QED BY <1>5, <1>6

\* What is escaped for JSON is read back by jsoncpy, unless a backslash is left
\* alone after it.
LEMMA JsonCopyReads ==
    ASSUME NEW t \in Seq(TextByte), NEW n \in Nat, n = Len(t),
           NEW f, \A k \in 1 .. n : JsonPiece(f[k], t[k]),
           NEW s, NEW e, Located(s, e, f, n), Len(s) \in Nat, e[0] = 0, e[n] \in Nat,
           NEW full \in BOOLEAN, full => Len(s) = e[n],
           ~full => Len(s) = e[n] + 1 /\ s[e[n] + 1] = Backslash
    PROVE  JsonCopy(s) = IF full THEN Readable(t) ELSE Unreadable
<1>1. PICK F : IsCopy(s, F, Len(s)) /\ JsonCopy(s) = F[Len(s)]
  BY JsonCopyIs
<1>2. \A left \in 0 .. Len(s) : F[left] = CopyStep(s, F, left)
  BY <1>1 DEF IsCopy
<1> DEFINE rest(j) == SubSeq(t, j + 1, n)
           read(j) == IF full THEN Readable(rest(j)) ELSE Unreadable
           P == {j \in 0 .. n : F[Len(s) - e[j]] = read(j)}
<1>3. n \in P
  <2>1. rest(n) = <<>>
    <3>1. n < n + 1
      OBVIOUS
    <3> QED BY <3>1
  <2> HIDE DEF rest
  <2>2. CASE full
    <3>1. Len(s) - e[n] = 0 /\ 0 \in 0 .. Len(s)
      BY <2>2
    <3>2. F[0] = Readable(<<>>)
      BY <1>2, <3>1 DEF CopyStep
    <3>3. F[Len(s) - e[n]] = F[0]
      BY <3>1
    <3>4. F[0] = read(n) /\ n \in 0 .. n
      BY <2>1, <2>2, <3>2
    <3> HIDE DEF read
    <3> QED BY <3>3, <3>4
  <2>3. CASE ~full
    <3> DEFINE len == Len(s)
               b == e[n]
               at == len - 1 + 1
    <3>1. len \in Nat /\ b \in Nat /\ len = b + 1 /\ s[b + 1] = Backslash
      BY <2>3
    <3> HIDE DEF len, b
    <3>2. len - b = 1 /\ 1 \in 0 .. len /\ at = b + 1
      BY <3>1
    <3>3. F[1] = CopyStep(s, F, 1)
      BY <1>2, <3>2 DEF len
    <3>4. s[at] = Backslash /\ StepAt(s, 1, at)
      BY <3>1, <3>2 DEF len, StepAt
    <3> HIDE DEF at
    <3>5. CopyStep(s, F, 1) = Unreadable
      BY <3>4, CopyStepIs, ZenonT(30)
    <3>6. F[Len(s) - e[n]] = F[1]
      BY <3>2 DEF len, b
    <3>7. F[1] = read(n) /\ n \in 0 .. n
      BY <2>3, <3>3, <3>5
    <3> HIDE DEF read
    <3> QED BY <3>6, <3>7
  <2> QED BY <2>2, <2>3
<1>4. ASSUME NEW k \in 1 .. n, k \in P
      PROVE  k - 1 \in P
  <2> DEFINE left == Len(s) - e[k - 1]
             at == Len(s) - left + 1
             c == t[k]
  <2>1. F[Len(s) - e[k]] = read(k)
    BY <1>4
  <2>2. JsonPiece(f[k], c) /\ c \in TextByte
    OBVIOUS
  <2> HIDE DEF left, at, c, read
  <2>3. JsonPlace(s, e, f, n, k, c, left, at)
    BY <2>2 DEF JsonPlace, left, at
  <2>4. /\ left # 0 /\ left \in 0 .. Len(s) /\ left \in Nat
        /\ c \notin Short => s[at] = c /\ Len(s) - e[k] = left - 1
        /\ c \in Short => /\ s[at] = Backslash /\ s[at + 1] = JsonLetter(c)
                          /\ Len(s) - e[k] = left - 2 /\ left # 1 /\ left > 1
    BY <2>3, JsonAtPiece
  <2>4a. StepAt(s, left, at) /\ left = Len(s) - e[k - 1]
    BY <2>3, <2>4 DEF StepAt, JsonPlace
  <2>5. F[left] = CopyStep(s, F, left)
    BY <1>2, <2>4
  <2>6. /\ s[at] # Backslash => F[left] = Before(<<s[at]>>, F[left - 1])
        /\ s[at] = Backslash /\ left # 1 /\ s[at + 1] # 117 =>
                F[left] = Before(<<Unescaped(s[at + 1])>>, F[left - 2])
    BY <2>4a, <2>5, CopyStepIs
  <2>7. F[left] = Before(<<c>>, read(k))
    <3>1. CASE c \notin Short
      <4>1. c # Backslash
        BY <3>1 DEF Short
      <4>2. s[at] = c /\ F[left - 1] = F[Len(s) - e[k]]
        BY <2>4, <3>1
      <4> QED BY <2>1, <2>6, <4>1, <4>2
    <3>2. CASE c \in Short
      <4>1. JsonLetter(c) # 117 /\ Unescaped(JsonLetter(c)) = c
        BY <3>2, LetterReads
      <4>2. s[at] = Backslash /\ s[at + 1] = JsonLetter(c) /\ left # 1
            /\ F[left - 2] = F[Len(s) - e[k]]
        BY <2>4, <3>2
      <4> QED BY <2>1, <2>6, <4>1, <4>2
    <3> QED BY <3>1, <3>2
  <2>8. <<c>> \o rest(k) = rest(k - 1)
    <3>1. k - 1 + 1 = k
      OBVIOUS
    <3>2. <<t[k]>> \o SubSeq(t, k + 1, n) = SubSeq(t, k, n)
      BY SuffixNext
    <3> QED BY <3>1, <3>2 DEF c
  <2>9. k - 1 \in 0 .. n
    OBVIOUS
  <2> HIDE DEF rest
  <2>10. F[left] = read(k - 1)
    BY <2>7, <2>8, BeforeReadable DEF read
  <2> QED BY <2>4a, <2>9, <2>10
<1> HIDE DEF P
<1>5. 0 \in P
  BY <1>3, <1>4, Downwards
<1>6. F[Len(s) - e[0]] = read(0) /\ Len(s) - e[0] = Len(s)
  BY <1>5 DEF P
<1>7. rest(0) = t
  <2> DEFINE u == SubSeq(t, 1, n)
  <2>1. OfLength(TextByte, t, n) /\ n \in Nat /\ n <= n
    BY DEF OfLength
  <2>2. OfLength(TextByte, u, n) /\ \A i \in 1 .. n : u[i] = t[i]
    BY <2>1, Prefix
  <2> HIDE DEF u
  <2>3. u = t
    BY <2>1, <2>2, SameSeq
  <2>4. 0 + 1 = 1
    OBVIOUS
  <2> QED BY <2>3, <2>4 DEF u
<1> QED BY <1>1, <1>6, <1>7

\* The function by which the tokenizer looks for the closing quote.
ScanStep(s, scan, left) ==
    LET at == Len(s) - left + 1
    IN IF left = 0 THEN 0
       ELSE IF s[at] = Quote THEN at
       ELSE IF s[at] = Backslash /\ left > 1 THEN scan[left - 2]
       ELSE scan[left - 1]
IsScan(s, scan, n) == scan = [left \in 0 .. n |-> ScanStep(s, scan, left)]

\* The search of the closing quote is its equation.
LEMMA ScanExists ==
    ASSUME NEW s, NEW k \in Nat
    PROVE  \E F : IsScan(s, F, k)
<1> DEFINE Bad == {n \in Nat : ~ \E F : IsScan(s, F, n)}
<1> SUFFICES ASSUME Bad # {} PROVE FALSE
  OBVIOUS
<1>1. PICK x \in Bad : \A y \in Bad : x <= y
  BY Smallest
<1>2. PICK F : x # 0 => IsScan(s, F, x - 1)
  <2>1. x # 0 => x - 1 \in Nat /\ x - 1 \notin Bad
    BY <1>1
  <2> QED BY <2>1
<1> DEFINE G == [n \in 0 .. x |-> IF n = x THEN ScanStep(s, F, x) ELSE F[n]]
<1>3. /\ x \in Nat /\ G = [n \in 0 .. x |-> G[n]] /\ G[x] = ScanStep(s, F, x)
      /\ \A n \in 0 .. x - 1 : G[n] = F[n]
  OBVIOUS
<1> HIDE DEF G, Bad
<1>4. ASSUME NEW n \in 0 .. x
      PROVE  G[n] = ScanStep(s, G, n)
  <2>1. G[n] = ScanStep(s, F, n)
    <3>1. n = x \/ (x # 0 /\ n \in 0 .. x - 1)
      BY <1>3
    <3>2. CASE n = x
      BY <1>3, <3>2
    <3>3. CASE x # 0 /\ n \in 0 .. x - 1
      <4>1. \A j \in 0 .. x - 1 : F[j] = ScanStep(s, F, j)
        BY <1>2, <3>3 DEF IsScan
      <4>2. F[n] = ScanStep(s, F, n) /\ G[n] = F[n]
        BY <1>3, <3>3, <4>1
      <4> QED BY <4>2
    <3> QED BY <3>1, <3>2, <3>3
  <2>2. ScanStep(s, F, n) = ScanStep(s, G, n)
    <3>1. ASSUME n # 0 PROVE F[n - 1] = G[n - 1]
      <4>1. n - 1 \in 0 .. x - 1
        BY <1>3, <3>1
      <4> QED BY <1>3, <4>1
    <3>2. ASSUME n # 0, n > 1 PROVE F[n - 2] = G[n - 2]
      <4>1. n - 2 \in 0 .. x - 1
        BY <1>3, <3>2
      <4> QED BY <1>3, <4>1
    <3> QED BY <3>1, <3>2 DEF ScanStep
  <2> QED BY <2>1, <2>2
<1>5. IsScan(s, G, x)
  BY <1>3, <1>4 DEF IsScan
<1> QED BY <1>1, <1>5 DEF Bad

LEMMA ClosingQuoteIs ==
    ASSUME NEW s, Len(s) \in Nat
    PROVE  \E F : IsScan(s, F, Len(s)) /\ ClosingQuote(s) = F[Len(s) - 1]
<1> DEFINE F == CHOOSE F : IsScan(s, F, Len(s))
<1>1. IsScan(s, F, Len(s))
  BY ScanExists
<1>2. ClosingQuote(s) = F[Len(s) - 1]
  BY DEF ClosingQuote, IsScan, ScanStep
<1> QED BY <1>1, <1>2

\* A step of the search.
LEMMA ScanStepIs ==
    ASSUME NEW s, NEW F, NEW left, NEW at, StepAt(s, left, at)
    PROVE  /\ s[at] = Quote => ScanStep(s, F, left) = at
           /\ s[at] = Backslash /\ left > 1 => ScanStep(s, F, left) = F[left - 2]
           /\ s[at] # Quote /\ s[at] # Backslash => ScanStep(s, F, left) = F[left - 1]
<1>1. ScanStep(s, F, left) =
        IF s[at] = Quote THEN at
        ELSE IF s[at] = Backslash /\ left > 1 THEN F[left - 2]
        ELSE F[left - 1]
  BY DEF ScanStep, StepAt
<1>2. Quote # Backslash
  BY DEF Quote, Backslash
<1> QED BY <1>1, <1>2

\* No quote of a text ends its string: the last one does.
LEMMA ClosingQuoteFound ==
    ASSUME NEW t \in Seq(TextByte), NEW n \in Nat, n = Len(t),
           NEW f, \A k \in 1 .. n : JsonPiece(f[k], t[k]),
           NEW s, NEW e, Located(s, e, f, n), Len(s) \in Nat, e[0] = 1, e[n] \in Nat,
           Len(s) = e[n] + 1, s[e[n] + 1] = Quote
    PROVE  ClosingQuote(s) = Len(s)
<1>1. PICK F : IsScan(s, F, Len(s)) /\ ClosingQuote(s) = F[Len(s) - 1]
  BY ClosingQuoteIs
<1>2. \A left \in 0 .. Len(s) : F[left] = ScanStep(s, F, left)
  BY <1>1 DEF IsScan
<1> DEFINE P == {j \in 0 .. n : F[Len(s) - e[j]] = Len(s)}
<1>3. n \in P
  <2> DEFINE len == Len(s)
             b == e[n]
             at == len - 1 + 1
  <2>1. len \in Nat /\ b \in Nat /\ len = b + 1 /\ s[b + 1] = Quote
    OBVIOUS
  <2> HIDE DEF len, b
  <2>2. len - b = 1 /\ 1 \in 0 .. len /\ at = b + 1 /\ at = len
    BY <2>1
  <2>3. F[1] = ScanStep(s, F, 1)
    BY <1>2, <2>2 DEF len
  <2>4. s[at] = Quote /\ StepAt(s, 1, at)
    BY <2>1, <2>2 DEF len, StepAt
  <2> HIDE DEF at
  <2>5. ScanStep(s, F, 1) = at
    BY <2>4, ScanStepIs
  <2>6. F[Len(s) - e[n]] = F[1]
    BY <2>2 DEF len, b
  <2>7. at = Len(s) /\ n \in 0 .. n
    BY <2>2 DEF len
  <2> QED BY <2>3, <2>5, <2>6, <2>7
<1>4. ASSUME NEW k \in 1 .. n, k \in P
      PROVE  k - 1 \in P
  <2> DEFINE left == Len(s) - e[k - 1]
             at == Len(s) - left + 1
             c == t[k]
  <2>1. F[Len(s) - e[k]] = Len(s)
    BY <1>4
  <2>2. JsonPiece(f[k], c) /\ c \in TextByte
    OBVIOUS
  <2> HIDE DEF left, at, c
  <2>3. JsonPlace(s, e, f, n, k, c, left, at)
    BY <2>2 DEF JsonPlace, left, at
  <2>4. /\ left # 0 /\ left \in 0 .. Len(s) /\ left \in Nat
        /\ c \notin Short => s[at] = c /\ Len(s) - e[k] = left - 1
        /\ c \in Short => /\ s[at] = Backslash /\ s[at + 1] = JsonLetter(c)
                          /\ Len(s) - e[k] = left - 2 /\ left # 1 /\ left > 1
    BY <2>3, JsonAtPiece
  <2>4a. StepAt(s, left, at) /\ left = Len(s) - e[k - 1]
    BY <2>3, <2>4 DEF StepAt, JsonPlace
  <2>5. F[left] = ScanStep(s, F, left)
    BY <1>2, <2>4
  <2>6. /\ s[at] = Backslash /\ left > 1 => F[left] = F[left - 2]
        /\ s[at] # Quote /\ s[at] # Backslash => F[left] = F[left - 1]
    BY <2>4a, <2>5, ScanStepIs
  <2>7. F[left] = Len(s)
    <3>1. CASE c \notin Short
      <4>1. c # Backslash /\ c # Quote
        BY <3>1 DEF Short
      <4>2. s[at] = c /\ F[left - 1] = F[Len(s) - e[k]]
        BY <2>4, <3>1
      <4> QED BY <2>1, <2>6, <4>1, <4>2
    <3>2. CASE c \in Short
      <4>1. s[at] = Backslash /\ left > 1 /\ F[left - 2] = F[Len(s) - e[k]]
        BY <2>4, <3>2
      <4> QED BY <2>1, <2>6, <4>1
    <3> QED BY <3>1, <3>2
  <2>8. k - 1 \in 0 .. n
    OBVIOUS
  <2> QED BY <2>4a, <2>7, <2>8
<1> HIDE DEF P
<1>5. 0 \in P
  BY <1>3, <1>4, Downwards
<1>6. F[Len(s) - e[0]] = Len(s) /\ Len(s) - e[0] = Len(s) - 1
  BY <1>5 DEF P
<1> QED BY <1>1, <1>6

\* The first and the last of a set of places.
IsLeast(m, T) == m \in T /\ \A j \in T : m <= j
IsGreatest(m, T) == m \in T /\ \A j \in T : m >= j

\* What CHOOSE chooses of a set with a least or a greatest number.
LEMMA LeastIs ==
    ASSUME NEW T, T \subseteq Nat, NEW m, IsLeast(m, T)
    PROVE  (CHOOSE k \in T : \A j \in T : k <= j) = m
<1> DEFINE c == CHOOSE k \in T : \A j \in T : k <= j
<1>1. m \in T /\ \A j \in T : m <= j
  BY DEF IsLeast
<1>2. c \in T /\ \A j \in T : c <= j
  BY <1>1
<1> HIDE DEF c
<1>3. c \in Nat /\ m \in Nat /\ c <= m /\ m <= c
  BY <1>1, <1>2
<1>4. c = m
  BY <1>3
<1> QED BY <1>4 DEF c

LEMMA GreatestIs ==
    ASSUME NEW T, T \subseteq Nat, NEW m, IsGreatest(m, T)
    PROVE  (CHOOSE k \in T : \A j \in T : k >= j) = m
<1> DEFINE c == CHOOSE k \in T : \A j \in T : k >= j
<1>1. m \in T /\ \A j \in T : m >= j
  BY DEF IsGreatest
<1>2. c \in T /\ \A j \in T : c >= j
  BY <1>1
<1> HIDE DEF c
<1>3. c \in Nat /\ m \in Nat /\ c >= m /\ m >= c
  BY <1>1, <1>2
<1>4. c = m
  BY <1>3
<1> QED BY <1>4 DEF c

\* The places of a text that are not blanks.
Kept(S, s) == {k \in DOMAIN s : s[k] \notin S}

\* Something kept has a first and a last.
LEMMA Extremes ==
    ASSUME NEW U, NEW S, NEW s \in Seq(U), Kept(S, s) # {}
    PROVE  /\ Kept(S, s) \subseteq Nat /\ Kept(S, s) \subseteq 1 .. Len(s)
           /\ \E m : IsLeast(m, Kept(S, s))
           /\ \E m : IsGreatest(m, Kept(S, s))
<1> DEFINE T == Kept(S, s)
           n == Len(s)
           D == {d \in 0 .. n : n - d \in T}
<1>1. n \in Nat /\ DOMAIN s = 1 .. n
  OBVIOUS
<1>2. T \subseteq 1 .. n /\ T \subseteq Nat /\ T # {}
  BY <1>1 DEF Kept
<1> HIDE DEF T, n
<1>3. \E m : IsLeast(m, T)
  BY <1>2, Smallest DEF IsLeast
<1>4. D \subseteq Nat /\ D # {}
  <2>1. PICK k \in T : TRUE
    BY <1>2
  <2>2. n - k \in 0 .. n /\ n - (n - k) = k
    BY <1>1, <1>2
  <2>3. n - k \in D
    BY <2>1, <2>2
  <2> QED BY <1>1, <2>3
<1> HIDE DEF D
<1>5. PICK d \in D : \A e \in D : d <= e
  BY <1>4, Smallest
<1>6. n - d \in T /\ d \in 0 .. n
  BY DEF D
<1>7. ASSUME NEW j \in T PROVE n - d >= j
  <2>1. j \in 1 .. n /\ n - j \in 0 .. n /\ n - (n - j) = j
    BY <1>1, <1>2
  <2>2. n - j \in D
    BY <2>1 DEF D
  <2>3. d <= n - j
    BY <1>5, <2>2
  <2> QED BY <1>1, <1>6, <2>1, <2>3
<1>8. \E m : IsGreatest(m, T)
  BY <1>6, <1>7 DEF IsGreatest
<1> QED BY <1>2, <1>3, <1>8 DEF T, n

\* What trimming keeps, from the first place kept or to the last one.
LEMMA RemoveLeftFrom ==
    ASSUME NEW U, NEW S, NEW s \in Seq(U), NEW m, IsLeast(m, Kept(S, s))
    PROVE  RemoveLeft(S, s) = SubSeq(s, m, Len(s))
<1>1. Kept(S, s) # {} /\ Kept(S, s) \subseteq Nat
  <2>1. Kept(S, s) # {}
    BY DEF IsLeast
  <2> QED BY <2>1, Extremes
<1>2. (CHOOSE k \in Kept(S, s) : \A j \in Kept(S, s) : k <= j) = m
  BY <1>1, LeastIs
<1>3. RemoveLeft(S, s) =
        SubSeq(s, CHOOSE k \in Kept(S, s) : \A j \in Kept(S, s) : k <= j, Len(s))
  BY <1>1 DEF RemoveLeft, Kept
<1> QED BY <1>2, <1>3

LEMMA RemoveRightTo ==
    ASSUME NEW U, NEW S, NEW s \in Seq(U), NEW m, IsGreatest(m, Kept(S, s))
    PROVE  RemoveRight(S, s) = SubSeq(s, 1, m)
<1>1. Kept(S, s) # {} /\ Kept(S, s) \subseteq Nat
  <2>1. Kept(S, s) # {}
    BY DEF IsGreatest
  <2> QED BY <2>1, Extremes
<1>2. (CHOOSE k \in Kept(S, s) : \A j \in Kept(S, s) : k >= j) = m
  BY <1>1, GreatestIs
<1>3. RemoveRight(S, s) =
        SubSeq(s, 1, CHOOSE k \in Kept(S, s) : \A j \in Kept(S, s) : k >= j)
  BY <1>1 DEF RemoveRight, Kept
<1> QED BY <1>2, <1>3

LEMMA AllRemoved ==
    ASSUME NEW S, NEW s, Kept(S, s) = {}
    PROVE  RemoveLeft(S, s) = <<>> /\ RemoveRight(S, s) = <<>>
  BY DEF RemoveLeft, RemoveRight, Kept

\* What is before a character that is kept is removed from the left.
AllIn(x, n, S) == \A i \in 1 .. n : x[i] \in S

\* What is removed is what stands before, or after, what is kept.
LEMMA RemoveLeftIs ==
    ASSUME NEW U, NEW S, NEW x, NEW v, NEW a, NEW b, OfLength(U, x, a), OfLength(U, v, b),
           b # 0, AllIn(x, a, S), v[1] \notin S
    PROVE  RemoveLeft(S, x \o v) = v
<1> DEFINE s == x \o v
           m == a + 1
           n == a + b
<1>1. a \in Nat /\ b \in Nat
  BY DEF OfLength
<1>2. OfLength(U, s, n) /\ Joins(s, x, v, a, b)
  <2>1. OfLength(U, s, a + b) /\ Joins(s, x, v, a, b)
    BY TwoPieces
  <2> QED BY <2>1
<1> HIDE DEF s
<1>3. s \in Seq(U) /\ Len(s) = n /\ DOMAIN s = 1 .. n
  <2>1. s \in Seq(U) /\ Len(s) = n
    BY <1>2 DEF OfLength
  <2> HIDE DEF n
  <2> QED BY <2>1, LenProperties
<1>4. m \in 1 .. n /\ s[m] = v[1]
  <2>1. 1 \in 1 .. b
    BY <1>1
  <2> QED BY <1>1, <1>2, <2>1 DEF Joins
<1>5. ASSUME NEW j \in 1 .. n, s[j] \notin S PROVE m <= j
  <2>1. CASE j <= a
    <3>1. j \in 1 .. a
      BY <2>1
    <3>2. s[j] = x[j] /\ x[j] \in S
      BY <1>2, <3>1 DEF Joins, AllIn
    <3> QED BY <1>5, <3>2
  <2>2. CASE ~(j <= a)
    BY <1>1, <2>2
  <2> QED BY <2>1, <2>2
<1> HIDE DEF m, n
<1>6. IsLeast(m, Kept(S, s))
  BY <1>3, <1>4, <1>5 DEF IsLeast, Kept
<1>7. RemoveLeft(S, s) = SubSeq(s, m, n)
  BY <1>3, <1>6, RemoveLeftFrom
<1>8. SubSeq(s, m, n) = v
  <2> DEFINE t == SubSeq(s, m, n)
  <2>1. OfLength(U, t, b) /\ IsSlice(t, s, a, b)
    <3>1. a + b <= n
      BY <1>1 DEF n
    <3>2. m = a + 1 /\ n = a + b
      BY DEF m, n
    <3> QED BY <1>1, <1>2, <3>1, <3>2, Slice
  <2> HIDE DEF t
  <2>2. \A i \in 1 .. b : t[i] = v[i]
    BY <1>2, <2>1 DEF Joins, IsSlice
  <2>3. t = v
    BY <2>1, <2>2, SameSeq
  <2> QED BY <2>3 DEF t
<1> QED BY <1>7, <1>8 DEF s

\* What is after a character that is kept is removed from the right.
LEMMA RemoveRightIs ==
    ASSUME NEW U, NEW S, NEW x, NEW v, NEW a, NEW b, OfLength(U, x, a), OfLength(U, v, b),
           b # 0, AllIn(x, a, S), v[b] \notin S
    PROVE  RemoveRight(S, v \o x) = v
<1> DEFINE s == v \o x
           n == b + a
<1>1. a \in Nat /\ b \in Nat
  BY DEF OfLength
<1>2. OfLength(U, s, n) /\ Joins(s, v, x, b, a)
  <2>1. OfLength(U, s, b + a) /\ Joins(s, v, x, b, a)
    BY TwoPieces
  <2> QED BY <2>1
<1> HIDE DEF s
<1>3. s \in Seq(U) /\ Len(s) = n /\ DOMAIN s = 1 .. n
  <2>1. s \in Seq(U) /\ Len(s) = n
    BY <1>2 DEF OfLength
  <2> HIDE DEF n
  <2> QED BY <2>1, LenProperties
<1>4. b \in 1 .. n /\ s[b] = v[b]
  <2>1. b \in 1 .. b
    BY <1>1
  <2> QED BY <1>1, <1>2, <2>1 DEF Joins
<1>5. ASSUME NEW j \in 1 .. n, s[j] \notin S PROVE b >= j
  <2> SUFFICES ASSUME ~(b >= j) PROVE FALSE
    OBVIOUS
  <2> DEFINE i == j - b
  <2>1. i \in 1 .. a /\ b + i = j
    BY <1>1
  <2> HIDE DEF i
  <2>2. s[b + i] = x[i] /\ x[i] \in S
    BY <1>2, <2>1 DEF Joins, AllIn
  <2> QED BY <1>5, <2>1, <2>2
<1> HIDE DEF n
<1>6. IsGreatest(b, Kept(S, s))
  BY <1>3, <1>4, <1>5 DEF IsGreatest, Kept
<1>7. RemoveRight(S, s) = SubSeq(s, 1, b)
  BY <1>3, <1>6, RemoveRightTo
<1>8. SubSeq(s, 1, b) = v
  <2> DEFINE t == SubSeq(s, 1, b)
  <2>1. OfLength(U, t, b) /\ \A i \in 1 .. b : t[i] = s[i]
    <3>1. b <= n
      BY <1>1 DEF n
    <3> QED BY <1>1, <1>2, <3>1, Prefix
  <2> HIDE DEF t
  <2>2. \A i \in 1 .. b : t[i] = v[i]
    BY <1>2, <2>1 DEF Joins
  <2>3. t = v
    BY <2>1, <2>2, SameSeq
  <2> QED BY <2>3 DEF t
<1> QED BY <1>7, <1>8 DEF s

\* Pieces are concatenated the same in two parts.
Shifted(g, f, a, b) == \A k \in 1 .. b : g[k] = f[a + k]
\* Pieces are the first a, then the next b.
LEMMA ConcatSplit ==
    ASSUME NEW S, NEW f, NEW n \in Nat, ArePieces(S, f, n), NEW a \in Nat, NEW b \in Nat,
           a + b = n, NEW g, Shifted(g, f, a, b)
    PROVE  Concat(f, n) = Concat(f, a) \o Concat(g, b)
<1> DEFINE c == Concat(f, a)
           Bad == {j \in 0 .. b : Concat(f, a + j) # c \o Concat(g, j)}
<1>1. c \in Seq(S)
  <2>1. a \in 0 .. n
    OBVIOUS
  <2> QED BY <2>1, ConcatType
<1>2. ArePieces(S, g, b)
  <2> SUFFICES ASSUME NEW k \in 1 .. b PROVE g[k] \in Seq(S)
    BY DEF ArePieces
  <2>1. a + k \in 1 .. n /\ g[k] = f[a + k]
    BY DEF Shifted
  <2> QED BY <2>1 DEF ArePieces
<1> HIDE DEF c
<1>3. Bad = {}
  <2> SUFFICES ASSUME Bad # {} PROVE FALSE
    OBVIOUS
  <2>1. PICK j \in Bad : \A i \in Bad : j <= i
    <3>1. Bad \subseteq Nat
      OBVIOUS
    <3> HIDE DEF Bad
    <3> QED BY <3>1, Smallest
  <2>2. j \in 0 .. b /\ j \in Nat /\ Concat(f, a + j) # c \o Concat(g, j)
    OBVIOUS
  <2>3. CASE j = 0
    <3>1. Concat(g, 0) = <<>>
      BY ConcatNext
    <3>2. c \o <<>> = c
      BY <1>1, ConcatEmptySeq
    <3>3. a + 0 = a
      OBVIOUS
    <3> QED BY <2>2, <2>3, <3>1, <3>2, <3>3 DEF c
  <2>4. CASE j # 0
    <3> DEFINE i == a + j
               h == j - 1
               u == Concat(g, h)
               z == g[j]
    <3>1. i \in Nat /\ i # 0 /\ i - 1 = a + h /\ h \in 0 .. b /\ j \in 1 .. b /\ ~(j <= h)
      BY <2>2, <2>4
    <3>2. Concat(f, i - 1) = c \o u
      BY <2>1, <3>1
    <3> HIDE DEF i
    <3>3. Concat(f, i) = Concat(f, i - 1) \o f[i]
      BY <3>1, ConcatNext
    <3>4. Concat(g, j) = u \o z
      BY <2>2, <2>4, ConcatNext
    <3>5. f[i] = z
      BY <3>1 DEF Shifted, i
    <3>6. u \in Seq(S) /\ z \in Seq(S)
      <4>1. u \in Seq(S)
        BY <1>2, <3>1, ConcatType
      <4> QED BY <1>2, <3>1, <4>1 DEF ArePieces
    <3> HIDE DEF u, z, h, Bad
    <3>6a. OfLength(S, c, Len(c)) /\ OfLength(S, u, Len(u)) /\ OfLength(S, z, Len(z))
      BY <1>1, <3>6, LenProperties DEF OfLength
    <3>7. (c \o u) \o z = c \o (u \o z)
      BY <3>6a, ThreePieces
    <3>8. Concat(f, i) = c \o Concat(g, j)
      BY <3>2, <3>3, <3>4, <3>5, <3>7
    <3> QED BY <2>2, <3>8 DEF i
  <2> QED BY <2>3, <2>4
<1>4. b \in 0 .. b
  OBVIOUS
<1>5. Concat(f, a + b) = c \o Concat(g, b)
  BY <1>3, <1>4
<1> QED BY <1>5 DEF c

\* Pieces of one byte each.
ArePlain(f, t, n) == \A k \in 1 .. n : Len(f[k]) = 1 /\ f[k][1] = t[k]
LEMMA ConcatPlain ==
    ASSUME NEW S, NEW f, NEW n \in Nat, ArePieces(S, f, n), NEW t, ArePlain(f, t, n)
    PROVE  OfLength(S, Concat(f, n), n) /\ \A i \in 1 .. n : Concat(f, n)[i] = t[i]
<1> DEFINE c == Concat(f, n)
<1>1. AreOfLength(f, n, 1) /\ 1 \in Nat
  BY DEF ArePlain, AreOfLength
<1>2. c \in Seq(S) /\ Laid(c, f, n, 1)
  BY <1>1, EqualPieces
<1> HIDE DEF c
<1>3. Len(c) = 1 * n /\ \A k \in 1 .. n : \A r \in 1 .. 1 : c[1 * (k - 1) + r] = f[k][r]
  BY <1>2 DEF Laid
<1>4. ASSUME NEW i \in 1 .. n PROVE c[i] = t[i]
  <2>1. 1 \in 1 .. 1 /\ 1 * (i - 1) + 1 = i
    OBVIOUS
  <2>2. c[1 * (i - 1) + 1] = f[i][1]
    BY <1>3, <2>1
  <2> QED BY <2>1, <2>2 DEF ArePlain
<1>5. Len(c) = n
  BY <1>3
<1> QED BY <1>2, <1>4, <1>5 DEF OfLength, c

\* What is written in XML has no quote.
LEMMA SafeBytes ==
    ASSUME NEW s, NEW n, OfLength(SafeByte, s, n)
    PROVE  OfLength(TextByte, s, n) /\ \A i \in 1 .. n : s[i] # Quote
<1>1. n \in Nat /\ s \in Seq(SafeByte) /\ Len(s) = n
  BY DEF OfLength
<1>2. \A i \in 1 .. n : s[i] \in SafeByte
  BY <1>1
<1>3. \A i \in 1 .. n : s[i] \in TextByte /\ s[i] # Quote
  BY <1>2 DEF SafeByte
<1>4. s = [i \in 1 .. n |-> s[i]]
  BY <1>1
<1>5. s \in Seq(TextByte)
  BY <1>1, <1>3, <1>4
<1> QED BY <1>1, <1>3, <1>5 DEF OfLength

\* The first byte of pieces is that of the first, their last that of the last.
LEMMA FirstByte ==
    ASSUME NEW S, NEW g, NEW b \in Nat, b # 0, ArePieces(S, g, b), Len(g[1]) >= 1
    PROVE  /\ Concat(g, b)[1] = g[1][1] /\ Len(Concat(g, b)) # 0
           /\ OfLength(S, Concat(g, b), Len(Concat(g, b)))
<1> DEFINE c == Concat(g, b)
           l == Len(c)
           m == Len(g[1])
<1>1. 1 \in 1 .. b /\ b \in 0 .. b
  OBVIOUS
<1>2. g[1] \in Seq(S)
  BY <1>1 DEF ArePieces
<1>3. m \in Nat /\ m >= 1
  BY <1>2
<1> HIDE DEF m
<1>4. 1 \in 1 .. m
  BY <1>3
<1>5. 1 - 1 = 0
  OBVIOUS
<1>6. Len(Concat(g, 0)) = 0
  <2>1. Concat(g, 0) = <<>>
    BY ConcatNext
  <2>2. Len(<<>>) = 0
    OBVIOUS
  <2> QED BY <2>1, <2>2
<1>7. Len(Concat(g, 1 - 1)) + 1 \in 1 .. l /\ c[Len(Concat(g, 1 - 1)) + 1] = g[1][1]
  BY <1>1, <1>4, ConcatAt DEF m
<1>8. c \in Seq(S)
  BY <1>1, ConcatType
<1> HIDE DEF c
<1>9. l \in Nat /\ OfLength(S, c, l)
  BY <1>8 DEF OfLength
<1> HIDE DEF l
<1>10. 0 + 1 = 1
  OBVIOUS
<1>11. 1 \in 1 .. l /\ c[1] = g[1][1]
  BY <1>5, <1>6, <1>7, <1>10
<1>12. l # 0
  BY <1>9, <1>11
<1> QED BY <1>9, <1>11, <1>12 DEF l, c

LEMMA LastByte ==
    ASSUME NEW S, NEW g, NEW b \in Nat, b # 0, ArePieces(S, g, b), NEW m, m = Len(g[b]), m >= 1
    PROVE  Concat(g, b)[Len(Concat(g, b))] = g[b][m]
<1> DEFINE u == Concat(g, b - 1)
           v == g[b]
           a == Len(u)
<1>1. Concat(g, b) = u \o v
  BY ConcatNext
<1>2. b \in 1 .. b /\ b - 1 \in 0 .. b
  OBVIOUS
<1>3. u \in Seq(S) /\ v \in Seq(S)
  BY <1>2, ConcatType DEF ArePieces
<1>4. m = Len(v)
  OBVIOUS
<1> HIDE DEF u, v
<1>5. OfLength(S, u, a) /\ OfLength(S, v, m) /\ a \in Nat /\ m \in Nat
  BY <1>3, <1>4 DEF OfLength
<1> HIDE DEF a
<1>6. OfLength(S, u \o v, a + m) /\ Joins(u \o v, u, v, a, m)
  BY <1>5, TwoPieces
<1>7. m \in 1 .. m
  BY <1>5
<1>8. Len(u \o v) = a + m /\ (u \o v)[a + m] = v[m]
  BY <1>6, <1>7 DEF Joins
<1> QED BY <1>1, <1>8 DEF v

\* Pieces with nothing around them.
LEMMA WholeLocated ==
    ASSUME NEW S, NEW f, NEW n \in Nat, ArePieces(S, f, n), NEW s, s = Concat(f, n)
    PROVE  \E e : Located(s, e, f, n) /\ e[0] = 0 /\ e[n] = Len(s) /\ Len(s) \in Nat
                  /\ e[n] \in Nat
<1> DEFINE u == <<>>
           t == u \o (s \o u)
<1>1. s \in Seq(S) /\ u \in Seq(S) /\ Len(u) = 0
  <2>1. n \in 0 .. n
    OBVIOUS
  <2> QED BY <2>1, ConcatType
<1>2. t = s
  BY <1>1, ConcatEmptySeq
<1> HIDE DEF u
<1>3. PICK e : Located(t, e, f, n) /\ Around(t, e, n, u, u)
  <2>1. t = u \o (Concat(f, n) \o u)
    OBVIOUS
  <2> HIDE DEF t
  <2> QED BY <1>1, <2>1, PiecesLocated
<1> HIDE DEF t
<1>4. e[0] = 0 /\ e[n] \in Nat /\ Len(s) = e[n] + 0
  BY <1>1, <1>2, <1>3 DEF Around
<1> QED BY <1>2, <1>3, <1>4

\* A text written in XML is read back from its pieces.
LEMMA XmlPieces ==
    ASSUME NEW t, NEW n, OfLength(TextByte, t, n), NEW f, WrittenAs(f, {"xml"}, t, n)
    PROVE  ArePieces(SafeByte, f, n) /\ \A k \in 1 .. n : XmlPiece(f[k], t[k])
<1> SUFFICES ASSUME NEW k \in 1 .. n PROVE f[k] \in Seq(SafeByte) /\ XmlPiece(f[k], t[k])
  BY DEF ArePieces
<1> DEFINE c == t[k]
           p == f[k]
<1>1. c \in TextByte
  BY DEF OfLength
<1>2. p = Escaped({"xml"}, c)
  BY DEF WrittenAs
<1> HIDE DEF c, p
<1>3. p \in Seq(SafeByte) /\ XmlPiece(p, c)
  BY <1>1, <1>2, XmlEscapes
<1> QED BY <1>3 DEF c, p

LEMMA XmlWritten ==
    ASSUME NEW t, NEW n, OfLength(TextByte, t, n), NEW f, WrittenAs(f, {"xml"}, t, n)
    PROVE  XmlCopy(Concat(f, n)) = Readable(t)
<1> DEFINE s == Concat(f, n)
<1>1. ArePieces(SafeByte, f, n) /\ \A k \in 1 .. n : XmlPiece(f[k], t[k])
  BY XmlPieces
<1>2. n \in Nat /\ t \in Seq(TextByte) /\ n = Len(t)
  BY DEF OfLength
<1>3. PICK e : Located(s, e, f, n) /\ e[0] = 0 /\ e[n] = Len(s) /\ Len(s) \in Nat
  BY <1>1, <1>2, WholeLocated
<1> HIDE DEF s
<1>4. XmlCopy(s) = Readable(t)
  BY <1>1, <1>2, <1>3, XmlCopyReads
<1> QED BY <1>4 DEF s

LEMMA XmlEmpty == XmlCopy(<<>>) = Readable(<<>>)
<1> DEFINE t == <<>>
           f == [k \in 1 .. 0 |-> Escaped({"xml"}, t[k])]
<1>1. OfLength(TextByte, t, 0) /\ WrittenAs(f, {"xml"}, t, 0)
  BY DEF OfLength, WrittenAs
<1>2. Concat(f, 0) = <<>>
  BY ConcatNext
<1> HIDE DEF f, t
<1>3. XmlCopy(Concat(f, 0)) = Readable(t)
  BY <1>1, XmlWritten
<1> QED BY <1>2, <1>3 DEF t

\* An attribute is read back as it was (nyx_string_builder_append_xml,
\* the tokenizer and xmlcpy).
LEMMA AttributeReadsBack ==
    ASSUME NEW t, NEW n, OfLength(TextByte, t, n)
    PROVE  ReadXmlString(<<Quote>> \o Write({"xml"}, t) \o <<Quote>>) = Readable(t)
<1> DEFINE f == [k \in 1 .. n |-> Escaped({"xml"}, t[k])]
           w == Concat(f, n)
           l == Len(w)
           h == <<Quote>>
           u == h \o w
           s == u \o h
<1>1. WrittenAs(f, {"xml"}, t, n)
  BY DEF WrittenAs
<1>2. n \in Nat /\ t \in Seq(TextByte) /\ n = Len(t) /\ {"xml"} \in Flags
  BY DEF OfLength, Flags
<1> HIDE DEF f
<1>3. Write({"xml"}, t) = w
  BY <1>1, <1>2, WriteIs
<1>4. XmlCopy(w) = Readable(t)
  BY <1>1, XmlWritten
<1>5. w \in Seq(SafeByte)
  <2>1. ArePieces(SafeByte, f, n) /\ n \in 0 .. n
    BY <1>1, <1>2, XmlPieces
  <2> QED BY <1>2, <2>1, ConcatType
<1> HIDE DEF w
<1>6. OfLength(SafeByte, w, l) /\ l \in Nat
  BY <1>5 DEF OfLength
<1> HIDE DEF l
<1>7. OfLength(TextByte, w, l) /\ \A i \in 1 .. l : w[i] # Quote
  BY <1>6, SafeBytes
<1>8. OfLength(TextByte, h, 1) /\ h[1] = Quote
  <2>1. Quote \in TextByte
    BY DEF Quote, TextByte
  <2> QED BY <2>1, OneByte DEF OfLength
<1> HIDE DEF h
<1> DEFINE a == 1 + l
<1>9. OfLength(TextByte, u, a) /\ Joins(u, h, w, 1, l)
  BY <1>7, <1>8, TwoPieces
<1>10. a \in Nat /\ a = 1 + l
  BY <1>6
<1> HIDE DEF u, a
<1>11. OfLength(TextByte, s, a + 1) /\ Joins(s, u, h, a, 1)
  BY <1>8, <1>9, TwoPieces
<1> HIDE DEF s
<1>12. 1 \in 1 .. 1 /\ 1 \in 1 .. a
  BY <1>6, <1>10
<1>13. s[1] = Quote /\ s[a + 1] = Quote /\ Len(s) = a + 1
  BY <1>8, <1>9, <1>11, <1>12 DEF Joins
<1>14. \A i \in 1 .. l : s[1 + i] = w[i]
  <2> SUFFICES ASSUME NEW i \in 1 .. l PROVE s[1 + i] = w[i]
    OBVIOUS
  <2>1. 1 + i \in 1 .. a
    BY <1>6, <1>10
  <2> QED BY <1>9, <1>11, <2>1 DEF Joins
<1> DEFINE ends == {k \in 2 .. Len(s) : s[k] = s[1]}
           end == a + 1
<1>15. IsLeast(end, ends) /\ ends \subseteq Nat
  <2>1. end \in ends
    BY <1>6, <1>10, <1>13
  <2>2. ASSUME NEW j \in ends PROVE end <= j
    <3> SUFFICES ASSUME ~(end <= j) PROVE FALSE
      OBVIOUS
    <3> DEFINE i == j - 1
    <3>1. i \in 1 .. l /\ 1 + i = j /\ s[j] = Quote
      BY <1>6, <1>10, <1>13
    <3> HIDE DEF i
    <3> QED BY <1>7, <1>14, <3>1
  <2> HIDE DEF end
  <2> QED BY <2>1, <2>2 DEF IsLeast
<1>16. end - 1 = a /\ a = l + 1
  BY <1>6, <1>10
<1> HIDE DEF end
<1>17. ReadXmlString(s) = XmlCopy(SubSeq(s, 2, a))
  <2>1. ends # {}
    BY <1>15 DEF IsLeast
  <2>2. (CHOOSE k \in ends : \A j \in ends : k <= j) = end
    <3> HIDE DEF ends
    <3> QED BY <1>15, LeastIs
  <2>3. ReadXmlString(s) =
          XmlCopy(SubSeq(s, 2, (CHOOSE k \in ends : \A j \in ends : k <= j) - 1))
    BY <2>1 DEF ReadXmlString
  <2> QED BY <1>16, <2>2, <2>3
<1>18. SubSeq(s, 2, a) = w
  <2> DEFINE b == 2
             y == SubSeq(s, b, a)
             z == a + 1
  <2>1. b = 1 + 1 /\ 1 + l <= z /\ a = 1 + l /\ 1 \in Nat /\ z = a + 1
    BY <1>6, <1>10
  <2> HIDE DEF b, z
  <2>2. OfLength(TextByte, s, z)
    BY <1>11, <2>1
  <2>3. OfLength(TextByte, y, l) /\ IsSlice(y, s, 1, l)
    BY <1>6, <2>1, <2>2, Slice
  <2> HIDE DEF y
  <2>4. \A i \in 1 .. l : y[i] = w[i]
    BY <1>14, <2>3 DEF IsSlice
  <2>5. y = w
    BY <1>7, <2>3, <2>4, SameSeq
  <2> QED BY <2>5 DEF y, b
<1> QED BY <1>3, <1>4, <1>17, <1>18 DEF s, u, h

\* The pieces of a written text are bytes.
LEMMA WrittenPieces ==
    ASSUME NEW flags \in Flags, NEW t, NEW n, OfLength(TextByte, t, n),
           NEW f, WrittenAs(f, flags, t, n)
    PROVE  ArePieces(TextByte, f, n)
<1> SUFFICES ASSUME NEW k \in 1 .. n PROVE f[k] \in Seq(TextByte)
  BY DEF ArePieces
<1>1. t[k] \in TextByte
  BY DEF OfLength
<1>2. f[k] = Escaped(flags, t[k])
  BY DEF WrittenAs
<1> QED BY <1>1, <1>2, EscapedSized DEF Flags

\* The first a and the next b of the first p of n.
Cut(a, b, p, n) == a \in Nat /\ b \in Nat /\ p = a + b /\ p <= n /\ n \in Nat

\* A part of a text is written as a part of what the text is written as.
LEMMA CutWritten ==
    ASSUME NEW flags \in Flags, NEW t, NEW n, OfLength(TextByte, t, n),
           NEW f, WrittenAs(f, flags, t, n), NEW p, NEW a, NEW b, Cut(a, b, p, n),
           NEW r, OfLength(TextByte, r, b), IsSlice(r, t, a, b), NEW g, WrittenAs(g, flags, r, b)
    PROVE  Concat(f, p) = Concat(f, a) \o Concat(g, b)
<1>1. a \in Nat /\ b \in Nat /\ p \in Nat /\ a + b = p
  BY DEF Cut
<1>2. ArePieces(TextByte, f, n)
  BY WrittenPieces
<1>3. ArePieces(TextByte, f, p)
  <2> SUFFICES ASSUME NEW k \in 1 .. p PROVE f[k] \in Seq(TextByte)
    BY DEF ArePieces
  <2>1. k \in 1 .. n
    BY DEF Cut
  <2> QED BY <1>2, <2>1 DEF ArePieces
<1>4. Shifted(g, f, a, b)
  <2> SUFFICES ASSUME NEW k \in 1 .. b PROVE g[k] = f[a + k]
    BY DEF Shifted
  <2> DEFINE i == a + k
  <2>1. i \in 1 .. n
    BY DEF Cut
  <2>2. r[k] = t[i]
    BY DEF IsSlice
  <2> HIDE DEF i
  <2>3. g[k] = Escaped(flags, r[k]) /\ f[i] = Escaped(flags, t[i])
    BY <2>1 DEF WrittenAs
  <2>4. g[k] = f[i]
    BY <2>2, <2>3
  <2> QED BY <2>4 DEF i
<1> QED BY <1>1, <1>3, <1>4, ConcatSplit

\* Characters of S that are not escaped are written as they are.
LEMMA PlainWritten ==
    ASSUME NEW flags \in Flags, NEW t, NEW n, OfLength(TextByte, t, n),
           NEW f, WrittenAs(f, flags, t, n), NEW a \in 0 .. n, NEW S,
           AllIn(t, a, S), \A c \in S : Escaped(flags, c) = <<c>>
    PROVE  OfLength(TextByte, Concat(f, a), a) /\ AllIn(Concat(f, a), a, S)
<1>1. n \in Nat /\ a \in Nat
  BY DEF OfLength
<1>2. ArePieces(TextByte, f, n)
  BY WrittenPieces
<1>3. ASSUME NEW k \in 1 .. a
      PROVE  f[k] \in Seq(TextByte) /\ Len(f[k]) = 1 /\ f[k][1] = t[k] /\ t[k] \in S
  <2>1. k \in 1 .. n
    BY <1>1
  <2>2. t[k] \in S /\ t[k] \in TextByte
    BY <2>1 DEF AllIn, OfLength
  <2>3. f[k] = <<t[k]>>
    BY <2>1, <2>2 DEF WrittenAs
  <2>4. f[k] \in Seq(TextByte)
    BY <1>2, <2>1 DEF ArePieces
  <2>5. Len(f[k]) = 1 /\ f[k][1] = t[k]
    BY <2>2, <2>3, OneByte
  <2> QED BY <2>2, <2>4, <2>5
<1>4. ArePieces(TextByte, f, a) /\ ArePlain(f, t, a)
  BY <1>3 DEF ArePieces, ArePlain
<1>5. OfLength(TextByte, Concat(f, a), a) /\ \A i \in 1 .. a : Concat(f, a)[i] = t[i]
  BY <1>1, <1>4, ConcatPlain
<1> QED BY <1>3, <1>5 DEF AllIn

\* Nothing is kept of what is all to be removed.
LEMMA NothingKept ==
    ASSUME NEW U, NEW S, NEW s, NEW n, OfLength(U, s, n)
    PROVE  AllIn(s, n, S) <=> Kept(S, s) = {}
<1>1. DOMAIN s = 1 .. n
  BY DEF OfLength
<1> QED BY <1>1 DEF AllIn, Kept

\* What is before the first character that is kept.
LEMMA BeforeFirst ==
    ASSUME NEW U, NEW S, NEW s, NEW n, OfLength(U, s, n), NEW m, IsLeast(m, Kept(S, s)),
           NEW a, a = m - 1, NEW b, b = n - a
    PROVE  /\ m \in 1 .. n /\ s[m] \notin S /\ a \in 0 .. n /\ AllIn(s, a, S)
           /\ Cut(a, b, n, n) /\ b # 0 /\ m = a + 1
<1>1. n \in Nat /\ DOMAIN s = 1 .. n
  BY DEF OfLength
<1>2. m \in 1 .. n /\ s[m] \notin S
  BY <1>1 DEF IsLeast, Kept
<1>3. ASSUME NEW i \in 1 .. a PROVE s[i] \in S
  <2>1. i \in 1 .. n /\ ~(m <= i)
    BY <1>1, <1>2
  <2>2. i \notin Kept(S, s)
    BY <2>1 DEF IsLeast
  <2> QED BY <1>1, <2>1, <2>2 DEF Kept
<1>4. a \in 0 .. n /\ Cut(a, b, n, n) /\ b # 0 /\ m = a + 1
  BY <1>1, <1>2 DEF Cut
<1> QED BY <1>2, <1>3, <1>4 DEF AllIn

\* The content of an element loses the blanks at its start, and nothing else
\* (nyx_string_builder_append_xml, the tokenizer and xmlcpy).
LEMMA ContentReadsBack ==
    ASSUME NEW t, NEW n, OfLength(TextByte, t, n)
    PROVE  ReadXmlText(Write({"xml"}, t)) = Readable(RemoveLeft(Spaces, t))
<1> DEFINE f == [k \in 1 .. n |-> Escaped({"xml"}, t[k])]
           w == Concat(f, n)
<1>1. WrittenAs(f, {"xml"}, t, n)
  BY DEF WrittenAs
<1>2. n \in Nat /\ t \in Seq(TextByte) /\ n = Len(t) /\ {"xml"} \in Flags
  BY DEF OfLength, Flags
<1> HIDE DEF f
<1>3. ReadXmlText(Write({"xml"}, t)) = XmlCopy(RemoveLeft(Spaces, w))
  <2>1. Write({"xml"}, t) = w
    BY <1>1, <1>2, WriteIs
  <2> QED BY <2>1 DEF ReadXmlText
<1>4. \A c \in Spaces : Escaped({"xml"}, c) = <<c>>
  BY DEF Spaces, Tab, Newline, VTab, FormFeed, Return, Blank, Escaped, Entities, Lt, Gt, Amp,
         Quote, Apos
<1>5. CASE Kept(Spaces, t) = {}
  <2>1. AllIn(t, n, Spaces) /\ n \in 0 .. n
    BY <1>2, <1>5, NothingKept
  <2>2. OfLength(TextByte, w, n) /\ AllIn(w, n, Spaces)
    BY <1>1, <1>2, <1>4, <2>1, PlainWritten
  <2> HIDE DEF w
  <2>3. Kept(Spaces, w) = {}
    BY <2>2, NothingKept
  <2>4. RemoveLeft(Spaces, w) = <<>> /\ RemoveLeft(Spaces, t) = <<>>
    BY <1>5, <2>3, AllRemoved
  <2> QED BY <1>3, <2>4, XmlEmpty
<1>6. CASE Kept(Spaces, t) # {}
  <2>1. PICK m : IsLeast(m, Kept(Spaces, t))
    BY <1>2, <1>6, Extremes
  <2> DEFINE a == m - 1
             b == n - a
             r == SubSeq(t, m, n)
             g == [k \in 1 .. b |-> Escaped({"xml"}, r[k])]
             x == Concat(f, a)
             v == Concat(g, b)
  <2>2. /\ m \in 1 .. n /\ t[m] \notin Spaces /\ a \in 0 .. n /\ AllIn(t, a, Spaces)
        /\ Cut(a, b, n, n) /\ b # 0 /\ m = a + 1
    BY <2>1, BeforeFirst
  <2>3. a \in Nat /\ b \in Nat /\ a + b <= n /\ n = a + b
    BY <2>2 DEF Cut
  <2> HIDE DEF a, b
  <2>4. OfLength(TextByte, r, b) /\ IsSlice(r, t, a, b)
    BY <2>2, <2>3, Slice
  <2>5. RemoveLeft(Spaces, t) = r
    BY <1>2, <2>1, RemoveLeftFrom
  <2> HIDE DEF r
  <2>6. WrittenAs(g, {"xml"}, r, b)
    BY DEF WrittenAs
  <2> HIDE DEF g
  <2>7. w = x \o v
    BY <1>1, <1>2, <2>2, <2>4, <2>6, CutWritten
  <2>8. OfLength(TextByte, x, a) /\ AllIn(x, a, Spaces)
    BY <1>1, <1>2, <1>4, <2>2, PlainWritten
  <2>9. XmlCopy(v) = Readable(r)
    BY <2>4, <2>6, XmlWritten
  <2>10. 1 \in 1 .. b
    BY <2>2, <2>3
  <2>11. r[1] \notin Spaces /\ r[1] \in TextByte
    <3>1. r[1] = t[a + 1]
      BY <2>4, <2>10 DEF IsSlice
    <3>2. r[1] \in TextByte
      BY <2>4, <2>10 DEF OfLength
    <3> QED BY <2>2, <3>1, <3>2
  <2>12. XmlPiece(g[1], r[1]) /\ ArePieces(TextByte, g, b)
    BY <1>2, <2>4, <2>6, <2>10, XmlPieces, WrittenPieces
  <2>13. Len(g[1]) >= 1 /\ g[1][1] \notin Spaces
    <3>1. CASE r[1] \in Entities
      <4>1. Len(g[1]) = 1 + Len(Entity[r[1]]) /\ g[1][1] = Amp
        BY <2>12, <3>1 DEF XmlPiece
      <4>2. Len(Entity[r[1]]) \in 3 .. 5
        BY <3>1, EntityType
      <4>3. Amp \notin Spaces
        BY DEF Amp, Spaces, Tab, Newline, VTab, FormFeed, Return, Blank
      <4> QED BY <4>1, <4>2, <4>3
    <3>2. CASE r[1] \notin Entities
      <4>1. Len(g[1]) = 1 /\ g[1][1] = r[1]
        BY <2>12, <3>2 DEF XmlPiece
      <4> QED BY <2>11, <4>1
    <3> QED BY <3>1, <3>2
  <2>14. v[1] = g[1][1] /\ Len(v) # 0 /\ OfLength(TextByte, v, Len(v))
    BY <2>2, <2>3, <2>12, <2>13, FirstByte
  <2> HIDE DEF x, v, w
  <2>15. RemoveLeft(Spaces, x \o v) = v
    BY <2>8, <2>13, <2>14, RemoveLeftIs
  <2> QED BY <1>3, <2>5, <2>7, <2>9, <2>15
<1> QED BY <1>5, <1>6

(***************************************************************************)
(* A JSON string: what its trimming takes off, and what is left.           *)
(***************************************************************************)
Removed == Spaces \cup {Quote}

\* What is removed is the border, or written with two bytes.
LEMMA RemovedBytes ==
    /\ Quote \in TextByte /\ Backslash \in TextByte /\ Quote \in Removed /\ Border \subseteq Removed
    /\ Backslash \notin Removed /\ Quote \in Short /\ Quote \notin Controls
    /\ \A c \in Removed : c \in Border \/ c \in Short
    /\ \A c \in {98, 102, 110, 114, 116} : c \notin Removed
  BY DEF Removed, Spaces, Border, Short, Controls, TextByte, Quote, Backslash, Tab, Newline, VTab,
         FormFeed, Return, Blank, Backspace

LEMMA BorderPlain == \A c \in Border : Escaped({"json"}, c) = <<c>>
<1>1. \A c \in Border : c \notin Controls /\ c \notin {Quote, Backslash}
  BY DEF Border, Controls, Quote, Backslash, Tab, Newline, VTab, FormFeed, Return, Blank,
         Backspace
<1> QED BY <1>1 DEF Escaped

\* What a text is written as in JSON.
LEMMA JsonPieces ==
    ASSUME NEW t, NEW n, OfLength(TextByte, t, n), NEW f, WrittenAs(f, {"json"}, t, n)
    PROVE  ArePieces(TextByte, f, n) /\ \A k \in 1 .. n : JsonPiece(f[k], t[k])
<1> SUFFICES ASSUME NEW k \in 1 .. n PROVE f[k] \in Seq(TextByte) /\ JsonPiece(f[k], t[k])
  BY DEF ArePieces
<1> DEFINE c == t[k]
           p == f[k]
<1>1. c \in TextByte
  BY DEF OfLength
<1>2. p = Escaped({"json"}, c)
  BY DEF WrittenAs
<1> HIDE DEF c, p
<1>3. p \in Seq(TextByte) /\ JsonPiece(p, c)
  BY <1>1, <1>2, JsonEscapes
<1> QED BY <1>3 DEF c, p

\* What the ends of the piece of a character outside the border are.
LEMMA JsonEnds ==
    ASSUME NEW c, c \notin Border, NEW p, JsonPiece(p, c), NEW m, m = Len(p)
    PROVE  m >= 1 /\ p[1] \notin Removed /\ (c # Quote => p[m] \notin Removed)
<1>1. CASE c \in Short
  <2>1. m = 2 /\ p[1] = Backslash /\ p[2] = JsonLetter(c)
    BY <1>1 DEF JsonPiece
  <2>2. c # Quote => JsonLetter(c) \notin Removed
    <3>1. CASE c \in Controls
      <4>1. JsonLetter(c) \in {98, 102, 110, 114, 116}
        BY <3>1, LettersAre DEF JsonLetter
      <4> QED BY <4>1, RemovedBytes
    <3>2. CASE c \notin Controls
      <4>1. JsonLetter(c) = c /\ c \in {Quote, Backslash}
        BY <1>1, <3>2 DEF JsonLetter, Short
      <4> QED BY <4>1, RemovedBytes
    <3> QED BY <3>1, <3>2
  <2> QED BY <2>1, <2>2, RemovedBytes
<1>2. CASE c \notin Short
  <2>1. m = 1 /\ p[1] = c
    BY <1>2 DEF JsonPiece
  <2>2. c \notin Removed
    BY <1>2, RemovedBytes
  <2> QED BY <2>1, <2>2
<1> QED BY <1>1, <1>2

\* The tokenizer ends a quoted text at its last quote.
LEMMA QuotedClosed ==
    ASSUME NEW t, NEW n, OfLength(TextByte, t, n), NEW f, WrittenAs(f, {"json"}, t, n),
           NEW q, q = <<Quote>> \o (Concat(f, n) \o <<Quote>>)
    PROVE  ReadJsonString(q) = JsonCopy(Trim(q))
<1> DEFINE h == <<Quote>>
           l == Len(q)
<1>1. h \in Seq(TextByte) /\ Len(h) = 1 /\ h[1] = Quote
  BY RemovedBytes, OneByte
<1>2. ArePieces(TextByte, f, n) /\ \A k \in 1 .. n : JsonPiece(f[k], t[k])
  BY JsonPieces
<1>3. n \in Nat /\ t \in Seq(TextByte) /\ n = Len(t)
  BY DEF OfLength
<1>4. q = h \o (Concat(f, n) \o h)
  OBVIOUS
<1> HIDE DEF h
<1>5. PICK e : Located(q, e, f, n) /\ Around(q, e, n, h, h) /\ q \in Seq(TextByte)
  BY <1>1, <1>2, <1>3, <1>4, PiecesLocated, ZenonT(30)
<1>6. l \in Nat
  BY <1>5
<1>7. e[0] = 1 /\ e[n] \in Nat /\ l = e[n] + 1 /\ q[e[n] + 1] = Quote
  <2>1. 1 \in 1 .. Len(h)
    BY <1>1
  <2> QED BY <1>1, <1>5, <2>1 DEF Around
<1>8. ClosingQuote(q) = l
  BY <1>2, <1>3, <1>5, <1>6, <1>7, ClosingQuoteFound
<1>9. SubSeq(q, 1, l) = q /\ l # 0
  <2> DEFINE y == SubSeq(q, 1, l)
             zero == 0
  <2>1. zero \in Nat /\ zero + l <= l /\ 1 = zero + 1 /\ l = zero + l
        /\ \A i \in 1 .. l : zero + i = i
    BY <1>6
  <2>2. OfLength(TextByte, q, l)
    BY <1>5, <1>6 DEF OfLength
  <2> HIDE DEF zero, l
  <2>3. OfLength(TextByte, y, l) /\ IsSlice(y, q, zero, l)
    BY <1>6, <2>1, <2>2, Slice
  <2>4. \A i \in 1 .. l : y[i] = q[i]
    BY <2>1, <2>3 DEF IsSlice
  <2> HIDE DEF y
  <2>5. y = q
    BY <2>2, <2>3, <2>4, SameSeq
  <2>6. l # 0
    BY <1>7
  <2> QED BY <2>5, <2>6 DEF y
<1> HIDE DEF l
<1> QED BY <1>8, <1>9 DEF ReadJsonString

\* What is before and after a sequence whose ends stay.
LEMMA TrimmedTo ==
    ASSUME NEW x, NEW lx, OfLength(TextByte, x, lx), AllIn(x, lx, Removed),
           NEW y, NEW ly, OfLength(TextByte, y, ly), AllIn(y, ly, Removed),
           NEW v, NEW b, OfLength(TextByte, v, b), b # 0, v[1] \notin Removed, v[b] \notin Removed
    PROVE  Trim(x \o (v \o y)) = v
<1> DEFINE u == v \o y
           lu == b + ly
<1>1. OfLength(TextByte, u, lu) /\ Joins(u, v, y, b, ly)
  BY TwoPieces
<1>2. b \in Nat /\ ly \in Nat
  BY DEF OfLength
<1>3. 1 \in 1 .. b /\ lu # 0
  BY <1>2
<1>4. u[1] = v[1]
  BY <1>1, <1>3 DEF Joins
<1>5. RemoveRight(Removed, u) = v
  BY RemoveRightIs
<1> HIDE DEF u, lu
<1>6. RemoveLeft(Removed, x \o u) = u
  BY <1>1, <1>3, <1>4, RemoveLeftIs
<1> QED BY <1>5, <1>6 DEF Trim, Removed, u

\* The border is what the trimming takes off a text.
LEMMA CoreIs ==
    ASSUME NEW t \in Seq(TextByte), NEW first, IsLeast(first, Kept(Border, t)),
           NEW last, IsGreatest(last, Kept(Border, t))
    PROVE  Core(t) = SubSeq(t, first, last)
<1>1. Kept(Border, t) # {} /\ Kept(Border, t) \subseteq Nat
  <2>1. Kept(Border, t) # {}
    BY DEF IsLeast
  <2> QED BY <2>1, Extremes
<1>2. /\ (CHOOSE k \in Kept(Border, t) : \A j \in Kept(Border, t) : k <= j) = first
      /\ (CHOOSE k \in Kept(Border, t) : \A j \in Kept(Border, t) : k >= j) = last
  BY <1>1, LeastIs, GreatestIs
<1> QED BY <1>1, <1>2 DEF Core, Kept

\* What is after the last character that is kept.
LEMMA AfterLast ==
    ASSUME NEW U, NEW S, NEW s, NEW n, OfLength(U, s, n), NEW m, IsGreatest(m, Kept(S, s)),
           NEW d, d = n - m, NEW z, OfLength(U, z, d), IsSlice(z, s, m, d)
    PROVE  AllIn(z, d, S)
<1>1. n \in Nat /\ DOMAIN s = 1 .. n
  BY DEF OfLength
<1>2. m \in 1 .. n
  BY <1>1 DEF IsGreatest, Kept
<1> SUFFICES ASSUME NEW i \in 1 .. d PROVE z[i] \in S
  BY DEF AllIn
<1> DEFINE j == m + i
<1>3. j \in 1 .. n /\ ~(m >= j)
  BY <1>1, <1>2
<1>4. z[i] = s[j]
  BY DEF IsSlice
<1> HIDE DEF j
<1>5. j \notin Kept(S, s)
  BY <1>3 DEF IsGreatest
<1> QED BY <1>1, <1>3, <1>4, <1>5 DEF Kept

\* A quote before or after bytes that are removed.
LEMMA QuoteBefore ==
    ASSUME NEW x, NEW a, OfLength(TextByte, x, a), AllIn(x, a, Border)
    PROVE  LET h == <<Quote>>
           IN /\ OfLength(TextByte, h \o x, 1 + a) /\ AllIn(h \o x, 1 + a, Removed)
              /\ OfLength(TextByte, x \o h, a + 1) /\ AllIn(x \o h, a + 1, Removed)
<1> DEFINE h == <<Quote>>
           u == h \o x
           v == x \o h
<1>1. OfLength(TextByte, h, 1) /\ h[1] = Quote
  BY RemovedBytes, OneByte DEF OfLength
<1> HIDE DEF h
<1>2. OfLength(TextByte, u, 1 + a) /\ Joins(u, h, x, 1, a)
  BY <1>1, TwoPieces
<1>3. OfLength(TextByte, v, a + 1) /\ Joins(v, x, h, a, 1)
  BY <1>1, TwoPieces
<1> HIDE DEF u, v
<1>4. a \in Nat
  BY DEF OfLength
<1>5. 1 \in 1 .. 1
  OBVIOUS
<1>6. ASSUME NEW i \in 1 .. 1 + a PROVE u[i] \in Removed
  <2>1. CASE i = 1
    <3>1. u[1] = Quote
      BY <1>1, <1>2, <1>5 DEF Joins
    <3> QED BY <2>1, <3>1, RemovedBytes
  <2>2. CASE i # 1
    <3> DEFINE j == i - 1
    <3>1. j \in 1 .. a /\ 1 + j = i
      BY <1>4, <2>2
    <3> HIDE DEF j
    <3>2. u[i] = x[j]
      BY <1>2, <3>1 DEF Joins
    <3> QED BY <3>1, <3>2, RemovedBytes DEF AllIn
  <2> QED BY <2>1, <2>2
<1>7. ASSUME NEW i \in 1 .. a + 1 PROVE v[i] \in Removed
  <2>1. CASE i = a + 1
    <3>1. v[a + 1] = Quote
      BY <1>1, <1>3, <1>5 DEF Joins
    <3> QED BY <2>1, <3>1, RemovedBytes
  <2>2. CASE i # a + 1
    <3>1. i \in 1 .. a
      BY <1>4, <2>2
    <3>2. v[i] = x[i]
      BY <1>3, <3>1 DEF Joins
    <3> QED BY <3>1, <3>2, RemovedBytes DEF AllIn
  <2> QED BY <2>1, <2>2
<1>8. AllIn(u, 1 + a, Removed) /\ AllIn(v, a + 1, Removed)
  BY <1>6, <1>7 DEF AllIn
<1> QED BY <1>2, <1>3, <1>8 DEF u, v, h

Regroups(h, x, v, y) == h \o (((x \o v) \o y) \o h) = (h \o x) \o (v \o (y \o h))
LEMMA Regrouped ==
    ASSUME NEW h \in Seq(TextByte), NEW x \in Seq(TextByte), NEW v \in Seq(TextByte), NEW y \in Seq(TextByte)
    PROVE  Regroups(h, x, v, y)
<1>1. x \o v \in Seq(TextByte) /\ y \o h \in Seq(TextByte)
  OBVIOUS
<1>2. v \o (y \o h) \in Seq(TextByte)
  BY <1>1
<1>3. ((x \o v) \o y) \o h = (x \o v) \o (y \o h)
  BY <1>1, ConcatAssociative, SMTT(30)
<1>4. (x \o v) \o (y \o h) = x \o (v \o (y \o h))
  BY <1>1, ConcatAssociative, SMTT(30)
<1>5. h \o (x \o (v \o (y \o h))) = (h \o x) \o (v \o (y \o h))
  <2> DEFINE r == v \o (y \o h)
  <2>1. r \in Seq(TextByte)
    BY <1>2
  <2> HIDE DEF r
  <2>2. (h \o x) \o r = h \o (x \o r)
    BY <2>1, ConcatAssociative, SMTT(30)
  <2> QED BY <2>2 DEF r
<1> QED BY <1>3, <1>4, <1>5 DEF Regroups

\* A quoted text is what its core is written as, between what is removed.
Wrapped(q, v, x, lx, y, ly) ==
    /\ q = x \o (v \o y)
    /\ OfLength(TextByte, x, lx) /\ AllIn(x, lx, Removed)
    /\ OfLength(TextByte, y, ly) /\ AllIn(y, ly, Removed)

\* Between what is removed, a quoted text is what its core is written as.
LEMMA CoreWritten ==
    ASSUME NEW t, NEW n, OfLength(TextByte, t, n), NEW f, WrittenAs(f, {"json"}, t, n),
           Kept(Border, t) # {}, NEW q, q = <<Quote>> \o (Concat(f, n) \o <<Quote>>)
    PROVE  \E m, g, x, lx, y, ly :
              /\ OfLength(TextByte, Core(t), m) /\ m # 0 /\ WrittenAs(g, {"json"}, Core(t), m)
              /\ Core(t)[1] \notin Border /\ Core(t)[m] \notin Border
              /\ Wrapped(q, Concat(g, m), x, lx, y, ly)
<1>1. t \in Seq(TextByte) /\ n \in Nat /\ {"json"} \in Flags /\ DOMAIN t = 1 .. n
  BY DEF OfLength, Flags
<1>2. PICK first : IsLeast(first, Kept(Border, t))
  BY <1>1, Extremes
<1>3. PICK last : IsGreatest(last, Kept(Border, t))
  BY <1>1, Extremes
<1> DEFINE a == first - 1
           m == last - a
           d == n - last
           b == n - a
           core == SubSeq(t, first, last)
           z == SubSeq(t, last + 1, n)
           g == [k \in 1 .. m |-> Escaped({"json"}, core[k])]
           e == [k \in 1 .. d |-> Escaped({"json"}, z[k])]
           h == <<Quote>>
           X == Concat(f, a)
           V == Concat(g, m)
           Y == Concat(e, d)
<1>4. /\ first \in 1 .. n /\ t[first] \notin Border /\ a \in 0 .. n /\ AllIn(t, a, Border)
      /\ first = a + 1
  BY <1>2, BeforeFirst
<1>5. last \in 1 .. n /\ t[last] \notin Border /\ first <= last
  <2>1. last \in Kept(Border, t)
    BY <1>3 DEF IsGreatest
  <2>2. last \in DOMAIN t /\ t[last] \notin Border
    BY <2>1 DEF Kept
  <2>3. first <= last
    BY <1>2, <2>1 DEF IsLeast
  <2> QED BY <1>1, <2>2, <2>3
<1>6. /\ a \in Nat /\ m \in Nat /\ d \in Nat /\ m # 0 /\ a + m <= n /\ last = a + m
      /\ last + d <= n /\ n = last + d /\ last \in Nat
  BY <1>1, <1>4, <1>5
<1>7. Cut(a, m, last, n) /\ Cut(last, d, n, n)
  BY <1>1, <1>5, <1>6 DEF Cut
<1>8. Core(t) = core
  BY <1>1, <1>2, <1>3, CoreIs
<1>9. AllIn(z, d, Border) /\ OfLength(TextByte, z, d) /\ IsSlice(z, t, last, d)
  <2> DEFINE p == last + 1
  <2> HIDE DEF d
  <2>1. OfLength(TextByte, SubSeq(t, p, n), d) /\ IsSlice(SubSeq(t, p, n), t, last, d)
    <3>1. p = last + 1
      OBVIOUS
    <3> HIDE DEF p
    <3> QED BY <1>6, <3>1, Slice
  <2>2. OfLength(TextByte, z, d) /\ IsSlice(z, t, last, d) /\ d = n - last
    BY <2>1 DEF d
  <2> HIDE DEF z
  <2> QED BY <1>3, <2>2, AfterLast
<1> HIDE DEF a, m, d, z
<1>10. OfLength(TextByte, core, m) /\ IsSlice(core, t, a, m)
  BY <1>4, <1>6, Slice
<1> HIDE DEF core
<1>11. WrittenAs(g, {"json"}, core, m) /\ WrittenAs(e, {"json"}, z, d)
  BY DEF WrittenAs
<1> HIDE DEF g, e
<1>12. Concat(f, last) = X \o V
  BY <1>1, <1>7, <1>10, <1>11, CutWritten
<1>13. Concat(f, n) = Concat(f, last) \o Y
  BY <1>1, <1>7, <1>9, <1>11, CutWritten
<1>14. OfLength(TextByte, X, a) /\ AllIn(X, a, Border)
  BY <1>1, <1>4, BorderPlain, PlainWritten
<1>15. OfLength(TextByte, Y, d) /\ AllIn(Y, d, Border)
  <2>1. d \in 0 .. d
    BY <1>6
  <2> QED BY <1>1, <1>9, <1>11, <2>1, BorderPlain, PlainWritten
<1>16. V \in Seq(TextByte)
  <2>1. ArePieces(TextByte, g, m) /\ m \in 0 .. m
    BY <1>1, <1>6, <1>10, <1>11, WrittenPieces
  <2> QED BY <1>6, <2>1, ConcatType
<1> HIDE DEF X, V, Y
<1>17. q = h \o (((X \o V) \o Y) \o h)
  BY <1>12, <1>13
<1>18. h \in Seq(TextByte)
  BY RemovedBytes, OneByte
<1>19. /\ OfLength(TextByte, h \o X, 1 + a) /\ AllIn(h \o X, 1 + a, Removed)
       /\ OfLength(TextByte, Y \o h, d + 1) /\ AllIn(Y \o h, d + 1, Removed)
  BY <1>14, <1>15, QuoteBefore
<1> HIDE DEF h
<1>20. q = (h \o X) \o (V \o (Y \o h))
  <2>1. X \in Seq(TextByte) /\ Y \in Seq(TextByte)
    BY <1>14, <1>15 DEF OfLength
  <2>2. Regroups(h, X, V, Y)
    BY <1>16, <1>18, <2>1, Regrouped
  <2> QED BY <1>17, <2>2 DEF Regroups
<1>21. Wrapped(q, V, h \o X, 1 + a, Y \o h, d + 1)
  BY <1>19, <1>20 DEF Wrapped
<1>22. core[1] \notin Border /\ core[m] \notin Border
  <2>1. 1 \in 1 .. m /\ m \in 1 .. m
    BY <1>6
  <2>2. core[1] = t[a + 1] /\ core[m] = t[a + m]
    BY <1>10, <2>1 DEF IsSlice
  <2> QED BY <1>4, <1>5, <1>6, <2>2
<1> QED BY <1>6, <1>8, <1>10, <1>11, <1>21, <1>22 DEF V

\* The ends of what a core is written as stay, but for a last quote.
LEMMA CoreEnds ==
    ASSUME NEW core, NEW m, OfLength(TextByte, core, m), m # 0, NEW g, WrittenAs(g, {"json"}, core, m),
           core[1] \notin Border, core[m] \notin Border
    PROVE  LET v == Concat(g, m)
           IN /\ OfLength(TextByte, v, Len(v)) /\ Len(v) # 0 /\ v[1] \notin Removed
              /\ core[m] # Quote => v[Len(v)] \notin Removed
<1> DEFINE v == Concat(g, m)
           j == Len(g[m])
<1>1. m \in Nat /\ 1 \in 1 .. m /\ m \in 1 .. m
  BY DEF OfLength
<1>2. ArePieces(TextByte, g, m) /\ JsonPiece(g[1], core[1]) /\ JsonPiece(g[m], core[m])
  BY <1>1, JsonPieces
<1>3. Len(g[1]) >= 1 /\ g[1][1] \notin Removed
  BY <1>2, JsonEnds
<1>4. j >= 1 /\ (core[m] # Quote => g[m][j] \notin Removed)
  BY <1>2, JsonEnds
<1>5. v[1] = g[1][1] /\ Len(v) # 0 /\ OfLength(TextByte, v, Len(v))
  BY <1>1, <1>2, <1>3, FirstByte
<1>6. v[Len(v)] = g[m][j]
  BY <1>1, <1>2, <1>4, LastByte
<1> QED BY <1>3, <1>4, <1>5, <1>6

\* A core that ends otherwise than with a quote is read back as it was.
LEMMA CoreRead ==
    ASSUME NEW core, NEW m, OfLength(TextByte, core, m), m # 0, NEW g, WrittenAs(g, {"json"}, core, m),
           core[1] \notin Border, core[m] \notin Border, core[m] # Quote,
           NEW q, NEW x, NEW lx, NEW y, NEW ly, Wrapped(q, Concat(g, m), x, lx, y, ly)
    PROVE  JsonCopy(Trim(q)) = Readable(core)
<1> DEFINE v == Concat(g, m)
           b == Len(v)
<1>1. OfLength(TextByte, v, b) /\ b # 0 /\ v[1] \notin Removed /\ v[b] \notin Removed
  BY CoreEnds
<1>2. ArePieces(TextByte, g, m) /\ \A k \in 1 .. m : JsonPiece(g[k], core[k])
  BY JsonPieces
<1>3. m \in Nat /\ core \in Seq(TextByte) /\ m = Len(core)
  BY DEF OfLength
<1>4. PICK e : Located(v, e, g, m) /\ e[0] = 0 /\ e[m] = Len(v) /\ Len(v) \in Nat /\ e[m] \in Nat
  BY <1>2, <1>3, WholeLocated
<1> HIDE DEF v
<1>5. JsonCopy(v) = Readable(core)
  <2>1. JsonCopy(v) = IF TRUE THEN Readable(core) ELSE Unreadable
    <3> DEFINE full == TRUE
    <3>1. full \in BOOLEAN /\ (full => Len(v) = e[m])
          /\ (~full => Len(v) = e[m] + 1 /\ v[e[m] + 1] = Backslash)
      BY <1>4
    <3>2. full
      OBVIOUS
    <3> HIDE DEF full
    <3>3. JsonCopy(v) = IF full THEN Readable(core) ELSE Unreadable
      BY <1>2, <1>3, <1>4, <3>1, JsonCopyReads
    <3> QED BY <3>2, <3>3
  <2> QED BY <2>1
<1>6. /\ q = x \o (v \o y) /\ OfLength(TextByte, x, lx) /\ AllIn(x, lx, Removed)
      /\ OfLength(TextByte, y, ly) /\ AllIn(y, ly, Removed)
  BY DEF Wrapped, v
<1>7. Trim(x \o (v \o y)) = v
  BY <1>1, <1>6, TrimmedTo
<1> QED BY <1>5, <1>6, <1>7

\* The backslash before a last quote is left without it.
LEMMA QuoteLeft ==
    ASSUME NEW g, NEW m \in Nat, m # 0, ArePieces(TextByte, g, m), JsonPiece(g[m], Quote),
           NEW u, u = Concat(g, m - 1) \o <<Backslash>>
    PROVE  Concat(g, m) = u \o <<Quote>> /\ u \in Seq(TextByte)
<1> DEFINE c == Concat(g, m - 1)
           p == g[m]
           h == <<Backslash>>
           z == <<Quote>>
<1>1. m \in 1 .. m /\ m - 1 \in 0 .. m
  OBVIOUS
<1>2. p \in Seq(TextByte) /\ c \in Seq(TextByte)
  BY <1>1, ConcatType DEF ArePieces
<1>3. Concat(g, m) = c \o p
  BY ConcatNext
<1>4. Len(p) = 2 /\ p[1] = Backslash /\ p[2] = Quote
  BY RemovedBytes DEF JsonPiece, JsonLetter
<1>5. h \in Seq(TextByte) /\ Len(h) = 1 /\ h[1] = Backslash /\ z \in Seq(TextByte) /\ Len(z) = 1 /\ z[1] = Quote
  BY RemovedBytes, OneByte
<1>6. u = c \o h
  OBVIOUS
<1> HIDE DEF c, p, h, z
<1>7. p = h \o z
  <2>1. OfLength(TextByte, h, 1) /\ OfLength(TextByte, z, 1) /\ OfLength(TextByte, p, 2)
    BY <1>2, <1>4, <1>5 DEF OfLength
  <2>2. OfLength(TextByte, h \o z, 1 + 1) /\ Joins(h \o z, h, z, 1, 1)
    BY <2>1, TwoPieces
  <2>3. 1 \in 1 .. 1 /\ 1 + 1 = 2 /\ \A i \in 1 .. 2 : i = 1 \/ i = 2
    OBVIOUS
  <2>4. (h \o z)[1] = h[1] /\ (h \o z)[1 + 1] = z[1]
    BY <2>2, <2>3 DEF Joins
  <2>5. OfLength(TextByte, h \o z, 2) /\ \A i \in 1 .. 2 : (h \o z)[i] = p[i]
    BY <1>4, <1>5, <2>2, <2>3, <2>4
  <2> QED BY <2>1, <2>5, SameSeq
<1>8. (c \o h) \o z = c \o (h \o z)
  BY <1>2, <1>5, ConcatAssociative, SMTT(30)
<1>9. u \in Seq(TextByte)
  <2>1. c \o h \in Seq(TextByte)
    BY <1>2, <1>5
  <2> QED BY <1>6, <2>1
<1>10. Concat(g, m) = u \o z
  BY <1>3, <1>6, <1>7, <1>8
<1> QED BY <1>9, <1>10 DEF z

\* A core that ends with a quote is refused: its last quote is trimmed off with
\* the one that closes the string.
LEMMA CoreRefused ==
    ASSUME NEW core, NEW m, OfLength(TextByte, core, m), m # 0, NEW g, WrittenAs(g, {"json"}, core, m),
           core[1] \notin Border, core[m] \notin Border, core[m] = Quote,
           NEW q, NEW x, NEW lx, NEW y, NEW ly, Wrapped(q, Concat(g, m), x, lx, y, ly)
    PROVE  JsonCopy(Trim(q)) = Unreadable
<1> DEFINE v == Concat(g, m)
           l == m - 1
           h == <<Backslash>>
           z == <<Quote>>
           u == Concat(g, l) \o h
           a == Len(u)
           zy == z \o y
<1>1. OfLength(TextByte, v, Len(v)) /\ Len(v) # 0 /\ v[1] \notin Removed
  BY CoreEnds
<1>2. ArePieces(TextByte, g, m) /\ \A k \in 1 .. m : JsonPiece(g[k], core[k])
  BY JsonPieces
<1>3. m \in Nat /\ l \in Nat /\ m \in 1 .. m /\ m = l + 1 /\ l <= m
  BY DEF OfLength
<1>4. v = u \o z /\ u \in Seq(TextByte)
  <2>1. JsonPiece(g[m], Quote)
    BY <1>2, <1>3
  <2> QED BY <1>2, <1>3, <2>1, QuoteLeft
<1>5. h \in Seq(TextByte) /\ Len(h) = 1 /\ h[1] = Backslash /\ z \in Seq(TextByte) /\ Len(z) = 1
      /\ z[1] = Quote
  BY RemovedBytes, OneByte
<1>6. /\ q = x \o (v \o y) /\ OfLength(TextByte, x, lx) /\ AllIn(x, lx, Removed)
      /\ OfLength(TextByte, y, ly) /\ AllIn(y, ly, Removed)
  BY DEF Wrapped
<1>7. OfLength(TextByte, u, a) /\ a \in Nat
  BY <1>4 DEF OfLength
<1> DEFINE part == SubSeq(core, 1, l)
<1>8. OfLength(TextByte, part, l) /\ \A i \in 1 .. l : part[i] = core[i]
  <2> DEFINE zero == 0
  <2>1. zero \in Nat /\ zero + l <= m /\ 1 = zero + 1 /\ l = zero + l
        /\ \A i \in 1 .. l : zero + i = i
    BY <1>3
  <2> HIDE DEF zero, l
  <2>2. OfLength(TextByte, part, l) /\ IsSlice(part, core, zero, l)
    BY <1>3, <2>1, Slice
  <2> HIDE DEF part
  <2> QED BY <2>1, <2>2 DEF IsSlice
<1> HIDE DEF part
<1>9. ArePieces(TextByte, g, l) /\ \A k \in 1 .. l : JsonPiece(g[k], part[k])
  <2> SUFFICES ASSUME NEW k \in 1 .. l PROVE g[k] \in Seq(TextByte) /\ JsonPiece(g[k], part[k])
    BY DEF ArePieces
  <2>1. k \in 1 .. m
    BY <1>3
  <2> QED BY <1>2, <1>8, <2>1 DEF ArePieces
<1> HIDE DEF v, l, zy
<1>10. PICK e : Located(u, e, g, l) /\ e[0] = 0 /\ e[l] \in Nat /\ Len(u) = e[l] + 1
                /\ u[e[l] + 1] = Backslash
  <2> DEFINE none == <<>>
             c == Concat(g, l)
  <2>1. none \in Seq(TextByte) /\ Len(none) = 0 /\ 1 \in 1 .. Len(h)
    BY <1>5
  <2>2. u = none \o (c \o h)
    <3>1. c \o h \in Seq(TextByte)
      BY <1>4
    <3> QED BY <3>1, ConcatEmptySeq
  <2> HIDE DEF none, h, u
  <2>3. PICK e : Located(u, e, g, l) /\ Around(u, e, l, none, h)
    BY <1>3, <1>5, <1>9, <2>1, <2>2, PiecesLocated
  <2>4. e[0] = 0 /\ e[l] \in Nat /\ Len(u) = e[l] + 1 /\ u[e[l] + 1] = Backslash
    BY <1>5, <2>1, <2>3 DEF Around
  <2> QED BY <2>3, <2>4
<1> HIDE DEF u, h
<1>11. JsonCopy(u) = Unreadable
  <2> DEFINE full == FALSE
  <2>1. full \in BOOLEAN /\ (full => Len(u) = e[l])
        /\ (~full => Len(u) = e[l] + 1 /\ u[e[l] + 1] = Backslash)
    BY <1>10
  <2>2. ~full
    OBVIOUS
  <2> HIDE DEF full
  <2>3. part \in Seq(TextByte) /\ l = Len(part) /\ Len(u) \in Nat
    BY <1>7, <1>8 DEF OfLength
  <2>4. JsonCopy(u) = IF full THEN Readable(part) ELSE Unreadable
    BY <1>3, <1>9, <1>10, <2>1, <2>3, JsonCopyReads
  <2> QED BY <2>2, <2>4
<1>12. OfLength(TextByte, zy, 1 + ly) /\ AllIn(zy, 1 + ly, Removed)
  <2>1. OfLength(TextByte, z, 1)
    BY <1>5 DEF OfLength
  <2> HIDE DEF z
  <2>2. OfLength(TextByte, zy, 1 + ly) /\ Joins(zy, z, y, 1, ly)
    BY <1>6, <2>1, TwoPieces DEF zy
  <2>3. ASSUME NEW i \in 1 .. 1 + ly PROVE zy[i] \in Removed
    <3>1. ly \in Nat /\ 1 \in 1 .. 1
      BY <1>6 DEF OfLength
    <3>2. CASE i = 1
      <4>1. zy[1] = Quote
        BY <1>5, <2>2, <3>1 DEF Joins
      <4> QED BY <3>2, <4>1, RemovedBytes
    <3>3. CASE i # 1
      <4> DEFINE j == i - 1
      <4>1. j \in 1 .. ly /\ 1 + j = i
        BY <3>1, <3>3
      <4> HIDE DEF j
      <4>2. zy[i] = y[j]
        BY <2>2, <4>1 DEF Joins
      <4> QED BY <1>6, <4>1, <4>2 DEF AllIn
    <3> QED BY <3>2, <3>3
  <2> QED BY <2>2, <2>3 DEF AllIn
<1>13. a # 0 /\ u[a] \notin Removed
  <2>1. a = e[l] + 1 /\ e[l] \in Nat
    BY <1>10
  <2> QED BY <1>10, <2>1, RemovedBytes
<1> HIDE DEF a
<1>14. RemoveRight(Removed, u \o zy) = u
  BY <1>7, <1>12, <1>13, RemoveRightIs
<1>15. v \o y = u \o zy
  <2>1. y \in Seq(TextByte)
    BY <1>6 DEF OfLength
  <2> HIDE DEF z
  <2>2. u \in Seq(TextByte) /\ z \in Seq(TextByte)
    BY <1>4, <1>5
  <2>3. (u \o z) \o y = u \o (z \o y)
    BY <2>1, <2>2, ConcatAssociative
  <2> QED BY <1>4, <2>3 DEF zy
<1> DEFINE b == Len(v)
           w == v \o y
           k == b + ly
<1> HIDE DEF b
<1>16. OfLength(TextByte, w, k) /\ k # 0 /\ w[1] \notin Removed
  <2>1. OfLength(TextByte, v, b) /\ b # 0
    BY <1>1 DEF b
  <2>2. b \in Nat /\ ly \in Nat
    BY <1>6, <2>1 DEF OfLength
  <2>3. OfLength(TextByte, w, k) /\ Joins(w, v, y, b, ly)
    BY <1>6, <2>1, TwoPieces
  <2>4. 1 \in 1 .. b /\ k # 0
    BY <2>1, <2>2
  <2>5. w[1] = v[1]
    BY <2>3, <2>4 DEF Joins
  <2> QED BY <1>1, <2>3, <2>4, <2>5
<1> HIDE DEF k, w
<1>17. RemoveLeft(Removed, x \o w) = w
  BY <1>6, <1>16, RemoveLeftIs
<1>18. Trim(q) = u
  <2>1. q = x \o w /\ w = u \o zy
    BY <1>6, <1>15 DEF w
  <2> QED BY <1>14, <1>17, <2>1 DEF Trim, Removed
<1> QED BY <1>11, <1>18

\* Nothing is read back from nothing.
LEMMA EmptyRead == JsonCopy(<<>>) = Readable(<<>>)
<1> DEFINE t == <<>>
           f == [k \in 1 .. 0 |-> Escaped({"json"}, t[k])]
           full == TRUE
           n == 0
<1>1. OfLength(TextByte, t, n) /\ WrittenAs(f, {"json"}, t, n) /\ n \in Nat /\ t \in Seq(TextByte)
      /\ n = Len(t) /\ Concat(f, n) = t
  <2>1. t \in Seq(TextByte) /\ Len(t) = 0 /\ n \in Nat
    OBVIOUS
  <2>2. Concat(f, n) = t
    <3> HIDE DEF f
    <3> QED BY ConcatNext
  <2>3. WrittenAs(f, {"json"}, t, n)
    BY DEF WrittenAs
  <2> QED BY <2>1, <2>2, <2>3 DEF OfLength
<1> HIDE DEF f, t, n
<1>2. ArePieces(TextByte, f, n) /\ \A k \in 1 .. n : JsonPiece(f[k], t[k])
  BY <1>1, JsonPieces
<1>3. PICK e : Located(t, e, f, n) /\ e[0] = 0 /\ e[n] = Len(t) /\ Len(t) \in Nat /\ e[n] \in Nat
  BY <1>1, <1>2, WholeLocated
<1>4. full \in BOOLEAN /\ (full => Len(t) = e[n])
      /\ (~full => Len(t) = e[n] + 1 /\ t[e[n] + 1] = Backslash)
  BY <1>3
<1>5. full
  OBVIOUS
<1> HIDE DEF full
<1>6. JsonCopy(t) = IF full THEN Readable(t) ELSE Unreadable
  BY <1>1, <1>2, <1>3, <1>4, JsonCopyReads
<1> QED BY <1>5, <1>6 DEF t

\* What a text is read back as from a JSON string.
StringRead(core) ==
    IF core # <<>> /\ core[Len(core)] = Quote THEN Unreadable ELSE Readable(core)

\* A string loses the blanks at its ends, and is refused when it then ends with
\* a quote (nyx_string_builder_append_json, the tokenizer and jsoncpy).
LEMMA StringReadsBack ==
    ASSUME NEW t, NEW n, OfLength(TextByte, t, n)
    PROVE  ReadJsonString(Quoted(t)) = StringRead(Core(t))
<1> DEFINE f == [k \in 1 .. n |-> Escaped({"json"}, t[k])]
           w == Concat(f, n)
           h == <<Quote>>
           q == h \o (w \o h)
<1>1. WrittenAs(f, {"json"}, t, n)
  BY DEF WrittenAs
<1>2. n \in Nat /\ t \in Seq(TextByte) /\ n = Len(t) /\ {"json"} \in Flags
  BY DEF OfLength, Flags
<1> HIDE DEF f
<1>3. w \in Seq(TextByte)
  <2>1. ArePieces(TextByte, f, n) /\ n \in 0 .. n
    BY <1>1, <1>2, WrittenPieces
  <2> QED BY <1>2, <2>1, ConcatType
<1>4. Quoted(t) = q
  <2>1. Write({"json"}, t) = w
    BY <1>1, <1>2, WriteIs
  <2>2. h \in Seq(TextByte)
    BY RemovedBytes, OneByte
  <2>3. Quoted(t) = (h \o w) \o h
    BY <2>1 DEF Quoted
  <2> HIDE DEF h, w
  <2>4. (h \o w) \o h = h \o (w \o h)
    BY <1>3, <2>2, ConcatAssociative
  <2> QED BY <2>3, <2>4
<1>5. q = <<Quote>> \o (Concat(f, n) \o <<Quote>>)
  OBVIOUS
<1> HIDE DEF q
<1>6. ReadJsonString(q) = JsonCopy(Trim(q))
  BY <1>1, <1>5, QuotedClosed
<1>7. CASE Kept(Border, t) = {}
  <2>1. AllIn(t, n, Border) /\ n \in 0 .. n
    BY <1>2, <1>7, NothingKept
  <2>2. OfLength(TextByte, w, n) /\ AllIn(w, n, Border)
    BY <1>1, <1>2, <2>1, BorderPlain, PlainWritten
  <2> DEFINE y == w \o h
             k == n + 1
  <2>3. OfLength(TextByte, y, k) /\ AllIn(y, k, Removed)
    <3> HIDE DEF w
    <3> QED BY <2>2, QuoteBefore
  <2>4. OfLength(TextByte, h, 1) /\ h[1] = Quote
    BY RemovedBytes, OneByte DEF OfLength
  <2>5. q = h \o y
    BY DEF q
  <2> HIDE DEF y, h
  <2>6. OfLength(TextByte, q, 1 + k) /\ Joins(q, h, y, 1, k)
    BY <2>3, <2>4, <2>5, TwoPieces
  <2> HIDE DEF k
  <2>7. AllIn(q, 1 + k, Removed)
    <3> SUFFICES ASSUME NEW i \in 1 .. 1 + k PROVE q[i] \in Removed
      BY DEF AllIn
    <3>1. k \in Nat /\ 1 \in 1 .. 1
      BY <2>3 DEF OfLength
    <3>2. CASE i = 1
      <4>1. q[1] = Quote
        BY <2>4, <2>6, <3>1 DEF Joins
      <4> QED BY <3>2, <4>1, RemovedBytes
    <3>3. CASE i # 1
      <4> DEFINE j == i - 1
      <4>1. j \in 1 .. k /\ 1 + j = i
        BY <3>1, <3>3
      <4> HIDE DEF j
      <4>2. q[i] = y[j]
        BY <2>6, <4>1 DEF Joins
      <4> QED BY <2>3, <4>1, <4>2 DEF AllIn
    <3> QED BY <3>2, <3>3
  <2>8. Kept(Removed, q) = {}
    BY <2>6, <2>7, NothingKept
  <2>9. Kept(Removed, <<>>) = {}
    BY DEF Kept
  <2>10. RemoveLeft(Removed, q) = <<>> /\ RemoveRight(Removed, <<>>) = <<>>
    BY <2>8, <2>9, AllRemoved
  <2>11. Trim(q) = <<>>
    BY <2>10 DEF Trim, Removed
  <2>12. Core(t) = <<>>
    BY <1>7 DEF Core, Kept
  <2>13. StringRead(Core(t)) = Readable(<<>>)
    BY <2>12 DEF StringRead
  <2> QED BY <1>4, <1>6, <2>11, <2>13, EmptyRead
<1>8. CASE Kept(Border, t) # {}
  <2> DEFINE core == Core(t)
  <2>1. PICK m, g, x, lx, y, ly :
              /\ OfLength(TextByte, core, m) /\ m # 0 /\ WrittenAs(g, {"json"}, core, m)
              /\ core[1] \notin Border /\ core[m] \notin Border
              /\ Wrapped(q, Concat(g, m), x, lx, y, ly)
    BY <1>1, <1>5, <1>8, CoreWritten
  <2> HIDE DEF core
  <2>2. core # <<>> /\ Len(core) = m
    BY <2>1 DEF OfLength
  <2>3. CASE core[m] = Quote
    <3>1. JsonCopy(Trim(q)) = Unreadable
      BY <2>1, <2>3, CoreRefused
    <3>2. StringRead(core) = Unreadable
      BY <2>2, <2>3 DEF StringRead
    <3> QED BY <1>4, <1>6, <3>1, <3>2 DEF core
  <2>4. CASE core[m] # Quote
    <3>1. JsonCopy(Trim(q)) = Readable(core)
      BY <2>1, <2>4, CoreRead
    <3>2. StringRead(core) = Readable(core)
      BY <2>2, <2>4 DEF StringRead
    <3> QED BY <1>4, <1>6, <3>1, <3>2 DEF core
  <2> QED BY <2>3, <2>4
<1> QED BY <1>7, <1>8

\* Every text without a zero byte is as long as the buffer made for it and is
\* read back by the parser of its kind: whole as an attribute, without the
\* blanks at its start as a content, and as a JSON string without those at its
\* ends, unless it then ends with a quote (string_builder.c, xml_parser.c,
\* json_parser.c).
THEOREM TextsReadBackCorrect == CallsSpec => []TextsReadBack
<1>1. CallsInv => TextsReadBack
  <2> SUFFICES ASSUME CallsInv, Done("text") PROVE TextsReadBack
    BY DEF TextsReadBack
  <2>1. op = "text" /\ answered
    BY DEF Done
  <2>2. input \in TextInputs /\ output = TextAnswer(input)
    BY <2>1 DEF CallsInv, Made
  <2>3. input \in Seq(TextByte)
    BY <2>2, CallsAssumption DEF TextByte
  <2> DEFINE n == Len(input)
             J == ReadJsonString(Quoted(input))
             A == ReadXmlString(<<Quote>> \o Write({"xml"}, input) \o <<Quote>>)
             C == ReadXmlText(Write({"xml"}, input))
  <2>4. OfLength(TextByte, input, n)
    BY <2>3 DEF OfLength
  <2>5. J = StringRead(Core(input)) /\ A = Readable(input)
        /\ C = Readable(RemoveLeft(Spaces, input))
    BY <2>4, StringReadsBack, AttributeReadsBack, ContentReadsBack
  <2>6. output = [json |-> J, attribute |-> A, content |-> C]
    BY <2>2 DEF TextAnswer
  <2> HIDE DEF J, A, C
  <2>7. output.json = J /\ output.attribute = A /\ output.content = C
    BY <2>6
  <2>8. \A flags \in {{}, {"json"}, {"xml"}} :
           BuiltLength(Builder(flags, input)) = Len(BuiltText(Builder(flags, input)))
    BY <2>3, BuiltWithNull DEF Flags
  <2> QED BY <2>5, <2>7, <2>8 DEF TextsReadBack, StringRead
<1> QED BY <1>1, CallsInvHolds, PTL
===============================================================================
