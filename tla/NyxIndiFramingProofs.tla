------------------------- MODULE NyxIndiFramingProofs -------------------------
(***************************************************************************)
(* Proofs about NyxIndiFraming, for every table of tags, every sequence of *)
(* messages and every cutting of the stream into reads.                    *)
(***************************************************************************)
EXTENDS NyxIndiFraming, SequenceTheorems, TLAPS

\* What the handler has not seen or not deleted yet.
Rest == recv \o wire

\* The messages up to number done are gone, whole; the following ones are
\* there, piece by piece; what was handled is among those gone.
Framed(done) ==
    /\ done <= Len(sent)
    /\ Len(Rest) = 2 * (Len(sent) - done)
    /\ \A m \in 1 .. Len(sent) - done :
         Rest[2 * m - 1] = Opening(done + m) /\ Rest[2 * m] = Closing(done + m)
    /\ \A k \in DOMAIN handled : handled[k] <= done
    /\ Len(handled) <= done

FramingInv == FramingTypeOK /\ HandledInOrder /\ \E done \in Nat : Framed(done)

(***************************************************************************)
(* Sequences.                                                              *)
(***************************************************************************)
LEMMA Halves ==
    ASSUME NEW k \in Nat
    PROVE  /\ k % 2 = 1 => \E m \in Nat : k = 2 * m + 1
           /\ k % 2 # 1 => \E m \in Nat : k = 2 * m
<1> DEFINE m == k \div 2
           r == k % 2
<1>1. m \in Nat
  OBVIOUS
<1>2. r \in {0, 1}
  OBVIOUS
<1>3. r + 2 * m = k
  OBVIOUS
<1>4. r = k % 2
  OBVIOUS
<1> HIDE DEF m, r
<1>5. k % 2 = 1 => k = 2 * m + 1
  BY <1>1, <1>2, <1>3, <1>4
<1>6. k % 2 # 1 => k = 2 * m
  BY <1>1, <1>2, <1>3, <1>4
<1> QED BY <1>1, <1>5, <1>6

\* Moving pieces from one sequence to the end of another keeps their
\* concatenation.
Moved(S, a, b, n) ==
    /\ a \o SubSeq(b, 1, n) \in Seq(S)
    /\ SubSeq(b, n + 1, Len(b)) \in Seq(S)
    /\ (a \o SubSeq(b, 1, n)) \o SubSeq(b, n + 1, Len(b)) = a \o b

LEMMA MoveFacts ==
    ASSUME NEW S, NEW a \in Seq(S), NEW b \in Seq(S), NEW n \in 1 .. Len(b)
    PROVE  Moved(S, a, b, n)
<1> DEFINE h == SubSeq(b, 1, n)
           t == SubSeq(b, n + 1, Len(b))
<1>1. Len(a) \in Nat /\ Len(b) \in Nat /\ \A i \in 1 .. Len(b) : b[i] \in S
  BY LenProperties, ElementOfSeq
<1>2. /\ h \in Seq(S) /\ Len(h) = n
      /\ \A i \in 1 .. n : h[i] = b[i]
  BY <1>1, SubSeqProperties
<1>3. /\ t \in Seq(S) /\ Len(t) = Len(b) - n
      /\ \A i \in 1 .. Len(b) - n : t[i] = b[n + i]
  <2>1. \A i \in n + 1 .. Len(b) : b[i] \in S
    BY <1>1
  <2> QED BY <1>1, <2>1, SubSeqProperties
<1> HIDE DEF h, t
<1>4. /\ a \o h \in Seq(S) /\ Len(a \o h) = Len(a) + n
      /\ \A i \in 1 .. Len(a) + n : (a \o h)[i] = IF i <= Len(a) THEN a[i]
                                                  ELSE h[i - Len(a)]
  BY <1>2, ConcatProperties
<1>5. /\ (a \o h) \o t \in Seq(S) /\ Len((a \o h) \o t) = Len(a) + Len(b)
      /\ \A i \in 1 .. Len(a) + Len(b) :
           ((a \o h) \o t)[i] = IF i <= Len(a) + n THEN (a \o h)[i]
                                ELSE t[i - (Len(a) + n)]
  <2> DEFINE g == a \o h
  <2>1. g \in Seq(S) /\ Len(g) = Len(a) + n
    BY <1>4
  <2> HIDE DEF g
  <2>2. /\ g \o t \in Seq(S) /\ Len(g \o t) = Len(g) + Len(t)
        /\ \A i \in 1 .. Len(g) + Len(t) :
             (g \o t)[i] = IF i <= Len(g) THEN g[i] ELSE t[i - Len(g)]
    BY <1>3, <2>1, ConcatProperties
  <2>3. /\ g \o t \in Seq(S) /\ Len(g \o t) = Len(a) + Len(b)
        /\ \A i \in 1 .. Len(a) + Len(b) :
             (g \o t)[i] = IF i <= Len(a) + n THEN g[i] ELSE t[i - (Len(a) + n)]
    BY <1>1, <1>3, <2>1, <2>2
  <2> QED BY <2>3 DEF g
<1>6. /\ a \o b \in Seq(S) /\ Len(a \o b) = Len(a) + Len(b)
      /\ \A i \in 1 .. Len(a) + Len(b) : (a \o b)[i] = IF i <= Len(a) THEN a[i]
                                                       ELSE b[i - Len(a)]
  BY ConcatProperties
<1>7. ASSUME NEW i \in 1 .. Len(a) + Len(b)
      PROVE  ((a \o h) \o t)[i] = (a \o b)[i]
  <2>1. CASE i <= Len(a)
    BY <2>1, <1>1, <1>4, <1>5, <1>6
  <2>2. CASE i > Len(a) /\ i <= Len(a) + n
    <3>1. i - Len(a) \in 1 .. n
      BY <2>2, <1>1
    <3> QED BY <2>2, <3>1, <1>1, <1>2, <1>4, <1>5, <1>6
  <2>3. CASE i > Len(a) + n
    <3>1. i - (Len(a) + n) \in 1 .. Len(b) - n
      BY <2>3, <1>1
    <3>2. t[i - (Len(a) + n)] = b[i - Len(a)]
      BY <3>1, <1>1, <1>3
    <3>3. ((a \o h) \o t)[i] = t[i - (Len(a) + n)]
      BY <2>3, <1>1, <1>5
    <3>4. (a \o b)[i] = b[i - Len(a)]
      BY <2>3, <1>1, <1>6
    <3> QED BY <3>2, <3>3, <3>4
  <2>4. i \in Nat /\ n \in Nat /\ Len(a) \in Nat
    BY <1>1
  <2>5. \/ i <= Len(a)
        \/ i > Len(a) /\ i <= Len(a) + n
        \/ i > Len(a) + n
    BY <2>4
  <2> QED BY <2>1, <2>2, <2>3, <2>5
<1>8. (a \o h) \o t = a \o b
  BY <1>5, <1>6, <1>7, SeqEqual
<1> QED BY <1>3, <1>4, <1>8 DEF h, t, Moved

\* Deleting the first d elements of a sequence deletes those of what it begins.
Deleted(S, a, b, d) ==
    /\ SubSeq(a, d + 1, Len(a)) \in Seq(S)
    /\ Len(SubSeq(a, d + 1, Len(a)) \o b) = Len(a \o b) - d
    /\ \A i \in 1 .. Len(a \o b) - d :
         (SubSeq(a, d + 1, Len(a)) \o b)[i] = (a \o b)[d + i]

LEMMA DeleteFacts ==
    ASSUME NEW S, NEW a \in Seq(S), NEW b \in Seq(S), NEW d \in 0 .. Len(a)
    PROVE  Deleted(S, a, b, d)
<1> DEFINE t == SubSeq(a, d + 1, Len(a))
<1>1. Len(a) \in Nat /\ Len(b) \in Nat /\ \A i \in 1 .. Len(a) : a[i] \in S
  BY LenProperties, ElementOfSeq
<1>2. /\ t \in Seq(S) /\ Len(t) = Len(a) - d
      /\ \A i \in 1 .. Len(a) - d : t[i] = a[d + i]
  <2>1. \A i \in d + 1 .. Len(a) : a[i] \in S
    BY <1>1
  <2> QED BY <1>1, <2>1, SubSeqProperties
<1> HIDE DEF t
<1>3. /\ Len(t \o b) = Len(t) + Len(b)
      /\ \A i \in 1 .. Len(t) + Len(b) : (t \o b)[i] = IF i <= Len(t) THEN t[i]
                                                       ELSE b[i - Len(t)]
  BY <1>2, ConcatProperties
<1>4. /\ Len(a \o b) = Len(a) + Len(b)
      /\ \A i \in 1 .. Len(a) + Len(b) : (a \o b)[i] = IF i <= Len(a) THEN a[i]
                                                       ELSE b[i - Len(a)]
  BY ConcatProperties
<1>5. Len(t \o b) = Len(a \o b) - d
  BY <1>1, <1>2, <1>3, <1>4
<1>6. ASSUME NEW i \in 1 .. Len(a \o b) - d
      PROVE  (t \o b)[i] = (a \o b)[d + i]
  <2>1. /\ i \in 1 .. Len(t) + Len(b) /\ d + i \in 1 .. Len(a) + Len(b)
        /\ i <= Len(t) <=> d + i <= Len(a)
        /\ i - Len(t) = d + i - Len(a)
    BY <1>1, <1>2, <1>4
  <2> QED BY <2>1, <1>1, <1>2, <1>3, <1>4
<1> QED BY <1>2, <1>5, <1>6 DEF t, Deleted

(***************************************************************************)
(* The invariant.                                                          *)
(***************************************************************************)
LEMMA TypeFacts ==
    ASSUME FramingTypeOK
    PROVE  /\ MaxSent \in Nat /\ Len(sent) \in 0 .. MaxSent
           /\ recv \in Seq(Pieces) /\ wire \in Seq(Pieces)
           /\ Rest \in Seq(Pieces) /\ DOMAIN Rest = 1 .. Len(Rest) /\ Len(Rest) \in Nat
           /\ handled \in Seq(1 .. MaxSent) /\ Len(handled) \in Nat
           /\ DOMAIN handled = 1 .. Len(handled)
           /\ \A k \in DOMAIN handled : handled[k] \in Nat
<1>1. /\ MaxSent \in Nat /\ sent \in Seq(AnyTag) /\ Len(sent) <= MaxSent
      /\ recv \in Seq(Pieces) /\ wire \in Seq(Pieces)
      /\ handled \in Seq(1 .. MaxSent)
  BY TagsAssumption DEF FramingTypeOK
<1>2. Len(sent) \in Nat
  BY <1>1, LenProperties
<1>3. Rest \in Seq(Pieces)
  BY <1>1, ConcatProperties DEF Rest
<1>4. DOMAIN Rest = 1 .. Len(Rest) /\ Len(Rest) \in Nat
  BY <1>3, LenProperties
<1>5. Len(handled) \in Nat /\ DOMAIN handled = 1 .. Len(handled)
  BY <1>1, LenProperties
<1>6. \A k \in DOMAIN handled : handled[k] \in Nat
  BY <1>1, <1>5, ElementOfSeq
<1> QED BY <1>1, <1>2, <1>3, <1>4, <1>5, <1>6

LEMMA InitFramingInv == FramingInit => FramingInv
<1> SUFFICES ASSUME FramingInit PROVE FramingInv
  OBVIOUS
<1>1. \A S : <<>> \in Seq(S) /\ Len(<<>>) = 0 /\ DOMAIN <<>> = {}
  BY EmptySeq
<1>2. FramingTypeOK
  BY <1>1, TagsAssumption DEF FramingInit, FramingTypeOK
<1>3. HandledInOrder
  BY <1>1 DEF FramingInit, HandledInOrder
<1>4. Rest = <<>>
  BY <1>1, ConcatEmptySeq DEF FramingInit, Rest
<1>5. Framed(0)
  BY <1>1, <1>4 DEF FramingInit, Framed
<1> QED BY <1>2, <1>3, <1>5 DEF FramingInv

\* Where a piece stands says which one it is.
LEMMA PieceFacts ==
    ASSUME FramingTypeOK, NEW done \in Nat, Framed(done), NEW k \in DOMAIN Rest
    PROVE  \E m \in 1 .. Len(sent) - done :
             \/ k = 2 * m - 1 /\ Rest[k] = Opening(done + m)
             \/ k = 2 * m /\ Rest[k] = Closing(done + m)
<1>1. /\ k \in Nat \ {0} /\ k <= 2 * (Len(sent) - done) /\ Len(sent) - done \in Nat
  BY TypeFacts DEF Framed
<1>2. CASE k % 2 = 1
  <2>1. PICK m \in Nat : k = 2 * m + 1
    BY <1>1, <1>2, Halves
  <2>2. m + 1 \in 1 .. Len(sent) - done /\ k = 2 * (m + 1) - 1
    BY <1>1, <2>1
  <2> QED BY <2>2 DEF Framed
<1>3. CASE k % 2 # 1
  <2>1. PICK m \in Nat : k = 2 * m
    BY <1>1, <1>3, Halves
  <2>2. m \in 1 .. Len(sent) - done
    BY <1>1, <2>1
  <2> QED BY <2>1, <2>2 DEF Framed
<1> QED BY <1>2, <1>3

\* Two pieces more at the end of what is on its way.
TwoMore(S, a, b, p, q) ==
    /\ b \o <<p, q>> \in Seq(S)
    /\ Len(a \o (b \o <<p, q>>)) = Len(a \o b) + 2
    /\ \A i \in 1 .. Len(a \o b) : (a \o (b \o <<p, q>>))[i] = (a \o b)[i]
    /\ (a \o (b \o <<p, q>>))[Len(a \o b) + 1] = p
    /\ (a \o (b \o <<p, q>>))[Len(a \o b) + 2] = q

LEMMA TwoMoreFacts ==
    ASSUME NEW S, NEW a \in Seq(S), NEW b \in Seq(S), NEW p \in S, NEW q \in S
    PROVE  TwoMore(S, a, b, p, q)
<1> DEFINE e == <<p, q>>
           g == b \o e
<1>1. Len(a) \in Nat /\ Len(b) \in Nat
  BY LenProperties
<1>2. e \in Seq(S) /\ Len(e) = 2 /\ e[1] = p /\ e[2] = q
  OBVIOUS
<1> HIDE DEF e
<1>3. /\ g \in Seq(S) /\ Len(g) = Len(b) + 2
      /\ \A i \in 1 .. Len(b) + 2 : g[i] = IF i <= Len(b) THEN b[i] ELSE e[i - Len(b)]
  <2>1. /\ g \in Seq(S) /\ Len(g) = Len(b) + Len(e)
        /\ \A i \in 1 .. Len(b) + Len(e) :
             g[i] = IF i <= Len(b) THEN b[i] ELSE e[i - Len(b)]
    BY <1>2, ConcatProperties
  <2> HIDE DEF g
  <2> QED BY <2>1, <1>2
<1> HIDE DEF g
<1>4. g \in Seq(S)
  BY <1>3
<1>5. /\ Len(a \o g) = Len(a) + Len(g)
      /\ \A i \in 1 .. Len(a) + Len(g) : (a \o g)[i] = IF i <= Len(a) THEN a[i]
                                                       ELSE g[i - Len(a)]
  BY <1>4, ConcatProperties
<1>6. /\ Len(a \o b) = Len(a) + Len(b)
      /\ \A i \in 1 .. Len(a) + Len(b) : (a \o b)[i] = IF i <= Len(a) THEN a[i]
                                                       ELSE b[i - Len(a)]
  BY ConcatProperties
<1>7. ASSUME NEW i \in 1 .. Len(a \o b)
      PROVE  (a \o g)[i] = (a \o b)[i]
  <2>1. i > Len(a) => i - Len(a) \in 1 .. Len(b)
    BY <1>1, <1>6
  <2>2. i > Len(a) => g[i - Len(a)] = b[i - Len(a)]
    <3>1. ASSUME NEW j \in 1 .. Len(b) PROVE g[j] = b[j]
      BY <1>1, <1>3
    <3> QED BY <2>1, <3>1
  <2> QED BY <1>1, <1>3, <1>5, <1>6, <2>2
<1>8. (a \o g)[Len(a \o b) + 1] = p /\ (a \o g)[Len(a \o b) + 2] = q
  <2>1. g[Len(b) + 1] = p /\ g[Len(b) + 2] = q
    BY <1>1, <1>2, <1>3
  <2>2. \A j \in {1, 2} : (a \o g)[Len(a) + Len(b) + j] = g[Len(b) + j]
    <3>1. ASSUME NEW j \in {1, 2}
          PROVE  (a \o g)[Len(a) + Len(b) + j] = g[Len(b) + j]
      <4>1. Len(a) + Len(b) + j \in 1 .. Len(a) + Len(g)
        BY <1>1, <1>3
      <4>2. ~(Len(a) + Len(b) + j <= Len(a))
        BY <1>1
      <4>3. Len(a) + Len(b) + j - Len(a) = Len(b) + j
        BY <1>1
      <4> QED BY <1>5, <4>1, <4>2, <4>3
    <3> QED BY <3>1
  <2> QED BY <1>1, <1>6, <2>1, <2>2
<1> QED BY <1>1, <1>3, <1>5, <1>6, <1>7, <1>8 DEF g, e, TwoMore

\* Nothing is handled or deleted.
Keeps(done) ==
    /\ Framed(done) /\ Framed(done)'
    /\ handled' = handled
    /\ \A n \in 1 .. done : sent'[n] = sent[n]

LEMMA SendKeeps ==
    ASSUME FramingInv, NEW t \in AnyTag, Send(t)
    PROVE  FramingInv' /\ \E done \in Nat : Keeps(done)
<1> DEFINE n == Len(sent) + 1
<1>1. FramingTypeOK /\ HandledInOrder
  BY DEF FramingInv
<1>2. PICK done \in Nat : Framed(done)
  BY DEF FramingInv
<1>3. /\ sent \in Seq(AnyTag) /\ Len(sent) \in Nat /\ n \in 1 .. MaxSent
      /\ sent' = Append(sent, t)
      /\ wire' = wire \o <<Opening(n), Closing(n)>>
      /\ recv' = recv /\ handled' = handled
  BY <1>1, TypeFacts DEF Send, FramingTypeOK
<1>4. Opening(n) \in Pieces /\ Closing(n) \in Pieces
  BY <1>3 DEF Opening, Closing, Pieces
<1>5. sent' \in Seq(AnyTag) /\ Len(sent') = n
  BY <1>3, AppendProperties
<1> HIDE DEF n
<1>6. /\ wire' \in Seq(Pieces)
      /\ Len(Rest') = Len(Rest) + 2
      /\ \A i \in 1 .. Len(Rest) : Rest'[i] = Rest[i]
      /\ Rest'[Len(Rest) + 1] = Opening(n) /\ Rest'[Len(Rest) + 2] = Closing(n)
  <2>1. recv \in Seq(Pieces) /\ wire \in Seq(Pieces)
    BY <1>1, TypeFacts
  <2>2. Rest' = recv \o (wire \o <<Opening(n), Closing(n)>>)
    BY <1>3 DEF Rest
  <2>3. TwoMore(Pieces, recv, wire, Opening(n), Closing(n))
    BY <2>1, <1>4, TwoMoreFacts
  <2> QED BY <2>2, <2>3, <1>3 DEF Rest, TwoMore
<1>7. FramingTypeOK'
  BY <1>1, <1>3, <1>5, <1>6, TypeFacts DEF FramingTypeOK, n
<1>8. HandledInOrder'
  BY <1>1, <1>3 DEF HandledInOrder
<1>9. Framed(done)'
  <2>1. Len(sent) \in Nat /\ Len(Rest) \in Nat /\ done \in Nat /\ done <= Len(sent)
        /\ Len(Rest) = 2 * (Len(sent) - done) /\ n = Len(sent) + 1
    BY <1>1, <1>2, TypeFacts DEF Framed, n
  <2>2. Len(Rest') = 2 * (Len(sent') - done) /\ done <= Len(sent')
    BY <2>1, <1>5, <1>6
  <2>3. ASSUME NEW m \in 1 .. Len(sent') - done
        PROVE  /\ Rest'[2 * m - 1] = Opening(done + m)
               /\ Rest'[2 * m] = Closing(done + m)
    <3>1. CASE m <= Len(sent) - done
      <4>1. m \in 1 .. Len(sent) - done
        BY <2>1, <1>5, <3>1
      <4>2. 2 * m - 1 \in 1 .. Len(Rest) /\ 2 * m \in 1 .. Len(Rest)
        BY <2>1, <4>1
      <4> QED BY <4>1, <4>2, <1>2, <1>6 DEF Framed
    <3>2. CASE ~(m <= Len(sent) - done)
      <4>1. done + m = n /\ 2 * m - 1 = Len(Rest) + 1 /\ 2 * m = Len(Rest) + 2
        BY <2>1, <1>5, <3>2
      <4> QED BY <4>1, <1>6
    <3> QED BY <3>1, <3>2
  <2> QED BY <2>2, <2>3, <1>2, <1>3 DEF Framed, Opening, Closing
<1>10. Keeps(done)
  <2>1. \A i \in 1 .. Len(sent) : sent'[i] = sent[i]
    BY <1>3, AppendProperties
  <2>2. done <= Len(sent)
    BY <1>2 DEF Framed
  <2>3. \A i \in 1 .. done : sent'[i] = sent[i]
    BY <2>1, <2>2, <1>3
  <2> QED BY <2>3, <1>2, <1>3, <1>9 DEF Keeps
<1> QED BY <1>7, <1>8, <1>9, <1>10 DEF FramingInv

\* A read of n pieces that handles the message at pos and deletes up to last.
Handles(n, buf, pos, last) ==
    /\ wire' = SubSeq(wire, n + 1, Len(wire))
    /\ buf = recv \o SubSeq(wire, 1, n)
    /\ pos \in DOMAIN buf /\ last \in DOMAIN buf
    /\ DetectsOpening(buf, pos) /\ DetectsClosing(buf, pos, last)
    /\ handled' = Append(handled, buf[pos].msg)
    /\ recv' = SubSeq(buf, last + 1, Len(buf))
    /\ sent' = sent

\* Message done + p is handled: it outranks those before it, and all of them
\* are deleted with it.
Takes(done, p) ==
    /\ Framed(done) /\ Framed(done + p)'
    /\ p \in 1 .. Len(sent) - done
    /\ handled' = Append(handled, done + p) /\ sent' = sent
    /\ \A n \in done + 1 .. done + p - 1 :
         sent[n] \in Unlisted \/ Rank(sent[done + p]) < Rank(sent[n])

\* It deletes that message, and what stands before it, whole.
LEMMA HandleKeeps ==
    ASSUME FramingInv, NEW n \in 1 .. Len(wire), NEW buf, NEW pos, NEW last,
           Handles(n, buf, pos, last)
    PROVE  FramingInv' /\ \E done \in Nat, p \in Nat : Takes(done, p)
<1>1. FramingTypeOK /\ HandledInOrder
  BY DEF FramingInv
<1>2. PICK done \in Nat : Framed(done)
  BY DEF FramingInv
<1>3. /\ buf \in Seq(Pieces) /\ wire' \in Seq(Pieces)
      /\ buf \o wire' = Rest
  <2>1. recv \in Seq(Pieces) /\ wire \in Seq(Pieces)
    BY <1>1, TypeFacts
  <2>2. /\ wire' = SubSeq(wire, n + 1, Len(wire))
        /\ buf = recv \o SubSeq(wire, 1, n)
    BY DEF Handles
  <2>3. Moved(Pieces, recv, wire, n)
    BY <2>1, MoveFacts
  <2> QED BY <2>2, <2>3 DEF Rest, Moved
<1>4. /\ Len(buf) \in Nat /\ Len(wire') \in Nat
      /\ DOMAIN buf = 1 .. Len(buf) /\ Len(Rest) = Len(buf) + Len(wire')
      /\ \A k \in 1 .. Len(buf) : Rest[k] = buf[k]
  <2>1. /\ Len(Rest) = Len(buf) + Len(wire')
        /\ \A k \in 1 .. Len(buf) + Len(wire') :
             Rest[k] = IF k <= Len(buf) THEN buf[k] ELSE wire'[k - Len(buf)]
    <3>1. /\ Len(buf \o wire') = Len(buf) + Len(wire')
          /\ \A k \in 1 .. Len(buf) + Len(wire') :
               (buf \o wire')[k] = IF k <= Len(buf) THEN buf[k] ELSE wire'[k - Len(buf)]
      BY <1>3, ConcatProperties
    <3> QED BY <3>1, <1>3
  <2>2. Len(buf) \in Nat /\ Len(wire') \in Nat /\ DOMAIN buf = 1 .. Len(buf)
    BY <1>3, LenProperties
  <2> QED BY <2>1, <2>2
<1>5. /\ pos \in 1 .. Len(Rest) /\ last \in 1 .. Len(Rest) /\ pos <= last
      /\ pos \in 1 .. Len(buf) /\ last \in 1 .. Len(buf)
      /\ Rest[pos] = buf[pos] /\ Rest[last] = buf[last]
      /\ buf[pos].piece = "opening" /\ buf[last].piece = "closing"
  <2>1. /\ pos \in 1 .. Len(buf) /\ last \in 1 .. Len(buf) /\ pos <= last
        /\ buf[pos].piece = "opening" /\ buf[last].piece = "closing"
    BY <1>4 DEF Handles, DetectsOpening, DetectsClosing, Openings, Closes
  <2> QED BY <2>1, <1>4
<1>6. PICK p \in 1 .. Len(sent) - done :
         pos = 2 * p - 1 /\ buf[pos].msg = done + p
  <2>1. PICK p \in 1 .. Len(sent) - done :
           \/ pos = 2 * p - 1 /\ Rest[pos] = Opening(done + p)
           \/ pos = 2 * p /\ Rest[pos] = Closing(done + p)
    <3>1. DOMAIN Rest = 1 .. Len(Rest)
      BY <1>1, TypeFacts
    <3> QED BY <3>1, <1>1, <1>2, <1>5, PieceFacts
  <2>2. /\ Opening(done + p).piece = "opening" /\ Opening(done + p).msg = done + p
        /\ Closing(done + p).piece = "closing"
    BY DEF Opening, Closing
  <2>3. Rest[pos] = buf[pos] /\ buf[pos].piece = "opening"
    BY <1>5
  <2> QED BY <2>1, <2>2, <2>3
<1>7. PICK m \in 1 .. Len(sent) - done : last = 2 * m
  <2>1. PICK m \in 1 .. Len(sent) - done :
           \/ last = 2 * m - 1 /\ Rest[last] = Opening(done + m)
           \/ last = 2 * m /\ Rest[last] = Closing(done + m)
    <3>1. DOMAIN Rest = 1 .. Len(Rest)
      BY <1>1, TypeFacts
    <3> QED BY <3>1, <1>1, <1>2, <1>5, PieceFacts
  <2> QED BY <2>1, <1>5 DEF Opening, Closing
<1>8. /\ recv' \in Seq(Pieces)
      /\ Len(Rest') = Len(Rest) - last
      /\ \A i \in 1 .. Len(Rest) - last : Rest'[i] = Rest[last + i]
  <2>1. last \in 0 .. Len(buf)
    BY <1>4 DEF Handles
  <2>2. Rest' = SubSeq(buf, last + 1, Len(buf)) \o wire'
    BY DEF Rest, Handles
  <2>3. recv' = SubSeq(buf, last + 1, Len(buf))
    BY DEF Handles
  <2>4. /\ SubSeq(buf, last + 1, Len(buf)) \in Seq(Pieces)
        /\ Len(SubSeq(buf, last + 1, Len(buf)) \o wire') = Len(buf \o wire') - last
        /\ \A i \in 1 .. Len(buf \o wire') - last :
             (SubSeq(buf, last + 1, Len(buf)) \o wire')[i] = (buf \o wire')[last + i]
    <3>1. last \in 0 .. Len(buf) /\ buf \in Seq(Pieces) /\ wire' \in Seq(Pieces)
      BY <2>1, <1>3
    <3>2. Deleted(Pieces, buf, wire', last)
      BY <3>1, DeleteFacts
    <3> QED BY <3>2 DEF Deleted
  <2> QED BY <2>2, <2>3, <2>4, <1>3
<1>9. /\ Len(sent) \in Nat /\ MaxSent \in Nat /\ Len(sent) <= MaxSent
      /\ Len(Rest) = 2 * (Len(sent) - done) /\ done <= Len(sent)
      /\ handled \in Seq(1 .. MaxSent) /\ Len(handled) \in Nat
      /\ Len(handled) <= done /\ DOMAIN handled = 1 .. Len(handled)
      /\ \A k \in 1 .. Len(handled) : handled[k] \in Nat /\ handled[k] <= done
      /\ done \in Nat /\ sent' = sent
  <2>1. /\ MaxSent \in Nat /\ Len(sent) \in 0 .. MaxSent
        /\ handled \in Seq(1 .. MaxSent) /\ Len(handled) \in Nat
        /\ DOMAIN handled = 1 .. Len(handled)
        /\ \A k \in DOMAIN handled : handled[k] \in Nat
    BY <1>1, TypeFacts
  <2>2. /\ done \in Nat /\ done <= Len(sent)
        /\ Len(Rest) = 2 * (Len(sent) - done)
        /\ \A k \in DOMAIN handled : handled[k] <= done
        /\ Len(handled) <= done
    BY <1>2 DEF Framed
  <2>3. sent' = sent
    BY DEF Handles
  <2>4. \A k \in 1 .. Len(handled) : handled[k] \in Nat /\ handled[k] <= done
    BY <2>1, <2>2
  <2>5. Len(sent) \in Nat /\ Len(sent) <= MaxSent
    BY <2>1
  <2> QED BY <2>1, <2>2, <2>3, <2>4, <2>5
<1>10. m = p
  <2>1. 2 * p \in pos .. Len(Rest) /\ pos <= last /\ last <= Len(buf)
    BY <1>4, <1>5, <1>6, <1>7, <1>9
  <2>2. CASE last > 2 * p
    <3>1. 2 * p \in pos .. last - 1 /\ 2 * p \in 1 .. Len(buf)
      <4>1. /\ pos = 2 * p - 1 /\ p \in Nat \ {0} /\ last \in Nat
        BY <1>5, <1>6, <1>9
      <4>2. last <= Len(buf) /\ Len(buf) \in Nat
        BY <1>4, <1>5
      <4> QED BY <4>1, <4>2, <2>2
    <3>2. buf[2 * p] = Closing(done + p)
      BY <3>1, <1>2, <1>4, <1>6 DEF Framed
    <3>3. Closes(buf[2 * p], TagOf(buf[pos]))
      BY <3>2, <1>6 DEF Closes, Closing, TagOf
    <3>4. ~Closes(buf[2 * p], TagOf(buf[pos]))
      BY <3>1 DEF Handles, DetectsClosing
    <3> QED BY <3>3, <3>4
  <2>3. CASE ~(last > 2 * p)
    BY <2>1, <2>3, <1>6, <1>7, <1>9
  <2> QED BY <2>2, <2>3
<1>11. /\ handled' \in Seq(1 .. MaxSent) /\ Len(handled') = Len(handled) + 1
       /\ DOMAIN handled' = 1 .. Len(handled) + 1
       /\ \A k \in 1 .. Len(handled) : handled'[k] = handled[k]
       /\ handled'[Len(handled) + 1] = done + p
  <2>1. done + p \in 1 .. MaxSent
    BY <1>6, <1>9
  <2>2. handled' = Append(handled, done + p)
    BY <1>6 DEF Handles
  <2>3. /\ handled' \in Seq(1 .. MaxSent) /\ Len(handled') = Len(handled) + 1
        /\ \A k \in 1 .. Len(handled) : handled'[k] = handled[k]
        /\ handled'[Len(handled) + 1] = done + p
    BY <2>1, <2>2, <1>9, AppendProperties
  <2>4. DOMAIN handled' = 1 .. Len(handled')
    BY <2>3, LenProperties
  <2> QED BY <2>3, <2>4
<1>12. HandledInOrder'
  <2>1. ASSUME NEW j \in DOMAIN handled', NEW k \in DOMAIN handled', j < k
        PROVE  handled'[j] < handled'[k]
    <3>1. j \in 1 .. Len(handled)
      BY <2>1, <1>9, <1>11
    <3>2. CASE k <= Len(handled)
      <4>1. k \in 1 .. Len(handled)
        BY <3>2, <1>9, <1>11
      <4> QED BY <2>1, <3>1, <4>1, <1>1, <1>9, <1>11 DEF HandledInOrder
    <3>3. CASE ~(k <= Len(handled))
      <4>1. handled'[k] = done + p
        BY <3>3, <1>9, <1>11
      <4>2. handled'[j] = handled[j] /\ handled[j] \in Nat /\ handled[j] <= done
        BY <3>1, <1>9, <1>11
      <4> QED BY <4>1, <4>2, <1>6
    <3> QED BY <3>2, <3>3
  <2> QED BY <2>1 DEF HandledInOrder
<1>13. Framed(done + m)'
  <2>1. done + m <= Len(sent) /\ Len(Rest') = 2 * (Len(sent) - (done + m))
    BY <1>7, <1>8, <1>9
  <2>2. ASSUME NEW j \in 1 .. Len(sent) - (done + m)
        PROVE  /\ Rest'[2 * j - 1] = Opening(done + m + j)
               /\ Rest'[2 * j] = Closing(done + m + j)
    <3>1. m + j \in 1 .. Len(sent) - done
      BY <1>7, <1>9
    <3>2. /\ 2 * j - 1 \in 1 .. Len(Rest) - last /\ 2 * j \in 1 .. Len(Rest) - last
          /\ last + (2 * j - 1) = 2 * (m + j) - 1 /\ last + 2 * j = 2 * (m + j)
          /\ done + (m + j) = done + m + j
      BY <1>7, <1>9
    <3>3. /\ Rest[2 * (m + j) - 1] = Opening(done + (m + j))
          /\ Rest[2 * (m + j)] = Closing(done + (m + j))
      BY <3>1, <1>2 DEF Framed
    <3>4. Rest'[2 * j - 1] = Rest[2 * (m + j) - 1]
      BY <3>2, <1>8
    <3>5. Rest'[2 * j] = Rest[2 * (m + j)]
      BY <3>2, <1>8
    <3> QED BY <3>2, <3>3, <3>4, <3>5
  <2>3. \A k \in DOMAIN handled' : handled'[k] <= done + m
    <3>1. ASSUME NEW k \in DOMAIN handled' PROVE handled'[k] <= done + m
      <4>1. CASE k <= Len(handled)
        <5>1. k \in 1 .. Len(handled)
          BY <4>1, <1>9, <1>11
        <5>2. handled'[k] = handled[k] /\ handled[k] \in Nat /\ handled[k] <= done
          BY <5>1, <1>9, <1>11
        <5>3. done \in Nat /\ m \in Nat
          BY <1>7, <1>9
        <5> QED BY <5>2, <5>3
      <4>2. CASE ~(k <= Len(handled))
        <5>1. handled'[k] = done + p
          BY <4>2, <1>9, <1>11
        <5> QED BY <5>1, <1>6, <1>7, <1>10
      <4> QED BY <4>1, <4>2
    <3> QED BY <3>1
  <2>4. Len(handled') <= done + m
    BY <1>7, <1>9, <1>11
  <2> QED BY <2>1, <2>2, <2>3, <2>4, <1>9 DEF Framed, Opening, Closing
<1>14. FramingTypeOK'
  <2>1. Len(handled') <= Len(sent)
    BY <1>7, <1>9, <1>11
  <2> QED BY <2>1, <1>1, <1>3, <1>8, <1>9, <1>11 DEF FramingTypeOK
<1>15. done + m \in Nat
  BY <1>7, <1>9
<1>16. ASSUME NEW k \in done + 1 .. done + p - 1
       PROVE  sent[k] \in Unlisted \/ Rank(sent[done + p]) < Rank(sent[k])
  <2>1. PICK i \in DOMAIN TAGS :
          /\ pos \in Openings(buf, TAGS[i])
          /\ \A l \in Openings(buf, TAGS[i]) : pos <= l
          /\ \A j \in 1 .. i - 1 : Openings(buf, TAGS[j]) = {}
    BY DEF Handles, DetectsOpening
  <2>2. DOMAIN TAGS = 1 .. Len(TAGS) /\ Len(TAGS) \in Nat
    BY TagsAssumption, LenProperties
  <2>3. \A j \in DOMAIN TAGS : Rank(TAGS[j]) = j
    BY TagsAssumption DEF Rank
  <2>4. sent[done + p] = TAGS[i]
    BY <2>1, <1>6 DEF Openings, TagOf
  <2> DEFINE q == k - done
             at == 2 * q - 1
  <2>5. q \in 1 .. Len(sent) - done /\ at \in 1 .. Len(buf) /\ at < pos
    <3>1. /\ done \in Nat /\ Len(sent) \in Nat /\ Len(buf) \in Nat /\ p \in Nat
          /\ pos = 2 * p - 1 /\ pos <= Len(buf) /\ p <= Len(sent) - done
      BY <1>4, <1>5, <1>6, <1>9
    <3>2. q \in 1 .. p - 1
      BY <3>1
    <3> QED BY <3>1, <3>2
  <2>6. buf[at] = Opening(k)
    <3>1. Rest[at] = Opening(done + q)
      BY <2>5, <1>2 DEF Framed
    <3>2. done + q = k
      BY <1>9
    <3> QED BY <3>1, <3>2, <2>5, <1>4
  <2> HIDE DEF at
  <2>7. at \in Openings(buf, sent[k])
    BY <2>5, <2>6, <1>4 DEF Openings, Opening, TagOf
  <2>8. k \in 1 .. Len(sent)
    BY <1>6, <1>9
  <2>9. sent[k] \in AnyTag
    BY <2>8, <1>1, ElementOfSeq DEF FramingTypeOK
  <2>10. ASSUME NEW j \in DOMAIN TAGS, sent[k] = TAGS[j]
         PROVE  i < j
    <3>1. j # i
      BY <2>1, <2>5, <2>7, <2>10, <1>5
    <3>2. j \notin 1 .. i - 1
      BY <2>1, <2>7, <2>10
    <3> QED BY <3>1, <3>2, <2>2
  <2> QED BY <2>3, <2>4, <2>9, <2>10 DEF AnyTag, Listed
<1>17. Takes(done, p)
  BY <1>2, <1>6, <1>9, <1>10, <1>13, <1>16 DEF Takes, Handles
<1>18. p \in Nat
  BY <1>6, <1>9
<1> QED BY <1>12, <1>13, <1>14, <1>15, <1>17, <1>18 DEF FramingInv

LEMMA ReadKeeps ==
    ASSUME FramingInv, NEW n \in 1 .. Len(wire), Read(n)
    PROVE  /\ FramingInv'
           /\ \E done \in Nat : Keeps(done) \/ \E p \in Nat : Takes(done, p)
<1> DEFINE buf == recv \o SubSeq(wire, 1, n)
<1>1. CASE \E pos, last \in DOMAIN buf :
             /\ DetectsOpening(buf, pos) /\ DetectsClosing(buf, pos, last)
             /\ handled' = Append(handled, buf[pos].msg)
             /\ recv' = SubSeq(buf, Consumed(pos, last) + 1, Len(buf))
  <2>1. PICK pos \in DOMAIN buf, last \in DOMAIN buf :
             /\ DetectsOpening(buf, pos) /\ DetectsClosing(buf, pos, last)
             /\ handled' = Append(handled, buf[pos].msg)
             /\ recv' = SubSeq(buf, last + 1, Len(buf))
    BY <1>1 DEF Consumed
  <2>2. wire' = SubSeq(wire, n + 1, Len(wire)) /\ sent' = sent
    BY DEF Read
  <2>3. Handles(n, buf, pos, last)
    BY <2>1, <2>2 DEF Handles
  <2> HIDE DEF buf
  <2> QED BY <2>3, HandleKeeps
<1>2. CASE recv' = buf /\ handled' = handled
  <2>1. FramingTypeOK /\ HandledInOrder
    BY DEF FramingInv
  <2>2. PICK done \in Nat : Framed(done)
    BY DEF FramingInv
  <2>3. wire' = SubSeq(wire, n + 1, Len(wire)) /\ sent' = sent
    BY DEF Read
  <2>4. Moved(Pieces, recv, wire, n)
    BY <2>1, TypeFacts, MoveFacts
  <2>5. recv' \in Seq(Pieces) /\ wire' \in Seq(Pieces) /\ Rest' = Rest
    BY <1>2, <2>3, <2>4 DEF Moved, Rest
  <2>6. FramingTypeOK'
    BY <1>2, <2>1, <2>3, <2>5 DEF FramingTypeOK
  <2>7. HandledInOrder'
    BY <1>2, <2>1 DEF HandledInOrder
  <2>8. Framed(done)'
    BY <1>2, <2>2, <2>3, <2>5 DEF Framed, Opening, Closing
  <2>9. Keeps(done)
    BY <1>2, <2>2, <2>3, <2>8 DEF Keeps
  <2> QED BY <2>6, <2>7, <2>8, <2>9 DEF FramingInv
<1> QED BY <1>1, <1>2 DEF Read

LEMMA NextFramingInv == FramingInv /\ [FramingNext]_framingVars => FramingInv'
<1> SUFFICES ASSUME FramingInv, [FramingNext]_framingVars PROVE FramingInv'
  OBVIOUS
<1>1. CASE UNCHANGED framingVars
  BY <1>1
     DEF framingVars, FramingInv, FramingTypeOK, HandledInOrder, Framed, Rest,
         Opening, Closing
<1> QED BY <1>1, SendKeeps, ReadKeeps DEF FramingNext

LEMMA FramingCorrect == FramingSpec => []FramingInv
  BY InitFramingInv, NextFramingInv, PTL DEF FramingSpec

\* Every variable keeps its type, and no more messages are handled than sent.
THEOREM FramingTypeCorrect == FramingSpec => []FramingTypeOK
<1>1. FramingInv => FramingTypeOK
  BY DEF FramingInv
<1> QED BY <1>1, FramingCorrect, PTL

\* Whatever the table of tags, the messages and the reads, messages are handled
\* in the order they were sent, none twice (_tcp_handler and xml_stream.c).
THEOREM HandledInOrderCorrect == FramingSpec => []HandledInOrder
<1>1. FramingInv => HandledInOrder
  BY DEF FramingInv
<1> QED BY <1>1, FramingCorrect, PTL

\* What a read deletes from the buffer always ends where a message ends.
THEOREM WholeMessagesCorrect == FramingSpec => []WholeMessages
<1>1. FramingInv => WholeMessages
  <2> SUFFICES ASSUME FramingInv
               PROVE  /\ \A k \in DOMAIN Rest :
                           Rest[k].piece = (IF k % 2 = 1 THEN "opening" ELSE "closing")
                      /\ \A k \in 1 .. Len(Rest) - 1 :
                           Rest[k + 1].msg = (IF k % 2 = 1 THEN Rest[k].msg
                                                           ELSE Rest[k].msg + 1)
    BY DEF WholeMessages, Rest
  <2>1. FramingTypeOK
    BY DEF FramingInv
  <2>2. PICK done \in Nat : Framed(done)
    BY DEF FramingInv
  <2>3. /\ Len(sent) - done \in Nat /\ Len(Rest) = 2 * (Len(sent) - done)
        /\ DOMAIN Rest = 1 .. Len(Rest)
    BY <2>1, <2>2, TypeFacts DEF Framed
  <2>4. ASSUME NEW k \in DOMAIN Rest
        PROVE  Rest[k].piece = (IF k % 2 = 1 THEN "opening" ELSE "closing")
    <3>1. PICK m \in 1 .. Len(sent) - done :
             \/ k = 2 * m - 1 /\ Rest[k] = Opening(done + m)
             \/ k = 2 * m /\ Rest[k] = Closing(done + m)
      BY <2>1, <2>2, PieceFacts
    <3>2. (2 * m - 1) % 2 = 1 /\ (2 * m) % 2 = 0
      BY <2>3
    <3> QED BY <3>1, <3>2 DEF Opening, Closing
  <2>5. ASSUME NEW k \in 1 .. Len(Rest) - 1
        PROVE  Rest[k + 1].msg = (IF k % 2 = 1 THEN Rest[k].msg ELSE Rest[k].msg + 1)
    <3>0. k \in DOMAIN Rest /\ k + 1 \in DOMAIN Rest
      BY <2>3
    <3>1. PICK m \in 1 .. Len(sent) - done :
             \/ k = 2 * m - 1 /\ Rest[k] = Opening(done + m)
             \/ k = 2 * m /\ Rest[k] = Closing(done + m)
      BY <2>1, <2>2, <3>0, PieceFacts
    <3>2. PICK l \in 1 .. Len(sent) - done :
             \/ k + 1 = 2 * l - 1 /\ Rest[k + 1] = Opening(done + l)
             \/ k + 1 = 2 * l /\ Rest[k + 1] = Closing(done + l)
      BY <2>1, <2>2, <3>0, PieceFacts
    <3>3. (2 * m - 1) % 2 = 1 /\ (2 * m) % 2 = 0
      BY <2>3
    <3>4. CASE k = 2 * m - 1 /\ Rest[k] = Opening(done + m)
      <4>1. l = m /\ k + 1 = 2 * l /\ Rest[k + 1] = Closing(done + l)
        BY <2>3, <3>2, <3>4
      <4> QED BY <3>3, <3>4, <4>1 DEF Opening, Closing
    <3>5. CASE k = 2 * m /\ Rest[k] = Closing(done + m)
      <4>1. l = m + 1 /\ k + 1 = 2 * l - 1 /\ Rest[k + 1] = Opening(done + l)
        BY <2>3, <3>2, <3>5
      <4>2. done + l = done + m + 1
        BY <4>1
      <4> QED BY <3>3, <3>5, <4>1, <4>2 DEF Opening, Closing
    <3> QED BY <3>1, <3>4, <3>5
  <2> QED BY <2>4, <2>5
<1> QED BY <1>1, FramingCorrect, PTL

(***************************************************************************)
(* What is lost.                                                           *)
(***************************************************************************)

\* Every message that is gone but was not handled gave way to a later one.
Explained(done) ==
    \A n \in 1 .. done : n \notin Handled =>
        \E m \in Handled : /\ m \in n + 1 .. done
                           /\ \/ sent[n] \in Unlisted
                              \/ Rank(sent[m]) < Rank(sent[n])

LostInv == FramingInv /\ \E done \in Nat : Framed(done) /\ Explained(done)

LEMMA InitLostInv == FramingInit => LostInv
<1> SUFFICES ASSUME FramingInit PROVE LostInv
  OBVIOUS
<1>1. FramingInv
  BY InitFramingInv
<1>2. PICK done \in Nat : Framed(done)
  BY <1>1 DEF FramingInv
<1>3. Len(sent) = 0
  BY EmptySeq DEF FramingInit
<1>4. 1 .. done = {}
  BY <1>2, <1>3 DEF Framed
<1>5. Explained(done)
  BY <1>4 DEF Explained
<1> QED BY <1>1, <1>2, <1>5 DEF LostInv

\* The number of messages gone is determined by the state.
LEMMA FramedOnce ==
    ASSUME FramingTypeOK, NEW d \in Nat, NEW e \in Nat, Framed(d), Framed(e)
    PROVE  d = e
<1>1. Len(sent) \in Nat /\ Len(Rest) \in Nat
  BY TypeFacts
<1>2. 2 * (Len(sent) - d) = 2 * (Len(sent) - e)
  BY DEF Framed
<1> QED BY <1>1, <1>2

LEMMA TakesExplained ==
    ASSUME FramingInv, NEW done \in Nat, NEW p \in Nat, Takes(done, p),
           Explained(done)
    PROVE  Explained(done + p)'
<1>1. /\ Len(handled) \in Nat /\ DOMAIN handled = 1 .. Len(handled)
      /\ handled \in Seq(1 .. MaxSent) /\ Len(sent) \in 0 .. MaxSent /\ MaxSent \in Nat
  BY TypeFacts DEF FramingInv
<1>2. /\ p \in 1 .. Len(sent) - done /\ sent' = sent
      /\ handled' = Append(handled, done + p)
      /\ \A n \in done + 1 .. done + p - 1 :
           sent[n] \in Unlisted \/ Rank(sent[done + p]) < Rank(sent[n])
  BY DEF Takes
<1>3. done + p \in 1 .. MaxSent
  BY <1>1, <1>2
<1>4. Handled' = Handled \cup {done + p}
  <2>1. /\ handled' \in Seq(1 .. MaxSent) /\ Len(handled') = Len(handled) + 1
        /\ \A k \in 1 .. Len(handled) : handled'[k] = handled[k]
        /\ handled'[Len(handled) + 1] = done + p
    BY <1>1, <1>2, <1>3, AppendProperties
  <2>2. DOMAIN handled' = 1 .. Len(handled) + 1
    BY <2>1, LenProperties
  <2>3. ASSUME NEW x \in Handled' PROVE x \in Handled \cup {done + p}
    <3>1. PICK k \in 1 .. Len(handled) + 1 : x = handled'[k]
      BY <2>2 DEF Handled
    <3>2. CASE k = Len(handled) + 1
      BY <2>1, <3>1, <3>2
    <3>3. CASE k # Len(handled) + 1
      <4>1. k \in 1 .. Len(handled)
        BY <1>1, <3>3
      <4> QED BY <1>1, <2>1, <3>1, <4>1 DEF Handled
    <3> QED BY <3>2, <3>3
  <2>4. \A x \in Handled : x \in Handled'
    BY <1>1, <2>1, <2>2 DEF Handled
  <2>5. done + p \in Handled'
    <3>1. Len(handled) + 1 \in DOMAIN handled'
      BY <1>1, <2>2
    <3> QED BY <2>1, <3>1 DEF Handled
  <2> QED BY <2>3, <2>4, <2>5
<1>5. ASSUME NEW n \in 1 .. done + p, n \notin Handled'
      PROVE  \E m \in Handled' : /\ m \in n + 1 .. done + p
                                 /\ \/ sent[n] \in Unlisted
                                    \/ Rank(sent[m]) < Rank(sent[n])
  <2>1. CASE n <= done
    <3>1. n \in 1 .. done /\ n \notin Handled
      BY <1>4, <1>5, <2>1
    <3>2. PICK m \in Handled : /\ m \in n + 1 .. done
                               /\ \/ sent[n] \in Unlisted
                                  \/ Rank(sent[m]) < Rank(sent[n])
      BY <3>1 DEF Explained
    <3>3. m \in Handled' /\ m \in n + 1 .. done + p
      BY <1>4, <3>2
    <3> QED BY <3>2, <3>3
  <2>2. CASE ~(n <= done)
    <3>1. n \in done + 1 .. done + p - 1
      BY <1>4, <1>5, <2>2
    <3>2. done + p \in Handled' /\ done + p \in n + 1 .. done + p
      BY <1>4, <3>1
    <3> QED BY <1>2, <3>1, <3>2
  <2> QED BY <2>1, <2>2
<1> QED BY <1>2, <1>5 DEF Explained

LEMMA NextLostInv == LostInv /\ [FramingNext]_framingVars => LostInv'
<1> SUFFICES ASSUME LostInv, [FramingNext]_framingVars PROVE LostInv'
  OBVIOUS
<1>1. FramingInv /\ FramingInv'
  BY NextFramingInv DEF LostInv
<1>2. PICK done \in Nat : Framed(done) /\ Explained(done)
  BY DEF LostInv
<1>3. ASSUME NEW d \in Nat, Framed(d) PROVE d = done
  BY <1>1, <1>2, <1>3, FramedOnce DEF FramingInv
<1>4. ASSUME NEW d \in Nat, Keeps(d)
      PROVE  LostInv'
  <2>1. d = done
    BY <1>3, <1>4 DEF Keeps
  <2>2. Framed(done)' /\ Handled' = Handled /\ \A n \in 1 .. done : sent'[n] = sent[n]
    <3>1. Keeps(done)
      BY <1>4, <2>1
    <3>2. Handled' = Handled
      BY <3>1 DEF Keeps, Handled
    <3>3. Framed(done)' /\ \A n \in 1 .. done : sent'[n] = sent[n]
      BY <3>1 DEF Keeps
    <3> QED BY <3>2, <3>3
  <2>3. \A n \in 1 .. done : \A m \in n + 1 .. done : m \in 1 .. done
    OBVIOUS
  <2>4. Explained(done)'
    BY <1>2, <2>2, <2>3 DEF Explained
  <2> QED BY <1>1, <2>2, <2>4 DEF LostInv
<1>5. ASSUME NEW d \in Nat, NEW p \in Nat, Takes(d, p)
      PROVE  LostInv'
  <2>1. d = done
    BY <1>3, <1>5 DEF Takes
  <2>2. Explained(done + p)'
    BY <1>1, <1>2, <1>5, <2>1, TakesExplained
  <2>3. Framed(done + p)' /\ done + p \in Nat
    BY <1>5, <2>1 DEF Takes
  <2> QED BY <1>1, <2>2, <2>3 DEF LostInv
<1>6. CASE UNCHANGED framingVars
  <2>1. Framed(done)' /\ Explained(done)'
    BY <1>2, <1>6
       DEF framingVars, Framed, Explained, Handled, Rest, Opening, Closing
  <2> QED BY <1>1, <2>1 DEF LostInv
<1> QED BY <1>1, <1>4, <1>5, <1>6, SendKeeps, ReadKeeps DEF FramingNext

\* A message of the buffer or the wire is one of those not yet gone, and each
\* of these is there.
LEMMA GoneFacts ==
    ASSUME FramingTypeOK, NEW done \in Nat, Framed(done), NEW n \in Messages, Lost(n)
    PROVE  n \in 1 .. done
<1>1. n \in 1 .. Len(sent) /\ Len(sent) \in Nat
  BY TypeFacts, LenProperties DEF Messages, FramingTypeOK
<1>2. SUFFICES ASSUME n > done PROVE FALSE
  BY <1>1
<1> DEFINE k == 2 * (n - done) - 1
<1>3. n - done \in 1 .. Len(sent) - done /\ done + (n - done) = n
  BY <1>1, <1>2
<1>4. Rest[k] = Opening(n)
  BY <1>3 DEF Framed
<1>5. k \in 1 .. Len(Rest)
  BY <1>3 DEF Framed
<1>6. /\ Len(recv) \in Nat /\ Len(wire) \in Nat
      /\ DOMAIN recv = 1 .. Len(recv) /\ DOMAIN wire = 1 .. Len(wire)
      /\ Len(Rest) = Len(recv) + Len(wire)
      /\ \A i \in 1 .. Len(recv) + Len(wire) :
           Rest[i] = IF i <= Len(recv) THEN recv[i] ELSE wire[i - Len(recv)]
  <2>1. recv \in Seq(Pieces) /\ wire \in Seq(Pieces)
    BY TypeFacts
  <2> QED BY <2>1, LenProperties, ConcatProperties DEF Rest
<1> HIDE DEF k
<1>7. CASE k <= Len(recv)
  <2>1. k \in DOMAIN recv /\ recv[k].msg = n
    BY <1>4, <1>5, <1>6, <1>7 DEF Opening
  <2> QED BY <2>1 DEF Lost, InSeq
<1>8. CASE ~(k <= Len(recv))
  <2>1. k - Len(recv) \in DOMAIN wire /\ wire[k - Len(recv)].msg = n
    BY <1>4, <1>5, <1>6, <1>8 DEF Opening
  <2> QED BY <2>1 DEF Lost, InSeq
<1> QED BY <1>7, <1>8

\* A message is lost only to a later one that the table puts before it, so a
\* message of the table's first tag (getProperties) never is.
THEOREM LostToPriorityCorrect == FramingSpec => []LostToPriority
<1>1. LostInv => LostToPriority
  <2> SUFFICES ASSUME LostInv, NEW n \in Messages, Lost(n)
               PROVE  \E m \in Handled : /\ m > n
                                         /\ \/ sent[n] \in Unlisted
                                            \/ Rank(sent[m]) < Rank(sent[n])
    BY DEF LostToPriority
  <2>1. FramingTypeOK
    BY DEF LostInv, FramingInv
  <2>2. PICK done \in Nat : Framed(done) /\ Explained(done)
    BY DEF LostInv
  <2>3. n \in 1 .. done /\ n \notin Handled
    BY <2>1, <2>2, GoneFacts DEF Lost
  <2>4. PICK m \in Handled : /\ m \in n + 1 .. done
                             /\ \/ sent[n] \in Unlisted
                                \/ Rank(sent[m]) < Rank(sent[n])
    BY <2>2, <2>3 DEF Explained
  <2>5. m > n
    BY <2>3, <2>4
  <2> QED BY <2>4, <2>5
<1> QED BY <1>1, InitLostInv, NextLostInv, PTL DEF FramingSpec
===============================================================================
