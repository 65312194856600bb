---------------------------- MODULE NyxNodeProofs ----------------------------
(***************************************************************************)
(* Proofs about NyxNode, for every set of vectors, clients and callbacks.  *)
(***************************************************************************)
EXTENDS NyxNode, SequenceTheorems, TLAPS

(***************************************************************************)
(* Facts about the constants and the operators.                            *)
(***************************************************************************)
LEMMA VectorFacts ==
    ASSUME NEW v \in VecIds
    PROVE  /\ v \in Nat \ {0}
           /\ Vectors[v] \in [device : Devices, name : Names, kind : Kinds,
                              perm : Perms, rule : Rules, props : Seq(PropNames)]
           /\ Len(Vectors[v].props) \in Nat \ {0}
           /\ Cols(v) = 1 .. Len(Vectors[v].props)
           /\ IsOneOfMany(v) => Vectors[v].kind = "Switch"
<1>1. VecIds = 1 .. Len(Vectors) /\ Len(Vectors) \in Nat
  BY VectorsAssumption, LenProperties DEF VecIds
<1>2. Vectors[v] \in [device : Devices, name : Names, kind : Kinds,
                      perm : Perms, rule : Rules, props : Seq(PropNames)]
  BY <1>1, VectorsAssumption, ElementOfSeq
<1>3. Vectors[v].props \in Seq(PropNames) /\ Vectors[v].props # <<>>
  BY <1>2, VectorsAssumption
<1>4. Len(Vectors[v].props) \in Nat \ {0} /\ Cols(v) = 1 .. Len(Vectors[v].props)
  BY <1>3, EmptySeq, LenProperties DEF Cols
<1>5. IsOneOfMany(v) => Vectors[v].kind = "Switch"
  BY VectorsAssumption DEF IsOneOfMany, None
<1> QED BY <1>1, <1>2, <1>4, <1>5

LEMMA ChildrenFacts ==
    ASSUME NEW k, NEW c \in Children(k)
    PROVE  /\ c \in Seq([name : PropNames, value : RawOf(k)])
           /\ Len(c) \in Nat
           /\ DOMAIN c = 1 .. Len(c)
           /\ \A r \in 1 .. Len(c) : c[r] \in [name : PropNames, value : RawOf(k)]
<1> DEFINE S == [name : PropNames, value : RawOf(k)]
<1>1. PICK n \in 0 .. MaxChildren : c \in [1 .. n -> S]
  BY DEF Children
<1>2. n \in Nat
  BY PayloadsAssumption
<1>3. c \in Seq(S)
  <2> HIDE DEF S
  <2>1. \E k0 \in Nat : c \in [1 .. k0 -> S]
    BY <1>1, <1>2
  <2> QED BY <2>1, SeqDef
<1> QED BY <1>3, LenProperties, ElementOfSeq

LEMMA StoreTyped ==
    ASSUME NEW k \in Kinds, NEW raw \in RawOf(k)
    PROVE  Store(k, raw) \in StoredOf(k)
  BY PayloadsAssumption DEF Store, RawOf, StoredOf, Kinds

LEMMA MessagesTyped ==
    ASSUME TypeOK, NEW v \in VecIds
    PROVE  /\ DefMsg(v) \in Published
           /\ Notify(v) \subseteq Published
<1>1. StoredOf(Vectors[v].kind) \subseteq OnOff \cup Payloads
  BY DEF StoredOf
<1>2. value[v] \in [1 .. Len(Vectors[v].props) -> StoredOf(Vectors[v].kind)]
  BY VectorFacts DEF TypeOK, ValueOK
<1>3. value[v] \in Seq(OnOff \cup Payloads)
  <2>1. value[v] \in [1 .. Len(Vectors[v].props) -> OnOff \cup Payloads]
    BY <1>1, <1>2
  <2> QED BY <2>1, VectorFacts, SeqDef
<1> QED BY <1>3 DEF DefMsg, SetMsg, Notify, Published

LEMMA WriteTyped ==
    ASSUME ValueOK, NEW v \in VecIds, NEW i \in Cols(v),
           NEW x \in StoredOf(Vectors[v].kind),
           value' = [value EXCEPT ![v][i] = x]
    PROVE  ValueOK'
  BY DEF ValueOK

LEMMA JobFacts ==
    ASSUME TypeOK, ~Idle
    PROVE  /\ job.vec \in VecIds
           /\ job.col \in Cols(job.vec)
           /\ job.children \in Children(Vectors[job.vec].kind)
           /\ job.row \in 1 .. Len(job.children) + 1
           /\ Len(job.children) \in Nat
           /\ InLoop => /\ job.row \in 1 .. Len(job.children)
                        /\ Child \in [name : PropNames,
                                      value : RawOf(Vectors[job.vec].kind)]
<1>1. job # NoJob
  BY DEF Idle, NoJob
<1>2. /\ job.vec \in VecIds
      /\ job.col \in Cols(job.vec)
      /\ job.children \in Children(Vectors[job.vec].kind)
      /\ job.row \in 1 .. Len(job.children) + 1
  BY <1>1 DEF TypeOK, JobOK
<1>3. Len(job.children) \in Nat
  BY <1>2, ChildrenFacts
<1>4. InLoop => job.row \in 1 .. Len(job.children)
  BY <1>2, <1>3 DEF InLoop
<1> QED BY <1>2, <1>3, <1>4, ChildrenFacts DEF Child

LEMMA NewValueTyped ==
    ASSUME TypeOK, InLoop, Applies
    PROVE  NewValue \in StoredOf(Vectors[job.vec].kind)
<1> DEFINE k == Vectors[job.vec].kind
<1>1. k \in Kinds /\ job.vec \in VecIds
  BY JobFacts, VectorFacts DEF InLoop
<1>2. CASE IsCurrent
  BY <1>1, <1>2, JobFacts, StoreTyped DEF NewValue, InLoop
<1>3. CASE ~IsCurrent
  <2>1. k = "Switch"
    BY <1>1, <1>3, VectorFacts DEF Applies
  <2> QED BY <2>1, <1>3 DEF NewValue, Store, StoredOf, OnOff
<1> QED BY <1>2, <1>3

LEMMA AdvancedTyped ==
    ASSUME TypeOK, InLoop, job' = Advanced
    PROVE  JobOK'
<1>1. job # NoJob
  BY DEF InLoop, Idle, NoJob
<1>2. /\ job.vec \in VecIds
      /\ job.col \in 1 .. Len(Vectors[job.vec].props)
      /\ Len(Vectors[job.vec].props) \in Nat \ {0}
      /\ Cols(job.vec) = 1 .. Len(Vectors[job.vec].props)
      /\ Len(job.children) \in Nat
      /\ job.row \in 1 .. Len(job.children)
  BY JobFacts, VectorFacts DEF InLoop
<1>3. job \in [vec : VecIds, client : Senders,
               children : Children(Vectors[job.vec].kind),
               row : Nat, col : Cols(job.vec)]
  BY <1>1 DEF TypeOK, JobOK
<1>4. CASE job.col < Len(Vectors[job.vec].props)
  <2>1. job' = [job EXCEPT !.col = @ + 1]
    BY <1>4 DEF Advanced
  <2>2. /\ job' \in [vec : VecIds, client : Senders,
                     children : Children(Vectors[job.vec].kind),
                     row : Nat, col : Cols(job.vec)]
        /\ job'.vec = job.vec /\ job'.row = job.row
        /\ job'.children = job.children
    BY <2>1, <1>2, <1>3, <1>4
  <2> QED BY <2>2, <1>2 DEF JobOK
<1>5. CASE ~(job.col < Len(Vectors[job.vec].props))
  <2>1. job' = [job EXCEPT !.row = @ + 1, !.col = 1]
    BY <1>5 DEF Advanced
  <2> DEFINE Job == [vec : VecIds, client : Senders,
                     children : Children(Vectors[job.vec].kind),
                     row : Nat, col : Cols(job.vec)]
             down == [job EXCEPT !.row = job.row + 1]
  <2>3. /\ down \in Job /\ down.vec = job.vec /\ down.row = job.row + 1
        /\ down.children = job.children
    BY <1>2, <1>3
  <2>4. job' = [down EXCEPT !.col = 1]
    BY <2>1
  <2> HIDE DEF down
  <2>2. /\ job' \in Job
        /\ job'.vec = job.vec /\ job'.row = job.row + 1
        /\ job'.children = job.children
    BY <2>3, <2>4, <1>2
  <2> QED BY <2>2, <1>2 DEF JobOK
<1> QED BY <1>4, <1>5

(***************************************************************************)
(* The type invariant.                                                     *)
(***************************************************************************)
LEMMA InitTypeOK == Init => TypeOK
<1> SUFFICES ASSUME Init PROVE TypeOK
  OBVIOUS
<1>1. ValueOK
  BY DEF Init, InitialValues, ValueOK
<1>2. flags \in [VecIds -> SUBSET FlagBits]
  BY DEF Init
<1>3. clientHashes \in [Slots -> {0} \cup {Hash[c] : c \in Senders}]
  BY DEF Init
<1>4. master \in Clients \cup {All} /\ JobOK /\ out \subseteq Published
  BY DEF Init, JobOK
<1> QED BY <1>1, <1>2, <1>3, <1>4 DEF TypeOK

LEMMA NextTypeOK == TypeOK /\ [Next]_vars => TypeOK'
<1> SUFFICES ASSUME TypeOK, [Next]_vars PROVE TypeOK'
  OBVIOUS
<1> USE DEF TypeOK
<1>1. ASSUME NEW d \in MaybeDevice, NEW n \in MaybeName, GetProperties(d, n)
      PROVE  TypeOK'
  BY <1>1, MessagesTyped DEF GetProperties, ValueOK, JobOK
<1>2. ASSUME NEW c \in Senders, NEW d \in MaybeDevice, NEW n \in MaybeName,
             NEW on \in BOOLEAN, NEW k, NEW base,
             \A i \in Slots : base + i \in FlagBits,
             EnableXxx(c, d, n, on, k, base) \/ TableFull(c),
             out' = {}, UNCHANGED <<value, master, job>>
      PROVE  TypeOK'
  <2>1. flags' \in [VecIds -> SUBSET FlagBits]
    BY <1>2 DEF EnableXxx, TableFull
  <2>2. clientHashes' \in [Slots -> {0} \cup {Hash[x] : x \in Senders}]
    BY <1>2 DEF EnableXxx, TableFull
  <2> QED BY <1>2, <2>1, <2>2 DEF ValueOK, JobOK
<1>3. \A i \in Slots : BlobBase + i \in FlagBits /\ StreamBase + i \in FlagBits
  BY DEF FlagBits, BLOB_MASK, STREAM_MASK
<1>4. ASSUME NEW c \in Senders, NEW k \in Kinds, NEW d \in Devices,
             NEW n \in Names, BeginSet(c, k, d, n)
      PROVE  TypeOK'
  <2>1. PICK v \in VecIds, ch \in Children(k) :
          /\ IsTarget(v, k, d, n)
          /\ job' = [vec |-> v, client |-> c, children |-> ch,
                     row |-> 1, col |-> 1]
    BY <1>4 DEF BeginSet
  <2>2. Vectors[v].kind = k
    BY <2>1 DEF IsTarget
  <2>3. 1 \in Cols(v) /\ Len(ch) \in Nat
    BY VectorFacts, ChildrenFacts
  <2>4. JobOK'
    BY <2>1, <2>2, <2>3 DEF NoJob, JobOK
  <2> QED BY <1>4, <2>4 DEF BeginSet, ValueOK
<1>5. ASSUME NEW c \in Clients \cup {All}, SetMasterClient(c)
      PROVE  TypeOK'
  BY <1>5 DEF SetMasterClient, ValueOK, JobOK
<1>6. CASE ApplyPair
  <2>1. ValueOK'
    BY <1>6, NewValueTyped, JobFacts, WriteTyped DEF ApplyPair, InLoop
  <2>2. JobOK'
    BY <1>6, AdvancedTyped DEF ApplyPair
  <2> QED BY <1>6, <2>1, <2>2 DEF ApplyPair
<1>7. CASE RefusePair \/ SkipPair
  <2>1. JobOK'
    BY <1>7, AdvancedTyped DEF RefusePair, SkipPair
  <2> QED BY <1>7, <2>1 DEF RefusePair, SkipPair, ValueOK
<1>8. CASE FinishSet
  <2>1. Notify(job.vec) \subseteq Published
    BY <1>8, JobFacts, MessagesTyped DEF FinishSet, LoopDone
  <2> QED BY <1>8, <2>1 DEF FinishSet, ValueOK, JobOK
<1>9. CASE Ping
  BY <1>9 DEF Ping, PingMsg, MasterMsg, Published, Senders, ValueOK, JobOK
<1>10. ASSUME NEW v \in VecIds, AppNotify(v)
       PROVE  TypeOK'
  BY <1>10, MessagesTyped DEF AppNotify, ValueOK, JobOK
<1>11. ASSUME NEW v \in VecIds, NEW i \in Cols(v), AppSet(v, i)
       PROVE  TypeOK'
  <2>1. ValueOK'
    BY <1>11, WriteTyped DEF AppSet
  <2> QED BY <1>11, <2>1 DEF AppSet, JobOK
<1>12. ASSUME NEW d \in Devices, NEW n \in MaybeName,
              Enable(d, n) \/ Disable(d, n) \/ SendDelProperty(d, n)
       PROVE  TypeOK'
  <2>1. flags' \in [VecIds -> SUBSET FlagBits]
    BY <1>12 DEF Enable, Disable, SendDelProperty, FlagBits
  <2>2. out' \subseteq Published
    BY <1>12, MessagesTyped
       DEF Enable, Disable, SendDelProperty, DelMsg, Published, MaybeName
  <2> QED
    BY <1>12, <2>1, <2>2 DEF Enable, Disable, SendDelProperty, ValueOK, JobOK
<1>13. ASSUME NEW d \in Devices, SendMessage(d)
       PROVE  TypeOK'
  BY <1>13 DEF SendMessage, NoteMsg, Published, ValueOK, JobOK
<1>14. CASE UNCHANGED vars
  BY <1>14 DEF vars, ValueOK, JobOK
<1>15. CASE Request
  BY <1>15, <1>1, <1>2, <1>3, <1>4, <1>5
     DEF Request, EnableBlob, EnableStream
<1> QED
  BY <1>6, <1>7, <1>8, <1>9, <1>10, <1>11, <1>12, <1>13, <1>14, <1>15
     DEF Next, Handler, Application

\* Every variable keeps its type: a set request in progress always points at a
\* vector, a child and an element that exist (the two loops of
\* _set_properties stay within the lists they walk).
THEOREM TypeCorrect == Spec => []TypeOK
  BY InitTypeOK, NextTypeOK, PTL DEF Spec

(***************************************************************************)
(* The loops of a set request.                                             *)
(***************************************************************************)

\* The part of LoopInvariant that is about vector v.
LoopInvariantOf(v) ==
    /\ job.vec # v => AtMostOneOn(v)
    /\ job.vec = v =>
        /\ job.col > 1 => InLoop
        /\ \A i \in Cols(v) : i < job.col => value[v][i] = Target(v, i, Child)
        /\ \A i, j \in OnSet(v) : i >= job.col /\ j >= job.col => i = j
        /\ job.col = 1 /\ job.row > 1 =>
             \A i \in Cols(v) :
               value[v][i] = Target(v, i, job.children[job.row - 1])

LEMMA LoopInvariantParts ==
    LoopInvariant <=>
        \A v \in VecIds : IsOneOfMany(v) /\ NeverRefuses(v) => LoopInvariantOf(v)
  BY DEF LoopInvariant, LoopInvariantOf

\* At most one element has a given name.
LEMMA TargetAtMostOne ==
    ASSUME NEW v \in VecIds, NEW c, NEW i \in Cols(v), NEW j \in Cols(v),
           Target(v, i, c) = "On", Target(v, j, c) = "On"
    PROVE  i = j
  BY VectorsAssumption DEF Target, Cols

LEMMA InitLoopInvariant == Init => LoopInvariant
<1> SUFFICES ASSUME Init, NEW v \in VecIds, IsOneOfMany(v)
             PROVE  LoopInvariantOf(v)
  BY LoopInvariantParts
<1>1. job.vec # v
  BY VectorFacts DEF Init, NoJob
<1>2. PICK k \in Cols(v) : {i \in Cols(v) : value[v][i] = "On"} = {k}
  BY DEF Init, InitialValues, ObeysRule, IsOneOfMany
<1> QED BY <1>1, <1>2 DEF LoopInvariantOf, AtMostOneOn, OnSet

\* Nothing but a step of the loops touches the elements of such a vector.
LEMMA QuietLoopInvariant ==
    ASSUME TypeOK, LoopInvariant, NEW v \in VecIds, IsOneOfMany(v),
           NeverRefuses(v), value'[v] = value[v], job' = job
    PROVE  LoopInvariantOf(v)'
<1>1. LoopInvariantOf(v)
  BY LoopInvariantParts
<1> QED
  BY <1>1 DEF LoopInvariantOf, AtMostOneOn, OnSet, InLoop, Idle, Child

LEMMA ApplyLoopInvariant ==
    ASSUME TypeOK, LoopInvariant, ApplyPair, NEW v \in VecIds, IsOneOfMany(v),
           NeverRefuses(v)
    PROVE  LoopInvariantOf(v)'
<1> DEFINE w == job.vec
           n == Len(Vectors[w].props)
<1>1. LoopInvariantOf(v)
  BY LoopInvariantParts
<1>2. /\ w \in VecIds /\ job.col \in 1 .. n /\ n \in Nat \ {0}
      /\ Cols(w) = 1 .. n
      /\ Len(job.children) \in Nat
      /\ job.row \in 1 .. Len(job.children)
  BY JobFacts, VectorFacts DEF ApplyPair, InLoop
<1>3. /\ DOMAIN value = VecIds
      /\ value[w] \in [Cols(w) -> StoredOf(Vectors[w].kind)]
  BY <1>2 DEF TypeOK, ValueOK
<1>4. CASE v # w
  <2>1. value'[v] = value[v] /\ job'.vec = w
    BY <1>3, <1>4 DEF ApplyPair, Advanced, TypeOK, JobOK
  <2> QED BY <1>1, <1>4, <2>1 DEF LoopInvariantOf, AtMostOneOn, OnSet
<1>5. CASE v = w
  <2>1. value'[v][job.col] = Target(v, job.col, Child)
    <3>1. Vectors[v].kind = "Switch"
      BY VectorFacts
    <3>2. NewValue = Target(v, job.col, Child)
      BY <3>1, <1>5 DEF NewValue, Store, Target, IsCurrent
    <3> QED BY <1>2, <1>3, <1>5, <3>2 DEF ApplyPair
  <2>2. \A i \in Cols(v) : i # job.col => value'[v][i] = value[v][i]
    BY <1>2, <1>3, <1>5 DEF ApplyPair
  <2>3. \A i \in Cols(v) :
          i <= job.col => value'[v][i] = Target(v, i, Child)
    BY <2>1, <2>2, <1>1, <1>2, <1>5 DEF LoopInvariantOf
  <2>4. job # NoJob /\ job' = Advanced
    BY DEF ApplyPair, InLoop, Idle, NoJob
  <2>5. CASE job.col < n
    <3>1. /\ job'.vec = v /\ job'.row = job.row /\ job'.col = job.col + 1
          /\ job'.children = job.children
      BY <2>4, <2>5, <1>5 DEF Advanced, TypeOK, JobOK
    <3>2. InLoop' /\ Child' = Child
      BY <3>1, <1>5, <1>2 DEF InLoop, Idle, Child, ApplyPair
    <3>3. \A i \in Cols(v) : i < job'.col => value'[v][i] = Target(v, i, Child')
      BY <2>3, <3>1, <3>2, <1>2, <1>5
    <3>4. \A i, j \in OnSet(v)' : i >= job'.col /\ j >= job'.col => i = j
      <4>1. \A i \in OnSet(v)' : i >= job'.col => i \in OnSet(v) /\ i >= job.col
        BY <2>2, <3>1, <1>2, <1>5 DEF OnSet
      <4> QED BY <4>1, <1>1, <1>5 DEF LoopInvariantOf
    <3> QED BY <3>1, <3>2, <3>3, <3>4, <1>2 DEF LoopInvariantOf
  <2>6. CASE ~(job.col < n)
    <3>1. /\ job'.vec = v /\ job'.row = job.row + 1 /\ job'.col = 1
          /\ job'.children = job.children
      BY <2>4, <2>6, <1>5 DEF Advanced, TypeOK, JobOK
    <3>2. \A i \in Cols(v) : value'[v][i] = Target(v, i, Child)
      BY <2>3, <2>6, <1>2, <1>5
    <3>3. \A i, j \in OnSet(v)' : i = j
      BY <3>2, TargetAtMostOne DEF OnSet
    <3>4. job'.children[job'.row - 1] = Child
      BY <3>1, <1>2 DEF Child
    <3> QED BY <3>1, <3>2, <3>3, <3>4, <1>2, <1>5 DEF LoopInvariantOf
  <2> QED BY <2>5, <2>6
<1> QED BY <1>4, <1>5

\* No callback of such a vector refuses, and no pair is skipped.
LEMMA SkipLoopInvariant ==
    ASSUME TypeOK, LoopInvariant, RefusePair \/ SkipPair,
           NEW v \in VecIds, IsOneOfMany(v), NeverRefuses(v)
    PROVE  LoopInvariantOf(v)'
<1>1. LoopInvariantOf(v)
  BY LoopInvariantParts
<1>2. job.vec \in VecIds /\ job.col \in Cols(job.vec)
  BY JobFacts DEF RefusePair, SkipPair, InLoop
<1>3. job.vec # v
  BY <1>2 DEF RefusePair, SkipPair, Applies, NeverRefuses
<1>4. job'.vec = job.vec /\ value' = value
  <2>1. job # NoJob
    BY DEF RefusePair, SkipPair, InLoop, Idle, NoJob
  <2> QED BY <2>1 DEF RefusePair, SkipPair, Advanced, TypeOK, JobOK
<1> QED BY <1>1, <1>3, <1>4 DEF LoopInvariantOf, AtMostOneOn, OnSet

LEMMA FinishLoopInvariant ==
    ASSUME TypeOK, LoopInvariant, FinishSet, NEW v \in VecIds, IsOneOfMany(v),
           NeverRefuses(v)
    PROVE  LoopInvariantOf(v)'
<1>1. LoopInvariantOf(v)
  BY LoopInvariantParts
<1>2. AtMostOneOn(v)
  <2>1. CASE job.vec = v
    <3>1. job.col = 1
      BY <1>1, <2>1, JobFacts, VectorFacts
         DEF LoopInvariantOf, FinishSet, LoopDone, InLoop
    <3>2. \A i \in OnSet(v) : i >= 1
      BY VectorFacts DEF OnSet
    <3> QED BY <1>1, <2>1, <3>1, <3>2 DEF LoopInvariantOf, AtMostOneOn
  <2>2. CASE job.vec # v
    BY <1>1, <2>2 DEF LoopInvariantOf
  <2> QED BY <2>1, <2>2
<1>3. job'.vec # v /\ value' = value
  BY VectorFacts DEF FinishSet, NoJob
<1> QED BY <1>2, <1>3 DEF LoopInvariantOf, AtMostOneOn, OnSet

LEMMA BeginLoopInvariant ==
    ASSUME TypeOK, LoopInvariant,
           NEW c \in Senders, NEW k \in Kinds, NEW d \in Devices,
           NEW n \in Names, BeginSet(c, k, d, n),
           NEW v \in VecIds, IsOneOfMany(v), NeverRefuses(v)
    PROVE  LoopInvariantOf(v)'
<1>1. AtMostOneOn(v)
  <2>1. job.vec # v
    BY VectorFacts DEF BeginSet, Idle
  <2> QED BY <2>1, LoopInvariantParts DEF LoopInvariantOf
<1>2. job'.col = 1 /\ job'.row = 1 /\ value' = value
  BY DEF BeginSet
<1>3. \A i \in Cols(v) : ~(i < 1)
  BY VectorFacts
<1> QED
  BY <1>1, <1>2, <1>3 DEF LoopInvariantOf, AtMostOneOn, OnSet

LEMMA NextLoopInvariant ==
    TypeOK /\ LoopInvariant /\ [Next]_vars => LoopInvariant'
<1> SUFFICES ASSUME TypeOK, LoopInvariant, [Next]_vars,
                    NEW v \in VecIds, IsOneOfMany(v), NeverRefuses(v)
             PROVE  LoopInvariantOf(v)'
  BY DEF LoopInvariant, LoopInvariantOf
<1>1. CASE ApplyPair
  BY <1>1, ApplyLoopInvariant
<1>2. CASE RefusePair \/ SkipPair
  BY <1>2, SkipLoopInvariant
<1>3. CASE FinishSet
  BY <1>3, FinishLoopInvariant
<1>4. ASSUME NEW c \in Senders, NEW k \in Kinds, NEW d \in Devices,
             NEW n \in Names, BeginSet(c, k, d, n)
      PROVE  LoopInvariantOf(v)'
  BY <1>4, BeginLoopInvariant
<1>5. ASSUME value' = value, job' = job
      PROVE  LoopInvariantOf(v)'
  BY <1>5, QuietLoopInvariant
<1>6. ASSUME NEW w \in VecIds, NEW i \in Cols(w), AppSet(w, i)
      PROVE  LoopInvariantOf(v)'
  <2>1. w # v
    BY <1>6 DEF AppSet, IsOneOfMany, None
  <2>2. value'[v] = value[v] /\ job' = job
    BY <1>6, <2>1 DEF AppSet, TypeOK, ValueOK
  <2> QED BY <2>2, QuietLoopInvariant
<1>7. CASE Request
  BY <1>7, <1>4, <1>5
     DEF Request, GetProperties, EnableBlob, EnableStream, SetMasterClient
<1>8. CASE Application
  BY <1>8, <1>5, <1>6
     DEF Application, Ping, AppNotify, Enable, Disable, SendMessage,
         SendDelProperty
<1>9. CASE UNCHANGED vars
  BY <1>9, <1>5 DEF vars
<1> QED
  BY <1>1, <1>2, <1>3, <1>7, <1>8, <1>9 DEF Next, Handler

\* The loop invariant of _set_properties holds for every list of vectors,
\* every request and every interleaving with what the callbacks call.
THEOREM LoopInvariantHolds == Spec => []LoopInvariant
<1>1. Init => TypeOK /\ LoopInvariant
  BY InitTypeOK, InitLoopInvariant
<1>2. TypeOK /\ LoopInvariant /\ [Next]_vars => (TypeOK /\ LoopInvariant)'
  BY NextTypeOK, NextLoopInvariant
<1> QED BY <1>1, <1>2, PTL DEF Spec

\* A OneOfMany switch vector with accepting callbacks never rests with two
\* elements On, however long it is and whatever the requests carry.
THEOREM OneOfManyCorrect == Spec => []OneOfManyKept
<1>1. LoopInvariant => OneOfManyKept
  BY DEF LoopInvariant, OneOfManyKept
<1> QED BY <1>1, LoopInvariantHolds, PTL

\* At the end of the loops such a vector shows what the last child asked for.
THEOREM LastChildCorrect == Spec => []LastChildWins
<1>1. TypeOK /\ LoopInvariant => LastChildWins
  <2> SUFFICES ASSUME TypeOK, LoopInvariant, LoopDone, IsOneOfMany(job.vec),
                      NeverRefuses(job.vec), job.children # <<>>,
                      NEW i \in Cols(job.vec)
               PROVE  value[job.vec][i] =
                        Target(job.vec, i, job.children[Len(job.children)])
    BY DEF LastChildWins
  <2>1. /\ job.vec \in VecIds
        /\ job.col \in Cols(job.vec)
        /\ Len(job.children) \in Nat \ {0}
        /\ job.row = Len(job.children) + 1
    BY JobFacts, ChildrenFacts, EmptySeq DEF LoopDone
  <2>2. LoopInvariantOf(job.vec)
    BY <2>1, LoopInvariantParts
  <2>3. job.col = 1
    BY <2>1, <2>2, VectorFacts DEF LoopInvariantOf, LoopDone, InLoop
  <2> QED BY <2>1, <2>2, <2>3 DEF LoopInvariantOf
<1> QED BY <1>1, TypeCorrect, LoopInvariantHolds, PTL

(***************************************************************************)
(* Who may write, and when a vector is silent.                             *)
(***************************************************************************)

\* Requests are only ever applied for the master client: the master does not
\* change while the callbacks of a request run.
THEOREM OnlyMasterWritesCorrect == Spec => []OnlyMasterWrites
<1>1. Init => OnlyMasterWrites
  BY DEF Init, OnlyMasterWrites, Idle, NoJob
<1>2. TypeOK /\ OnlyMasterWrites /\ [Next]_vars => OnlyMasterWrites'
  <2> SUFFICES ASSUME TypeOK, OnlyMasterWrites, [Next]_vars
               PROVE  OnlyMasterWrites'
    OBVIOUS
  <2>1. ASSUME job' = job, master' = master
        PROVE  OnlyMasterWrites'
    BY <2>1 DEF OnlyMasterWrites, Idle
  <2>2. CASE ApplyPair \/ RefusePair \/ SkipPair
    <3>1. job # NoJob
      BY <2>2 DEF ApplyPair, RefusePair, SkipPair, InLoop, Idle, NoJob
    <3>2. ~Idle /\ job'.client = job.client /\ master' = master
      BY <2>2, <3>1
         DEF ApplyPair, RefusePair, SkipPair, InLoop, Advanced, TypeOK, JobOK
    <3> QED BY <3>2 DEF OnlyMasterWrites
  <2>3. CASE FinishSet
    BY <2>3 DEF FinishSet, OnlyMasterWrites, Idle, NoJob
  <2>4. CASE Request
    <3>1. ASSUME NEW c \in Senders, NEW k \in Kinds, NEW d \in Devices,
                 NEW n \in Names, BeginSet(c, k, d, n)
          PROVE  OnlyMasterWrites'
      BY <3>1 DEF BeginSet, IsAllowed, OnlyMasterWrites
    <3>2. ASSUME NEW c \in Clients \cup {All}, SetMasterClient(c)
          PROVE  OnlyMasterWrites'
      BY <3>2 DEF SetMasterClient, OnlyMasterWrites, Idle
    <3> QED
      BY <2>4, <3>1, <3>2, <2>1
         DEF Request, GetProperties, EnableBlob, EnableStream
  <2>5. CASE Application
    BY <2>5, <2>1
       DEF Application, Ping, AppNotify, AppSet, Enable, Disable, SendMessage,
           SendDelProperty
  <2>6. CASE UNCHANGED vars
    BY <2>6, <2>1 DEF vars
  <2> QED BY <2>2, <2>3, <2>4, <2>5, <2>6 DEF Next, Handler
<1> QED BY <1>1, <1>2, TypeCorrect, PTL DEF Spec

LEMMA NotifySilent ==
    ASSUME NEW v \in VecIds, NEW m \in Notify(v), UNCHANGED flags
    PROVE  m.vec = v /\ ~Disabled(v)'
  BY DEF Notify, SetMsg, Disabled

\* No step publishes a definition or a value of a disabled vector.
THEOREM DisabledIsSilentCorrect == Spec => DisabledIsSilent
<1> DEFINE Silent == \A m \in out' : m.tag \in {"def", "set"} => ~Disabled(m.vec)'
<1>1. ASSUME TypeOK, [Next]_vars
      PROVE  Silent \/ UNCHANGED vars
  <2>1. ASSUME NEW d \in MaybeDevice, NEW n \in MaybeName, GetProperties(d, n)
        PROVE  Silent
    BY <2>1 DEF GetProperties, DefMsg, Disabled
  <2>2. ASSUME out' = {}
        PROVE  Silent
    BY <2>2
  <2>3. CASE FinishSet
    BY <2>3, <1>1, JobFacts, NotifySilent DEF FinishSet, LoopDone
  <2>4. CASE Ping
    BY <2>4 DEF Ping, PingMsg, MasterMsg
  <2>5. ASSUME NEW v \in VecIds, AppNotify(v)
        PROVE  Silent
    BY <2>5, NotifySilent DEF AppNotify
  <2>6. ASSUME NEW d \in Devices, NEW n \in MaybeName, Enable(d, n)
        PROVE  Silent
    <3> SUFFICES ASSUME NEW v \in VecIds, Matches(v, d, n) PROVE ~Disabled(v)'
      BY <2>6 DEF Enable, DefMsg
    <3> QED BY <2>6 DEF Enable, Disabled
  <2>7. ASSUME NEW d \in Devices, NEW n \in MaybeName,
               Disable(d, n) \/ SendDelProperty(d, n)
        PROVE  Silent
    BY <2>7 DEF Disable, SendDelProperty, DelMsg
  <2>8. ASSUME NEW d \in Devices, SendMessage(d)
        PROVE  Silent
    BY <2>8 DEF SendMessage, NoteMsg
  <2>9. CASE Request
    BY <2>9, <2>1, <2>2
       DEF Request, EnableBlob, EnableStream, BeginSet, SetMasterClient
  <2>10. CASE ApplyPair \/ RefusePair \/ SkipPair
    BY <2>10, <2>2 DEF ApplyPair, RefusePair, SkipPair
  <2>11. CASE Application
    BY <2>11, <2>2, <2>4, <2>5, <2>6, <2>7, <2>8 DEF Application, AppSet
  <2> QED BY <1>1, <2>3, <2>9, <2>10, <2>11 DEF Next, Handler
<1> QED BY <1>1, TypeCorrect, PTL DEF Spec, DisabledIsSilent

===============================================================================
