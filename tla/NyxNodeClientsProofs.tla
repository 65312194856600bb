------------------------- MODULE NyxNodeClientsProofs -------------------------
(***************************************************************************)
(* Proofs about the client table of a node, for every number of slots and  *)
(* of clients, under HashAssumption: the table, the bits, and that both    *)
(* together implement NyxSubscriptions.                                    *)
(***************************************************************************)
EXTENDS NyxNodeClients, NyxNodeProofs, FiniteSetTheorems, TLAPS

(***************************************************************************)
(* The bits and the steps that change them.                                *)
(***************************************************************************)

\* The three ranges of the flags word do not meet.
LEMMA BitsApart ==
    ASSUME NEW i \in Slots, NEW j \in Slots
    PROVE  /\ BlobBase + i # DISABLED /\ StreamBase + i # DISABLED
           /\ BlobBase + i # StreamBase + j
           /\ BlobBase + i = BlobBase + j => i = j
           /\ StreamBase + i = StreamBase + j => i = j
  BY ClientsAssumption DEF Slots, BlobBase, StreamBase, DISABLED

\* Neither the table nor a client's bit changes.
TablesKept ==
    /\ clientHashes' = clientHashes
    /\ \A v \in VecIds : flags'[v] \ {DISABLED} = flags[v] \ {DISABLED}

\* A client is given slot i and says on or off for the vectors of V.
Says(c, i, V, on, base) ==
    /\ IsClientIndex(i, c)
    /\ clientHashes' = [clientHashes EXCEPT ![i] = Hash[c]]
    /\ \A v \in VecIds : flags'[v] = IF v \notin V THEN flags[v]
                                     ELSE IF on THEN flags[v] \cup {base + i}
                                     ELSE flags[v] \ {base + i}

\* A client's word on the BLOBs (the streams) of some vectors.
SaysBlobs ==
    \E c \in Senders, i \in Slots, V \in SUBSET BlobVecs, on \in BOOLEAN :
        Says(c, i, V, on, BlobBase)

SaysStreams ==
    \E c \in Senders, i \in Slots, V \in SUBSET StreamVecs, on \in BOOLEAN :
        Says(c, i, V, on, StreamBase)

LEMMA EnableSays ==
    ASSUME NEW c \in Senders, NEW d, NEW n, NEW on \in BOOLEAN, NEW kind, NEW base,
           EnableXxx(c, d, n, on, kind, base)
    PROVE  \E i \in Slots, V \in SUBSET {v \in VecIds : Vectors[v].kind = kind} :
               Says(c, i, V, on, base)
<1> DEFINE V == {v \in VecIds : Vectors[v].kind = kind /\ Matches(v, d, n)}
<1>1. PICK i \in Slots :
        /\ IsClientIndex(i, c)
        /\ clientHashes' = [clientHashes EXCEPT ![i] = Hash[c]]
        /\ flags' = [v \in VecIds |->
                       IF Vectors[v].kind = kind /\ Matches(v, d, n)
                       THEN IF on THEN flags[v] \cup {base + i}
                                  ELSE flags[v] \ {base + i}
                       ELSE flags[v]]
  BY DEF EnableXxx
<1>2. Says(c, i, V, on, base)
  BY <1>1 DEF Says
<1>3. V \in SUBSET {v \in VecIds : Vectors[v].kind = kind}
  OBVIOUS
<1> HIDE DEF V
<1> QED BY <1>2, <1>3

LEMMA TableSteps ==
    ASSUME TypeOK, [Next]_vars
    PROVE  \/ TablesKept
           \/ out' = {} /\ (SaysBlobs \/ SaysStreams)
<1>1. ASSUME clientHashes' = clientHashes, flags' = flags
      PROVE  TablesKept
  BY <1>1 DEF TablesKept
<1>2. ASSUME NEW c \in Senders, NEW d \in MaybeDevice, NEW n \in MaybeName,
             NEW on \in BOOLEAN, EnableBlob(c, d, n, on)
      PROVE  TablesKept \/ (out' = {} /\ SaysBlobs)
  BY <1>2, <1>1, EnableSays DEF EnableBlob, TableFull, SaysBlobs, BlobVecs
<1>3. ASSUME NEW c \in Senders, NEW d \in MaybeDevice, NEW n \in MaybeName,
             NEW on \in BOOLEAN, EnableStream(c, d, n, on)
      PROVE  TablesKept \/ (out' = {} /\ SaysStreams)
  BY <1>3, <1>1, EnableSays DEF EnableStream, TableFull, SaysStreams, StreamVecs
<1>4. ASSUME NEW d \in Devices, NEW n \in MaybeName, Enable(d, n) \/ Disable(d, n)
      PROVE  TablesKept
  BY <1>4 DEF Enable, Disable, TablesKept
<1>5. CASE Request
  BY <1>5, <1>1, <1>2, <1>3 DEF Request, GetProperties, BeginSet, SetMasterClient
<1>6. CASE Handler
  BY <1>6, <1>1 DEF Handler, ApplyPair, RefusePair, SkipPair, FinishSet
<1>7. CASE Application
  BY <1>7, <1>1, <1>4
     DEF Application, Ping, AppNotify, AppSet, SendMessage, SendDelProperty
<1>8. CASE UNCHANGED vars
  BY <1>8, <1>1 DEF vars
<1> QED BY <1>5, <1>6, <1>7, <1>8 DEF Next

(***************************************************************************)
(* The slots.                                                              *)
(***************************************************************************)

\* The slot a client is given is its own as soon as it has one; otherwise it
\* is free, and no slot before it is.
LEMMA IndexFacts ==
    ASSUME TypeOK, SlotTable, NEW c \in Senders, NEW i \in Slots,
           IsClientIndex(i, c)
    PROVE  /\ \/ SlotOf(c) = {i}
              \/ SlotOf(c) = {} /\ clientHashes[i] = 0
           /\ \A j \in Slots : clientHashes[j] = Hash[c] => j = i
           /\ \A j \in Slots : j < i => clientHashes[j] # 0
<1>1. Hash[c] # 0
  BY HashAssumption
<1>2. i \in SlotsFor(c) /\ \A j \in SlotsFor(c) : i <= j
  BY DEF IsClientIndex
<1>3. \A j \in Slots : j \in Nat
  BY DEF Slots
<1>4. \A j \in Slots : j < i => clientHashes[j] # 0
  BY <1>2, <1>3 DEF SlotsFor
<1>5. ASSUME NEW j \in Slots, clientHashes[j] = Hash[c]
      PROVE  j = i
  <2>1. i <= j
    BY <1>2, <1>5 DEF SlotsFor
  <2>2. i # j => clientHashes[i] # 0
    BY <2>1, <1>1, <1>3, <1>5 DEF SlotTable
  <2>3. i # j => clientHashes[i] = Hash[c]
    BY <2>2, <1>2 DEF SlotsFor
  <2> QED BY <2>3, <1>1, <1>5 DEF SlotTable
<1> QED BY <1>2, <1>4, <1>5 DEF SlotOf, SlotsFor

LEMMA InitTables == Init => SlotTable /\ BitsHaveOwners /\ BitsMatchKind
  BY DEF Init, SlotTable, BitsHaveOwners, BitsMatchKind

LEMMA SaysSlotTable ==
    ASSUME TypeOK, SlotTable, NEW c \in Senders, NEW i \in Slots, NEW V, NEW on,
           NEW base, Says(c, i, V, on, base)
    PROVE  SlotTable'
<1>1. \A j \in Slots : clientHashes'[j] = IF j = i THEN Hash[c] ELSE clientHashes[j]
  BY DEF Says, TypeOK
<1>2. \A j \in Slots : clientHashes[j] = Hash[c] => j = i
  BY IndexFacts DEF Says
<1>3. \A j \in Slots : j < i => clientHashes[j] # 0
  BY IndexFacts DEF Says
<1>4. Hash[c] # 0
  BY HashAssumption
<1>5. \A j, k \in Slots :
        clientHashes'[j] = clientHashes'[k] /\ clientHashes'[j] # 0 => j = k
  BY <1>1, <1>2 DEF SlotTable
<1>6. \A j, k \in Slots : j < k /\ clientHashes'[k] # 0 => clientHashes'[j] # 0
  BY <1>1, <1>3, <1>4 DEF SlotTable
<1> QED BY <1>5, <1>6 DEF SlotTable

LEMMA SaysBitsHaveOwners ==
    ASSUME TypeOK, BitsHaveOwners, NEW c \in Senders, NEW i \in Slots, NEW V,
           NEW on, NEW base \in {BlobBase, StreamBase}, Says(c, i, V, on, base)
    PROVE  BitsHaveOwners'
<1> SUFFICES ASSUME NEW v \in VecIds, NEW j \in Slots,
                    {BlobBase + j, StreamBase + j} \cap flags'[v] # {}
             PROVE  clientHashes'[j] # 0
  BY DEF BitsHaveOwners
<1>1. CASE j = i
  BY <1>1, HashAssumption DEF Says, TypeOK
<1>2. CASE j # i
  <2>1. base + i \notin {BlobBase + j, StreamBase + j}
    BY <1>2, BitsApart
  <2>2. {BlobBase + j, StreamBase + j} \cap flags[v] # {}
    BY <2>1 DEF Says
  <2> QED BY <1>2, <2>2 DEF BitsHaveOwners, Says, TypeOK
<1> QED BY <1>1, <1>2

LEMMA NextTables ==
    TypeOK /\ SlotTable /\ BitsHaveOwners /\ BitsMatchKind /\ [Next]_vars
        => (SlotTable /\ BitsHaveOwners /\ BitsMatchKind)'
<1> SUFFICES ASSUME TypeOK, SlotTable, BitsHaveOwners, BitsMatchKind, [Next]_vars
             PROVE  (SlotTable /\ BitsHaveOwners /\ BitsMatchKind)'
  OBVIOUS
<1>1. CASE TablesKept
  <2>1. SlotTable'
    BY <1>1 DEF TablesKept, SlotTable
  <2>2. ASSUME NEW v \in VecIds, NEW j \in Slots
        PROVE  /\ BlobBase + j \in flags'[v] <=> BlobBase + j \in flags[v]
               /\ StreamBase + j \in flags'[v] <=> StreamBase + j \in flags[v]
    BY <1>1, BitsApart DEF TablesKept
  <2>3. BitsHaveOwners'
    BY <1>1, <2>2 DEF TablesKept, BitsHaveOwners
  <2>4. BitsMatchKind'
    BY <2>2 DEF BitsMatchKind, BLOB_MASK, STREAM_MASK
  <2> QED BY <2>1, <2>3, <2>4
<1>2. ASSUME SaysBlobs
      PROVE  (SlotTable /\ BitsHaveOwners /\ BitsMatchKind)'
  <2>1. PICK c \in Senders, i \in Slots, V \in SUBSET BlobVecs, on \in BOOLEAN :
          Says(c, i, V, on, BlobBase)
    BY <1>2 DEF SaysBlobs
  <2>2. \A v \in VecIds : /\ flags'[v] \cap STREAM_MASK \subseteq flags[v]
                          /\ v \notin BlobVecs => flags'[v] = flags[v]
    BY <2>1, BitsApart DEF Says, STREAM_MASK
  <2>3. BitsMatchKind'
    BY <2>2 DEF BitsMatchKind, BlobVecs, IsBlob
  <2> QED BY <2>1, <2>3, SaysSlotTable, SaysBitsHaveOwners
<1>3. ASSUME SaysStreams
      PROVE  (SlotTable /\ BitsHaveOwners /\ BitsMatchKind)'
  <2>1. PICK c \in Senders, i \in Slots, V \in SUBSET StreamVecs, on \in BOOLEAN :
          Says(c, i, V, on, StreamBase)
    BY <1>3 DEF SaysStreams
  <2>2. \A v \in VecIds : /\ flags'[v] \cap BLOB_MASK \subseteq flags[v]
                          /\ v \notin StreamVecs => flags'[v] = flags[v]
    BY <2>1, BitsApart DEF Says, BLOB_MASK
  <2>3. BitsMatchKind'
    BY <2>2 DEF BitsMatchKind, StreamVecs
  <2> QED BY <2>1, <2>3, SaysSlotTable, SaysBitsHaveOwners
<1> QED BY <1>1, <1>2, <1>3, TableSteps

LEMMA TablesCorrect == Spec => [](TypeOK /\ SlotTable /\ BitsHaveOwners /\ BitsMatchKind)
<1>1. Init => TypeOK /\ SlotTable /\ BitsHaveOwners /\ BitsMatchKind
  BY InitTypeOK, InitTables
<1>2. TypeOK /\ SlotTable /\ BitsHaveOwners /\ BitsMatchKind /\ [Next]_vars
        => (TypeOK /\ SlotTable /\ BitsHaveOwners /\ BitsMatchKind)'
  BY NextTypeOK, NextTables
<1> QED BY <1>1, <1>2, PTL DEF Spec

\* However many clients come and whatever they enable, the table has no hole
\* and no client in it twice (_get_client_index takes the first slot that fits).
THEOREM SlotTableCorrect == Spec => []SlotTable
  BY TablesCorrect, PTL

\* No bit is ever set for a slot nobody has.
THEOREM BitsHaveOwnersCorrect == Spec => []BitsHaveOwners
  BY TablesCorrect, PTL

\* BLOB bits stay on BLOB vectors and stream bits on stream vectors.
THEOREM BitsMatchKindCorrect == Spec => []BitsMatchKind
  BY TablesCorrect, PTL

(***************************************************************************)
(* The refinement: slots, hashes and bits implement sets of clients.       *)
(***************************************************************************)

\* A client that has no slot finds one only while fewer clients than slots
\* are known.
LEMMA RoomFacts ==
    ASSUME TypeOK, NEW i \in Slots, clientHashes[i] = 0
    PROVE  Cardinality(KnownClients) < NSlots
<1> DEFINE f == [c \in KnownClients |-> CHOOSE j \in Slots : j \in SlotOf(c)]
           T == Slots \ {i}
<1>1. IsFiniteSet(Slots) /\ Cardinality(Slots) = NSlots /\ NSlots \in Nat \ {0}
  <2>1. NSlots \in Nat \ {0}
    BY ClientsAssumption
  <2> QED BY <2>1, FS_Interval DEF Slots
<1>2. IsFiniteSet(T) /\ Cardinality(T) = NSlots - 1
  BY <1>1, FS_RemoveElement
<1>3. ASSUME NEW c \in KnownClients
      PROVE  f[c] \in T /\ clientHashes[f[c]] = Hash[c]
  <2>1. \E j \in Slots : j \in SlotOf(c)
    BY DEF KnownClients, SlotOf
  <2>2. f[c] \in Slots /\ f[c] \in SlotOf(c)
    BY <2>1
  <2>3. Hash[c] # 0
    BY HashAssumption DEF KnownClients
  <2> QED BY <2>2, <2>3 DEF SlotOf
<1>4. \A c, e \in KnownClients : f[c] = f[e] => c = e
  BY <1>3, HashAssumption DEF KnownClients
<1>5. f \in Injection(KnownClients, T)
  <2>1. f \in [KnownClients -> T]
    BY <1>3
  <2> HIDE DEF f, T
  <2> QED BY <2>1, <1>4 DEF Injection, IsInjective
<1> HIDE DEF f, T
<1>6. IsFiniteSet(KnownClients) /\ Cardinality(KnownClients) <= Cardinality(T)
  BY <1>2, <1>5, FS_Injection
<1>7. Cardinality(KnownClients) \in Nat
  BY <1>6, FS_CardinalityType
<1> QED BY <1>1, <1>2, <1>6, <1>7

\* What a client's word does to the sets of clients.
Speaks(c, V, on, base) ==
    /\ c \in KnownClients \/ Cardinality(KnownClients) < NSlots
    /\ KnownClients' = KnownClients \cup {c}
    /\ \A v \in VecIds :
         Wanting(v, base)' = IF v \notin V THEN Wanting(v, base)
                             ELSE IF on THEN Wanting(v, base) \cup {c}
                             ELSE Wanting(v, base) \ {c}
    /\ \A v \in VecIds, other \in {BlobBase, StreamBase} :
         other # base => Wanting(v, other)' = Wanting(v, other)

LEMMA SaysFacts ==
    ASSUME TypeOK, SlotTable, BitsHaveOwners, NEW c \in Senders, NEW i \in Slots,
           NEW V \in SUBSET VecIds, NEW on \in BOOLEAN,
           NEW base \in {BlobBase, StreamBase}, Says(c, i, V, on, base)
    PROVE  Speaks(c, V, on, base)
<1>1. /\ \/ SlotOf(c) = {i}
         \/ SlotOf(c) = {} /\ clientHashes[i] = 0
      /\ \A j \in Slots : clientHashes[j] = Hash[c] => j = i
  BY IndexFacts DEF Says
<1>2. \A j \in Slots : clientHashes'[j] = IF j = i THEN Hash[c] ELSE clientHashes[j]
  BY DEF Says, TypeOK
<1>3. SlotOf(c)' = {i}
  BY <1>1, <1>2 DEF SlotOf
<1>4. \A e \in Senders : e # c => SlotOf(e)' = SlotOf(e) /\ i \notin SlotOf(e)
  <2>1. ASSUME NEW e \in Senders, e # c
        PROVE  SlotOf(e)' = SlotOf(e) /\ i \notin SlotOf(e)
    <3>1. Hash[e] # Hash[c] /\ Hash[e] # 0 /\ Hash[c] # 0
      BY <2>1, HashAssumption
    <3>2. clientHashes[i] # Hash[e]
      BY <1>1, <3>1 DEF SlotOf
    <3> QED BY <1>2, <3>1, <3>2 DEF SlotOf
  <2> QED BY <2>1
<1>5. c \in KnownClients \/ Cardinality(KnownClients) < NSlots
  BY <1>1, RoomFacts DEF KnownClients
<1>6. KnownClients' = KnownClients \cup {c}
  BY <1>3, <1>4 DEF KnownClients
<1>7. ASSUME NEW v \in VecIds, NEW b \in {BlobBase, StreamBase}, NEW e \in Senders,
             e # c
      PROVE  e \in Wanting(v, b)' <=> e \in Wanting(v, b)
  <2>1. SlotOf(e)' = SlotOf(e) /\ i \notin SlotOf(e)
    BY <1>4, <1>7
  <2>2. \A j \in SlotOf(e) : b + j \in flags'[v] <=> b + j \in flags[v]
    <3>1. ASSUME NEW j \in SlotOf(e) PROVE base + i # b + j
      <4>1. j \in Slots /\ j # i
        BY <2>1 DEF SlotOf
      <4> QED BY <4>1, BitsApart
    <3> QED BY <3>1 DEF Says
  <2> QED BY <2>1, <2>2 DEF Wanting
<1>8. ASSUME NEW v \in VecIds, NEW b \in {BlobBase, StreamBase}
      PROVE  /\ c \in Wanting(v, b)' <=> b + i \in flags'[v]
             /\ c \in Wanting(v, b) <=> b + i \in flags[v]
  <2>1. c \in Wanting(v, b)' <=> b + i \in flags'[v]
    BY <1>3 DEF Wanting
  <2>2. SlotOf(c) = {} => b + i \notin flags[v]
    BY <1>1, HashAssumption DEF BitsHaveOwners, SlotOf
  <2>3. c \in Wanting(v, b) <=> b + i \in flags[v]
    BY <1>1, <2>2 DEF Wanting
  <2> QED BY <2>1, <2>3
<1>9. ASSUME NEW v \in VecIds
      PROVE  Wanting(v, base)' = IF v \notin V THEN Wanting(v, base)
                                 ELSE IF on THEN Wanting(v, base) \cup {c}
                                 ELSE Wanting(v, base) \ {c}
  <2>1. /\ Wanting(v, base)' \subseteq Senders
        /\ Wanting(v, base) \subseteq Senders
    BY DEF Wanting
  <2>2. c \in Wanting(v, base)' <=> IF v \notin V THEN c \in Wanting(v, base) ELSE on
    BY <1>8 DEF Says
  <2> QED BY <2>1, <2>2, <1>7
<1>10. ASSUME NEW v \in VecIds, NEW other \in {BlobBase, StreamBase}, other # base
       PROVE  Wanting(v, other)' = Wanting(v, other)
  <2>1. /\ Wanting(v, other)' \subseteq Senders
        /\ Wanting(v, other) \subseteq Senders
    BY DEF Wanting
  <2>2. base + i # other + i
    BY <1>10, BitsApart
  <2>3. c \in Wanting(v, other)' <=> c \in Wanting(v, other)
    BY <1>8, <2>2 DEF Says
  <2> QED BY <2>1, <2>3, <1>7
<1> QED BY <1>5, <1>6, <1>9, <1>10 DEF Speaks

\* The other steps change none of the sets.
LEMMA KeptFacts ==
    ASSUME TablesKept
    PROVE  /\ KnownClients' = KnownClients
           /\ \A v \in VecIds, base \in {BlobBase, StreamBase} :
                Wanting(v, base)' = Wanting(v, base)
<1>1. \A e \in Senders : SlotOf(e)' = SlotOf(e)
  BY DEF TablesKept, SlotOf
<1>2. ASSUME NEW v \in VecIds, NEW base \in {BlobBase, StreamBase}, NEW j \in Slots
      PROVE  base + j \in flags'[v] <=> base + j \in flags[v]
  BY BitsApart DEF TablesKept
<1> QED BY <1>1, <1>2 DEF KnownClients, Wanting, SlotOf

\* A BLOB leaves only when some client wants it: a bit of the mask that is set
\* belongs to the client whose slot it is.
LEMMA NotifyBlobs ==
    ASSUME TypeOK, BitsHaveOwners, NEW v \in VecIds, out' = Notify(v)
    PROVE  \/ BlobsSent(out') = {}
           \/ v \in BlobVecs /\ BlobsSent(out') = {v} /\ Wanting(v, BlobBase) # {}
<1>1. \A m \in Notify(v) : m = SetMsg(v)
  BY DEF Notify
<1>2. SetMsg(v).vec = v
  BY DEF SetMsg
<1>3. CASE v \notin BlobVecs \/ Notify(v) = {}
  BY <1>1, <1>2, <1>3 DEF BlobsSent
<1>4. CASE v \in BlobVecs /\ Notify(v) # {}
  <2>1. Notify(v) = {SetMsg(v)} /\ flags[v] \cap BLOB_MASK # {}
    BY <1>4 DEF Notify, BlobVecs, IsBlob
  <2>2. PICK i \in Slots : BlobBase + i \in flags[v]
    BY <2>1 DEF BLOB_MASK
  <2>3. clientHashes[i] # 0
    BY <2>2 DEF BitsHaveOwners
  <2>4. PICK c \in Senders : clientHashes[i] = Hash[c]
    BY <2>3 DEF TypeOK
  <2>5. c \in Wanting(v, BlobBase)
    BY <2>2, <2>4 DEF Wanting, SlotOf
  <2>6. BlobsSent(out') = {v}
    BY <2>1, <1>2, <1>4 DEF BlobsSent, SetMsg
  <2> QED BY <1>4, <2>5, <2>6
<1> QED BY <1>3, <1>4

\* No other step sends one.
LEMMA SentFacts ==
    ASSUME TypeOK, BitsHaveOwners, Next
    PROVE  \/ BlobsSent(out') = {}
           \/ \E v \in BlobVecs : BlobsSent(out') = {v} /\ Wanting(v, BlobBase) # {}
<1>1. ASSUME \A m \in out' : m.tag # "set" PROVE BlobsSent(out') = {}
  BY <1>1 DEF BlobsSent
<1>2. CASE FinishSet
  BY <1>2, JobFacts, NotifyBlobs DEF FinishSet, LoopDone
<1>3. ASSUME NEW v \in VecIds, AppNotify(v)
      PROVE  \/ BlobsSent(out') = {}
             \/ \E w \in BlobVecs : BlobsSent(out') = {w} /\ Wanting(w, BlobBase) # {}
  BY <1>3, NotifyBlobs DEF AppNotify
<1>4. CASE Request
  BY <1>1, <1>4
     DEF Request, GetProperties, EnableBlob, EnableStream, BeginSet,
         SetMasterClient, DefMsg
<1>5. CASE ApplyPair \/ RefusePair \/ SkipPair
  BY <1>1, <1>5 DEF ApplyPair, RefusePair, SkipPair
<1>6. CASE Application
  <2>1. ASSUME NEW d \in Devices, NEW n \in MaybeName,
               Enable(d, n) \/ Disable(d, n) \/ SendDelProperty(d, n)
        PROVE  BlobsSent(out') = {}
    BY <1>1, <2>1 DEF Enable, Disable, SendDelProperty, DefMsg, DelMsg
  <2>2. ASSUME NEW d \in Devices, SendMessage(d)
        PROVE  BlobsSent(out') = {}
    BY <1>1, <2>2 DEF SendMessage, NoteMsg
  <2>3. CASE Ping
    BY <1>1, <2>3 DEF Ping, PingMsg, MasterMsg
  <2>4. ASSUME NEW v \in VecIds, NEW i \in Cols(v), AppSet(v, i)
        PROVE  BlobsSent(out') = {}
    BY <1>1, <2>4 DEF AppSet
  <2> QED BY <1>3, <1>6, <2>1, <2>2, <2>3, <2>4 DEF Application
<1> QED BY <1>2, <1>4, <1>5, <1>6 DEF Next, Handler

LEMMA BlobsOfNothing == BlobsSent({}) = {}
  BY DEF BlobsSent

LEMMA InitRefines == Init => Sub!SubInit
<1> SUFFICES ASSUME Init PROVE Sub!SubInit
  OBVIOUS
<1>1. \A c \in Senders : SlotOf(c) = {}
  BY HashAssumption DEF Init, SlotOf
<1>2. KnownClients = {} /\ \A v, base : Wanting(v, base) = {}
  BY <1>1 DEF KnownClients, Wanting
<1>3. BlobsSent(out) = {}
  BY BlobsOfNothing DEF Init
<1> QED BY <1>2, <1>3 DEF Sub!SubInit

LEMMA StepRefines ==
    ASSUME TypeOK, SlotTable, BitsHaveOwners, [Next]_vars
    PROVE  [Sub!SubNext]_(Sub!subVars)
<1>1. BlobVecs \subseteq VecIds /\ StreamVecs \subseteq VecIds
  BY DEF BlobVecs, StreamVecs
<1>2. ASSUME out' = {}, SaysBlobs
      PROVE  Sub!SayBlobs
  <2>1. PICK c \in Senders, i \in Slots, V \in SUBSET BlobVecs, on \in BOOLEAN :
          Says(c, i, V, on, BlobBase)
    BY <1>2 DEF SaysBlobs
  <2>2. BlobBase # StreamBase
    BY ClientsAssumption DEF BlobBase, StreamBase
  <2>3. /\ c \in KnownClients \/ Cardinality(KnownClients) < NSlots
        /\ KnownClients' = KnownClients \cup {c}
        /\ \A v \in BlobVecs :
             Wanting(v, BlobBase)' = IF v \notin V THEN Wanting(v, BlobBase)
                                   ELSE IF on THEN Wanting(v, BlobBase) \cup {c}
                                   ELSE Wanting(v, BlobBase) \ {c}
        /\ \A v \in StreamVecs : Wanting(v, StreamBase)' = Wanting(v, StreamBase)
    <3>1. V \in SUBSET VecIds
      BY <1>1
    <3>2. BlobBase \in {BlobBase, StreamBase} /\ StreamBase \in {BlobBase, StreamBase}
      OBVIOUS
    <3>3. Speaks(c, V, on, BlobBase)
      BY <2>1, <3>1, <3>2, SaysFacts
    <3> QED BY <2>2, <3>2, <3>3, <1>1 DEF Speaks
  <2>4. Sub!Remember(c)
    BY <2>3 DEF Sub!Remember, Cardinality, Sub!Cardinality
  <2>5. [v \in BlobVecs |-> Wanting(v, BlobBase)]'
          = Sub!Say([v \in BlobVecs |-> Wanting(v, BlobBase)], c, V, on)
    BY <2>3 DEF Sub!Say
  <2>6. [v \in StreamVecs |-> Wanting(v, StreamBase)]'
          = [v \in StreamVecs |-> Wanting(v, StreamBase)]
    BY <2>3
  <2> QED BY <2>4, <2>5, <2>6, <1>2, BlobsOfNothing DEF Sub!SayBlobs
<1>3. ASSUME out' = {}, SaysStreams
      PROVE  Sub!SayStreams
  <2>1. PICK c \in Senders, i \in Slots, V \in SUBSET StreamVecs, on \in BOOLEAN :
          Says(c, i, V, on, StreamBase)
    BY <1>3 DEF SaysStreams
  <2>2. BlobBase # StreamBase
    BY ClientsAssumption DEF BlobBase, StreamBase
  <2>3. /\ c \in KnownClients \/ Cardinality(KnownClients) < NSlots
        /\ KnownClients' = KnownClients \cup {c}
        /\ \A v \in StreamVecs :
             Wanting(v, StreamBase)' = IF v \notin V THEN Wanting(v, StreamBase)
                                   ELSE IF on THEN Wanting(v, StreamBase) \cup {c}
                                   ELSE Wanting(v, StreamBase) \ {c}
        /\ \A v \in BlobVecs : Wanting(v, BlobBase)' = Wanting(v, BlobBase)
    <3>1. V \in SUBSET VecIds
      BY <1>1
    <3>2. StreamBase \in {BlobBase, StreamBase} /\ BlobBase \in {BlobBase, StreamBase}
      OBVIOUS
    <3>3. Speaks(c, V, on, StreamBase)
      BY <2>1, <3>1, <3>2, SaysFacts
    <3> QED BY <2>2, <3>2, <3>3, <1>1 DEF Speaks
  <2>4. Sub!Remember(c)
    BY <2>3 DEF Sub!Remember, Cardinality, Sub!Cardinality
  <2>5. [v \in StreamVecs |-> Wanting(v, StreamBase)]'
          = Sub!Say([v \in StreamVecs |-> Wanting(v, StreamBase)], c, V, on)
    BY <2>3 DEF Sub!Say
  <2>6. [v \in BlobVecs |-> Wanting(v, BlobBase)]'
          = [v \in BlobVecs |-> Wanting(v, BlobBase)]
    BY <2>3
  <2> QED BY <2>4, <2>5, <2>6, <1>3, BlobsOfNothing DEF Sub!SayStreams
<1>4. CASE TablesKept
  <2>1. /\ KnownClients' = KnownClients
        /\ [v \in BlobVecs |-> Wanting(v, BlobBase)]'
             = [v \in BlobVecs |-> Wanting(v, BlobBase)]
        /\ [v \in StreamVecs |-> Wanting(v, StreamBase)]'
             = [v \in StreamVecs |-> Wanting(v, StreamBase)]
    BY <1>1, <1>4, KeptFacts
  <2>2. CASE UNCHANGED vars
    BY <2>1, <2>2 DEF vars, Sub!subVars, BlobsSent
  <2>3. CASE BlobsSent(out') = {}
    BY <2>1, <2>3 DEF Sub!SubNext, Sub!Quiet
  <2>4. ASSUME NEW v \in BlobVecs, BlobsSent(out') = {v}, Wanting(v, BlobBase) # {}
        PROVE  Sub!Send
    BY <2>1, <2>4 DEF Sub!Send
  <2> QED BY <2>2, <2>3, <2>4, SentFacts DEF Sub!SubNext
<1> QED BY <1>2, <1>3, <1>4, TableSteps DEF Sub!SubNext

\* The node's client table and flags words implement NyxSubscriptions: as seen
\* from outside, every client has its own say on every vector, whichever slots
\* the clients took, and no BLOB leaves unless some client asked for it.
THEOREM SubscriptionsCorrect == Spec => Subscriptions
<1>1. Init => Sub!SubInit
  BY InitRefines
<1>2. TypeOK /\ SlotTable /\ BitsHaveOwners /\ [Next]_vars
        => [Sub!SubNext]_(Sub!subVars)
  BY StepRefines
<1> QED BY <1>1, <1>2, TablesCorrect, PTL DEF Spec, Subscriptions, Sub!SubSpec
===============================================================================
