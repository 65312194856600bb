--------------------------- MODULE NyxSystemProofs ---------------------------
(***************************************************************************)
(* Proofs about NyxSystem: what the client shows agrees with the node      *)
(* again after any number of broken connections, for every list of         *)
(* vectors, every set of vectors too big for the buffer and any number of  *)
(* batches on their way.                                                   *)
(***************************************************************************)
EXTENDS NyxSystem, NyxNodeProofs

(***************************************************************************)
(* What the steps of the node publish.                                     *)
(***************************************************************************)

\* The messages of one step: what they show of a vector is its value, only
\* enabled vectors are shown, and a vector is shown or deleted, not both.
Consistent(msgs) ==
    \A v \in VecIds :
        /\ \A m \in msgs : m.tag \in {"def", "set"} /\ m.vec = v => m.vals # Absent
        /\ ~(Deletes(v, msgs) /\ (Defines(v, msgs) \/ Updates(v, msgs)))

Truthful ==
    \A v \in VecIds :
        /\ \A m \in out' : m.tag \in {"def", "set"} /\ m.vec = v => m.vals = value'[v]
        /\ Defines(v, out') \/ Updates(v, out') => ~Disabled(v)'

\* A vector changes between enabled and disabled only in public.
Announced ==
    \A v \in VecIds :
        /\ Disabled(v) /\ ~Disabled(v)' => Defines(v, out')
        /\ ~Disabled(v) /\ Disabled(v)' => Deletes(v, out')

NodePublishes == Consistent(out') /\ Truthful /\ Announced

LEMMA ValueNotAbsent ==
    ASSUME ValueOK, NEW v \in VecIds
    PROVE  value[v] # Absent
<1>1. DOMAIN value[v] = 1 .. Len(Vectors[v].props) /\ Len(Vectors[v].props) \in Nat \ {0}
  BY VectorFacts DEF ValueOK
<1>2. 1 \in DOMAIN value[v]
  BY <1>1
<1>3. 1 \notin DOMAIN Absent
  BY DEF Absent
<1> QED BY <1>2, <1>3

LEMMA QuietPublishes ==
    ASSUME out' = {}, UNCHANGED flags
    PROVE  NodePublishes
  BY DEF NodePublishes, Consistent, Truthful, Announced, Defines, Updates, Deletes,
         Disabled

\* Definitions of enabled vectors.
LEMMA DefsPublish ==
    ASSUME TypeOK, UNCHANGED value, NEW D \in SUBSET VecIds,
           out' = {DefMsg(v) : v \in D},
           \A v \in VecIds : v \in D => ~Disabled(v)',
           \A v \in VecIds : v \notin D => flags'[v] = flags[v]
    PROVE  NodePublishes
<1>1. \A m \in out' : m.tag = "def" /\ m.vec \in D /\ m.vals = value[m.vec]
  BY DEF DefMsg
<1>2. \A v \in VecIds : ~Deletes(v, out') /\ ~Updates(v, out')
  BY <1>1 DEF Deletes, Updates
<1>3. \A v \in VecIds : Defines(v, out') <=> v \in D
  <2>1. \A v \in D : DefMsg(v) \in out' /\ DefMsg(v).tag = "def" /\ DefMsg(v).vec = v
    BY DEF DefMsg
  <2> QED BY <1>1, <2>1 DEF Defines
<1>4. Consistent(out')
  BY <1>1, <1>2, ValueNotAbsent DEF Consistent, TypeOK
<1>5. Truthful
  BY <1>1, <1>2, <1>3 DEF Truthful
<1>6. Announced
  BY <1>3 DEF Announced, Disabled
<1> QED BY <1>4, <1>5, <1>6 DEF NodePublishes

LEMMA NotifyPublishes ==
    ASSUME TypeOK, UNCHANGED <<value, flags>>, NEW v \in VecIds, out' = Notify(v)
    PROVE  NodePublishes
<1>1. \A m \in out' : m = SetMsg(v) /\ ~Disabled(v)
  BY DEF Notify
<1>2. \A m \in out' : m.tag = "set" /\ m.vec = v /\ m.vals = value[v]
  BY <1>1 DEF SetMsg
<1>3. \A w \in VecIds : ~Deletes(w, out') /\ ~Defines(w, out')
  BY <1>2 DEF Deletes, Defines
<1>4. Consistent(out')
  BY <1>2, <1>3, ValueNotAbsent DEF Consistent, TypeOK
<1>5. Truthful
  BY <1>1, <1>2, <1>3 DEF Truthful, Updates, Disabled
<1> QED BY <1>4, <1>5 DEF NodePublishes, Announced, Disabled

LEMMA DeletionPublishes ==
    ASSUME TypeOK, NEW d \in Devices, NEW n \in MaybeName,
           Disable(d, n) \/ SendDelProperty(d, n)
    PROVE  NodePublishes
<1>1. out' = {DelMsg(d, n)}
  BY DEF Disable, SendDelProperty
<1>2. \A v \in VecIds : ~Defines(v, out') /\ ~Updates(v, out')
  BY <1>1 DEF Defines, Updates, DelMsg
<1>3. \A v \in VecIds : Deletes(v, out') <=> Matches(v, d, n)
  BY <1>1 DEF Deletes, DelMsg
<1>4. Consistent(out') /\ Truthful
  BY <1>1, <1>2 DEF Consistent, Truthful, DelMsg
<1>5. \A v \in VecIds : Matches(v, d, n) \/ flags'[v] = flags[v]
  BY DEF Disable, SendDelProperty, TypeOK
<1>6. \A v \in VecIds : Disabled(v) => Disabled(v)'
  BY DEF Disable, SendDelProperty, Disabled, TypeOK
<1> QED BY <1>3, <1>4, <1>5, <1>6 DEF NodePublishes, Announced, Disabled

LEMMA EnablePublishes ==
    ASSUME TypeOK, NEW d \in Devices, NEW n \in MaybeName, Enable(d, n)
    PROVE  NodePublishes
<1> DEFINE D == {w \in VecIds : Matches(w, d, n)}
<1>1. /\ UNCHANGED value /\ out' = {DefMsg(v) : v \in D}
      /\ flags' = [v \in VecIds |-> IF v \in D THEN flags[v] \ {DISABLED} ELSE flags[v]]
  BY DEF Enable
<1>2. \A v \in D : ~Disabled(v)'
  BY <1>1 DEF Disabled
<1>3. \A v \in VecIds : v \notin D => flags'[v] = flags[v]
  BY <1>1
<1>4. D \in SUBSET VecIds
  OBVIOUS
<1> HIDE DEF D
<1> QED BY <1>1, <1>2, <1>3, <1>4, DefsPublish

LEMMA GetPropertiesPublishes ==
    ASSUME TypeOK, NEW d, NEW n, GetProperties(d, n)
    PROVE  NodePublishes
<1> DEFINE D == {w \in VecIds : ~Disabled(w) /\ Matches(w, d, n)}
<1>1. UNCHANGED <<value, flags>> /\ out' = {DefMsg(v) : v \in D}
  BY DEF GetProperties
<1>2. D \in SUBSET VecIds /\ \A v \in D : ~Disabled(v)'
  BY <1>1 DEF Disabled
<1> HIDE DEF D
<1> QED BY <1>1, <1>2, DefsPublish

LEMMA SessionDefsPublish ==
    ASSUME TypeOK, UNCHANGED <<value, flags>>, out' = SessionDefs
    PROVE  NodePublishes
<1> DEFINE D == {w \in VecIds : ~Disabled(w)}
<1>1. out' = {DefMsg(v) : v \in D}
  BY DEF SessionDefs
<1>2. D \in SUBSET VecIds /\ \A v \in D : ~Disabled(v)'
  BY DEF Disabled
<1> HIDE DEF D
<1> QED BY <1>1, <1>2, DefsPublish

(***************************************************************************)
(* The invariant.                                                          *)
(***************************************************************************)
Mirrors == [VecIds -> Seq(OnOff \cup Payloads)]

SystemTypeOK ==
    /\ TypeOK
    /\ resolved \subseteq Services
    /\ up \in [Services -> BOOLEAN]
    /\ tcp \in [Services -> {"closed", "open", "broken"}]
    /\ wire \in Seq(SUBSET Published)
    /\ asked \subseteq VecIds /\ missed \subseteq VecIds
    /\ busy \in [VecIds -> BOOLEAN]
    /\ mirror \in Mirrors /\ ideal \in Mirrors

\* What is on its way was published by one step per batch, and fits.
WireOK(w) ==
    \A k \in 1 .. Len(w) :
        /\ Consistent(w[k])
        /\ \A m \in w[k] : m.tag \in {"def", "set", "del"} /\ Fits(m)

\* views[k] is what the client shows after the next k batches.
Ahead(views, w, view) ==
    views = [k \in 0 .. Len(w) |-> IF k = 0 THEN view ELSE Shown(views[k - 1], w[k])]

\* A vector the ideal client does not show, and whose deletion is not lost, is
\* not shown either, or a deletion is on its way.
DeletionsArrive(views, w, id, mi) ==
    \A v \in VecIds \ Big, k \in 0 .. Len(w) :
        id[v] = Absent /\ v \notin mi /\ views[k][v] # Absent =>
            \E j \in k + 1 .. Len(w) : Deletes(v, w[j])

\* Once everything has arrived the client shows what the ideal client shows.
CatchesUp(views, w, id, mi) ==
    \A v \in (VecIds \ Big) \ mi : views[Len(w)][v] = id[v]

\* The ideal client never shows a disabled vector.
DisabledNotShown == \A v \in VecIds : Disabled(v) => ideal[v] = Absent

\* With a session, only a disabled vector has a deletion lost for good.
MissedDisabled == Connected => \A v \in missed \ Big : Disabled(v)

BigNotShown == \A v \in Big : mirror[v] = Absent

ViewsAgree(views) ==
    /\ Ahead(views, wire, mirror)
    /\ DeletionsArrive(views, wire, ideal, missed)
    /\ Connected => CatchesUp(views, wire, ideal, missed)

MirrorInv ==
    /\ SystemTypeOK
    /\ WireOK(wire)
    /\ DisabledNotShown /\ MissedDisabled /\ BigNotShown
    /\ \E views : ViewsAgree(views)

(***************************************************************************)
(* Facts about what a client shows.                                        *)
(***************************************************************************)
LEMMA ValsFact ==
    ASSUME NEW v, NEW msgs, Defines(v, msgs) \/ Updates(v, msgs)
    PROVE  \E m \in msgs : /\ m.tag \in {"def", "set"} /\ m.vec = v
                           /\ Vals(v, msgs) = m.vals
<1>1. \E m \in msgs : m.tag \in {"def", "set"} /\ m.vec = v
  BY DEF Defines, Updates
<1> QED BY <1>1 DEF Vals

LEMMA ValsShown ==
    ASSUME NEW v \in VecIds, NEW msgs, Consistent(msgs),
           Defines(v, msgs) \/ Updates(v, msgs)
    PROVE  Vals(v, msgs) # Absent
<1>1. \E m \in msgs : m.tag \in {"def", "set"} /\ m.vec = v
  BY DEF Defines, Updates
<1> QED BY <1>1 DEF Vals, Consistent

LEMMA ValsTyped ==
    ASSUME NEW v \in VecIds, NEW msgs \in SUBSET Published,
           Defines(v, msgs) \/ Updates(v, msgs)
    PROVE  Vals(v, msgs) \in Seq(OnOff \cup Payloads)
<1>1. PICK m \in msgs : m.tag \in {"def", "set"} /\ m.vec = v
  BY DEF Defines, Updates
<1>2. \A m2 \in msgs : m2.tag \in {"def", "set"} => m2.vals \in Seq(OnOff \cup Payloads)
  BY DEF Published
<1> QED BY <1>1, <1>2 DEF Vals

LEMMA ShownTyped ==
    ASSUME NEW view \in Mirrors, NEW msgs \in SUBSET Published
    PROVE  Shown(view, msgs) \in Mirrors
<1> SUFFICES ASSUME NEW v \in VecIds
             PROVE  Shown(view, msgs)[v] \in Seq(OnOff \cup Payloads)
  BY DEF Shown, Mirrors
<1>1. Absent \in Seq(OnOff \cup Payloads)
  BY EmptySeq DEF Absent
<1> QED BY <1>1, ValsTyped DEF Shown, Mirrors

\* The four cases of a batch, for one vector.
LEMMA ShownFacts ==
    ASSUME NEW v \in VecIds, NEW view, NEW msgs, Consistent(msgs)
    PROVE  /\ Defines(v, msgs) => Shown(view, msgs)[v] = Vals(v, msgs)
           /\ Updates(v, msgs) /\ view[v] # Absent => Shown(view, msgs)[v] = Vals(v, msgs)
           /\ Deletes(v, msgs) => Shown(view, msgs)[v] = Absent
           /\ view[v] = Absent /\ ~Defines(v, msgs) => Shown(view, msgs)[v] = Absent
           /\ ~Concerns(v, msgs) => Shown(view, msgs)[v] = view[v]
           /\ Defines(v, msgs) => Shown(view, msgs)[v] # Absent
           /\ Shown(view, msgs)[v] = Absent =>
                 ~Defines(v, msgs) /\ (view[v] = Absent \/ Deletes(v, msgs))
  BY ValsShown DEF Shown, Consistent, Concerns

\* A batch as the broker gets it, for a vector that fits.
LEMMA SentFacts ==
    ASSUME NEW v \in VecIds \ Big, NEW msgs
    PROVE  /\ Defines(v, Sent(msgs)) <=> Defines(v, msgs)
           /\ Updates(v, Sent(msgs)) <=> Updates(v, msgs)
           /\ Deletes(v, Sent(msgs)) <=> Deletes(v, msgs)
  BY DEF Sent, Fits, Defines, Updates, Deletes

LEMMA PartConsistent ==
    ASSUME NEW msgs, Consistent(msgs), NEW part \in SUBSET msgs
    PROVE  Consistent(part)
  BY DEF Consistent, Defines, Updates, Deletes

LEMMA AppendViews ==
    ASSUME NEW T, NEW w \in Seq(T), NEW s \in T, NEW view, NEW views, Ahead(views, w, view)
    PROVE  Ahead([k \in 0 .. Len(w) + 1 |-> IF k = Len(w) + 1 THEN Shown(views[Len(w)], s)
                                            ELSE views[k]],
                 Append(w, s), view)
<1> DEFINE n == Len(w)
           vs == [k \in 0 .. n + 1 |-> IF k = n + 1 THEN Shown(views[n], s) ELSE views[k]]
           u == Append(w, s)
<1>1. /\ n \in Nat /\ Len(u) = n + 1 /\ u[n + 1] = s
      /\ \A k \in 1 .. n : u[k] = w[k]
  BY AppendProperties, LenProperties
<1>2. \A k \in 0 .. n : views[k] = IF k = 0 THEN view ELSE Shown(views[k - 1], w[k])
  BY <1>1 DEF Ahead
<1>3. ASSUME NEW k \in 0 .. n + 1
      PROVE  vs[k] = IF k = 0 THEN view ELSE Shown(vs[k - 1], u[k])
  <2>1. CASE k = n + 1
    BY <2>1, <1>1
  <2>2. CASE k # n + 1
    <3>1. k \in 0 .. n /\ vs[k] = views[k]
      BY <2>2, <1>1
    <3>2. CASE k = 0
      BY <3>1, <3>2, <1>2
    <3>3. CASE k # 0
      <4>1. vs[k - 1] = views[k - 1] /\ u[k] = w[k]
        BY <3>1, <3>3, <1>1
      <4> QED BY <3>1, <3>3, <4>1, <1>2
    <3> QED BY <3>2, <3>3
  <2> QED BY <2>1, <2>2
<1> HIDE DEF vs, u
<1>4. vs = [k \in 0 .. Len(u) |-> IF k = 0 THEN view ELSE Shown(vs[k - 1], u[k])]
  <2>1. vs = [k \in 0 .. n + 1 |-> vs[k]]
    BY DEF vs
  <2> QED BY <1>1, <1>3, <2>1
<1> QED BY <1>4 DEF vs, u, Ahead

LEMMA AheadFacts ==
    ASSUME NEW T, NEW w \in Seq(T), NEW view, NEW views, Ahead(views, w, view)
    PROVE  /\ Len(w) \in Nat
           /\ views[0] = view
           /\ \A k \in 1 .. Len(w) : views[k] = Shown(views[k - 1], w[k])
<1>1. Len(w) \in Nat
  BY LenProperties
<1> QED BY <1>1 DEF Ahead

(***************************************************************************)
(* A step of the node that publishes.                                      *)
(***************************************************************************)
SessionKept ==
    /\ resolved' \subseteq Services
    /\ up' \in [Services -> BOOLEAN]
    /\ tcp' \in [Services -> {"closed", "open", "broken"}]
    /\ asked' \subseteq VecIds
    /\ Connected => Connected'
    /\ Connected' /\ ~Connected =>
          \A v \in VecIds : Disabled(v) \/ Defines(v, out')

\* With a session, a vector the step shows nothing of is as disabled as it was,
\* and one it only updates was followed by the client before.
LEMMA FollowedFacts ==
    ASSUME MirrorInv, NodePublishes, SessionKept, Connected', NEW v \in VecIds \ Big,
           ~Defines(v, out')
    PROVE  /\ Disabled(v) => Disabled(v)'
           /\ ~Connected => Disabled(v) /\ Disabled(v)'
           /\ Updates(v, out') => Connected /\ v \notin missed
  BY DEF MirrorInv, NodePublishes, SessionKept, Announced, Truthful, MissedDisabled

LEMMA PublishMissed ==
    ASSUME MirrorInv, NodePublishes, SessionKept, Publish
    PROVE  DisabledNotShown' /\ MissedDisabled'
<1>1. Consistent(out')
  BY DEF NodePublishes
<1>2. ASSUME NEW v \in VecIds, Disabled(v)'
      PROVE  ideal'[v] = Absent
  <2>1. ideal' = Shown(ideal, out')
    BY DEF Publish
  <2>2. ~Defines(v, out')
    BY <1>2 DEF NodePublishes, Truthful
  <2>3. CASE Disabled(v)
    BY <2>1, <2>2, <2>3, <1>1, ShownFacts DEF MirrorInv, DisabledNotShown
  <2>4. CASE ~Disabled(v)
    <3>1. Deletes(v, out')
      BY <1>2, <2>4 DEF NodePublishes, Announced
    <3> QED BY <2>1, <3>1, <1>1, ShownFacts
  <2> QED BY <2>3, <2>4
<1>3. ASSUME Connected', NEW v \in missed' \ Big
      PROVE  Disabled(v)'
  <2>1. v \in VecIds \ Big /\ ~Concerns(v, out') /\ v \in missed
    BY <1>3, SentFacts DEF Publish, Connected, Concerns
  <2>2. ~Defines(v, out') /\ ~Deletes(v, out')
    BY <2>1 DEF Concerns
  <2>3. Connected => Disabled(v)
    BY <2>1 DEF MirrorInv, MissedDisabled
  <2> QED BY <1>3, <2>1, <2>2, <2>3, FollowedFacts
<1> QED BY <1>2, <1>3 DEF DisabledNotShown, MissedDisabled

\* Nothing reaches the broker.
LEMMA SilentViews ==
    ASSUME MirrorInv, NodePublishes, SessionKept, Publish,
           NEW views, ViewsAgree(views),
           (IF Connected' THEN Sent(out') ELSE {}) = {}
    PROVE  ViewsAgree(views)'
<1>1. wire' = wire /\ mirror' = mirror /\ ideal' = Shown(ideal, out') /\ Consistent(out')
  BY DEF Publish, Connected, NodePublishes
<1>2. \A v \in VecIds \ Big :
          v \in missed' <=> v \in missed \/ Deletes(v, out')
  BY SystemAssumption DEF Publish, Connected, Concerns, Defines, Updates, Deletes, MirrorInv, SystemTypeOK
<1>3. Connected' => \A v \in VecIds \ Big : ~Concerns(v, out')
  BY SentFacts DEF Concerns, Defines, Updates, Deletes
<1>4. DeletionsArrive(views, wire, ideal', missed')
  <2> SUFFICES ASSUME NEW v \in VecIds \ Big, NEW k \in 0 .. Len(wire),
                      ideal'[v] = Absent, v \notin missed', views[k][v] # Absent
               PROVE  \E j \in k + 1 .. Len(wire) : Deletes(v, wire[j])
    BY DEF DeletionsArrive
  <2>1. v \notin missed /\ ~Deletes(v, out')
    BY <1>2
  <2>2. ideal[v] = Absent
    BY <1>1, <2>1, ShownFacts
  <2> QED BY <2>1, <2>2 DEF ViewsAgree, DeletionsArrive
<1>5. ASSUME Connected', NEW v \in (VecIds \ Big) \ missed'
      PROVE  views[Len(wire)][v] = ideal'[v]
  <2>1. ideal'[v] = ideal[v] /\ v \notin missed /\ ~Defines(v, out')
    BY <1>5, <1>1, <1>2, <1>3, ShownFacts DEF Concerns
  <2>2. CASE Connected
    BY <2>1, <2>2 DEF ViewsAgree, CatchesUp
  <2>3. CASE ~Connected
    <3>1. ideal[v] = Absent
      BY <2>1, <2>3, <1>5, FollowedFacts DEF MirrorInv, DisabledNotShown
    <3>2. Len(wire) \in Nat
      BY LenProperties DEF MirrorInv, SystemTypeOK
    <3>3. views[Len(wire)][v] = Absent
      BY <3>1, <3>2, <2>1 DEF ViewsAgree, DeletionsArrive
    <3> QED BY <2>1, <3>1, <3>3
  <2> QED BY <2>2, <2>3
<1> QED BY <1>1, <1>4, <1>5 DEF ViewsAgree, CatchesUp

\* With a session, once the batch has arrived the client shows what the ideal
\* client shows.
LEMMA SentCatchesUp ==
    ASSUME MirrorInv, NodePublishes, SessionKept, Publish, Connected',
           NEW views, ViewsAgree(views),
           NEW v \in VecIds \ Big, v \notin missed'
    PROVE  Shown(views[Len(wire)], Sent(out'))[v] = ideal'[v]
<1> DEFINE s == Sent(out')
           last == views[Len(wire)]
<1>1. ideal' = Shown(ideal, out') /\ Consistent(out')
  BY DEF Publish, NodePublishes
<1>2. s \subseteq out' /\ Consistent(s)
  BY <1>1, PartConsistent DEF Sent
<1>3. /\ Defines(v, s) <=> Defines(v, out')
      /\ Updates(v, s) <=> Updates(v, out')
      /\ Deletes(v, s) <=> Deletes(v, out')
  BY SentFacts
<1>4. Defines(v, s) \/ Updates(v, s) => Vals(v, s) = value'[v] /\ Vals(v, out') = value'[v]
  <2> DEFINE x == value'[v]
  <2>1. \A m \in out' : m.tag \in {"def", "set"} /\ m.vec = v => m.vals = x
    BY DEF NodePublishes, Truthful
  <2>2. \A m \in s : m.tag \in {"def", "set"} /\ m.vec = v => m.vals = x
    BY <1>2, <2>1
  <2> HIDE DEF s, x
  <2>3. ASSUME Defines(v, s) \/ Updates(v, s)
        PROVE  Vals(v, s) = x /\ Vals(v, out') = x
    <3>1. Vals(v, s) = x
      BY <2>2, <2>3, ValsFact
    <3>2. Vals(v, out') = x
      BY <1>3, <2>1, <2>3, ValsFact
    <3> QED BY <3>1, <3>2
  <2> QED BY <2>3 DEF x
<1>5. Concerns(v, s) \/ v \notin missed
  BY DEF Publish, Connected
<1> HIDE DEF s, last
<1>6. CASE Defines(v, s)
  BY <1>1, <1>2, <1>3, <1>4, <1>6, ShownFacts DEF s, last
<1>7. CASE Deletes(v, s)
  BY <1>1, <1>2, <1>3, <1>7, ShownFacts DEF s, last
<1>8. CASE ~Defines(v, s) /\ ~Deletes(v, s)
  <2>1. v \notin missed /\ (Updates(v, s) => Connected)
    BY <1>3, <1>5, <1>8, FollowedFacts DEF Concerns
  <2>2. last[v] = ideal[v]
    <3>1. CASE Connected
      BY <2>1, <3>1 DEF ViewsAgree, CatchesUp, last
    <3>2. CASE ~Connected
      <4>1. ideal[v] = Absent
        BY <1>3, <1>8, <3>2, FollowedFacts DEF MirrorInv, DisabledNotShown
      <4>2. Len(wire) \in Nat
        BY LenProperties DEF MirrorInv, SystemTypeOK
      <4> QED BY <4>1, <4>2, <2>1 DEF ViewsAgree, DeletionsArrive, last
    <3> QED BY <3>1, <3>2
  <2>3. CASE Updates(v, s) /\ last[v] # Absent
    BY <1>1, <1>2, <1>3, <1>4, <2>2, <2>3, ShownFacts DEF s, last
  <2>4. CASE last[v] = Absent
    BY <1>1, <1>2, <1>3, <1>8, <2>2, <2>4, ShownFacts DEF s, last
  <2>5. CASE ~Updates(v, s)
    <3>1. ~Concerns(v, s) /\ ~Concerns(v, out')
      BY <1>3, <1>8, <2>5 DEF Concerns
    <3>2. Shown(last, s)[v] = last[v]
      BY <1>2, <3>1, ShownFacts
    <3>3. ideal'[v] = ideal[v]
      BY <1>1, <3>1, ShownFacts
    <3> QED BY <2>2, <3>2, <3>3 DEF s, last
  <2> QED BY <2>3, <2>4, <2>5
<1> QED BY <1>6, <1>7, <1>8

LEMMA SentViews ==
    ASSUME MirrorInv, TypeOK', NodePublishes, SessionKept, Publish, Connected',
           Sent(out') # {},
           NEW views, ViewsAgree(views)
    PROVE  \E vs : /\ Ahead(vs, wire', mirror')
                   /\ DeletionsArrive(vs, wire', ideal', missed')
                   /\ CatchesUp(vs, wire', ideal', missed')
<1> DEFINE n == Len(wire)
           s == Sent(out')
           vs == [k \in 0 .. n + 1 |-> IF k = n + 1 THEN Shown(views[n], s) ELSE views[k]]
<1>1. /\ wire' = Append(wire, s) /\ mirror' = mirror
      /\ ideal' = Shown(ideal, out') /\ Consistent(out')
  BY DEF Publish, Connected, NodePublishes
<1>2. /\ wire \in Seq(SUBSET Published) /\ s \in SUBSET Published
  BY DEF MirrorInv, SystemTypeOK, TypeOK, Sent
<1>3. /\ n \in Nat /\ Len(wire') = n + 1 /\ wire'[n + 1] = s
      /\ \A k \in 1 .. n : wire'[k] = wire[k]
  <2> HIDE DEF s
  <2> QED BY <1>1, <1>2, AppendProperties, LenProperties
<1>4. Ahead(vs, wire', mirror')
  <2> HIDE DEF s
  <2> QED BY <1>1, <1>2, AppendViews DEF ViewsAgree
<1>5. vs[n + 1] = Shown(views[n], s) /\ \A k \in 0 .. n : vs[k] = views[k]
  BY <1>3
<1>6. \A v \in (VecIds \ Big) \ missed' : vs[n + 1][v] = ideal'[v]
  BY <1>5, SentCatchesUp
<1>7. DeletionsArrive(vs, wire', ideal', missed')
  <2> SUFFICES ASSUME NEW v \in VecIds \ Big, NEW k \in 0 .. n + 1,
                      ideal'[v] = Absent, v \notin missed', vs[k][v] # Absent
               PROVE  \E j \in k + 1 .. n + 1 : Deletes(v, wire'[j])
    BY <1>3 DEF DeletionsArrive
  <2>1. k \in 0 .. n
    BY <1>3, <1>6
  <2>2. views[k][v] # Absent
    BY <1>5, <2>1
  <2>3. CASE Deletes(v, s)
    BY <1>3, <2>1, <2>3
  <2>4. CASE ~Deletes(v, s)
    <3>1. /\ ~Deletes(v, out')
          /\ Defines(v, s) <=> Defines(v, out')
          /\ Updates(v, s) <=> Updates(v, out')
      BY <2>4, SentFacts
    <3>2. ideal[v] = Absent /\ ~Defines(v, out')
      BY <1>1, <3>1, ShownFacts
    <3>3. v \notin missed
      <4>1. Concerns(v, s) \/ v \notin missed
        BY DEF Publish, Connected
      <4>2. Updates(v, out') => v \notin missed
        BY <3>2, FollowedFacts
      <4> QED BY <2>4, <3>1, <3>2, <4>1, <4>2 DEF Concerns
    <3>4. PICK j \in k + 1 .. n : Deletes(v, wire[j])
      BY <2>1, <2>2, <3>2, <3>3 DEF ViewsAgree, DeletionsArrive
    <3>5. j \in 1 .. n /\ j \in k + 1 .. n + 1
      BY <2>1, <1>3
    <3> QED BY <1>3, <3>4, <3>5
  <2> QED BY <2>3, <2>4
<1>8. CatchesUp(vs, wire', ideal', missed')
  BY <1>3, <1>6 DEF CatchesUp
<1> HIDE DEF vs
<1> QED BY <1>4, <1>7, <1>8

\* The mirror catches up with every step of the node.
LEMMA PublishKeeps ==
    ASSUME MirrorInv, TypeOK', NodePublishes, SessionKept, Publish
    PROVE  MirrorInv'
<1> DEFINE s == IF Connected' THEN Sent(out') ELSE {}
<1>1. /\ wire' = IF s = {} THEN wire ELSE Append(wire, s)
      /\ ideal' = Shown(ideal, out') /\ missed' \subseteq VecIds
      /\ UNCHANGED <<mirror, busy>>
  BY DEF Publish, Connected
<1>2. wire \in Seq(SUBSET Published) /\ out' \in SUBSET Published
  BY DEF MirrorInv, SystemTypeOK, TypeOK
<1>3. /\ s \in SUBSET Published /\ Consistent(s)
      /\ \A m \in s : m.tag \in {"def", "set", "del"} /\ Fits(m)
  <2>1. Consistent(out')
    BY DEF NodePublishes
  <2> QED BY <1>2, <2>1, PartConsistent DEF Sent, Consistent, Defines, Updates, Deletes
<1> HIDE DEF s
<1>4. SystemTypeOK'
  <2>1. wire' \in Seq(SUBSET Published)
    BY <1>1, <1>2, <1>3, AppendProperties
  <2>2. ideal' \in Mirrors
    BY <1>1, <1>2, ShownTyped DEF MirrorInv, SystemTypeOK
  <2> QED BY <1>1, <2>1, <2>2 DEF MirrorInv, SystemTypeOK, SessionKept
<1>5. WireOK(wire')
  <2>1. WireOK(wire)
    BY DEF MirrorInv
  <2>2. CASE s = {}
    BY <1>1, <2>1, <2>2
  <2>3. CASE s # {}
    <3>1. /\ wire' = Append(wire, s) /\ Len(wire) \in Nat /\ Len(wire') = Len(wire) + 1
          /\ wire'[Len(wire) + 1] = s
          /\ \A k \in 1 .. Len(wire) : wire'[k] = wire[k]
      BY <1>1, <1>2, <1>3, <2>3, AppendProperties, LenProperties
    <3>2. ASSUME NEW k \in 1 .. Len(wire')
          PROVE  wire'[k] = s \/ (k \in 1 .. Len(wire) /\ wire'[k] = wire[k])
      BY <3>1
    <3> QED BY <1>3, <2>1, <3>2 DEF WireOK
  <2> QED BY <2>2, <2>3
<1>6. DisabledNotShown' /\ MissedDisabled'
  BY PublishMissed
<1>7. BigNotShown'
  BY <1>1 DEF MirrorInv, BigNotShown
<1>8. PICK views : ViewsAgree(views)
  BY DEF MirrorInv
<1>9. CASE s = {}
  BY <1>4, <1>5, <1>6, <1>7, <1>8, <1>9, SilentViews DEF MirrorInv, s
<1>10. CASE s # {}
  <2>1. \E vs : /\ Ahead(vs, wire', mirror')
                /\ DeletionsArrive(vs, wire', ideal', missed')
                /\ CatchesUp(vs, wire', ideal', missed')
    BY <1>8, <1>10, SentViews DEF s
  <2> QED BY <1>4, <1>5, <1>6, <1>7, <2>1 DEF MirrorInv, ViewsAgree
<1> QED BY <1>9, <1>10

(***************************************************************************)
(* The steps of the connections and of the client.                         *)
(***************************************************************************)
LEMMA QuietKeeps ==
    ASSUME MirrorInv, SystemTypeOK', UNCHANGED <<flags, wire, mirror, ideal, missed>>,
           Connected' => Connected
    PROVE  MirrorInv'
<1>1. PICK views : ViewsAgree(views)
  BY DEF MirrorInv
<1>2. ViewsAgree(views)'
  BY <1>1 DEF ViewsAgree
<1>3. WireOK(wire)' /\ DisabledNotShown' /\ MissedDisabled' /\ BigNotShown'
  BY DEF MirrorInv, WireOK, DisabledNotShown, MissedDisabled, BigNotShown, Disabled
<1> QED BY <1>2, <1>3 DEF MirrorInv

\* The client sees the oldest batch.
LEMMA DeliverKeeps ==
    ASSUME MirrorInv, Deliver
    PROVE  MirrorInv'
<1> DEFINE n == Len(wire)
           head == Head(wire)
<1>1. /\ wire \in Seq(SUBSET Published) /\ wire # <<>> /\ wire' = Tail(wire)
      /\ mirror' = Shown(mirror, head)
      /\ ideal' = ideal /\ missed' = missed /\ flags' = flags /\ Connected' = Connected
  BY DEF MirrorInv, SystemTypeOK, Deliver, NodeRests, linkVars, Connected
<1>2. /\ n \in Nat \ {0} /\ head = wire[1] /\ head \in SUBSET Published
      /\ wire' \in Seq(SUBSET Published) /\ Len(wire') = n - 1
      /\ \A k \in 1 .. n - 1 : wire'[k] = wire[k + 1]
  BY <1>1, HeadTailProperties, EmptySeq, LenProperties
<1>3. WireOK(wire)
  BY DEF MirrorInv
<1>4. Consistent(head) /\ \A m \in head : Fits(m) /\ m.tag \in {"def", "set", "del"}
  BY <1>2, <1>3 DEF WireOK
<1> HIDE DEF head
<1>5. SystemTypeOK'
  <2>1. mirror' \in Mirrors
    BY <1>1, <1>2, ShownTyped DEF MirrorInv, SystemTypeOK
  <2>2. busy' \in [VecIds -> BOOLEAN]
    BY DEF Deliver, MirrorInv, SystemTypeOK
  <2>3. TypeOK'
    BY DEF Deliver, NodeRests, MirrorInv, SystemTypeOK, TypeOK, ValueOK, JobOK
  <2> QED BY <1>1, <1>2, <2>1, <2>2, <2>3
          DEF MirrorInv, SystemTypeOK, Deliver, linkVars
<1>6. WireOK(wire')
  <2>1. ASSUME NEW k \in 1 .. Len(wire')
        PROVE  k + 1 \in 1 .. n /\ wire'[k] = wire[k + 1]
    BY <1>2
  <2> QED BY <1>3, <2>1 DEF WireOK
<1>7. DisabledNotShown' /\ MissedDisabled'
  BY <1>1 DEF MirrorInv, DisabledNotShown, MissedDisabled, Disabled
<1>8. BigNotShown'
  <2> SUFFICES ASSUME NEW v \in Big PROVE mirror'[v] = Absent
    BY DEF BigNotShown
  <2>1. v \in VecIds /\ mirror[v] = Absent /\ ~Defines(v, head)
    BY <1>4, SystemAssumption DEF MirrorInv, BigNotShown, Fits, Defines
  <2> QED BY <1>1, <1>4, <2>1, ShownFacts
<1>9. PICK views : ViewsAgree(views)
  BY DEF MirrorInv
<1> DEFINE vs == [k \in 0 .. n - 1 |-> views[k + 1]]
<1>10. /\ views[0] = mirror
       /\ \A k \in 1 .. n : views[k] = Shown(views[k - 1], wire[k])
  BY <1>1, <1>9, AheadFacts DEF ViewsAgree
<1>11. Ahead(vs, wire', mirror')
  <2>1. ASSUME NEW k \in 0 .. n - 1
        PROVE  vs[k] = IF k = 0 THEN mirror' ELSE Shown(vs[k - 1], wire'[k])
    <3>1. CASE k = 0
      BY <1>1, <1>2, <1>10, <3>1
    <3>2. CASE k # 0
      <4>1. /\ k + 1 \in 1 .. n /\ vs[k] = views[k + 1] /\ vs[k - 1] = views[k]
            /\ wire'[k] = wire[k + 1]
        BY <1>2, <3>2
      <4> QED BY <1>10, <3>2, <4>1
    <3> QED BY <3>1, <3>2
  <2>2. vs = [k \in 0 .. n - 1 |-> vs[k]]
    OBVIOUS
  <2> HIDE DEF vs
  <2> QED BY <1>2, <2>1, <2>2 DEF Ahead
<1>12. DeletionsArrive(vs, wire', ideal', missed')
  <2> SUFFICES ASSUME NEW v \in VecIds \ Big, NEW k \in 0 .. n - 1,
                      ideal[v] = Absent, v \notin missed, vs[k][v] # Absent
               PROVE  \E j \in k + 1 .. n - 1 : Deletes(v, wire'[j])
    BY <1>1, <1>2 DEF DeletionsArrive
  <2>1. k + 1 \in 0 .. n /\ views[k + 1][v] # Absent
    BY <1>2
  <2>2. PICK j \in k + 2 .. n : Deletes(v, wire[j])
    BY <1>2, <1>9, <2>1 DEF ViewsAgree, DeletionsArrive
  <2>3. j - 1 \in k + 1 .. n - 1 /\ j - 1 \in 1 .. n - 1 /\ wire'[j - 1] = wire[j]
    BY <1>2
  <2> QED BY <2>2, <2>3
<1>13. Connected' => CatchesUp(vs, wire', ideal', missed')
  <2>1. vs[n - 1] = views[n]
    BY <1>2
  <2> QED BY <1>1, <1>2, <1>9, <2>1 DEF ViewsAgree, CatchesUp
<1> HIDE DEF vs
<1> QED BY <1>5, <1>6, <1>7, <1>8, <1>11, <1>12, <1>13 DEF MirrorInv, ViewsAgree

\* The wire up to its n-th batch, and what the client shows along it.
LEMMA CutViews ==
    ASSUME NEW T, NEW w \in Seq(T), NEW n \in 0 .. Len(w), NEW view,
           NEW views, Ahead(views, w, view)
    PROVE  /\ SubSeq(w, 1, n) \in Seq(T) /\ Len(SubSeq(w, 1, n)) = n
           /\ \A k \in 1 .. n : SubSeq(w, 1, n)[k] = w[k]
           /\ Ahead([k \in 0 .. n |-> views[k]], SubSeq(w, 1, n), view)
<1> DEFINE cut == SubSeq(w, 1, n)
           vs == [k \in 0 .. n |-> views[k]]
<1>1. Len(w) \in Nat /\ \A k \in 1 .. n : w[k] \in T
  BY LenProperties, ElementOfSeq
<1>2. n \in Nat /\ (1 > n => n = 0)
  BY <1>1
<1>3. cut \in Seq(T) /\ Len(cut) = n /\ \A k \in 1 .. n : cut[k] = w[k]
  <2>1. /\ cut \in Seq(T)
        /\ Len(cut) = IF 1 <= n THEN n - 1 + 1 ELSE 0
        /\ \A i \in 1 .. n - 1 + 1 : cut[i] = w[1 + i - 1]
    BY <1>1, <1>2, SubSeqProperties, 1 \in Int, n \in Int
  <2> HIDE DEF cut
  <2> QED BY <2>1, <1>2
<1>4. ASSUME NEW k \in 0 .. n
      PROVE  vs[k] = IF k = 0 THEN view ELSE Shown(vs[k - 1], cut[k])
  <2>1. /\ views[0] = view
        /\ \A i \in 1 .. Len(w) : views[i] = Shown(views[i - 1], w[i])
    BY AheadFacts
  <2> HIDE DEF cut
  <2>2. CASE k = 0
    BY <2>1, <2>2
  <2>3. CASE k # 0
    <3>1. k \in 1 .. n /\ k \in 1 .. Len(w) /\ k - 1 \in 0 .. n
      BY <1>1, <2>3
    <3> QED BY <2>1, <3>1, <1>3
  <2> QED BY <2>2, <2>3
<1>5. vs = [k \in 0 .. n |-> vs[k]]
  OBVIOUS
<1> HIDE DEF vs, cut
<1>6. Ahead(vs, cut, view)
  BY <1>3, <1>4, <1>5 DEF Ahead
<1> QED BY <1>3, <1>6 DEF vs, cut

LEMMA BreakMqttKeeps ==
    ASSUME MirrorInv, Break("mqtt")
    PROVE  MirrorInv'
<1>1. PICK n \in 0 .. Len(wire) :
        \E part \in IF n = Len(wire) THEN {{}} ELSE SUBSET wire[n + 1] :
           LET lost == (UNION {wire[k] : k \in (n + 1) .. Len(wire)}) \ part
               rest == IF part = {} THEN <<>> ELSE <<part>>
           IN /\ wire' = SubSeq(wire, 1, n) \o rest
              /\ missed' = missed \cup {v \in VecIds : Deletes(v, lost)}
  BY DEF Break
<1>2. PICK part \in IF n = Len(wire) THEN {{}} ELSE SUBSET wire[n + 1] :
         /\ wire' = SubSeq(wire, 1, n) \o (IF part = {} THEN <<>> ELSE <<part>>)
         /\ missed' = missed \cup
                {v \in VecIds :
                   Deletes(v, (UNION {wire[k] : k \in (n + 1) .. Len(wire)}) \ part)}
  BY <1>1
<1> DEFINE lost == (UNION {wire[k] : k \in (n + 1) .. Len(wire)}) \ part
           cut == SubSeq(wire, 1, n)
<1>3. /\ ~Connected' /\ mirror' = mirror /\ ideal' = ideal /\ flags' = flags
      /\ tcp' \in [Services -> {"closed", "open", "broken"}]
  BY DEF Break, NodeRests, Connected, MirrorInv, SystemTypeOK, Services
<1>4. wire \in Seq(SUBSET Published) /\ Len(wire) \in Nat /\ n \in Nat /\ n <= Len(wire)
  BY LenProperties DEF MirrorInv, SystemTypeOK
<1>5. PICK views : ViewsAgree(views)
  BY DEF MirrorInv
<1> DEFINE cutviews == [k \in 0 .. n |-> views[k]]
<1>6. /\ cut \in Seq(SUBSET Published) /\ Len(cut) = n
      /\ \A k \in 1 .. n : cut[k] = wire[k]
      /\ Ahead(cutviews, cut, mirror)
  BY <1>4, <1>5, CutViews DEF ViewsAgree
<1>7. part # {} => n + 1 \in 1 .. Len(wire) /\ part \in SUBSET wire[n + 1]
  BY <1>4
<1>8. WireOK(wire)
  BY DEF MirrorInv
<1>9. part # {} => /\ part \in SUBSET Published /\ Consistent(part)
                   /\ \A m \in part : m.tag \in {"def", "set", "del"} /\ Fits(m)
  <2>1. SUFFICES ASSUME part # {}
                 PROVE  /\ wire[n + 1] \in SUBSET Published /\ Consistent(wire[n + 1])
                        /\ \A m \in wire[n + 1] : m.tag \in {"def", "set", "del"} /\ Fits(m)
    BY <1>7, PartConsistent
  <2>2. wire[n + 1] \in SUBSET Published
    BY <1>4, <1>7, <2>1, ElementOfSeq
  <2> QED BY <1>7, <1>8, <2>1, <2>2 DEF WireOK
\* What is not lost of a later batch is in the part that arrives.
<1>10. ASSUME NEW v \in VecIds \ Big, v \notin missed', NEW j \in n + 1 .. Len(wire),
              Deletes(v, wire[j])
       PROVE  Deletes(v, part)
  <2>1. ~Deletes(v, lost)
    BY <1>2, <1>10
  <2> DEFINE late == {wire[k] : k \in (n + 1) .. Len(wire)}
  <2>2. wire[j] \in late
    BY <1>10
  <2> HIDE DEF late
  <2>3. wire[j] \subseteq ((UNION late) \ part) \cup part
    BY <2>2
  <2>4. wire[j] \subseteq lost \cup part
    BY <2>3 DEF late
  <2> HIDE DEF lost
  <2> QED BY <1>10, <2>1, <2>4 DEF Deletes
<1> HIDE DEF lost, cut, cutviews
<1>11. ASSUME NEW v \in VecIds \ Big, NEW k \in 0 .. n,
              ideal[v] = Absent, v \notin missed', cutviews[k][v] # Absent
       PROVE  (\E j \in k + 1 .. n : Deletes(v, cut[j])) \/ Deletes(v, part)
  <2>1. k \in 0 .. Len(wire) /\ cutviews[k] = views[k] /\ v \notin missed
    BY <1>2, <1>4, <1>11 DEF cutviews
  <2>2. PICK j \in k + 1 .. Len(wire) : Deletes(v, wire[j])
    BY <1>5, <1>11, <2>1 DEF ViewsAgree, DeletionsArrive
  <2>3. CASE j <= n
    BY <1>4, <1>6, <2>2, <2>3
  <2>4. CASE j > n
    <3>1. j \in n + 1 .. Len(wire)
      BY <1>4, <2>4
    <3> QED BY <1>10, <1>11, <2>2, <3>1
  <2> QED BY <1>4, <2>3, <2>4
<1>12. SystemTypeOK' /\ DisabledNotShown' /\ MissedDisabled' /\ BigNotShown'
  <2>1. wire' \in Seq(SUBSET Published)
    <3> DEFINE rest == IF part = {} THEN <<>> ELSE <<part>>
    <3>1. <<>> \in Seq(SUBSET Published)
      BY EmptySeq
    <3>2. part # {} => <<part>> \in Seq(SUBSET Published)
      BY <1>9
    <3>3. rest \in Seq(SUBSET Published) /\ wire' = cut \o rest
      BY <1>2, <3>1, <3>2 DEF cut
    <3> HIDE DEF rest
    <3> QED BY <1>6, <3>3, ConcatProperties
  <2>2. TypeOK'
    BY DEF Break, NodeRests, MirrorInv, SystemTypeOK, TypeOK, ValueOK, JobOK
  <2>3. SystemTypeOK'
    BY <1>2, <1>3, <2>1, <2>2 DEF Break, MirrorInv, SystemTypeOK
  <2> QED BY <1>3, <2>3
          DEF MirrorInv, DisabledNotShown, MissedDisabled, BigNotShown, Disabled
<1>13. CASE part = {}
  <2>1. wire' = cut
    BY <1>2, <1>6, <1>13, ConcatEmptySeq DEF cut
  <2>2. WireOK(wire')
    BY <1>4, <1>6, <1>8, <2>1 DEF WireOK
  <2>3. DeletionsArrive(cutviews, wire', ideal', missed')
    BY <1>3, <1>6, <1>11, <1>13, <2>1 DEF DeletionsArrive, Deletes
  <2> QED BY <1>3, <1>6, <1>12, <2>1, <2>2, <2>3 DEF MirrorInv, ViewsAgree
<1>14. CASE part # {}
  <2> DEFINE vs == [k \in 0 .. n + 1 |->
                      IF k = n + 1 THEN Shown(cutviews[n], part) ELSE cutviews[k]]
  <2>1. /\ wire' = Append(cut, part) /\ Len(wire') = n + 1 /\ wire'[n + 1] = part
        /\ \A k \in 1 .. n : wire'[k] = cut[k]
    <3>1. wire' = cut \o <<part>>
      BY <1>2, <1>14 DEF cut
    <3>2. wire' = Append(cut, part)
      BY <1>6, <1>9, <1>14, <3>1, AppendIsConcat
    <3> QED BY <1>6, <1>9, <1>14, <3>2, AppendProperties
  <2>2. Ahead(vs, wire', mirror')
    BY <1>3, <1>6, <1>9, <1>14, <2>1, AppendViews
  <2>3. vs[n + 1] = Shown(cutviews[n], part) /\ \A k \in 0 .. n : vs[k] = cutviews[k]
    BY <1>4
  <2> HIDE DEF vs
  <2>4. WireOK(wire')
    <3>1. ASSUME NEW k \in 1 .. Len(wire')
          PROVE  wire'[k] = part \/ (k \in 1 .. Len(wire) /\ wire'[k] = wire[k])
      BY <1>4, <1>6, <2>1
    <3> QED BY <1>8, <1>9, <1>14, <3>1 DEF WireOK
  <2>5. DeletionsArrive(vs, wire', ideal', missed')
    <3> SUFFICES ASSUME NEW v \in VecIds \ Big, NEW k \in 0 .. n + 1,
                        ideal[v] = Absent, v \notin missed', vs[k][v] # Absent
                 PROVE  \E j \in k + 1 .. n + 1 : Deletes(v, wire'[j])
      BY <1>3, <2>1 DEF DeletionsArrive
    <3>1. CASE k \in 0 .. n
      <4>1. (\E j \in k + 1 .. n : Deletes(v, cut[j])) \/ Deletes(v, part)
        BY <1>11, <2>3, <3>1
      <4>2. CASE Deletes(v, part)
        BY <1>4, <2>1, <3>1, <4>2
      <4>3. CASE \E j \in k + 1 .. n : Deletes(v, cut[j])
        <5>1. PICK j \in k + 1 .. n : Deletes(v, cut[j])
          BY <4>3
        <5>2. j \in 1 .. n /\ j \in k + 1 .. n + 1
          BY <1>4, <3>1
        <5> QED BY <2>1, <5>1, <5>2
      <4> QED BY <4>1, <4>2, <4>3
    <3>2. CASE k = n + 1
      <4>1. n \in 0 .. n /\ Shown(cutviews[n], part)[v] # Absent /\ Consistent(part)
        BY <1>4, <1>9, <1>14, <2>3, <3>2
      <4>2. ~Deletes(v, part)
        BY <4>1, ShownFacts
      <4>3. cutviews[n][v] = Absent
        <5>1. \A j \in n + 1 .. n : FALSE
          BY <1>4
        <5> QED BY <1>11, <4>1, <4>2, <5>1
      <4>4. Defines(v, part)
        BY <4>1, <4>3, ShownFacts
      <4>5. Defines(v, wire[n + 1]) /\ Consistent(wire[n + 1])
        BY <1>7, <1>8, <1>14, <4>4 DEF Defines, WireOK
      <4>6. views[n + 1] = Shown(views[n + 1 - 1], wire[n + 1])
        BY <1>4, <1>5, <1>7, <1>14, AheadFacts DEF ViewsAgree
      <4>7. views[n + 1][v] # Absent
        BY <4>5, <4>6, ShownFacts
      <4>8. PICK j \in n + 1 + 1 .. Len(wire) : Deletes(v, wire[j])
        <5>1. n + 1 \in 0 .. Len(wire) /\ v \notin missed
          BY <1>2, <1>7, <1>14
        <5> QED BY <1>5, <4>7, <5>1 DEF ViewsAgree, DeletionsArrive
      <4>9. j \in n + 1 .. Len(wire)
        BY <1>4
      <4> QED BY <1>10, <4>2, <4>8, <4>9
    <3> QED BY <1>4, <3>1, <3>2
  <2> QED BY <1>3, <1>12, <2>2, <2>4, <2>5 DEF MirrorInv, ViewsAgree
<1> QED BY <1>13, <1>14

LEMMA BreakKeeps ==
    ASSUME MirrorInv, NEW s \in Services, Break(s)
    PROVE  MirrorInv'
<1>1. CASE s = "mqtt"
  BY <1>1, BreakMqttKeeps
<1>2. CASE s # "mqtt"
  <2>1. /\ UNCHANGED <<wire, mirror, busy, ideal, missed, flags, resolved, up, asked>>
        /\ Connected' = Connected
        /\ tcp' \in [Services -> {"closed", "open", "broken"}]
    BY <1>2 DEF Break, clientVars, NodeRests, MirrorInv, SystemTypeOK, Connected, Services
  <2>2. TypeOK'
    BY DEF Break, NodeRests, MirrorInv, SystemTypeOK, TypeOK, ValueOK, JobOK
  <2>3. SystemTypeOK'
    BY <2>1, <2>2 DEF MirrorInv, SystemTypeOK
  <2> QED BY <2>1, <2>3, QuietKeeps
<1> QED BY <1>1, <1>2

(***************************************************************************)
(* The steps, one by one.                                                  *)
(***************************************************************************)
LEMMA RestKeeps ==
    ASSUME MirrorInv,
           \/ \E s \in Services : Detect(s) \/ Toggle(s)
           \/ \E v \in VecIds : Ask(v)
    PROVE  MirrorInv'
<1>1. /\ UNCHANGED <<wire, mirror, ideal, missed, flags>>
      /\ Connected' => Connected
  BY DEF Detect, Toggle, Ask, clientVars, linkVars, NodeRests, MirrorInv, SystemTypeOK,
         Connected, Services
<1>2. TypeOK'
  BY DEF Detect, Toggle, Ask, NodeRests, MirrorInv, SystemTypeOK, TypeOK, ValueOK, JobOK
<1>3. /\ resolved' = resolved
      /\ up' \in [Services -> BOOLEAN]
      /\ tcp' \in [Services -> {"closed", "open", "broken"}]
      /\ asked' \subseteq VecIds /\ busy' \in [VecIds -> BOOLEAN]
  BY DEF Detect, Toggle, Ask, clientVars, linkVars, MirrorInv, SystemTypeOK
<1>4. SystemTypeOK'
  BY <1>1, <1>2, <1>3 DEF MirrorInv, SystemTypeOK
<1> QED BY <1>1, <1>4, QuietKeeps

LEMMA RetryTimerKeeps ==
    ASSUME MirrorInv, RetryTimer
    PROVE  MirrorInv'
<1>1. TypeOK /\ UNCHANGED <<value, flags, clientHashes, master, job, resolved, up, asked>>
  BY DEF RetryTimer, MirrorInv, SystemTypeOK
<1>2. out' = IF Connects("mqtt") THEN SessionDefs ELSE {}
  BY DEF RetryTimer
<1>3. TypeOK' /\ NodePublishes
  <2>1. CASE Connects("mqtt")
    <3>1. out' = SessionDefs /\ SessionDefs \subseteq Published
      BY <1>1, <1>2, <2>1, MessagesTyped DEF SessionDefs
    <3> QED BY <1>1, <3>1, SessionDefsPublish DEF TypeOK, ValueOK, JobOK
  <2>2. CASE ~Connects("mqtt")
    BY <1>1, <1>2, <2>2, QuietPublishes DEF TypeOK, ValueOK, JobOK
  <2> QED BY <2>1, <2>2
<1>4. SessionKept
  <2>1. tcp' \in [Services -> {"closed", "open", "broken"}]
    BY DEF RetryTimer, MirrorInv, SystemTypeOK
  <2>2. tcp'["mqtt"] = IF Connects("mqtt") THEN "open" ELSE tcp["mqtt"]
    BY DEF RetryTimer, Services
  <2>3. \A v \in VecIds : Connects("mqtt") => Disabled(v) \/ Defines(v, out')
    <3> SUFFICES ASSUME NEW v \in VecIds, Connects("mqtt"), ~Disabled(v)
                 PROVE  Defines(v, out')
      OBVIOUS
    <3>1. DefMsg(v) \in out'
      BY <1>2 DEF SessionDefs
    <3> QED BY <3>1 DEF Defines, DefMsg
  <2> QED BY <1>1, <2>1, <2>2, <2>3 DEF SessionKept, Connected, MirrorInv, SystemTypeOK
<1> QED BY <1>3, <1>4, PublishKeeps DEF RetryTimer

\* The steps of NyxNode, over connections that stay as they are.
LEMMA NodeStepKeeps ==
    ASSUME MirrorInv, Next, NodePublishes, UNCHANGED linkVars,
           asked' \subseteq asked, Publish
    PROVE  MirrorInv'
<1>1. TypeOK'
  BY NextTypeOK DEF MirrorInv, SystemTypeOK
<1>2. SessionKept
  BY DEF SessionKept, linkVars, Connected, MirrorInv, SystemTypeOK
<1> QED BY <1>1, <1>2, PublishKeeps

LEMMA NodeKeeps ==
    ASSUME MirrorInv,
           \/ HandlerStep \/ ApplicationStep \/ ReceiveGetProperties
           \/ \E v \in VecIds : ReceiveSet(v)
    PROVE  MirrorInv'
<1>1. TypeOK
  BY DEF MirrorInv, SystemTypeOK
<1>2. CASE HandlerStep
  <2>1. NodePublishes
    <3>1. CASE ApplyPair \/ RefusePair \/ SkipPair
      BY <3>1, QuietPublishes DEF ApplyPair, RefusePair, SkipPair
    <3>2. CASE FinishSet
      BY <1>1, <3>2, JobFacts, NotifyPublishes DEF FinishSet, LoopDone
    <3> QED BY <1>2, <3>1, <3>2 DEF HandlerStep, Handler
  <2> QED BY <1>2, <2>1, NodeStepKeeps DEF HandlerStep, Next
<1>3. CASE ApplicationStep
  <2>1. Next
    BY <1>3 DEF ApplicationStep, Next, Application
  <2>2. NodePublishes
    <3>1. ASSUME NEW w \in VecIds, AppNotify(w)
          PROVE  NodePublishes
      BY <1>1, <3>1, NotifyPublishes DEF AppNotify
    <3>2. ASSUME NEW w \in VecIds, NEW i \in Cols(w), AppSet(w, i)
          PROVE  NodePublishes
      BY <3>2, QuietPublishes DEF AppSet
    <3>3. ASSUME NEW d \in Devices, NEW n \in MaybeName,
                 Enable(d, n) \/ Disable(d, n) \/ SendDelProperty(d, n)
          PROVE  NodePublishes
      BY <1>1, <3>3, EnablePublishes, DeletionPublishes
    <3> QED BY <1>3, <3>1, <3>2, <3>3 DEF ApplicationStep
  <2> QED BY <1>3, <2>1, <2>2, NodeStepKeeps DEF ApplicationStep
<1>4. CASE ReceiveGetProperties
  <2>1. GetProperties(None, None) /\ NodePublishes
    BY <1>1, <1>4, GetPropertiesPublishes DEF ReceiveGetProperties
  <2>2. Next
    BY <2>1 DEF Next, Request, MaybeDevice, MaybeName
  <2> QED BY <1>4, <2>1, <2>2, NodeStepKeeps DEF ReceiveGetProperties
<1>5. ASSUME NEW v \in VecIds, ReceiveSet(v)
      PROVE  MirrorInv'
  <2>1. PICK c \in Clients :
             BeginSet(c, Vectors[v].kind, Vectors[v].device, Vectors[v].name)
    BY <1>5 DEF ReceiveSet
  <2>2. NodePublishes
    BY <2>1, QuietPublishes DEF BeginSet
  <2>3. Next
    BY <2>1, VectorFacts DEF Next, Request, Senders
  <2> QED BY <1>5, <2>2, <2>3, NodeStepKeeps DEF ReceiveSet
<1> QED BY <1>2, <1>3, <1>4, <1>5

(***************************************************************************)
(* The theorems.                                                           *)
(***************************************************************************)
LEMMA InitMirrorInv == SystemInit => MirrorInv
<1> SUFFICES ASSUME SystemInit PROVE MirrorInv
  OBVIOUS
<1>1. /\ wire = <<>> /\ Len(wire) = 0 /\ ~Connected
      /\ \A v \in VecIds : mirror[v] = Absent /\ ideal[v] = Absent
  BY EmptySeq DEF SystemInit, Connected, Services
<1>2. [v \in VecIds |-> Absent] \in Mirrors
  BY EmptySeq DEF Absent, Mirrors
<1>3. SystemTypeOK
  BY <1>1, <1>2, InitTypeOK, EmptySeq DEF SystemInit, SystemTypeOK
<1> DEFINE views == [k \in 0 .. 0 |-> mirror]
<1>4. Ahead(views, wire, mirror)
  BY <1>1 DEF Ahead
<1>5. DeletionsArrive(views, wire, ideal, missed)
  <2> SUFFICES ASSUME NEW v \in VecIds \ Big, NEW k \in 0 .. 0
               PROVE  views[k][v] = Absent
    BY <1>1 DEF DeletionsArrive
  <2> QED BY <1>1
<1> HIDE DEF views
<1>6. ViewsAgree(views)
  BY <1>1, <1>4, <1>5 DEF ViewsAgree
<1>7. WireOK(wire) /\ DisabledNotShown /\ MissedDisabled /\ BigNotShown
  BY <1>1, SystemAssumption
     DEF WireOK, DisabledNotShown, MissedDisabled, BigNotShown
<1> QED BY <1>3, <1>6, <1>7 DEF MirrorInv

LEMMA NextMirrorInv == MirrorInv /\ [SystemNext]_systemVars => MirrorInv'
<1> SUFFICES ASSUME MirrorInv, [SystemNext]_systemVars PROVE MirrorInv'
  OBVIOUS
<1>1. CASE RetryTimer
  BY <1>1, RetryTimerKeeps
<1>2. CASE \/ HandlerStep \/ ApplicationStep \/ ReceiveGetProperties
           \/ \E v \in VecIds : ReceiveSet(v)
  BY <1>2, NodeKeeps
<1>3. CASE Deliver
  BY <1>3, DeliverKeeps
<1>4. CASE \E s \in Services : Break(s)
  BY <1>4, BreakKeeps
<1>5. CASE \/ \E s \in Services : Detect(s) \/ Toggle(s)
           \/ \E v \in VecIds : Ask(v)
  BY <1>5, RestKeeps
<1>6. CASE UNCHANGED systemVars
  <2>1. UNCHANGED <<vars, clientVars, linkVars, asked>>
    BY <1>6 DEF systemVars
  <2>2. TypeOK'
    BY <2>1, NextTypeOK DEF MirrorInv, SystemTypeOK
  <2>3. SystemTypeOK'
    BY <2>1, <2>2 DEF clientVars, linkVars, MirrorInv, SystemTypeOK
  <2> QED BY <2>1, <2>3, QuietKeeps DEF vars, clientVars, linkVars, Connected
<1> QED BY <1>1, <1>2, <1>3, <1>4, <1>5, <1>6 DEF SystemNext

\* The invariant of the mirror holds in every state of the composed system.
THEOREM MirrorInvHolds == SystemSpec => []MirrorInv
  BY InitMirrorInv, NextMirrorInv, PTL DEF SystemSpec

\* With a session and nothing on its way, the client shows what it would show
\* had it missed nothing: for every list of vectors, every set of vectors too
\* big for the buffer, any number of batches on their way and of connections
\* broken in the middle of any of them, noticed at once or later.  What makes
\* it so is that the open event defines every enabled vector again, and that a
\* vector changes between enabled and disabled only in public.
THEOREM MirrorAgreesCorrect == SystemSpec => []MirrorAgrees
<1>1. MirrorInv => MirrorAgrees
  <2> SUFFICES ASSUME MirrorInv, Connected, wire = <<>>, NEW v \in VecIds
               PROVE  IF v \in Big THEN mirror[v] = Absent
                      ELSE \/ mirror[v] = ideal[v]
                           \/ v \in missed /\ ideal[v] = Absent
    BY DEF MirrorAgrees
  <2>1. CASE v \in Big
    BY <2>1 DEF MirrorInv, BigNotShown
  <2>2. CASE v \notin Big /\ v \in missed
    BY <2>2 DEF MirrorInv, MissedDisabled, DisabledNotShown
  <2>3. CASE v \notin Big /\ v \notin missed
    <3>1. PICK views : ViewsAgree(views)
      BY DEF MirrorInv
    <3>2. Len(wire) = 0 /\ wire \in Seq(SUBSET Published)
      BY EmptySeq DEF MirrorInv, SystemTypeOK
    <3>3. Ahead(views, wire, mirror)
      BY <3>1 DEF ViewsAgree
    <3>4. views[0] = mirror
      BY <3>2, <3>3 DEF Ahead
    <3> QED BY <2>3, <3>1, <3>2, <3>4 DEF ViewsAgree, CatchesUp
  <2> QED BY <2>1, <2>2, <2>3
<1> QED BY <1>1, MirrorInvHolds, PTL

\* Every variable of the composed system keeps its type.
THEOREM SystemTypeCorrect == SystemSpec => []SystemTypeOK
<1>1. MirrorInv => SystemTypeOK
  BY DEF MirrorInv
<1> QED BY <1>1, MirrorInvHolds, PTL

(***************************************************************************)
(* What NyxNode promises of its loops, in the composed system.             *)
(***************************************************************************)
LEMMA SystemLoopInvariant ==
    MirrorInv /\ LoopInvariant /\ [SystemNext]_systemVars => LoopInvariant'
<1> SUFFICES ASSUME MirrorInv, LoopInvariant, [SystemNext]_systemVars
             PROVE  LoopInvariant'
  OBVIOUS
<1>1. TypeOK
  BY DEF MirrorInv, SystemTypeOK
<1>2. ASSUME Next
      PROVE  LoopInvariant'
  BY <1>1, <1>2, NextLoopInvariant
<1>3. ASSUME UNCHANGED <<value, job>>
      PROVE  LoopInvariant'
  BY <1>1, <1>3, QuietLoopInvariant DEF LoopInvariant, LoopInvariantOf
<1>4. CASE HandlerStep \/ ApplicationStep \/ ReceiveGetProperties
  <2>1. Next
    BY <1>4 DEF HandlerStep, ApplicationStep, ReceiveGetProperties, Next, Application,
                Request, MaybeDevice, MaybeName
  <2> QED BY <1>2, <2>1
<1>5. ASSUME NEW v \in VecIds, ReceiveSet(v)
      PROVE  LoopInvariant'
  <2>1. Next
    BY <1>5, VectorFacts DEF ReceiveSet, Next, Request, Senders
  <2> QED BY <1>2, <2>1
<1> QED BY <1>3, <1>4, <1>5
        DEF SystemNext, RetryTimer, Deliver, Ask, Break, Detect, Toggle, NodeRests,
            systemVars, vars

\* A OneOfMany switch vector never rests with two elements On in the composed
\* system either, where sessions open and break between the steps of a request.
THEOREM SystemOneOfMany == SystemSpec => []OneOfManyKept
<1>1. SystemInit => LoopInvariant
  BY InitLoopInvariant DEF SystemInit
<1>2. SystemSpec => []LoopInvariant
  BY <1>1, SystemLoopInvariant, MirrorInvHolds, PTL DEF SystemSpec
<1>3. LoopInvariant => OneOfManyKept
  BY DEF LoopInvariant, OneOfManyKept
<1> QED BY <1>2, <1>3, PTL
===============================================================================
