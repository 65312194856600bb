---------------------------- MODULE NyxStackProofs ----------------------------
(***************************************************************************)
(* Proofs about NyxStack, for every number of connection structures: one   *)
(* connection per server, pointers that never dangle, sessions that are    *)
(* subscribed, and the MQTT connection as a NyxLink.                       *)
(***************************************************************************)
EXTENDS NyxStack, TLAPS

\* What is proved together: each part needs the others.
StackInv == StackTypeOK /\ PointersLive /\ OneLink /\ SessionSubscribed

(***************************************************************************)
(* The services share no connection.                                       *)
(***************************************************************************)
LEMMA ServiceFacts ==
    /\ ConnsOf("indi") = Listeners \cup IndiConns
    /\ ConnsOf("mqtt") = MqttConns
    /\ ConnsOf("stream") = StreamConns
    /\ \A s \in Services : ConnsOf(s) \subseteq Conns
    /\ \A c \in Conns : \E s \in Services : c \in ConnsOf(s)
    /\ \A s, t \in Services, c \in Conns :
          c \in ConnsOf(s) /\ c \in ConnsOf(t) => s = t
  BY ConnsAssumption DEF ConnsOf, Services, Conns

LEMMA InitStackInv == StackInit => StackInv
<1> SUFFICES ASSUME StackInit PROVE StackInv
  OBVIOUS
<1>1. \A c \in Conns : phase[c] = "free"
  BY DEF StackInit
<1>2. Listeners \subseteq Conns /\ MqttConns \subseteq Conns
  BY DEF Conns
<1>3. StackTypeOK
  BY <1>1, <1>2 DEF StackInit, StackTypeOK, NoAnswer, Phases
<1>4. PointersLive
  BY DEF StackInit, PointersLive
<1> QED BY <1>1, <1>2, <1>3, <1>4 DEF StackInv, OneLink, SessionSubscribed

(***************************************************************************)
(* The timer.                                                              *)
(***************************************************************************)

\* The timer leaves a service alone, or sets up a free connection of it.
Left(s) ==
    /\ ptr'[s] = ptr[s]
    /\ \A c \in ConnsOf(s) : phase'[c] = phase[c]

SetUp(s, P) ==
    /\ ptr[s] = Null
    /\ ptr'[s] \in ConnsOf(s) \cap Free
    /\ phase'[ptr'[s]] \in P
    /\ \A c \in ConnsOf(s) : c # ptr'[s] => phase'[c] = phase[c]

Attempted == {"opening", "closing"}

LEMMA RetryFacts ==
    ASSUME StackInv, RetryTimer
    PROVE  /\ \/ Left("indi")
              \/ SetUp("indi", {"open"}) /\ ~Listening /\ ptr'["indi"] \in Listeners
           /\ Left("mqtt") \/ SetUp("mqtt", Attempted)
           /\ Left("stream") \/ SetUp("stream", Attempted)
           /\ phase' = [c \in Conns |-> phase'[c]]
           /\ ptr' = [t \in Services |-> ptr'[t]]
<1>1. PICK i \in ListenOutcomes, m \in ConnectOutcomes("mqtt"),
           s \in ConnectOutcomes("stream") :
        /\ ptr' = [indi |-> i.conn, mqtt |-> m.conn, stream |-> s.conn]
        /\ phase' = [c \in Conns |->
              IF \E o \in {i, m, s} : o.conn = c /\ o.phase # "same"
              THEN (CHOOSE o \in {i, m, s} : o.conn = c).phase
              ELSE phase[c]]
  BY DEF RetryTimer
<1>2. /\ ptr["indi"] \in ConnsOf("indi") \cup {Null}
      /\ ptr["mqtt"] \in ConnsOf("mqtt") \cup {Null}
      /\ ptr["stream"] \in ConnsOf("stream") \cup {Null}
  BY DEF StackInv, PointersLive, Services
<1>3. \/ i.conn = ptr["indi"] /\ i.phase = "same"
      \/ /\ ptr["indi"] = Null /\ ~Listening
         /\ i.conn \in Listeners \cap Free /\ i.phase = "open"
  BY <1>1 DEF ListenOutcomes
<1>4. ASSUME NEW t \in {"mqtt", "stream"}, NEW o \in ConnectOutcomes(t)
      PROVE  \/ o.conn = ptr[t] /\ o.phase = "same"
             \/ /\ ptr[t] = Null
                /\ o.conn \in ConnsOf(t) \cap Free /\ o.phase \in Attempted
  BY <1>4 DEF ConnectOutcomes, Attempted
<1>5. /\ i.conn \in ConnsOf("indi") \cup {Null}
      /\ m.conn \in ConnsOf("mqtt") \cup {Null}
      /\ s.conn \in ConnsOf("stream") \cup {Null}
  BY <1>1, <1>2, <1>3, <1>4, ServiceFacts
<1>6. /\ \A c \in ConnsOf("indi") : c \notin {m.conn, s.conn}
      /\ \A c \in ConnsOf("mqtt") : c \notin {i.conn, s.conn}
      /\ \A c \in ConnsOf("stream") : c \notin {i.conn, m.conn}
  BY <1>5, ServiceFacts, ConnsAssumption DEF Services
<1>7. ASSUME NEW o \in {i, m, s}, NEW c \in Conns,
             \A p \in {i, m, s} : p.conn = c => p = o
      PROVE  phase'[c] = IF o.conn = c /\ o.phase # "same" THEN o.phase
                         ELSE phase[c]
  BY <1>1, <1>7
<1>8. /\ ptr'["indi"] = i.conn
      /\ ptr'["mqtt"] = m.conn
      /\ ptr'["stream"] = s.conn
  BY <1>1
<1>9. /\ \A c \in ConnsOf("indi") :
           phase'[c] = IF i.conn = c /\ i.phase # "same" THEN i.phase ELSE phase[c]
      /\ \A c \in ConnsOf("mqtt") :
           phase'[c] = IF m.conn = c /\ m.phase # "same" THEN m.phase ELSE phase[c]
      /\ \A c \in ConnsOf("stream") :
           phase'[c] = IF s.conn = c /\ s.phase # "same" THEN s.phase ELSE phase[c]
  BY <1>6, <1>7, ServiceFacts DEF Services
<1>10. \/ Left("indi")
       \/ SetUp("indi", {"open"}) /\ ~Listening /\ ptr'["indi"] \in Listeners
  BY <1>3, <1>8, <1>9, ServiceFacts DEF Left, SetUp
<1>11. Left("mqtt") \/ SetUp("mqtt", Attempted)
  <2>1. \/ m.conn = ptr["mqtt"] /\ m.phase = "same"
        \/ /\ ptr["mqtt"] = Null
           /\ m.conn \in ConnsOf("mqtt") \cap Free /\ m.phase \in Attempted
    BY <1>1, <1>4
  <2> QED BY <2>1, <1>8, <1>9 DEF Left, SetUp, Attempted
<1>12. Left("stream") \/ SetUp("stream", Attempted)
  <2>1. \/ s.conn = ptr["stream"] /\ s.phase = "same"
        \/ /\ ptr["stream"] = Null
           /\ s.conn \in ConnsOf("stream") \cap Free /\ s.phase \in Attempted
    BY <1>1, <1>4
  <2> QED BY <2>1, <1>8, <1>9 DEF Left, SetUp, Attempted
<1>13. phase' = [c \in Conns |-> phase'[c]]
  BY <1>1
<1>14. ptr' = [t \in Services |-> ptr'[t]]
  BY <1>1 DEF Services
<1> QED BY <1>10, <1>11, <1>12, <1>13, <1>14

(***************************************************************************)
(* The invariant is kept.                                                  *)
(***************************************************************************)
LEMMA RetryKeeps == StackInv /\ RetryTimer => StackInv'
<1> SUFFICES ASSUME StackInv, RetryTimer PROVE StackInv'
  OBVIOUS
<1> USE DEF Services
<1>1. /\ \/ Left("indi")
         \/ SetUp("indi", {"open"}) /\ ~Listening /\ ptr'["indi"] \in Listeners
      /\ Left("mqtt") \/ SetUp("mqtt", Attempted)
      /\ Left("stream") \/ SetUp("stream", Attempted)
      /\ phase' = [c \in Conns |-> phase'[c]]
      /\ ptr' = [t \in Services |-> ptr'[t]]
  BY RetryFacts
<1>2. /\ subs' = subs /\ up' = up /\ running' = running /\ answer' = NoAnswer
  BY DEF RetryTimer
<1>3. ASSUME NEW s \in Services, NEW c \in ConnsOf(s)
      PROVE  \/ phase'[c] = phase[c]
             \/ SetUp(s, {"open"}) /\ c = ptr'[s] /\ s = "indi" /\ phase'[c] = "open"
             \/ SetUp(s, Attempted) /\ c = ptr'[s] /\ s # "indi" /\ phase'[c] \in Attempted
  BY <1>1 DEF Left, SetUp
<1>4. ASSUME NEW s \in Services
      PROVE  ptr'[s] = ptr[s] \/ ptr'[s] \in ConnsOf(s)
  BY <1>1 DEF Left, SetUp
<1>5. StackTypeOK'
  <2>1. \A c \in Conns : phase'[c] \in Phases
    BY <1>3, ServiceFacts DEF StackInv, StackTypeOK, Attempted, Phases
  <2>2. \A l \in Listeners : phase'[l] \in {"free", "open"}
    BY <1>3, ServiceFacts DEF StackInv, StackTypeOK
  <2>3. \A c \in Conns : phase'[c] = "session" => c \in MqttConns
    BY <1>3, ServiceFacts DEF StackInv, StackTypeOK, Attempted
  <2>4. \A s \in Services : ptr'[s] \in Conns \cup {Null}
    BY <1>4, ServiceFacts DEF StackInv, StackTypeOK
  <2>5. phase' \in [Conns -> Phases]
    BY <1>1, <2>1
  <2>6. ptr' \in [Services -> Conns \cup {Null}]
    BY <1>1, <2>4
  <2> QED
    BY <1>2, <2>2, <2>3, <2>5, <2>6 DEF StackInv, StackTypeOK, NoAnswer
<1>6. PointersLive'
  <2>1. ASSUME NEW s \in Services, Left(s), ptr'[s] # Null
        PROVE  ptr'[s] \in ConnsOf(s) /\ phase'[ptr'[s]] # "free"
    BY <2>1 DEF Left, StackInv, PointersLive
  <2>2. ASSUME NEW s \in Services, NEW P \in {{"open"}, Attempted}, SetUp(s, P)
        PROVE  ptr'[s] \in ConnsOf(s) /\ phase'[ptr'[s]] # "free"
    BY <2>2 DEF SetUp, Attempted
  <2> QED BY <1>1, <2>1, <2>2 DEF PointersLive
<1>7. OneLink'
  <2>1. ASSUME NEW s \in {"mqtt", "stream"}, NEW c \in ConnsOf(s), phase'[c] # "free"
        PROVE  ptr'[s] = c
    <3>1. CASE Left(s)
      BY <2>1, <3>1, ServiceFacts DEF Left, StackInv, OneLink
    <3>2. CASE SetUp(s, Attempted)
      <4>1. c \in Conns /\ c # Null
        BY ServiceFacts, ConnsAssumption
      <4>2. phase[c] = "free"
        BY <4>1, <3>2 DEF SetUp, StackInv, OneLink
      <4> QED BY <2>1, <3>2, <4>2 DEF SetUp
    <3> QED BY <3>1, <3>2, <1>1
  <2>2. ASSUME NEW k \in Listeners, NEW l \in Listeners,
               phase'[k] # "free", phase'[l] # "free"
        PROVE  k = l
    <3>1. k \in ConnsOf("indi") /\ l \in ConnsOf("indi")
      BY ServiceFacts
    <3>2. CASE Left("indi")
      BY <2>2, <3>1, <3>2 DEF Left, StackInv, OneLink
    <3>3. CASE SetUp("indi", {"open"}) /\ ~Listening
      <4>1. phase[k] = "free" /\ phase[l] = "free"
        BY <3>3 DEF Listening, StackInv, StackTypeOK
      <4> QED BY <2>2, <3>1, <3>3, <4>1 DEF SetUp
    <3> QED BY <3>2, <3>3, <1>1
  <2> QED BY <2>1, <2>2 DEF OneLink
<1>8. SessionSubscribed'
  <2>1. \A c \in MqttConns : phase'[c] = "session" => phase[c] = "session"
    BY <1>3, ServiceFacts DEF Attempted
  <2> QED BY <2>1, <1>2 DEF StackInv, SessionSubscribed
<1> QED BY <1>5, <1>6, <1>7, <1>8 DEF StackInv

\* A connection that exists moves on to another phase, the pointers stay.
LEMMA PhaseKeeps ==
    ASSUME StackInv, NEW c \in Conns, NEW p \in Phases \ {"free"},
           phase[c] # "free", phase' = [phase EXCEPT ![c] = p], ptr' = ptr
    PROVE  PointersLive' /\ OneLink'
<1>1. \A d \in Conns : phase'[d] = "free" <=> phase[d] = "free"
  BY DEF StackInv, StackTypeOK
<1>2. \A s \in Services : ptr[s] # Null => ptr[s] \in Conns
  BY DEF StackInv, StackTypeOK
<1>3. PointersLive'
  BY <1>1, <1>2 DEF StackInv, PointersLive
<1>4. OneLink'
  BY <1>1 DEF StackInv, OneLink, Conns
<1> QED BY <1>3, <1>4

LEMMA NextStackInv == StackInv /\ [StackNext]_stackVars => StackInv'
<1> SUFFICES ASSUME StackInv, [StackNext]_stackVars PROVE StackInv'
  OBVIOUS
<1> USE DEF StackInv
<1>0. NoAnswer \in [asker : IndiConns \cup {Null}, to : Conns \cup {Null}]
  BY DEF NoAnswer
<1>1. ASSUME NEW c \in Conns, Accept(c)
      PROVE  StackInv'
  <2>1. /\ c \in IndiConns /\ phase[c] = "free"
        /\ phase' = [phase EXCEPT ![c] = "open"]
        /\ ptr' = [ptr EXCEPT !["indi"] = c]
        /\ answer' = NoAnswer /\ UNCHANGED <<subs, up, running>>
    BY <1>1 DEF Accept, Free
  <2>2. c \notin MqttConns \cup StreamConns \cup Listeners
    BY <2>1, ConnsAssumption
  <2>3. StackTypeOK'
    <3>1. phase' \in [Conns -> Phases] /\ ptr' \in [Services -> Conns \cup {Null}]
      BY <2>1 DEF StackTypeOK, Phases
    <3>2. \A l \in Listeners : phase'[l] \in {"free", "open"}
      BY <2>1, <2>2 DEF StackTypeOK, Conns
    <3>3. \A d \in Conns : phase'[d] = "session" => d \in MqttConns
      BY <2>1 DEF StackTypeOK
    <3> QED BY <2>1, <3>1, <3>2, <3>3, <1>0 DEF StackTypeOK
  <2>4. PointersLive'
    BY <2>1, <2>2, ServiceFacts DEF PointersLive, StackTypeOK, Services
  <2>5. OneLink'
    BY <2>1, <2>2, ServiceFacts DEF OneLink, StackTypeOK, Services, Conns
  <2>6. SessionSubscribed'
    BY <2>1, <2>2 DEF SessionSubscribed, StackTypeOK, Conns
  <2> QED BY <2>3, <2>4, <2>5, <2>6
<1>2. ASSUME NEW c \in Conns, Connected(c)
      PROVE  StackInv'
  <2>1. /\ phase[c] = "opening" /\ phase' = [phase EXCEPT ![c] = "open"]
        /\ answer' = NoAnswer /\ UNCHANGED <<ptr, subs, up, running>>
    BY <1>2 DEF Connected
  <2>2. StackTypeOK'
    BY <2>1, <1>0 DEF StackTypeOK, Phases
  <2>3. PointersLive' /\ OneLink'
    BY <2>1, PhaseKeeps DEF Phases
  <2>4. SessionSubscribed'
    BY <2>1 DEF SessionSubscribed, StackTypeOK, Conns
  <2> QED BY <2>2, <2>3, <2>4
<1>3. ASSUME NEW c \in Conns, NEW accepted \in BOOLEAN, Connack(c, accepted)
      PROVE  StackInv'
  <2> DEFINE p == IF accepted THEN "session" ELSE "closing"
  <2>1. /\ c \in MqttConns /\ phase[c] = "open"
        /\ phase' = [phase EXCEPT ![c] = p]
        /\ answer' = NoAnswer /\ UNCHANGED <<ptr, up, running>>
    BY <1>3 DEF Connack
  <2>2. ptr["mqtt"] = c /\ c # Null
    BY <2>1, ServiceFacts, ConnsAssumption DEF OneLink
  <2>3. subs' = [subs EXCEPT ![c] = Topics]
    BY <1>3, <2>2 DEF Connack
  <2>4. p \in Phases \ {"free"}
    BY DEF Phases
  <2>5. c \notin Listeners
    BY <2>1, ConnsAssumption
  <2>6. StackTypeOK'
    BY <2>1, <2>3, <2>4, <2>5, <1>0 DEF StackTypeOK
  <2>7. PointersLive' /\ OneLink'
    BY <2>1, <2>4, PhaseKeeps
  <2>8. SessionSubscribed'
    BY <2>1, <2>3 DEF SessionSubscribed, StackTypeOK, Conns
  <2> QED BY <2>6, <2>7, <2>8
<1>4. ASSUME NEW c \in Conns, Drop(c)
      PROVE  StackInv'
  <2>1. /\ phase[c] \in {"opening", "open", "session"}
        /\ phase' = [phase EXCEPT ![c] = "closing"]
        /\ answer' = NoAnswer /\ UNCHANGED <<ptr, subs, up, running>>
    BY <1>4 DEF Drop
  <2>2. c \notin Listeners
    BY <1>4, ServiceFacts, ConnsAssumption DEF Drop
  <2>3. StackTypeOK'
    BY <2>1, <2>2, <1>0 DEF StackTypeOK, Phases
  <2>4. PointersLive' /\ OneLink'
    BY <2>1, PhaseKeeps DEF Phases
  <2>5. SessionSubscribed'
    BY <2>1 DEF SessionSubscribed, StackTypeOK, Conns
  <2> QED BY <2>3, <2>4, <2>5
<1>5. ASSUME NEW c \in Conns, CloseConn(c)
      PROVE  StackInv'
  <2>1. /\ phase[c] = "closing" /\ phase' = [phase EXCEPT ![c] = "free"]
        /\ ptr' = [s \in Services |-> IF c \in ConnsOf(s) THEN Null ELSE ptr[s]]
        /\ subs' = [subs EXCEPT ![c] = {}]
        /\ answer' = NoAnswer /\ UNCHANGED <<up, running>>
    BY <1>5 DEF CloseConn
  <2>2. StackTypeOK'
    BY <2>1, <1>0 DEF StackTypeOK, Phases
  <2>3. \A d \in Conns : phase'[d] = IF d = c THEN "free" ELSE phase[d]
    BY <2>1 DEF StackTypeOK
  <2>4. PointersLive'
    BY <2>1, <2>3, ServiceFacts DEF PointersLive, StackTypeOK
  <2>5. OneLink'
    <3>1. ASSUME NEW s \in {"mqtt", "stream"}, NEW d \in Conns, d \in ConnsOf(s),
                 phase'[d] # "free"
          PROVE  ptr'[s] = d
      <4>1. d # c /\ ptr[s] = d /\ s \in Services
        BY <3>1, <2>3 DEF OneLink, Services
      <4>2. c \notin ConnsOf(s)
        BY <4>1, <2>1 DEF OneLink
      <4> QED BY <4>1, <4>2, <2>1
    <3>2. ASSUME NEW k \in Listeners, NEW l \in Listeners,
                 phase'[k] # "free", phase'[l] # "free"
          PROVE  k = l
      BY <3>2, <2>3 DEF OneLink, Conns
    <3> QED BY <3>1, <3>2 DEF OneLink
  <2>6. SessionSubscribed'
    BY <2>1, <2>3 DEF SessionSubscribed, StackTypeOK, Conns
  <2> QED BY <2>2, <2>4, <2>5, <2>6
<1>6. ASSUME NEW c \in Conns, IndiGetProperties(c)
      PROVE  StackInv'
  <2>1. answer' \in [asker : IndiConns \cup {Null}, to : Conns \cup {Null}]
    BY <1>6 DEF IndiGetProperties, StackTypeOK, Services
  <2> QED
    BY <1>6, <2>1
       DEF IndiGetProperties, StackTypeOK, PointersLive, OneLink, SessionSubscribed
<1>7. CASE Finalize
  <2>1. StackTypeOK'
    BY <1>7, <1>0 DEF Finalize, StackTypeOK, Phases, Conns
  <2>2. \A d \in Conns : phase'[d] = "free"
    BY <1>7 DEF Finalize
  <2>3. PointersLive'
    BY <1>7 DEF Finalize, PointersLive
  <2> QED BY <2>1, <2>2, <2>3 DEF OneLink, SessionSubscribed, Conns
<1>8. ASSUME NEW s \in Services, Toggle(s)
      PROVE  StackInv'
  BY <1>8, <1>0
     DEF Toggle, StackTypeOK, PointersLive, OneLink, SessionSubscribed
<1>9. CASE UNCHANGED stackVars
  BY <1>9
     DEF stackVars, StackTypeOK, PointersLive, OneLink, SessionSubscribed
<1> QED
  BY <1>1, <1>2, <1>3, <1>4, <1>5, <1>6, <1>7, <1>8, <1>9, RetryKeeps
     DEF StackNext

LEMMA StackCorrect == StackSpec => []StackInv
  BY InitStackInv, NextStackInv, PTL DEF StackSpec

\* Every variable of the stack keeps its type; a listener listens until the
\* node is finalized, and only the broker's connection has a session.
THEOREM StackTypeCorrect == StackSpec => []StackTypeOK
<1>1. StackInv => StackTypeOK
  BY DEF StackInv
<1> QED BY <1>1, StackCorrect, PTL

\* Whatever the order of the events, what the node publishes to is allocated
\* and of the right service (mongoose.c tests its pointers only for NULL).
THEOREM PointersLiveCorrect == StackSpec => []PointersLive
<1>1. StackInv => PointersLive
  BY DEF StackInv
<1> QED BY <1>1, StackCorrect, PTL

\* However often the timer retries, there is one connection per server and one
\* listener.
THEOREM OneLinkCorrect == StackSpec => []OneLink
<1>1. StackInv => OneLink
  BY DEF StackInv
<1> QED BY <1>1, StackCorrect, PTL

\* The subscriptions made through the stack's pointer land on the connection
\* whose session opened.
THEOREM SessionSubscribedCorrect == StackSpec => []SessionSubscribed
<1>1. StackInv => SessionSubscribed
  BY DEF StackInv
<1> QED BY <1>1, StackCorrect, PTL

(***************************************************************************)
(* The MQTT connection, seen through the stack's pointer, is a NyxLink.    *)
(***************************************************************************)
Mqtt == LinkState("mqtt", "session")

\* How the state of the link follows from the pointer and its connection.
LEMMA LinkStates ==
    ASSUME StackInv
    PROVE  /\ ptr["mqtt"] = Null => Mqtt = "down"
           /\ \A c \in MqttConns : ptr["mqtt"] = c =>
                /\ phase[c] = "closing" => Mqtt = "lost"
                /\ phase[c] = "session" => Mqtt = "up"
                /\ phase[c] \in {"opening", "open"} => Mqtt = "connecting"
           /\ \A c \in MqttConns : phase[c] # "free" => ptr["mqtt"] = c
           /\ ptr["mqtt"] # Null => ptr["mqtt"] \in MqttConns
  BY ConnsAssumption, ServiceFacts
     DEF Mqtt, LinkState, StackInv, PointersLive, OneLink, Conns, Services

LEMMA LinkKept ==
    ASSUME StackInv, ptr'["mqtt"] = ptr["mqtt"],
           \A c \in MqttConns : phase'[c] = phase[c]
    PROVE  Mqtt' = Mqtt
  BY LinkStates DEF Mqtt, LinkState

LEMMA StepRefinesLink ==
    ASSUME StackInv, StackInv', [StackNext]_stackVars
    PROVE  [MqttLink!LinkNext]_Mqtt
<1> DEFINE Refined == [MqttLink!LinkNext]_Mqtt
<1>0. /\ ptr'["mqtt"] = Null => Mqtt' = "down"
      /\ \A c \in MqttConns : ptr'["mqtt"] = c =>
           /\ phase'[c] = "closing" => Mqtt' = "lost"
           /\ phase'[c] = "session" => Mqtt' = "up"
           /\ phase'[c] \in {"opening", "open"} => Mqtt' = "connecting"
  <2>1. \A c \in MqttConns : c # Null
    BY ConnsAssumption DEF Conns
  <2> QED BY <2>1 DEF Mqtt, LinkState
<1>1. ASSUME Mqtt' = Mqtt PROVE Refined
  BY <1>1
<1>2. ASSUME RetryTimer PROVE Refined
  <2>1. CASE Left("mqtt")
    BY <2>1, <1>1, LinkKept, ServiceFacts DEF Left
  <2>2. CASE SetUp("mqtt", Attempted)
    <3>1. Mqtt = "down"
      BY <2>2, LinkStates DEF SetUp
    <3>2. Mqtt' \in {"connecting", "lost"}
      BY <2>2, <1>0, ServiceFacts DEF SetUp, Attempted
    <3> QED BY <3>1, <3>2 DEF MqttLink!LinkNext, MqttLink!Attempt, Mqtt
  <2> QED BY <1>2, <2>1, <2>2, RetryFacts
<1>3. ASSUME NEW c \in Conns \ MqttConns, ptr'["mqtt"] = ptr["mqtt"],
             NEW p, phase' = [phase EXCEPT ![c] = p]
      PROVE  Refined
  BY <1>1, <1>3, LinkKept, ServiceFacts DEF StackInv, StackTypeOK, Conns
<1>4. ASSUME NEW c \in MqttConns, phase[c] # "free", NEW p \in Phases,
             phase' = [phase EXCEPT ![c] = p], ptr' = ptr
      PROVE  /\ ptr["mqtt"] = c /\ ptr'["mqtt"] = c /\ phase'[c] = p
  BY <1>4, LinkStates DEF StackInv, StackTypeOK, Conns
<1>5. ASSUME NEW c \in Conns, Accept(c)
      PROVE  Refined
  <2>1. c \in Conns \ MqttConns
    BY <1>5, ConnsAssumption DEF Accept
  <2> QED BY <1>5, <2>1, <1>3 DEF Accept, StackInv, StackTypeOK, Services
<1>6. ASSUME NEW c \in Conns, Connected(c)
      PROVE  Refined
  <2>1. CASE c \in MqttConns
    <3>1. ptr["mqtt"] = c /\ ptr'["mqtt"] = c /\ phase'[c] = "open"
      BY <1>6, <2>1, <1>4 DEF Connected, Phases
    <3>2. Mqtt = "connecting" /\ Mqtt' = "connecting"
      BY <1>6, <2>1, <3>1, <1>0, LinkStates DEF Connected
    <3> QED BY <3>2, <1>1
  <2>2. CASE c \notin MqttConns
    BY <1>6, <2>2, <1>3 DEF Connected
  <2> QED BY <2>1, <2>2
<1>7. ASSUME NEW c \in Conns, NEW accepted \in BOOLEAN, Connack(c, accepted)
      PROVE  Refined
  <2> DEFINE p == IF accepted THEN "session" ELSE "closing"
  <2>1. ptr["mqtt"] = c /\ ptr'["mqtt"] = c /\ phase'[c] = p /\ c \in MqttConns
    BY <1>7, <1>4 DEF Connack, Phases
  <2>2. Mqtt = "connecting"
    BY <1>7, <2>1, LinkStates DEF Connack
  <2>3. Mqtt' \in {"up", "lost"}
    BY <2>1, <1>0
  <2> QED
    BY <2>2, <2>3
       DEF MqttLink!LinkNext, MqttLink!Establish, MqttLink!Lose, Mqtt
<1>8. ASSUME NEW c \in Conns, Drop(c)
      PROVE  Refined
  <2>1. CASE c \in MqttConns
    <3>1. ptr["mqtt"] = c /\ ptr'["mqtt"] = c /\ phase'[c] = "closing"
      BY <1>8, <2>1, <1>4 DEF Drop, Phases
    <3>2. Mqtt \in {"connecting", "up"} /\ Mqtt' = "lost"
      BY <1>8, <2>1, <3>1, <1>0, LinkStates DEF Drop
    <3> QED BY <3>2 DEF MqttLink!LinkNext, MqttLink!Lose, Mqtt
  <2>2. CASE c \notin MqttConns
    BY <1>8, <2>2, <1>3 DEF Drop
  <2> QED BY <2>1, <2>2
<1>9. ASSUME Mqtt' = "down" PROVE Refined
  BY <1>9 DEF MqttLink!LinkNext, MqttLink!Release, Mqtt
<1>10. ASSUME NEW c \in Conns, CloseConn(c)
       PROVE  Refined
  <2>1. CASE c \in MqttConns
    BY <1>10, <2>1, <1>0, <1>9, ServiceFacts DEF CloseConn, Services
  <2>2. CASE c \notin MqttConns
    BY <1>10, <2>2, <1>3, ServiceFacts DEF CloseConn, Services
  <2> QED BY <2>1, <2>2
<1>11. ASSUME Finalize PROVE Refined
  BY <1>11, <1>0, <1>9 DEF Finalize, Services
<1>12. ASSUME phase' = phase, ptr' = ptr PROVE Refined
  BY <1>12, <1>1, LinkKept
<1> HIDE DEF Refined
<1>13. ASSUME NEW c \in Conns, IndiGetProperties(c)
       PROVE  Refined
  BY <1>12, <1>13 DEF IndiGetProperties
<1>14. ASSUME NEW s \in Services, Toggle(s)
       PROVE  Refined
  BY <1>12, <1>14 DEF Toggle
<1>15. ASSUME UNCHANGED stackVars PROVE Refined
  BY <1>12, <1>15 DEF stackVars
<1>16. Refined
  BY <1>2, <1>5, <1>6, <1>7, <1>8, <1>10, <1>11, <1>13, <1>14, <1>15
     DEF StackNext
<1> QED BY <1>16 DEF Refined

\* The MQTT connection behaves as a link: it is up only after a connection was
\* set up, and is attempted anew only once the previous one was released.
THEOREM MqttIsLinkCorrect == StackSpec => MqttIsLink
<1>1. StackInit => MqttLink!LinkInit
  <2> SUFFICES ASSUME StackInit PROVE Mqtt = "down"
    BY DEF MqttLink!LinkInit, Mqtt
  <2> QED BY DEF StackInit, Mqtt, LinkState, Services
<1>2. StackInv /\ StackInv' /\ [StackNext]_stackVars => [MqttLink!LinkNext]_Mqtt
  BY StepRefinesLink
<1> QED
  BY <1>1, <1>2, StackCorrect, PTL DEF StackSpec, MqttIsLink, MqttLink!LinkSpec, Mqtt
===============================================================================
