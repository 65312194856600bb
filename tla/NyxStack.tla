------------------------------- MODULE NyxStack -------------------------------
(***************************************************************************)
(* The connections of a Nyx node (src/src/stacks/mongoose.c) over the      *)
(* mongoose event manager (external, modelled from how its calls and       *)
(* events are used): a TCP listener and its INDI clients, a connection to  *)
(* the MQTT broker, a connection to the Nyx-Stream server, one pointer of  *)
(* the stack per service, and the timer that retries what is missing.      *)
(*                                                                         *)
(* Everything runs inside mg_mgr_poll, in one thread.  Each timer call and *)
(* each event of a connection is an action; any order of them is allowed,  *)
(* which includes the one of the manager's list.                           *)
(***************************************************************************)
EXTENDS Naturals, FiniteSets

CONSTANTS
    Listeners,    \* connection structures, by what they can hold: listeners,
    IndiConns,    \* accepted INDI clients,
    MqttConns,    \* connections to the broker,
    StreamConns,  \* connections to the Nyx-Stream server
    Topics,       \* the topics of node.c's SPECIAL_TOPICS, plain and per node
    Null          \* NULL

Services == {"indi", "mqtt", "stream"}

Conns == Listeners \cup IndiConns \cup MqttConns \cup StreamConns

ASSUME ConnsAssumption ==
    /\ Null \notin Conns
    /\ Listeners # {} /\ MqttConns # {} /\ StreamConns # {}
    /\ (Listeners \cup IndiConns) \cap (MqttConns \cup StreamConns) = {}
    /\ Listeners \cap IndiConns = {} /\ MqttConns \cap StreamConns = {}

VARIABLES
    phase,    \* phase[c]: the state of connection structure c
    ptr,      \* ptr[s]: the stack's pointer for service s
    subs,     \* subs[c]: the topics subscribed on connection c
    up,       \* up[s]: the port is free, the server reachable and willing;
              \* when it is not, anything may happen to its connections
    running,  \* the node is not finalized
    answer    \* the last getProperties of an INDI client and where the
              \* definitions went

stackVars == <<phase, ptr, subs, up, running, answer>>

\* "free": not allocated; "opening": resolving or connecting; "open": TCP
\* established, or listening; "session": CONNACK received; "closing":
\* is_closing is set, MG_EV_CLOSE not yet fired.
Phases == {"free", "opening", "open", "session", "closing"}

ConnsOf(s) ==
    CASE s = "indi" -> Listeners \cup IndiConns
      [] s = "mqtt" -> MqttConns
      [] s = "stream" -> StreamConns

Free == {c \in Conns : phase[c] = "free"}

NoAnswer == [asker |-> Null, to |-> Null]

StackInit ==
    /\ phase = [c \in Conns |-> "free"]
    /\ ptr = [s \in Services |-> Null]
    /\ subs = [c \in Conns |-> {}]
    /\ up \in [Services -> BOOLEAN]
    /\ running = TRUE
    /\ answer = NoAnswer

(***************************************************************************)
(* _retry_timer_handler.  mg_listen fails while a listener of the node     *)
(* still holds the port.  mg_connect and mg_mqtt_connect return a          *)
(* connection in any case: an attempt that fails at once is closing        *)
(* already, and its pointer is set by MG_EV_OPEN and by the assignment.    *)
(***************************************************************************)
Listening == \E l \in Listeners : phase[l] = "open"

\* Mutant: the test of the broker's pointer, copied.
BugListenOutcomes ==
    IF ptr["mqtt"] = Null /\ up["indi"] /\ ~Listening
    THEN {[conn |-> l, phase |-> "open"] : l \in Listeners \cap Free}
    ELSE {[conn |-> ptr["indi"], phase |-> "same"]}

ListenOutcomes ==
    IF ptr["indi"] = Null /\ up["indi"] /\ ~Listening
    THEN {[conn |-> l, phase |-> "open"] : l \in Listeners \cap Free}
    ELSE {[conn |-> ptr["indi"], phase |-> "same"]}

\* Mutant: a connection that is being closed is replaced at once.
BugConnectOutcomes(s) ==
    IF ptr[s] = Null \/ phase[ptr[s]] = "closing"
    THEN [conn : ConnsOf(s) \cap Free,
          phase : IF up[s] THEN {"opening"} ELSE {"opening", "closing"}]
    ELSE {[conn |-> ptr[s], phase |-> "same"]}

ConnectOutcomes(s) ==
    IF ptr[s] = Null
    THEN [conn : ConnsOf(s) \cap Free,
          phase : IF up[s] THEN {"opening"} ELSE {"opening", "closing"}]
    ELSE {[conn |-> ptr[s], phase |-> "same"]}

RetryTimer ==
    /\ running
    /\ \E i \in ListenOutcomes, m \in ConnectOutcomes("mqtt"),
          s \in ConnectOutcomes("stream") :
        /\ ptr' = [indi |-> i.conn, mqtt |-> m.conn, stream |-> s.conn]
        /\ phase' = [c \in Conns |->
              IF \E o \in {i, m, s} : o.conn = c /\ o.phase # "same"
              THEN (CHOOSE o \in {i, m, s} : o.conn = c).phase
              ELSE phase[c]]
    /\ answer' = NoAnswer
    /\ UNCHANGED <<subs, up, running>>

(***************************************************************************)
(* The events of the connections.                                          *)
(***************************************************************************)

\* A client connects to the listener: the new connection inherits the
\* listener's handler, whose MG_EV_OPEN takes over the pointer.
Accept(c) ==
    /\ running
    /\ Listening
    /\ c \in IndiConns \cap Free
    /\ phase' = [phase EXCEPT ![c] = "open"]
    /\ ptr' = [ptr EXCEPT !["indi"] = c]
    /\ answer' = NoAnswer
    /\ UNCHANGED <<subs, up, running>>

\* TCP is established; for MQTT the CONNECT packet leaves.
Connected(c) ==
    /\ running
    /\ phase[c] = "opening"
    /\ phase' = [phase EXCEPT ![c] = "open"]
    /\ answer' = NoAnswer
    /\ UNCHANGED <<ptr, subs, up, running>>

\* Mutant: the handler reacts to a connection that is not the broker's.
BugConnack(c, accepted) ==
    /\ running
    /\ phase[c] = "open"
    /\ accepted \/ ~up["mqtt"]
    /\ subs' = IF ptr["mqtt"] = Null THEN subs
               ELSE [subs EXCEPT ![ptr["mqtt"]] = Topics]
    /\ phase' = [phase EXCEPT ![c] = IF accepted THEN "session" ELSE "closing"]
    /\ answer' = NoAnswer
    /\ UNCHANGED <<ptr, up, running>>

\* MG_EV_MQTT_OPEN: the node subscribes to its topics and publishes every
\* definition, through the pointer and whatever the return code; a refusal
\* closes the connection afterwards.
Connack(c, accepted) ==
    /\ running
    /\ c \in MqttConns
    /\ phase[c] = "open"
    /\ accepted \/ ~up["mqtt"]
    /\ subs' = IF ptr["mqtt"] = Null THEN subs
               ELSE [subs EXCEPT ![ptr["mqtt"]] = Topics]
    /\ phase' = [phase EXCEPT ![c] = IF accepted THEN "session" ELSE "closing"]
    /\ answer' = NoAnswer
    /\ UNCHANGED <<ptr, up, running>>

\* Mutant: the handler forgets the connection on MG_EV_ERROR already.
BugDrop(c) ==
    /\ running
    /\ \/ c \in IndiConns
       \/ \E s \in {"mqtt", "stream"} : c \in ConnsOf(s) /\ ~up[s]
    /\ phase[c] \in {"opening", "open", "session"}
    /\ phase' = [phase EXCEPT ![c] = "closing"]
    /\ ptr' = [s \in Services |-> IF c \in ConnsOf(s) THEN Null ELSE ptr[s]]
    /\ answer' = NoAnswer
    /\ UNCHANGED <<subs, up, running>>

\* The peer closes, or an error occurs: is_closing is set; MG_EV_ERROR is
\* only logged.
Drop(c) ==
    /\ running
    /\ \/ c \in IndiConns
       \/ \E s \in {"mqtt", "stream"} : c \in ConnsOf(s) /\ ~up[s]
    /\ phase[c] \in {"opening", "open", "session"}
    /\ phase' = [phase EXCEPT ![c] = "closing"]
    /\ answer' = NoAnswer
    /\ UNCHANGED <<ptr, subs, up, running>>

\* Mutant: the pointer is not reset.
BugCloseConn(c) ==
    /\ running
    /\ phase[c] = "closing"
    /\ phase' = [phase EXCEPT ![c] = "free"]
    /\ subs' = [subs EXCEPT ![c] = {}]
    /\ answer' = NoAnswer
    /\ UNCHANGED <<ptr, up, running>>

\* MG_EV_CLOSE, then the structure is freed.  The handler resets its
\* service's pointer, whichever connection it points to.
CloseConn(c) ==
    /\ running
    /\ phase[c] = "closing"
    /\ phase' = [phase EXCEPT ![c] = "free"]
    /\ ptr' = [s \in Services |-> IF c \in ConnsOf(s) THEN Null ELSE ptr[s]]
    /\ subs' = [subs EXCEPT ![c] = {}]
    /\ answer' = NoAnswer
    /\ UNCHANGED <<up, running>>

\* MG_EV_READ of a client's getProperties: the definitions are sent by
\* internal_indi_pub, to the pointer.
IndiGetProperties(c) ==
    /\ running
    /\ c \in IndiConns
    /\ phase[c] = "open"
    /\ answer' = [asker |-> c, to |-> ptr["indi"]]
    /\ UNCHANGED <<phase, ptr, subs, up, running>>

\* nyx_node_finalize: mg_mgr_free drops the timers and closes everything.
Finalize ==
    /\ running
    /\ running' = FALSE
    /\ phase' = [c \in Conns |-> "free"]
    /\ ptr' = [s \in Services |-> Null]
    /\ subs' = [c \in Conns |-> {}]
    /\ answer' = NoAnswer
    /\ UNCHANGED up

(***************************************************************************)
(* The environment: servers come and go.                                   *)
(***************************************************************************)
Toggle(s) ==
    /\ up' = [up EXCEPT ![s] = ~@]
    /\ answer' = NoAnswer
    /\ UNCHANGED <<phase, ptr, subs, running>>

StackNext ==
    \/ RetryTimer
    \/ \E c \in Conns : \/ Accept(c) \/ Connected(c) \/ Drop(c) \/ CloseConn(c)
                        \/ IndiGetProperties(c)
                        \/ \E accepted \in BOOLEAN : Connack(c, accepted)
    \/ Finalize
    \/ \E s \in Services : Toggle(s)

StackSpec == StackInit /\ [][StackNext]_stackVars

\* The application polls for ever: the repeating timer comes due, connections
\* that can make progress do, and those marked are closed.
FairStackSpec ==
    /\ StackSpec
    /\ WF_stackVars(RetryTimer)
    /\ \A c \in Conns : /\ WF_stackVars(Connected(c))
                        /\ WF_stackVars(CloseConn(c))
                        /\ WF_stackVars(Connack(c, TRUE))
-------------------------------------------------------------------------------
(***************************************************************************)
(* Properties.                                                             *)
(***************************************************************************)

\* The type invariant; a listener is listening or free, and only a connection
\* to the broker has a session.
StackTypeOK ==
    /\ phase \in [Conns -> Phases]
    /\ \A l \in Listeners : phase[l] \in {"free", "open"}
    /\ \A c \in Conns : phase[c] = "session" => c \in MqttConns
    /\ ptr \in [Services -> Conns \cup {Null}]
    /\ subs \in [Conns -> SUBSET Topics]
    /\ up \in [Services -> BOOLEAN]
    /\ running \in BOOLEAN
    /\ answer \in [asker : IndiConns \cup {Null}, to : Conns \cup {Null}]

\* No pointer of the stack outlives its connection: what internal_indi_pub,
\* internal_mqtt_pub and internal_stream_pub write to is an allocated
\* connection of their own service.
PointersLive ==
    \A s \in Services :
        ptr[s] # Null => ptr[s] \in ConnsOf(s) /\ phase[ptr[s]] # "free"

\* There is never a second connection to the broker or to the stream server,
\* nor a second listener, and one that exists is the one pointed to: retrying
\* waits until the old one is closed, not only in error.
OneLink ==
    /\ \A s \in {"mqtt", "stream"}, c \in Conns :
          c \in ConnsOf(s) /\ phase[c] # "free" => ptr[s] = c
    /\ \A k, l \in Listeners : phase[k] # "free" /\ phase[l] # "free" => k = l

\* A session is subscribed to all of the node's topics on its own connection,
\* after every reconnection (sessions are clean: the broker keeps nothing).
SessionSubscribed ==
    \A c \in MqttConns : phase[c] = "session" => subs[c] = Topics

LinkState(s, established) ==
    IF ptr[s] = Null THEN "down"
    ELSE IF phase[ptr[s]] \in {"closing", "free"} THEN "lost"
    ELSE IF phase[ptr[s]] = established THEN "up" ELSE "connecting"

\* Seen through its pointer, the MQTT connection is a link.
MqttLink == INSTANCE NyxLink WITH link <- LinkState("mqtt", "session")
MqttIsLink == MqttLink!LinkSpec

\* Once the broker stays reachable, an MQTT session is established and stays.
MqttRecovers ==
    <>[](running /\ up["mqtt"]) => <>[](LinkState("mqtt", "session") = "up")

\* Once the port can be bound, the node listens on it for ever: INDI clients
\* that come and go never leave it without a listener.
IndiListens == <>[](running /\ up["indi"]) => <>[]Listening

\* What protocol.md says of discovery, per INDI connection: a client that asks
\* for the properties receives the definitions.
AnswerReachesAsker == answer.to = answer.asker
===============================================================================
