------------------------------- MODULE NyxSystem -------------------------------
(***************************************************************************)
(* A node on the Arduino stack (src/src/stacks/arduino.cpp), the broker,   *)
(* and a client that keeps a mirror of the node's vectors from what it     *)
(* hears on nyx/json.  The message core is NyxNode; of its requests those  *)
(* that bear on the mirror are here.                                       *)
(*                                                                         *)
(* What a step publishes is one batch, on its way to the client in `wire'. *)
(* A connection that breaks takes with it what the broker has not got yet; *)
(* until the stack notices, it goes on publishing into it.  The MQTT       *)
(* library, the broker and the client are external.                        *)
(***************************************************************************)
EXTENDS NyxNode

CONSTANTS
    Big,     \* the vectors whose messages do not fit the MQTT buffer
    MaxWire  \* bound: batches on their way while more are started

ASSUME SystemAssumption == Big \subseteq VecIds /\ MaxWire \in Nat

Services == {"mqtt", "stream"}

VARIABLES
    resolved,  \* the services whose URL is still there after start-up
    up,        \* up[s]: the server can be reached
    tcp,       \* tcp[s]: "closed", "open", or "broken": open for the stack only
    wire,      \* the batches published that the client has not seen
    asked,     \* the vectors of which a set request is on its way
    mirror,    \* mirror[v]: what the client shows of vector v
    busy,      \* busy[v]: the client waits for an answer about v
    ideal,     \* the mirror of a client that misses nothing (ghost)
    missed     \* the vectors whose last message was a deletion that got
               \* lost (ghost)

clientVars == <<wire, mirror, busy, ideal, missed>>
linkVars == <<resolved, up, tcp>>
systemVars == <<vars, clientVars, linkVars, asked>>

Absent == <<>>
Connected == tcp["mqtt"] = "open"

(***************************************************************************)
(* What a client does with messages: a definition or a deletion always     *)
(* counts, a new value only of a vector it shows.                          *)
(***************************************************************************)
Vals(v, msgs) == (CHOOSE m \in msgs : m.tag \in {"def", "set"} /\ m.vec = v).vals

Defines(v, msgs) == \E m \in msgs : m.tag = "def" /\ m.vec = v
Updates(v, msgs) == \E m \in msgs : m.tag = "set" /\ m.vec = v
Deletes(v, msgs) == \E m \in msgs : m.tag = "del" /\ Matches(v, m.device, m.name)
Concerns(v, msgs) == Defines(v, msgs) \/ Updates(v, msgs) \/ Deletes(v, msgs)

Shown(view, msgs) ==
    [v \in VecIds |->
        IF Defines(v, msgs) \/ (Updates(v, msgs) /\ view[v] # Absent) THEN Vals(v, msgs)
        ELSE IF Deletes(v, msgs) THEN Absent
        ELSE view[v]]

(***************************************************************************)
(* internal_mqtt_pub: only while the client library says it is connected,  *)
(* and a message longer than its buffer is refused and logged.             *)
(***************************************************************************)
Fits(m) == m.tag \in {"def", "set"} => m.vec \notin Big

Sent(msgs) == {m \in msgs : m.tag \in {"def", "set", "del"} /\ Fits(m)}

\* What a step of the node publishes, over the connections it leaves.
Publish ==
    LET sent == IF tcp'["mqtt"] = "open" THEN Sent(out') ELSE {}
    IN /\ wire' = IF sent = {} THEN wire ELSE Append(wire, sent)
       /\ ideal' = Shown(ideal, out')
       /\ missed' = {v \in VecIds :
                       IF Concerns(v, sent) THEN FALSE
                       ELSE v \in missed \/ Deletes(v, out')}
       /\ UNCHANGED <<mirror, busy>>

(***************************************************************************)
(* _retry_timer_handler: connect blocks, and the open event is handled     *)
(* before it returns.                                                      *)
(***************************************************************************)

\* Mutant: only a node without any connection connects.
BugConnects(s) == s \in resolved /\ (\A t \in Services : tcp[t] = "closed") /\ up[s]

Connects(s) == s \in resolved /\ tcp[s] = "closed" /\ up[s]

\* Mutant: the session opens without the definitions.
BugSessionDefs == {}

\* NYX_NODE_EVENT_OPEN: every enabled vector is defined again.
SessionDefs == {DefMsg(v) : v \in {w \in VecIds : ~Disabled(w)}}

RetryTimer ==
    /\ Idle
    /\ tcp' = [s \in Services |-> IF Connects(s) THEN "open" ELSE tcp[s]]
    /\ out' = IF Connects("mqtt") THEN SessionDefs ELSE {}
    /\ Publish
    /\ UNCHANGED <<value, flags, clientHashes, master, job, resolved, up, asked>>

(***************************************************************************)
(* The connections.                                                        *)
(***************************************************************************)
NodeRests == out' = {} /\ UNCHANGED <<value, flags, clientHashes, master, job>>

\* The rest of the wire is lost from somewhere in a batch on.  (Nothing of
\* the streams is looked at here: their connection just closes.)
Break(s) ==
    /\ tcp[s] = "open" /\ ~up[s]
    /\ \E state \in IF s = "mqtt" THEN {"broken", "closed"} ELSE {"closed"} :
          tcp' = [tcp EXCEPT ![s] = state]
    /\ IF s # "mqtt" THEN UNCHANGED <<clientVars, asked>>
       ELSE /\ \E n \in 0 .. Len(wire) :
                 \E part \in IF n = Len(wire) THEN {{}} ELSE SUBSET wire[n + 1] :
                   LET lost == (UNION {wire[k] : k \in (n + 1) .. Len(wire)}) \ part
                       rest == IF part = {} THEN <<>> ELSE <<part>>
                   IN /\ wire' = SubSeq(wire, 1, n) \o rest
                      /\ missed' = missed \cup {v \in VecIds : Deletes(v, lost)}
            /\ asked' = {}
            /\ UNCHANGED <<mirror, busy, ideal>>
    /\ NodeRests /\ UNCHANGED <<resolved, up>>

\* connected() notices: a timeout, or the next use of the connection.
Detect(s) ==
    /\ tcp[s] = "broken"
    /\ tcp' = [tcp EXCEPT ![s] = "closed"]
    /\ NodeRests /\ UNCHANGED <<clientVars, resolved, up, asked>>

\* Servers come and go.
Toggle(s) ==
    /\ s \in resolved
    /\ up[s] \/ Len(wire) < MaxWire
    /\ up' = [up EXCEPT ![s] = ~@]
    /\ NodeRests /\ UNCHANGED <<clientVars, resolved, tcp, asked>>

(***************************************************************************)
(* The client.                                                             *)
(***************************************************************************)
Deliver ==
    /\ wire # <<>>
    /\ wire' = Tail(wire)
    /\ mirror' = Shown(mirror, Head(wire))
    /\ busy' = [v \in VecIds |-> busy[v] /\ ~Concerns(v, Head(wire))]
    /\ NodeRests /\ UNCHANGED <<linkVars, asked, ideal, missed>>

\* A set request, which is lost when the node has no session.
Ask(v) ==
    /\ mirror[v] # Absent /\ ~busy[v]
    /\ busy' = [busy EXCEPT ![v] = TRUE]
    /\ asked' = IF Connected THEN asked \cup {v} ELSE asked
    /\ NodeRests /\ UNCHANGED <<linkVars, wire, mirror, ideal, missed>>

(***************************************************************************)
(* The node's steps, with what they publish.                               *)
(***************************************************************************)

\* _mqtt_callback with a set request.
ReceiveSet(v) ==
    /\ v \in asked /\ Connected
    /\ \E c \in Clients :
          BeginSet(c, Vectors[v].kind, Vectors[v].device, Vectors[v].name)
    /\ job'.vec = v
    /\ asked' = asked \ {v}
    /\ UNCHANGED linkVars
    /\ Publish

\* _mqtt_callback with the getProperties of another client.
ReceiveGetProperties ==
    /\ Connected /\ Len(wire) < MaxWire
    /\ GetProperties(None, None)
    /\ UNCHANGED <<linkVars, asked>>
    /\ Publish

HandlerStep == Handler /\ UNCHANGED <<linkVars, asked>> /\ Publish

\* What the application does about its vectors, between polls or in a callback.
ApplicationStep ==
    /\ Len(wire) < MaxWire
    /\ \/ \E v \in VecIds : AppNotify(v) \/ \E i \in Cols(v) : AppSet(v, i)
       \/ \E d \in Devices, n \in MaybeName :
             Enable(d, n) \/ Disable(d, n) \/ SendDelProperty(d, n)
    /\ UNCHANGED <<linkVars, asked>>
    /\ Publish

(***************************************************************************)
(* The specification.                                                      *)
(***************************************************************************)

\* internal_stack_initialize: the URL of a service whose address is not
\* resolved, or that has no memory for its buffer, is dropped.
SystemInit ==
    /\ Init
    /\ resolved \in SUBSET Services
    /\ up = [s \in Services |-> s \in resolved]
    /\ tcp = [s \in Services |-> "closed"]
    /\ wire = <<>> /\ asked = {} /\ missed = {}
    /\ mirror = [v \in VecIds |-> Absent]
    /\ ideal = [v \in VecIds |-> Absent]
    /\ busy = [v \in VecIds |-> FALSE]

SystemNext ==
    \/ RetryTimer \/ HandlerStep \/ ApplicationStep \/ ReceiveGetProperties \/ Deliver
    \/ \E v \in VecIds : Ask(v) \/ ReceiveSet(v)
    \/ \E s \in Services : Break(s) \/ Detect(s) \/ Toggle(s)

SystemSpec == SystemInit /\ [][SystemNext]_systemVars

\* The application polls for ever and its callbacks return; what is on the
\* way arrives; a dead connection is noticed.
FairSystemSpec ==
    /\ SystemSpec
    /\ WF_systemVars(RetryTimer)
    /\ WF_systemVars(HandlerStep)
    /\ WF_systemVars(Deliver)
    /\ \A v \in VecIds : WF_systemVars(ReceiveSet(v))
    /\ \A s \in Services : WF_systemVars(Detect(s))
-------------------------------------------------------------------------------
(***************************************************************************)
(* Properties.                                                             *)
(***************************************************************************)

\* With a session and nothing on the way, the client shows what it would show
\* had it missed nothing, however often the connection broke, and in whichever
\* order vectors were enabled, disabled and set meanwhile; except that it
\* still shows a vector whose deletion was lost, and never one too big for
\* the buffer.
MirrorAgrees ==
    Connected /\ wire = <<>> =>
        \A v \in VecIds :
            IF v \in Big THEN mirror[v] = Absent
            ELSE \/ mirror[v] = ideal[v]
                 \/ v \in missed /\ ideal[v] = Absent

BrokerStays == "mqtt" \in resolved /\ <>[]up["mqtt"]

\* Once the broker stays reachable there is a session for ever, also if the
\* stream server never answers.  Not so if the broker's name was not resolved
\* at start-up: that is never tried again.
SessionRecovers == BrokerStays => <>[]Connected

\* From end to end, a client is not left waiting: its request, the answer, or
\* the connection may get lost, but then the new session's definitions end
\* the wait; except for a vector whose deletion was lost.
WaitEnds ==
    BrokerStays =>
        \A v \in {w \in VecIds \ Big : Vectors[w].perm # "wo" /\ ~IsBlob(w)} :
            busy[v] ~> ~busy[v] \/ v \in missed
================================================================================
