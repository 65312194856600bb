------------------------------- MODULE NyxNode -------------------------------
(***************************************************************************)
(* The message core of a Nyx node (src/src/node.c): the property vectors   *)
(* the application registered, their flags word, the table of clients, the *)
(* master client, and the handlers of the requests clients send.           *)
(*                                                                         *)
(* The node runs in one thread: a handler is never interrupted by another  *)
(* handler.  But _set_properties calls back into the application for each  *)
(* element it writes, and the application may use the node's public        *)
(* functions from there.  So a set request is modelled step by step, as a  *)
(* job that walks the pairs (child of the request, element of the vector)  *)
(* in the order of the two nested loops; every other handler is one step.  *)
(*                                                                         *)
(* Published objects are collected in `out', the set of objects handed to  *)
(* _sub_object (or to MQTT only, for pings) by the last step.              *)
(***************************************************************************)
EXTENDS Integers, FiniteSets, Sequences

CONSTANTS
    Vectors,      \* node->vectors: a sequence of definition vectors
    Devices,      \* the device names ...
    Names,        \* ... vector names ...
    PropNames,    \* ... and element names in use
    Payloads,     \* stored values of numbers, texts, lights and BLOBs
    Encoded,      \* what a request may carry for a number or a BLOB
    Decode,       \* the stored value each of them stands for
    Clients,      \* the client names requests carry
    Indi,         \* "@INDI", the name of a client that gives none
    Hash,         \* nyx_hash of each client name
    NSlots,       \* length of node->client_hashes (31 in the code)
    Hooked,       \* <<v, i>>: element i of vector v has a callback;
                  \* <<v, 0>>: vector v has one
    Refusing,     \* the <<v, i>> in Hooked whose callback may return false
    MaxChildren   \* bound: the children of a set request

None == "none"    \* an absent attribute
All  == "@ALL"    \* NYX_ALL

Kinds   == {"Number", "Text", "Light", "Switch", "BLOB", "Stream"}
Perms   == {"ro", "wo", "rw"}
Rules   == {None, "OneOfMany", "AtMostOne", "AnyOfMany"}
VecIds  == DOMAIN Vectors
Slots   == 0 .. NSlots - 1
Senders == Clients \cup {Indi}

ASSUME VectorsAssumption ==
    /\ Vectors \in Seq([device : Devices, name : Names, kind : Kinds,
                        perm : Perms, rule : Rules, props : Seq(PropNames)])
    /\ \A v \in VecIds :
        /\ Vectors[v].props # <<>>
        /\ Vectors[v].rule # None => Vectors[v].kind = "Switch"
        /\ \A i, j \in DOMAIN Vectors[v].props :
              Vectors[v].props[i] = Vectors[v].props[j] => i = j

ASSUME NamesAssumption ==
    /\ None \notin Devices \cup Names \cup Senders
    /\ All \notin Senders
    /\ Indi \notin Clients

ASSUME ClientsAssumption ==
    /\ NSlots \in Nat \ {0}
    /\ Hash \in [Senders -> Nat]

ASSUME CallbacksAssumption ==
    /\ Refusing \subseteq Hooked
    /\ \A h \in Refusing : h[2] # 0

ASSUME PayloadsAssumption ==
    /\ Decode \in [Encoded -> Payloads]
    /\ MaxChildren \in Nat

VARIABLES
    value,         \* value[v][i]: the "$" of element i of vector v
    flags,         \* flags[v]: the bits set in vector->base.flags
    clientHashes,  \* node->client_hashes; 0 is a free slot
    master,        \* node->master_client_message
    job,           \* the set request being applied, NoJob between handlers
    out            \* the objects published by the last step

vars == <<value, flags, clientHashes, master, job, out>>

(***************************************************************************)
(* Vectors and their values.                                               *)
(***************************************************************************)
Cols(v) == DOMAIN Vectors[v].props

IsBlob(v) == Vectors[v].kind = "BLOB"

OnOff == {"On", "Off"}

\* What "$" of an element of this kind can hold.
StoredOf(kind) == IF kind = "Switch" THEN OnOff ELSE Payloads

\* What a request can carry for it.
RawOf(kind) ==
    CASE kind = "Switch" -> OnOff
      [] kind \in {"Number", "BLOB"} -> Encoded
      [] OTHER -> Payloads

\* The conversion of a request's value: a number is parsed and formatted
\* again, a BLOB is decoded; a text, a light's or a switch's state is kept.
Store(kind, raw) ==
    IF kind \in {"Number", "BLOB"} THEN Decode[raw] ELSE raw

\* The filter a message applies: a name counts only beside a device.
Matches(v, device, name) ==
    \/ device = None
    \/ /\ Vectors[v].device = device
       /\ name \in {None, Vectors[v].name}

(***************************************************************************)
(* The flags word: bit 0 disables the vector, then one bit per client slot *)
(* for BLOBs and one for streams (31 each in the code).                    *)
(***************************************************************************)
DISABLED       == 0
BlobBase       == 2
BugStreamBase  == 1 + NSlots   \* mutant: the ranges overlap by one bit
StreamBase     == 2 + NSlots
BLOB_MASK      == {BlobBase + i : i \in Slots}
STREAM_MASK    == {StreamBase + i : i \in Slots}
FlagBits       == {DISABLED} \cup BLOB_MASK \cup STREAM_MASK

Disabled(v) == DISABLED \in flags[v]

(***************************************************************************)
(* Messages.                                                               *)
(***************************************************************************)
DefMsg(v) == [tag |-> "def", vec |-> v, vals |-> value[v]]
SetMsg(v) == [tag |-> "set", vec |-> v, vals |-> value[v]]
DelMsg(device, name) == [tag |-> "del", device |-> device, name |-> name]
NoteMsg(device) == [tag |-> "message", device |-> device]
PingMsg == [tag |-> "ping"]
MasterMsg == [tag |-> "master", client |-> master]

Published ==
    [tag : {"def", "set"}, vec : VecIds, vals : Seq(OnOff \cup Payloads)]
        \cup [tag : {"del"}, device : Devices, name : Names \cup {None}]
        \cup [tag : {"message"}, device : Devices]
        \cup [tag : {"ping"}]
        \cup [tag : {"master"}, client : Senders \cup {All}]

\* The children of a newXXXVector request.
Children(kind) ==
    UNION {[1 .. n -> [name : PropNames, value : RawOf(kind)]]
             : n \in 0 .. MaxChildren}

\* Mutant: a disabled vector is published all the same.
BugNotifyDisabled(v) ==
    IF \/ IsBlob(v) /\ flags[v] \cap BLOB_MASK = {}
       \/ Vectors[v].perm = "wo"
    THEN {} ELSE {SetMsg(v)}

\* Mutant: BLOBs are published although no client enabled them.
BugNotifyBlob(v) ==
    IF Disabled(v) \/ Vectors[v].perm = "wo" THEN {} ELSE {SetMsg(v)}

\* internal_notify: what notifying a vector publishes.
Notify(v) ==
    IF \/ Disabled(v)
       \/ IsBlob(v) /\ flags[v] \cap BLOB_MASK = {}
       \/ Vectors[v].perm = "wo"
    THEN {} ELSE {SetMsg(v)}

(***************************************************************************)
(* The job of _set_properties: the vector found (0: none), the request and *)
(* the position in the two loops.  (The vector_modified flag is left out:  *)
(* it only tells the vector's callback whether something changed.)         *)
(***************************************************************************)
NoJob == [vec |-> 0, client |-> None, children |-> <<>>,
          row |-> 1, col |-> 1]

Idle == job.vec = 0

\* The loops are not finished: the pair at (row, col) is the next one.
InLoop == ~Idle /\ job.row <= Len(job.children)

LoopDone == ~Idle /\ job.row > Len(job.children)

Child == job.children[job.row]

IsCurrent == Child.name = Vectors[job.vec].props[job.col]

IsOneOfMany(v) == Vectors[v].rule = "OneOfMany"

\* Mutants: the other elements are not switched off; they are only when the
\* child says "On".
BugAppliesCurrent == IsCurrent
BugAppliesOn == IsCurrent \/ (IsOneOfMany(job.vec) /\ Child.value = "On")

\* The pairs the loops act on: a child's own element and, under OneOfMany,
\* each other element, which receives "Off".
Applies == IsCurrent \/ IsOneOfMany(job.vec)

NewValue == Store(Vectors[job.vec].kind, IF IsCurrent THEN Child.value ELSE "Off")

\* Mutants: the inner loop runs one element too far; it is not rewound.
BugAdvancedFar ==
    IF job.col <= Len(Vectors[job.vec].props)
    THEN [job EXCEPT !.col = @ + 1]
    ELSE [job EXCEPT !.row = @ + 1, !.col = 1]
BugAdvancedKeep ==
    IF job.col < Len(Vectors[job.vec].props)
    THEN [job EXCEPT !.col = @ + 1]
    ELSE [job EXCEPT !.row = @ + 1]

\* Where the two loops go next.
Advanced ==
    IF job.col < Len(Vectors[job.vec].props)
    THEN [job EXCEPT !.col = @ + 1]
    ELSE [job EXCEPT !.row = @ + 1, !.col = 1]

\* The application has the control: between handlers (the main program, its
\* timers and its MQTT handler), or inside a callback of the running job.
AppRuns ==
    \/ Idle
    \/ InLoop /\ Applies /\ <<job.vec, job.col>> \in Hooked
    \/ LoopDone /\ <<job.vec, 0>> \in Hooked

(***************************************************************************)
(* Initial states: what nyx_node_initialize leaves, for vectors built by   *)
(* the application with one element On in a OneOfMany vector and none in   *)
(* an AtMostOne one.                                                       *)
(***************************************************************************)
OnSet(v) == {i \in Cols(v) : value[v][i] = "On"}

ObeysRule(v, f) ==
    LET on == {i \in Cols(v) : f[i] = "On"}
    IN  /\ Vectors[v].rule = "OneOfMany" => \E i \in Cols(v) : on = {i}
        /\ Vectors[v].rule = "AtMostOne" => on = {}

InitialValues(v) ==
    {f \in [Cols(v) -> StoredOf(Vectors[v].kind)] : ObeysRule(v, f)}

Init ==
    /\ value \in [VecIds -> UNION {InitialValues(v) : v \in VecIds}]
    /\ \A v \in VecIds : value[v] \in InitialValues(v)
    /\ flags = [v \in VecIds |-> {}]
    /\ clientHashes = [i \in Slots |-> 0]
    /\ master = All
    /\ job = NoJob
    /\ out = {}

(***************************************************************************)
(* getProperties, and the definitions sent when an MQTT session opens.     *)
(***************************************************************************)
GetProperties(device, name) ==
    /\ Idle
    /\ out' = {DefMsg(v) : v \in {w \in VecIds : /\ ~Disabled(w)
                                                 /\ Matches(w, device, name)}}
    /\ UNCHANGED <<value, flags, clientHashes, master, job>>

(***************************************************************************)
(* enableBLOB and enableStream.                                            *)
(***************************************************************************)
SlotsFor(client) == {i \in Slots : clientHashes[i] \in {0, Hash[client]}}

\* Mutant: the last slot instead of the first one.
BugIsClientIndex(i, client) ==
    /\ i \in SlotsFor(client)
    /\ \A j \in SlotsFor(client) : i >= j

\* _get_client_index: the first slot that is free or already the client's.
IsClientIndex(i, client) ==
    /\ i \in SlotsFor(client)
    /\ \A j \in SlotsFor(client) : i <= j

\* Mutant: the slot is used without being taken.
BugEnableXxx(client, device, name, on, kind, base) ==
    \E i \in Slots :
        /\ IsClientIndex(i, client)
        /\ UNCHANGED clientHashes
        /\ flags' = [v \in VecIds |->
                       IF Vectors[v].kind = kind /\ Matches(v, device, name)
                       THEN IF on THEN flags[v] \cup {base + i}
                                  ELSE flags[v] \ {base + i}
                       ELSE flags[v]]

\* _enable_xxx, with the client's slot found.
EnableXxx(client, device, name, on, kind, base) ==
    \E i \in Slots :
        /\ IsClientIndex(i, client)
        /\ clientHashes' = [clientHashes EXCEPT ![i] = Hash[client]]
        /\ flags' = [v \in VecIds |->
                       IF Vectors[v].kind = kind /\ Matches(v, device, name)
                       THEN IF on THEN flags[v] \cup {base + i}
                                  ELSE flags[v] \ {base + i}
                       ELSE flags[v]]

\* "Too many connected clients": the request is dropped.
TableFull(client) ==
    /\ SlotsFor(client) = {}
    /\ UNCHANGED <<clientHashes, flags>>

EnableBlob(client, device, name, on) ==
    /\ Idle
    /\ out' = {}
    /\ \/ EnableXxx(client, device, name, on, "BLOB", BlobBase)
       \/ TableFull(client)
    /\ UNCHANGED <<value, master, job>>

EnableStream(client, device, name, on) ==
    /\ Idle
    /\ out' = {}
    /\ \/ EnableXxx(client, device, name, on, "Stream", StreamBase)
       \/ TableFull(client)
    /\ UNCHANGED <<value, master, job>>

(***************************************************************************)
(* newXXXVector: _set_properties.                                          *)
(***************************************************************************)
\* Mutant: a request without a client name is always allowed.
BugIsAllowed(client) == master \in {All, client} \/ client = Indi

IsAllowed(client) == master \in {All, client}

\* The first vector of the list with this kind, device and name.
IsTarget(v, kind, device, name) ==
    LET same(w) == /\ Vectors[w].kind = kind
                   /\ Vectors[w].device = device
                   /\ Vectors[w].name = name
    IN  same(v) /\ \A w \in VecIds : w < v => ~same(w)

BeginSet(client, kind, device, name) ==
    /\ Idle
    /\ kind # "Stream"
    /\ IsAllowed(client)
    /\ \E v \in VecIds, c \in Children(kind) :
        /\ IsTarget(v, kind, device, name)
        /\ job' = [vec |-> v, client |-> client, children |-> c,
                   row |-> 1, col |-> 1]
    /\ out' = {}
    /\ UNCHANGED <<value, flags, clientHashes, master>>

\* The callback is absent or accepts: the element takes the new value.
ApplyPair ==
    /\ InLoop
    /\ Applies
    /\ value' = [value EXCEPT ![job.vec][job.col] = NewValue]
    /\ job' = Advanced
    /\ out' = {}
    /\ UNCHANGED <<flags, clientHashes, master>>

\* Mutant: the first refusal ends the request.
BugRefusePair ==
    /\ InLoop
    /\ Applies
    /\ <<job.vec, job.col>> \in Refusing
    /\ job' = NoJob
    /\ out' = {}
    /\ UNCHANGED <<value, flags, clientHashes, master>>

\* The callback returns false: the element keeps its value.
RefusePair ==
    /\ InLoop
    /\ Applies
    /\ <<job.vec, job.col>> \in Refusing
    /\ job' = Advanced
    /\ out' = {}
    /\ UNCHANGED <<value, flags, clientHashes, master>>

SkipPair ==
    /\ InLoop
    /\ ~Applies
    /\ job' = Advanced
    /\ out' = {}
    /\ UNCHANGED <<value, flags, clientHashes, master>>

\* After the loops the vector is notified, modified or not.
FinishSet ==
    /\ LoopDone
    /\ out' = Notify(job.vec)
    /\ job' = NoJob
    /\ UNCHANGED <<value, flags, clientHashes, master>>

(***************************************************************************)
(* The MQTT commands nyx/cmd/set_master_client and nyx/cmd/trigger_ping.   *)
(***************************************************************************)
SetMasterClient(client) ==
    /\ Idle
    /\ master' = client
    /\ out' = {}
    /\ UNCHANGED <<value, flags, clientHashes, job>>

Ping ==
    /\ AppRuns
    /\ out' = {PingMsg, MasterMsg}
    /\ UNCHANGED <<value, flags, clientHashes, master, job>>

(***************************************************************************)
(* The public functions the application calls.                             *)
(***************************************************************************)

\* nyx_xxx_prop_set.  The node enforces no rule on it: the elements of a
\* vector with a rule are assumed to change by requests only.
AppSet(v, i) ==
    /\ AppRuns
    /\ Vectors[v].rule = None
    /\ \E x \in StoredOf(Vectors[v].kind) :
         value' = [value EXCEPT ![v][i] = x]
    /\ out' = {}
    /\ UNCHANGED <<flags, clientHashes, master, job>>

\* nyx_object_notify on a vector or on one of its elements.
AppNotify(v) ==
    /\ AppRuns
    /\ out' = Notify(v)
    /\ UNCHANGED <<value, flags, clientHashes, master, job>>

\* nyx_node_enable.
Enable(device, name) ==
    /\ AppRuns
    /\ flags' = [v \in VecIds |-> IF Matches(v, device, name)
                                  THEN flags[v] \ {DISABLED} ELSE flags[v]]
    /\ out' = {DefMsg(v) : v \in {w \in VecIds : Matches(w, device, name)}}
    /\ UNCHANGED <<value, clientHashes, master, job>>

\* nyx_node_disable.
Disable(device, name) ==
    /\ AppRuns
    /\ flags' = [v \in VecIds |-> IF Matches(v, device, name)
                                  THEN flags[v] \cup {DISABLED} ELSE flags[v]]
    /\ out' = {DelMsg(device, name)}
    /\ UNCHANGED <<value, clientHashes, master, job>>

SendMessage(device) ==
    /\ AppRuns
    /\ out' = {NoteMsg(device)}
    /\ UNCHANGED <<value, flags, clientHashes, master, job>>

SendDelProperty(device, name) ==
    /\ AppRuns
    /\ out' = {DelMsg(device, name)}
    /\ UNCHANGED <<value, flags, clientHashes, master, job>>

(***************************************************************************)
(* The specification.                                                      *)
(***************************************************************************)
MaybeDevice == Devices \cup {None}
MaybeName   == Names \cup {None}

Request ==
    \/ \E d \in MaybeDevice, n \in MaybeName : GetProperties(d, n)
    \/ \E c \in Senders, d \in MaybeDevice, n \in MaybeName, on \in BOOLEAN :
          \/ EnableBlob(c, d, n, on)
          \/ EnableStream(c, d, n, on)
    \/ \E c \in Senders, k \in Kinds, d \in Devices, n \in Names :
          BeginSet(c, k, d, n)
    \/ \E c \in Clients \cup {All} : SetMasterClient(c)

Handler == ApplyPair \/ RefusePair \/ SkipPair \/ FinishSet

Application ==
    \/ Ping
    \/ \E v \in VecIds : AppNotify(v) \/ \E i \in Cols(v) : AppSet(v, i)
    \/ \E d \in Devices, n \in MaybeName :
          Enable(d, n) \/ Disable(d, n) \/ SendDelProperty(d, n)
    \/ \E d \in Devices : SendMessage(d)

Next == Request \/ Handler \/ Application

Spec == Init /\ [][Next]_vars

\* The handler is plain sequential code, and callbacks return.
FairSpec == Spec /\ WF_vars(Handler)
-------------------------------------------------------------------------------
(***************************************************************************)
(* Properties.                                                             *)
(***************************************************************************)

ValueOK ==
    /\ DOMAIN value = VecIds
    /\ \A v \in VecIds : value[v] \in [Cols(v) -> StoredOf(Vectors[v].kind)]

JobOK ==
    job # NoJob =>
        /\ job \in [vec : VecIds, client : Senders,
                    children : Children(Vectors[job.vec].kind),
                    row : Nat, col : Cols(job.vec)]
        /\ job.row \in 1 .. Len(job.children) + 1

\* The type invariant: the shape of every variable, and a job that points at
\* a vector, a child and an element that exist.
TypeOK ==
    /\ ValueOK
    /\ flags \in [VecIds -> SUBSET FlagBits]
    /\ clientHashes \in [Slots -> {0} \cup {Hash[c] : c \in Senders}]
    /\ master \in Clients \cup {All}
    /\ JobOK
    /\ out \subseteq Published

NeverRefuses(v) == \A i \in Cols(v) : <<v, i>> \notin Refusing

AtMostOneOn(v) == \A i, j \in OnSet(v) : i = j

\* A OneOfMany switch vector whose callbacks accept every change has at most
\* one element On whenever no set request is being applied to it, whatever
\* the requests said (several children On, one child twice, names that do not
\* exist) and whatever the callbacks called (the double loop of
\* _set_properties, node.c).
OneOfManyKept ==
    \A v \in VecIds :
        IsOneOfMany(v) /\ NeverRefuses(v) /\ job.vec # v => AtMostOneOn(v)

\* What child c leaves in element i of vector v.
Target(v, i, c) == IF Vectors[v].props[i] = c.name THEN c.value ELSE "Off"

\* The last child of a set request on such a vector decides: once the loops
\* are done its element has the child's value and every other one is Off, all
\* of them when the name matches none.
LastChildWins ==
    LoopDone /\ IsOneOfMany(job.vec) /\ NeverRefuses(job.vec)
             /\ job.children # <<>> =>
        \A i \in Cols(job.vec) :
            value[job.vec][i] = Target(job.vec, i, job.children[Len(job.children)])

\* The invariant of the two loops, and why the two properties above hold: on
\* such a vector the elements passed in the current row have what its child
\* says, those not yet passed hold at most one On, and at the start of a row
\* all have what the previous child says.
LoopInvariant ==
    \A v \in VecIds : IsOneOfMany(v) /\ NeverRefuses(v) =>
        /\ job.vec # v => AtMostOneOn(v)
        /\ job.vec = v =>
            /\ job.col > 1 => InLoop
            /\ \A i \in Cols(v) :
                 i < job.col => value[v][i] = Target(v, i, Child)
            /\ \A i, j \in OnSet(v) :
                 i >= job.col /\ j >= job.col => i = j
            /\ job.col = 1 /\ job.row > 1 =>
                 \A i \in Cols(v) :
                   value[v][i] = Target(v, i, job.children[job.row - 1])

\* While a set request is applied, the client that sent it is allowed to
\* write: the master cannot change between _is_allowed and the last element.
OnlyMasterWrites == ~Idle => master \in {All, job.client}

\* No definition and no value of a vector is published while it is disabled,
\* not even at the end of a request that a callback disabled it in.
DisabledIsSilent ==
    [][\A m \in out' : m.tag \in {"def", "set"} => ~Disabled(m.vec)']_vars

\* A client holds a property Busy until the device reports: an accepted set
\* request on a readable vector other than a BLOB is answered by a set of that
\* vector, modified or not, unless the vector gets disabled meanwhile.
RequestIsAnswered ==
    \A v \in VecIds :
        Vectors[v].perm # "wo" /\ ~IsBlob(v) =>
            (job.vec = v ~> \/ Disabled(v)
                           \/ \E m \in out : m.tag = "set" /\ m.vec = v)

\* What the documentation says of OneOfMany, on everything a client can see:
\* no published set shows two elements On.
PublishedOneOfMany ==
    [][\A m \in out' : m.tag = "set" /\ IsOneOfMany(m.vec) =>
          \A i, j \in Cols(m.vec) :
              m.vals[i] = "On" /\ m.vals[j] = "On" => i = j]_vars

=============================================================================
