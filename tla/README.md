# Nyx node in TLA+

Nyx node (`src/src`, C) is the device side of the INDI and Nyx protocols. An application describes its devices
as *property vectors* of elements; the node lets clients read, change and follow them over a TCP server (INDI,
XML), an MQTT broker (JSON, and XML when enabled) and a streaming server (Nyx-Stream). This directory holds TLA+
modules of its parts, the TLC runs that check them on small instances, and theorems that TLAPS proves for every
instance. `PROJECT.json` lists the runs, the lines of code
each definition stands for, the hazards and the theorems.

## 1. The system

Everything runs in one thread, inside `nyx_node_poll`. Nothing is preempted; what makes the node hard is the
*order* of timers, connection events, requests and callbacks, and the callbacks that re-enter the node in the
middle of a request.

| Part | State | Operations | Interacts with | What makes it correct |
|---|---|---|---|---|
| Message core (`node.c`) | vectors and element values, flags word, master client | `getProperties`, `enableBLOB`, `enableStream`, `newXXXVector`, ping, set master, enable, disable, notify, message, delProperty | application (callbacks, public functions), stack (publishing) | rules of switch vectors, silence of disabled vectors, every accepted request answered, only the master writes |
| Client table (`node.c`) | `client_hashes[31]`, 31 BLOB and 31 stream bits per vector | slot search, set and clear a bit, test the masks | message core, stream publishing | equals one set of subscribers per vector; a full table changes nothing |
| Mongoose stack (`stacks/mongoose.c`) | a pointer per service, connections of the event manager, timers | retry timer, open, close, error, read, CONNACK | event manager, message core | no dangling pointer, one link per server, subscribed sessions, recovery |
| Arduino stack (`stacks/arduino.cpp`) | the two client objects, URLs still valid after start-up | start-up, retry timer (blocking connect), publish, message callback, poll | PubSubClient, message core | sessions come back; what a client shows agrees with the node after each of them |
| INDI framing (`xml_stream.c`, `_tcp_handler`) | receive buffer of a connection | search of tags, deletion | stack, message core | messages whole, in order, once |
| Objects (`object.c`, `json/*`) | tree of dicts, lists, strings; reference counts, parents, text buffers | set, push, delete, clear, ref, unref | everything | counts equal holders, trees, every buffer has one owner, setters tell what changed |
| Property vectors (`indi/*`) | attributes and elements | constructors, setters, set vectors | objects, core | what is published is what is stored, and nothing of it is left behind |
| Stream publishing (`nss.c`, `indi_stream.c`) | none of its own | `nyx_stream_pub`, `nyx_nss_pub` | client table, stack | an entry whole or not at all, lengths that add up |
| Parsers, printers, transforms (`parsers/*`, `dom.c`, `transform_*`) | token in hand, tree being built | parse, print, convert | objects, core | read exactly the language, free everything on every path, read what they print |
| Formats, encodings (`format.c`, `utils/*`, `string_builder.c`) | none | pure functions | core, parsers | inverse of each other, within the buffers allocated |
| Bindings, demo, vendored mongoose | – | – | – | outside this development (mongoose as environment) |

Hard behaviours: several children in one request to a switch vector with a rule; callbacks that refuse, notify
or disable in the middle of a request; the 32nd client; clients that share one decision (BLOB masks, the INDI
pointer); connections that fail before, during or after their set-up while the retry timer runs; TCP cutting the
stream anywhere; publications lost in a connection that is dead but not yet noticed; ownership of text buffers
and of references; a message broken at any token. `PROJECT.json` lists each with its line under `hazards`.

## 2. Modules

**`NyxNode`** – the message core. `value`, `flags`, `clientHashes`, `master` are the fields of the vectors and of
`nyx_node_t`; a flags word is the set of its bits, at the offsets of `_enable_xxx`. Each handler and each public
function is one action, with one exception: `_set_properties` calls back into the application for each element
it writes, and there the application may call `nyx_node_disable`, `nyx_object_notify` and the rest. So a set
request is a `job` that walks the pairs (child, element) of the two nested loops: `BeginSet` (checks and search
of the vector), `ApplyPair`, `RefusePair`, `SkipPair`, `FinishSet` (vector callback and notification). While it
runs only its own steps and, at the elements that have a callback (`Hooked`), the application's actions are
possible. `out` is what the last step published. Values are members of small sets: a request's number or BLOB
(`Encoded`) stands for what is stored after parsing and formatting, or decoding (`Decode`).

**`NyxSubscriptions`** and **`NyxNodeClients`** – the first says what the client table promises, without slots,
hashes or bits: a set of clients per vector, a bounded set of known clients, and a BLOB sent only while someone
wants it. The second is `NyxNode` under the assumption that the hash tells clients apart, with the refinement
mapping and the invariants of table and bits.

**`NyxLink`** and **`NyxStack`** – the first is a link to a server, seen from the node: down, connecting, up,
lost. The second is the stack: the connection structures of the event manager with their phases, the three
pointers, the topics subscribed on each connection, and an environment that lets servers come and go, refuses,
drops and accepts. `RetryTimer` is the whole handler, with the outcomes of `mg_listen`, `mg_mqtt_connect` and
`mg_connect`; the other actions are the events with the handlers' reactions.

**`NyxIndiFraming`** – one INDI connection's receive buffer. A message is two pieces, its text up to the closing
tag and that tag; a read delivers any number of whole pieces. A cut inside a piece has the effect of one at one of its
ends, since what the two searches look for in it has arrived or has not. `DetectsOpening` and `DetectsClosing` are the two
searches of `xml_stream.c`, `Read` is `MG_EV_READ` with `_tcp_handler`.

**`NyxSystem`** – the composition: `NyxNode` on the Arduino stack, a broker, and a client that keeps a mirror of
the vectors from what it hears. `RetryTimer` is `_retry_timer_handler`: it connects each service that is down and
still has a URL, and handles the open event (all definitions again) before it returns. A connection that breaks
may be `"broken"` for a while: the stack still publishes, into nothing. `Break` cuts the batches on their way
anywhere. Every node step that publishes is composed with `Publish`, which is `internal_mqtt_pub`: nothing
without a session, nothing that is larger than the buffer. `ideal` and `missed` are ghosts: the mirror of a
client that misses nothing, and the vectors whose last message was a deletion that got lost.

**`NyxObject`** – `object.c` and `json/*`. Each function of the code is an operator from heap to heap
(`Ref`, `Unref`, `DictSet`, `ListSet`, `StringSet`, ...): blocks with type, count, parent, items and text, and a
number of text buffers. Under them a program makes any legal sequence of calls: it gives back only references it
holds. `forgot` and `lost` account for what the code itself drops: references whose holder returned without
`unref`, buffers nothing points at.

**`NyxVectors`** – the same heap under `indi/*`: constructors, setters, `internal_prop_to_set_vector`, the copy of
a text a client sent, and `nyx_xmldoc_to_object`.

**`NyxText`**, **`NyxJson`**, **`NyxXml`**, **`NyxTransforms`** – the string builder with its two tables, the two
recursive-descent parsers, the printers and the conversions between objects and XML trees. A message is a
sequence of lexemes and a text is a sequence of bytes; a parser is a record of what is left, the token in hand
and the number of blocks it has allocated. One operator is one stretch of a function between two tokens; `Fail`,
`FreeLast` and `FreeToken` are the error paths. **`NyxGrammars`** is what they are compared with: the two
languages as sets of sentences with what each denotes, not how the code finds it.

**`NyxEncodings`**, **`NyxFormats`**, **`NyxStreams`** – base64 and the stored-block zlib stream with Adler-32;
number formats with the rounding, the carries of sexagesimal numbers, the length of what is printed against that of
the buffer, and the casts to 32 bits (a double beyond an `int` converts to any of `Stray`); `nyx_stream_pub` and the frame of
`nyx_nss_pub`. **`NyxCalls`** calls each of these functions once, on any input, and compares its answer with a
definition of its own: an inflater and a checksum from the RFCs, the code point some bytes encode, what `TRIM` leaves
of a text. **`NyxCodecs`** adds the calls of the parsers and of the transforms. **`NyxPieces`** holds what the loops
that fill a buffer piece by piece make. All these loops are recursive functions of what is left to do, so that the
proofs can follow them.

**`NyxNodeProofs`**, **`NyxNodeClientsProofs`**, **`NyxStackProofs`**, **`NyxIndiFramingProofs`**, **`NyxSystemProofs`**,
**`NyxObjectProofs`**, **`NyxVectorsProofs`**, **`NyxCallsProofs`** – theorems (section 5).

**`MC...`** – the instances. Operators named `Bug...`, or whose comment begins with *Mutant*, are mutants:
plausible bugs of the definition that follows them, each caught by a property of a run.

## 3. Runs

| Run | Question | Result |
|---|---|---|
| `node_set` | Requests on a OneOfMany switch and on a number whose callback may refuse, with the application acting in the callbacks | the rule holds between requests, the last child decides, only the master writes, disabled vectors are silent, every request is answered |
| `node_rule` | Does a client ever *see* two elements On, when all callbacks accept? | yes: a callback that notifies in mid-request publishes them |
| `node_clients` | Does the client table implement `NyxSubscriptions`, when full too? | yes, if the hash tells clients apart |
| `node_never` | Does *Never* stop the BLOBs of the client that said it? | no: the decision is common to all clients |
| `stack` | Failures, refusals and losses in any order of timer and events | pointers live, one link, subscribed sessions, recovery |
| `stack_answer` | Does a client that asks get the definitions? | no, with two INDI clients |
| `framing` | Every cutting of the stream into reads | whole, in order, once; a message is lost only to a later one of higher rank |
| `framing_lost` | Is every valid message accepted? | no |
| `system` | A broker that fails and comes back, dead connections not yet noticed, lost publications, requests and answers | after each reconnection the mirror agrees with the node again and nobody waits for ever, but for lost deletions; sessions come back even if the stream server never answers |
| `objects` | Any legal sequence of calls on objects; properties, vectors, set vectors, XML messages | counts equal holders, objects are trees, nothing freed is pointed at or freed twice, no setter keeps a change to itself |
| `object_promises` | Does the buffer setter own what it is given with `managed`, and answer true only for a change? | neither: an unmanaged string given its own bytes drops the buffer and answers true |
| `codecs` | Every message with one part replaced, every short sequence of tokens, texts, bytes, formats and stream entries | parsers read exactly the language and free all they made; printed texts, trees, numbers and bytes are read back, but for the cases the properties name |

The five violations are real behaviours of the code that contradict `docs/md/protocol.md` or the comments of
`nyx_node.h`; `findings` quotes them.

*Bounds.* `node_set`: two vectors (a OneOfMany switch of two elements, a number of one), requests of up to two
children over three names, one of them unknown. Two elements and two children give every kind of pair the loops
meet (own element before, after or absent; first and later rows); the theorems lift the bound. `node_clients`: three
clients for two slots reach the full table. `stack`: two structures per service, so that a second connection is
possible wherever it is not excluded; structures are never the limit of a legal step, since one is always free
for the retry timer when its pointer is NULL (a consequence of `OneLink`). With both INDI structures in use, no
further client is accepted. `framing`: four messages
(`MaxSent`) over five tags, so that one of them can be overtaken by two; when all are sent and read the run
stops, hence `CHECK_DEADLOCK FALSE`. In `stack` the node may be finalized, and then it stops too.
`system`: a number whose callback may refuse and a switch too big for the buffer (`Big`), one batch on its way
when a new one is started (`MaxWire`, 1; the answers to a request and the definitions of a new session may add
theirs): enough for a batch to be lost in part, wholly or not at all around every other step. `objects`: blocks
(`N`, 16) for a vector of one property and its set vector, two references of the program at once (`MaxHeld`), one
lost buffer (`MaxLost`); the objects' own API is called with up to two objects alive (`MaxSmall`), so that it
makes the third: a container in a container, a replacement by a shared value. `object_promises` needs 8 blocks and no
other objects. `codecs`: all sequences of up to four JSON lexemes and six XML lexemes, and messages with every
part replaced by nothing, one or two lexemes; texts of up to four characters, one of each kind the tables tell
apart; up to seven bytes, with blocks of 3 bytes (`MaxBlock`, 65535 in the code) so that full, short and several
blocks occur; 4-bit integers (`Word32`, 2^32), two of which are what
an undefined conversion may give (`Stray`), and printed numbers of up to 9 characters (`BufferSize`, 63), so that a width, a
precision, a prefix or the value itself exceeds it;
frames below 64 (`Sizes`, 2^32). A frame that wraps is left out of `FramesAddUp`: the code loses the framing then.
The program of `objects` and the calls of `codecs` end, and the network of `system` may end with nothing to do.

*Fairness.* `FairSpec` (WF of `Handler`): the handler is sequential code and callbacks return. `FairStackSpec`: the
application polls for ever, so the repeating timer comes due, a connection attempt to a server that is up
completes, a closing connection is closed, and a broker that is up sends its CONNACK. Nothing is assumed of the
servers: `MqttRecovers` and `IndiListens` speak of the behaviours in which they stay up from some time on.
`FairSystemSpec`: the application polls for ever (`nyx_node_poll` runs the timers and the MQTT loop), so the retry
timer runs, handlers go on and requests that have arrived are handled; what is on its way arrives unless the
connection breaks; and the library's keep-alive notices a dead connection. The broker, the network, the client's
requests and the application are under no fairness: `SessionRecovers` and `WaitEnds` suppose only that the broker's
name was resolved at start-up and that the broker is up from some time on.

*Limits of the properties.* `MirrorAgrees` excepts vectors whose deletion was lost, which nothing repairs, and
says that a vector too big for the buffer is never shown. In `system` one client writes and the master
stays *all*: a request refused because another client is master is not answered at all. The user's own
handler of the open event is not run, the results of `subscribe` and of `write` on the stream are ignored as in
the code. `TextsReadBack` states what is lost on the way: a JSON string loses blanks at its ends and is refused
when it ends with a quote (`TRIM` takes both off the token), an XML text loses those at its start.
`ParsersFree` excepts the buffers of empty strings (`nyx_string_set` drops them, as in `object_promises`).
`RefsCounted` and `NoOrphans` count the references that are forgotten: every string, list and child of a message
received as XML (`transform_xml_to_json.c`), and the payload of every BLOB published (`internal_copy_blob`).
`FormatsReadBack` says of a double that what is read differs by at most half of the last digit printed; what is printed
as `0` is what does not fit the buffer, and anything with `%lld`, and is read as zero: so a large double under `%f`, or one
with many decimals, is replaced by zero, whatever protocol.md says of `printf` formats. It excludes degrees that are not those of an `int`. The digits of
`%e`, `%g` and `%a` are the C library's: a double carries their number (`size`). `TransformsRoundTrip` is about ordinary
messages, those without a blank or a quote at the ends of a text and with the text listed before the children: they come
back as they were. Of the others it says only that tag and attributes do. The mapping is not the lossless one of
protocol.md:127: `transform_xml_to_json.c:37` takes quotes and blanks off both ends of a text, and `dom.c:133` deletes the
children that were listed before it. `AnswersTellChange` demands of the buffer setter only that it does not keep a change to
itself; `object_promises` shows the rest. `FramesAddUp` says
nothing of a frame whose lengths wrap, nor of the buffers a failing call leaves. `Base64Decode` is defined on whole
groups of four ASCII characters: for other lengths, and for bytes above 127, the code may read outside its input or its
table (`base64.c:141` and `:164`).

The parsers and transforms of the modules were compared with the compiled code on all the inputs of `codecs`
(19,811 JSON, 35,305 XML, 368 messages sent as XML): same answers, same blocks left allocated.

*Assumptions.* Requests are well-formed and carry known words (an unknown `On`/`Off` or `enableBLOB` word aborts
the process). The application changes the elements of a vector with a rule by requests only (`AppSet`), since the
setters enforce nothing, and builds OneOfMany vectors with one element On. `OneOfManyKept` speaks of vectors whose
callbacks accept: when the element that is On refuses Off, the other
one is set On all the same and nothing repairs it; when the other one refuses, none is left On. No run shows it. `AtMostOne` is not enforced by
the code at all, so no property speaks of it.

## 4. What a name means

`Hash` is `nyx_hash` of a name; `Indi` is `"@INDI"`, the name of a client that gives none (all TCP clients).
`NSlots` is 31 in the code. `Matches` is the filter shared by `getProperties`, `enableXxx` and
enable/disable: a vector name without a device name is ignored.

## 5. Proofs

*Message core* (`NyxNodeProofs`). For every list of vectors, every set of clients and every assignment of
callbacks, from the assumptions named in `NyxNode` (`VectorsAssumption`, ...):

- `TypeCorrect`: the type invariant, by one step per action; that the loop position stays within the lists needs
  the shape of `job` (`JobOK`), which is part of it.
- `LoopInvariantHolds`, `OneOfManyCorrect`, `LastChildCorrect`: the rule is not inductive, because in mid-request two elements
  may be On. `LoopInvariant` is the strengthening: elements already passed in the current row have what its child
  says, those not yet passed hold at most one On, and at the start of a row all have what the previous child
  says. At the end of a row the names, which are distinct, give at most one On again (`TargetAtMostOne`).
- `OnlyMasterWritesCorrect` and the action property `DisabledIsSilentCorrect`.

*Client table* (`NyxNodeClientsProofs`). For every number of slots and clients, from `HashAssumption`.
`SlotTable`, `BitsHaveOwners` and `BitsMatchKind` are inductive together with the type invariant: the first slot
that is free or the client's is the client's own if it has one, since the table has no holes (`IndexFacts`), and
the three ranges of the flags word do not meet (`BitsApart`). `SubscriptionsCorrect` is the refinement. A client's
word maps to the same word about sets (`SaysFacts`): the bit of a free slot is clear, so a new client starts with
nothing, and a free slot leaves fewer known clients than slots (`RoomFacts`, an injection of clients into slots).
A published BLOB maps to `Send`, because a set bit has an owner (`NotifyBlobs`).

*Stack* (`NyxStackProofs`). For every number of connection structures, `StackTypeOK`, `PointersLive`, `OneLink` and
`SessionSubscribed` are inductive only together (`StackInv`): a pointer that is reset on `MG_EV_CLOSE`, whichever
connection closes, is harmless because no second connection of the service exists; none exists because the timer
tests the pointer; and the subscriptions made through the pointer reach the session that opened because the
pointer is that connection. `MqttIsLinkCorrect` maps each step to a step of `NyxLink` or a stutter.

*Framing* (`NyxIndiFramingProofs`). For every table of tags, every sequence of messages and every cutting into
reads. The strengthening, `Framed(done)`, says that the messages up to number `done` are gone and the buffer and
the wire together are the following ones, piece by piece. A handled message's own closing tag is the first that
closes it (`HandleKeeps`), so `done` moves exactly to that message, and order, wholeness and `LostToPriorityCorrect`
follow: what disappears with it stood before it and has a later place in the table.

*System* (`NyxSystemProofs`). For every list of vectors, every set `Big` and every size of the network. `MirrorAgrees`
speaks of a moment, when a session is up and nothing is on its way; `MirrorInv` says what leads there. A batch on
its way is consistent and fits the buffer; what the client has is what the ideal client had before those
batches, but for the vectors whose deletion was lost; the ideal client shows nothing of a disabled vector
(`DeletionsArrive`), and what the node holds of an enabled one, unless it is `Big`, which is never shown. A batch
that is delivered moves the mirror one view further along (`CatchesUp`); a batch that is lost
matters only until the next session, whose definitions overwrite everything that is still enabled.
`SystemOneOfMany` carries the rule of the message core into the composition.

*Objects* (`NyxObjectProofs`). For every number of blocks, every set of keys and texts, and every legal
sequence of calls. `ObjectInv` is `HeapInv` and `TextsOK`. `HeapInv` is the conjunction of `Linked` (a block is in one
container, which names it back), `Acyclic` (parents end), `Counted` (the counter equals the references held, the parent
and the forgotten ones), `Alive`, `UniqueKeys` and `Bare` (a freed block holds nothing); `TextsOK(m, n)` counts each
buffer as owned by a string, lost, or one of `n` in the hands of the call. An insertion or a removal is
a reference that changes hands, then a call of `Ref` or `Unref` (`ReplaceIsUnref`), so that there is one proof about
freeing. `Unref` frees a whole subtree at once: `Doomed` is a least set, found in at most `N` rounds because a chain of
parents is no longer than the number of blocks; what hangs below a freed block has its one reference from there,
and so what remains is still counted (`DoomedHangs`, `ReleaseKeeps`). `KeysOnceHolds`, `TreesHold`, `RefsCountedHolds`,
`TextsAccountedHolds` and `NoOrphansHolds` follow (the last needs that every block has a root, `RootAbove`).
`AnswersTellChangeHolds` is about results: the setters of dicts, lists, strings, numbers and booleans answer that nothing
changed exactly when what is printed has not, and that of buffers answers true when it has.
Printing is a function defined in levels; a level beyond the depth of a tree changes nothing (`Settles`), and a
block is printed the same when no block below it changed.

*Vectors* (`NyxVectorsProofs`). The run `objects` checks `NyxVectors`' `Spec`, and the theorems are stated for it too:
`VectorsInvHolds` is `ObjectInv` again, for every number of blocks, bound on live ones and set of texts, and the other
seven follow from it by the lemmas of `NyxObjectProofs`. An operation is now a dozen calls, with references and buffers
in its own hands between them. `Well(m, h, n)` is `ObjectInv` of a heap in the middle of one: `h` counts the
program's references and the operation's own, `n` the buffers it carries. Each call takes `Well` to `Well` of what is
then held, and an operation must end with `n = 0` and with the references the program gets, nothing more: so every
reference taken in between is given back, or counted as forgotten. The calls need free blocks: `Takes(m2, h2, m, h, k)` bounds
by `k` what `m2` uses more than `m`, and `Builds`' bound is the sum. A block an operation drops may be freed with all
that hangs below it, and a refused `Push` leaves the object with one holder only; `Fades` says what such a call leaves
alone, and the lemmas about `PushProps`, `OneOfEach` and `AddElements` hold whether a call is refused or not. The loops are
recursive functions of one argument: a function with the equation exists for each length (`PushedExists`,
`FilledExists`, `AttributedExists`, `AddedExists`), and the invariant of a loop holds at each step of it by least counterexample.
`LiteralAssumption` says that the names of entries and the kinds are strings, which the provers do not know of a
literal; TLC evaluates it.

*Texts, bytes, numbers, streams* (`NyxCallsProofs`). `CallsSpec` makes one call on one of any set of inputs:
texts without a zero byte, bytes, code points, printed values, stream entries; `CallsAssumption` only says what these
are. `CallsInv` says that the output is the function's answer, and the rest is about the functions:

- `EncodingsRoundTripCorrect`. Base64 is decoded group by group: three bytes are four digits of six bits (`Stand`,
  `SixBits`), the two tables are inverse of each other, and the pads say how many bytes of the last group count. The
  blocks of `nyx_zlib_deflate` are inflated by induction on what is left, for any block size up to 65535
  (`BlocksAreInflated`), and the checksum is the two sums of the RFC
  (`AdlerSums`); the sums are of integers, so the remainder that the code defers to every 5552 bytes, which keeps them
  below 2^32, is not part of it.
- `FormatsReadBackCorrect`. For every format and value. A sexagesimal whose degrees are those of an int is one text,
  with the carries of its rounding (`SexagesimalText`, `SexagesimalReadBack`); a printed double is within half of its last
  digit (`RoundingsRound`); a 32-bit number survives its cast (`CastKeeps`). Whatever the length of a text, it is either
  written or replaced by `0`, so the proof never needs to know it.
- `FramesAddUpCorrect`. The pieces of a frame stand where the receiver looks for them, and the total below the wrap is
  what the code adds up modulo 2^32 (`FrameSizeIs32Bits`, `NotReduced`).
- `TextsReadBackCorrect`. The two tables of the string builder agree for every flag and character (`EscapedSized`), so
  the buffer fits. What is written is the pieces of the characters one after the other (`WriteIs`); a reader that
  starts at the beginning of a piece reads that piece's character and starts at the next one's (`Located`, `Place`), so
  by induction on what is left it reads the text back (`XmlCopyReads`, `JsonCopyReads`), and the tokenizer ends at the
  last quote (`ClosingQuoteFound`). `TRIM` sees what is written, not the text: what it removes is the text's `Border`,
  which is written as it is, and the quotes; every other character is written with an end that stays, but a last
  quote, whose backslash is then left alone and refused (`CoreWritten`, `CoreRead`, `CoreRefused`).

The functions are LET-bound recursive functions, opaque to the provers: for each there is a lemma that the function
with that equation exists (`CopyExists`, `XmlExists`, ...), and its value is then used through one step of it.

Left to TLC: liveness and `ENABLED`, which the prover does not have (`RequestIsAnswered`, `MqttRecovers`,
`IndiListens`, `SessionRecovers`, `WaitEnds`), and the properties of the parsers and the transforms (`JsonReads`,
`XmlReads`, `ParsersFree`, `TransformsRoundTrip`): the recursive descents call each other and are recursive operators,
and a module that declares one cannot be reasoned about. The induction theorems of the library take an operator as
a parameter and cannot be instantiated; where an induction over numbers is needed, the proofs take the least
counterexample instead (`Smallest`).

## 6. Plan

Left to do, in this order:

1. The parsers as recursive functions of the tokens left, and proofs of `ParsersFree` about them.
2. The stream server's side of `nyx_nss_pub` over a connection that closes between two pieces of a frame.

Not modelled, and why: zlib itself and the C library's number formatting (external; the build without zlib is
modelled); mongoose, PubSubClient and the network (external, modelled from how the stacks use them); `nyx_hash`
(a constant function: its only property, few collisions, is statistical); the MAC address, logging and memory
wrappers (no control of their own); the bindings and the demo (callers of the API); a stream vector without
properties, which makes `nyx_stream_pub` read arrays it never filled (`indi_stream.c:242`).
