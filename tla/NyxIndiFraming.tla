---------------------------- MODULE NyxIndiFraming ----------------------------
(***************************************************************************)
(* How a node cuts the byte stream of one INDI connection into messages    *)
(* (src/src/xml_stream.c, _tcp_handler of node.c and MG_EV_READ of         *)
(* stacks/mongoose.c).                                                     *)
(*                                                                         *)
(* Each read appends what TCP delivers to the connection's buffer and then *)
(* looks for one message: the opening tags are searched in the order of a  *)
(* table, each in the whole buffer, and the first one found decides.  If   *)
(* its closing tag follows, the message is processed and everything up to  *)
(* its end is deleted, what stood before it included.  Otherwise the       *)
(* buffer is kept for the next read.                                       *)
(*                                                                         *)
(* A message is two pieces here, up to its closing tag and that tag, so    *)
(* that a read may end within it.  A client sends well-formed messages,    *)
(* numbered in the order it sends them.                                    *)
(***************************************************************************)
EXTENDS Naturals, Sequences

CONSTANTS
    TAGS,       \* the table: a sequence of tags
    Short,      \* those closed by "/>"; the others end with their own tag
    Unlisted,   \* tags that are not in the table (enableStream)
    MaxSent     \* bound: the messages a client sends

Listed == {TAGS[i] : i \in DOMAIN TAGS}
AnyTag == Listed \cup Unlisted

ASSUME TagsAssumption ==
    /\ TAGS \in Seq(Listed)
    /\ \A i, j \in DOMAIN TAGS : TAGS[i] = TAGS[j] => i = j
    /\ Short \subseteq Listed
    /\ Unlisted \cap Listed = {}
    /\ MaxSent \in Nat

VARIABLES
    sent,      \* the tags of the messages sent, in order
    wire,      \* the pieces on their way
    recv,      \* connection->recv
    handled    \* the numbers of the messages given to _process_message

framingVars == <<sent, wire, recv, handled>>

Opening(n) == [piece |-> "opening", msg |-> n]
Closing(n) == [piece |-> "closing", msg |-> n]
Pieces == [piece : {"opening", "closing"}, msg : 1 .. MaxSent]

TagOf(p) == sent[p.msg]

(***************************************************************************)
(* The two searches, in a buffer buf.                                      *)
(***************************************************************************)

\* Where tag t opens in buf.
Openings(buf, t) ==
    {k \in DOMAIN buf : buf[k].piece = "opening" /\ TagOf(buf[k]) = t}

\* Mutant: the last of its occurrences.
BugDetectsOpening(buf, pos) ==
    \E i \in DOMAIN TAGS :
        /\ pos \in Openings(buf, TAGS[i])
        /\ \A k \in Openings(buf, TAGS[i]) : pos >= k
        /\ \A j \in 1 .. i - 1 : Openings(buf, TAGS[j]) = {}

\* nyx_xml_stream_detect_opening_tag: the first place where the first tag of
\* the table that occurs at all does.
DetectsOpening(buf, pos) ==
    \E i \in DOMAIN TAGS :
        /\ pos \in Openings(buf, TAGS[i])
        /\ \A k \in Openings(buf, TAGS[i]) : pos <= k
        /\ \A j \in 1 .. i - 1 : Openings(buf, TAGS[j]) = {}

\* The text of a closing tag also closes tag t.
Closes(p, t) ==
    /\ p.piece = "closing"
    /\ TagOf(p) = t \/ {TagOf(p), t} \subseteq Short

\* nyx_xml_stream_detect_closing_tag: the first one from pos on.
DetectsClosing(buf, pos, last) ==
    /\ last \in DOMAIN buf /\ last >= pos
    /\ Closes(buf[last], TagOf(buf[pos]))
    /\ \A k \in pos .. last - 1 : ~Closes(buf[k], TagOf(buf[pos]))

\* Mutants: the length of the message only, without what stands before it;
\* nothing; the bytes before the closing tag only.
BugConsumedLength(pos, last) == last - pos + 1
BugConsumedNothing(pos, last) == 0
BugConsumedShort(pos, last) == last - 1

\* What the handler says it consumed: xml_stream.pos + xml_stream.len.
Consumed(pos, last) == last

(***************************************************************************)
(* The specification.                                                      *)
(***************************************************************************)
FramingInit == sent = <<>> /\ wire = <<>> /\ recv = <<>> /\ handled = <<>>

Send(t) ==
    /\ Len(sent) < MaxSent
    /\ sent' = Append(sent, t)
    /\ wire' = wire \o <<Opening(Len(sent) + 1), Closing(Len(sent) + 1)>>
    /\ UNCHANGED <<recv, handled>>

\* MG_EV_READ with the next n pieces.  A cut inside a piece is as one at an end
\* of it: what the searches look for in the piece is there, or is not.
Read(n) ==
    /\ wire' = SubSeq(wire, n + 1, Len(wire))
    /\ LET buf == recv \o SubSeq(wire, 1, n)
       IN  \/ \E pos, last \in DOMAIN buf :
               /\ DetectsOpening(buf, pos) /\ DetectsClosing(buf, pos, last)
               /\ handled' = Append(handled, buf[pos].msg)
               /\ recv' = SubSeq(buf, Consumed(pos, last) + 1, Len(buf))
           \/ /\ \A pos, last \in DOMAIN buf :
                    ~(DetectsOpening(buf, pos) /\ DetectsClosing(buf, pos, last))
              /\ recv' = buf
              /\ UNCHANGED handled
    /\ UNCHANGED sent

FramingNext ==
    \/ \E t \in AnyTag : Send(t)
    \/ \E n \in 1 .. Len(wire) : Read(n)

FramingSpec == FramingInit /\ [][FramingNext]_framingVars
-------------------------------------------------------------------------------
(***************************************************************************)
(* Properties.                                                             *)
(***************************************************************************)
Messages == DOMAIN sent

Handled == {handled[k] : k \in DOMAIN handled}

InSeq(n, pieces) == \E k \in DOMAIN pieces : pieces[k].msg = n

\* Neither handled nor still to come.
Lost(n) == n \in Messages \ Handled /\ ~InSeq(n, wire) /\ ~InSeq(n, recv)

Rank(t) == CHOOSE i \in DOMAIN TAGS : TAGS[i] = t

\* The type invariant; there are no more messages handled than sent.
FramingTypeOK ==
    /\ sent \in Seq(AnyTag) /\ Len(sent) <= MaxSent
    /\ wire \in Seq(Pieces) /\ recv \in Seq(Pieces)
    /\ handled \in Seq(1 .. MaxSent) /\ Len(handled) <= Len(sent)

\* However the stream is cut into reads, messages are handled in the order
\* they were sent and none is handled twice, although the table's order and
\* not the stream's decides which one is taken.
HandledInOrder ==
    \A j, k \in DOMAIN handled : j < k => handled[j] < handled[k]

\* What is deleted ends where a message ends, and a message's own closing tag
\* is the one found ("/>" closes three of them): the buffer and the wire, put
\* together, are whole messages in a row.
WholeMessages ==
    LET rest == recv \o wire
    IN  /\ \A k \in DOMAIN rest :
              rest[k].piece = (IF k % 2 = 1 THEN "opening" ELSE "closing")
        /\ \A k \in 1 .. Len(rest) - 1 :
              rest[k + 1].msg = (IF k % 2 = 1 THEN rest[k].msg
                                              ELSE rest[k].msg + 1)

\* A message is lost only to a later one whose tag stands before its own in
\* the table (or if it is not listed): so no getProperties is ever lost, and
\* no two messages of one kind compete.
LostToPriority ==
    \A n \in Messages : Lost(n) =>
        \E m \in Handled : /\ m > n
                           /\ \/ sent[n] \in Unlisted
                              \/ Rank(sent[m]) < Rank(sent[n])

\* What protocol.md says: any valid message is accepted at any time.  (Of the
\* short messages the node acts on getProperties only, which is never lost.)
NoneLost == \A n \in Messages : sent[n] \in Listed \ Short => ~Lost(n)
===============================================================================
