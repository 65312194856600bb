--------------------------- MODULE NyxSubscriptions ---------------------------
(***************************************************************************)
(* What the client table and the flags words of a node promise, without    *)
(* slots, hashes or bits: who has asked for the BLOBs and for the streams  *)
(* of which vector, and when a BLOB may be sent.                           *)
(***************************************************************************)
EXTENDS Integers, FiniteSets

CONSTANTS
    Client,     \* the clients, told apart
    Capacity,   \* how many of them the node can remember
    BlobVec,    \* the BLOB vectors
    StreamVec   \* the stream vectors

VARIABLES
    known,      \* the clients the node remembers, for ever
    blobs,      \* blobs[v]: those whose last word on v's BLOBs was to enable
    streams,    \* streams[v]: the same for streams
    sent        \* the BLOB vectors whose payload the last step sent

subVars == <<known, blobs, streams, sent>>

SubInit ==
    /\ known = {}
    /\ blobs = [v \in BlobVec |-> {}]
    /\ streams = [v \in StreamVec |-> {}]
    /\ sent = {}

\* A client speaks for the vectors of V; the others keep what they said.
Say(wants, c, V, on) ==
    [v \in DOMAIN wants |-> IF v \notin V THEN wants[v]
                            ELSE IF on THEN wants[v] \cup {c}
                            ELSE wants[v] \ {c}]

\* A new client is remembered as long as there is room.
Remember(c) ==
    /\ c \in known \/ Cardinality(known) < Capacity
    /\ known' = known \cup {c}

SayBlobs ==
    /\ \E c \in Client, V \in SUBSET BlobVec, on \in BOOLEAN :
          Remember(c) /\ blobs' = Say(blobs, c, V, on)
    /\ sent' = {}
    /\ UNCHANGED streams

SayStreams ==
    /\ \E c \in Client, V \in SUBSET StreamVec, on \in BOOLEAN :
          Remember(c) /\ streams' = Say(streams, c, V, on)
    /\ sent' = {}
    /\ UNCHANGED blobs

\* A BLOB is sent only when a client wants it.
Send ==
    /\ \E v \in BlobVec : blobs[v] # {} /\ sent' = {v}
    /\ UNCHANGED <<known, blobs, streams>>

Quiet ==
    /\ sent' = {}
    /\ UNCHANGED <<known, blobs, streams>>

SubNext == SayBlobs \/ SayStreams \/ Send \/ Quiet

SubSpec == SubInit /\ [][SubNext]_subVars
===============================================================================
