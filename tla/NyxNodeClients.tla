---------------------------- MODULE NyxNodeClients ----------------------------
(***************************************************************************)
(* The client table of a node (client_hashes and the BLOB and STREAM bits  *)
(* of the flags words) implements NyxSubscriptions, when nyx_hash tells    *)
(* the clients apart and gives none of them 0.  The code relies on that    *)
(* without checking it: two names with one hash share a slot, and a name   *)
(* whose hash is 0 is given the first free slot without occupying it.      *)
(***************************************************************************)
EXTENDS NyxNode

ASSUME HashAssumption ==
    \A c, d \in Senders : Hash[c] # 0 /\ (Hash[c] = Hash[d] => c = d)

SlotOf(c) == {i \in Slots : clientHashes[i] = Hash[c]}

\* The clients whose bit is set in v's flags, from the bit BASE on.
Wanting(v, base) == {c \in Senders : \E i \in SlotOf(c) : base + i \in flags[v]}

KnownClients == {c \in Senders : SlotOf(c) # {}}

BlobVecs == {v \in VecIds : Vectors[v].kind = "BLOB"}
StreamVecs == {v \in VecIds : Vectors[v].kind = "Stream"}

BlobsSent(msgs) == {v \in BlobVecs : \E m \in msgs : m.tag = "set" /\ m.vec = v}

Sub == INSTANCE NyxSubscriptions WITH
    Client    <- Senders,
    Capacity  <- NSlots,
    BlobVec   <- BlobVecs,
    StreamVec <- StreamVecs,
    known     <- KnownClients,
    blobs     <- [v \in BlobVecs |-> Wanting(v, BlobBase)],
    streams   <- [v \in StreamVecs |-> Wanting(v, StreamBase)],
    sent      <- BlobsSent(out)

\* Slots, hashes and bits behave as one set of clients per vector: what a
\* client says never changes what another one said, BLOB and stream bits never
\* meet, a client keeps its slot, and a BLOB is published only while some
\* client wants it (_get_client_index, _enable_xxx and internal_notify).
Subscriptions == Sub!SubSpec

\* The table fills from the front and holds no hash twice, so the first slot
\* that is free or the client's is the client's own as soon as it has one.
SlotTable ==
    /\ \A i, j \in Slots :
         clientHashes[i] = clientHashes[j] /\ clientHashes[i] # 0 => i = j
    /\ \A i, j \in Slots : i < j /\ clientHashes[j] # 0 => clientHashes[i] # 0

\* A bit above the DISABLED one is set only for a slot that is taken.
BitsHaveOwners ==
    \A v \in VecIds, i \in Slots :
        {BlobBase + i, StreamBase + i} \cap flags[v] # {} => clientHashes[i] # 0

\* A BLOB bit is only ever set on a BLOB vector, a STREAM bit on a stream
\* vector: the masks tested by internal_notify and nyx_stream_pub see nothing
\* of each other.
BitsMatchKind ==
    \A v \in VecIds :
        /\ flags[v] \cap BLOB_MASK # {} => IsBlob(v)
        /\ flags[v] \cap STREAM_MASK # {} => Vectors[v].kind = "Stream"

\* What protocol.md says of enableBLOB, per client: a client whose last word on
\* a vector was Never receives none of its BLOBs.  Every publication goes to
\* the topics all clients share.
NeverMeansNever ==
    [][\A v \in BlobsSent(out') : KnownClients' \subseteq Wanting(v, BlobBase)']_vars
===============================================================================
