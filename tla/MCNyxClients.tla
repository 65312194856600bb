----------------------------- MODULE MCNyxClients -----------------------------
(***************************************************************************)
(* An instance of NyxNodeClients: a BLOB vector and a stream vector,       *)
(* three clients (one anonymous) for two slots.                            *)
(***************************************************************************)
EXTENDS NyxNodeClients

Vec(device, name, kind) ==
    [device |-> device, name |-> name, kind |-> kind, perm |-> "ro",
     rule |-> None, props |-> <<"e">>]

MCVectors == << Vec("Camera", "Image", "BLOB"), Vec("Camera", "Live", "Stream") >>

MCDevices   == {"Camera"}
MCNames     == {"Image", "Live"}
MCPropNames == {"e"}
MCPayloads  == {"data"}
MCEncoded   == {"ZGF0YQ"}
MCDecode    == [e \in MCEncoded |-> "data"]
MCClients   == {"c1", "c2"}
MCHash      == [c \in MCClients \cup {"@INDI"} |->
                  CASE c = "c1" -> 11 [] c = "c2" -> 12 [] OTHER -> 13]
===============================================================================
