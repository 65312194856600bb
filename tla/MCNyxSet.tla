------------------------------ MODULE MCNyxSet ------------------------------
(***************************************************************************)
(* An instance of NyxNode for the set requests: a OneOfMany switch whose   *)
(* elements all have callbacks that accept, and a number whose callback    *)
(* may refuse.  One named client, which may become the master.             *)
(***************************************************************************)
EXTENDS NyxNode

MCVectors ==
    << [device |-> "Camera", name |-> "Binning", kind |-> "Switch",
        perm |-> "rw", rule |-> "OneOfMany", props |-> <<"One", "Two">>],
       [device |-> "Camera", name |-> "Gain", kind |-> "Number",
        perm |-> "rw", rule |-> None, props |-> <<"One">>] >>

MCDevices   == {"Camera"}
MCNames     == {"Binning", "Gain"}
MCPropNames == {"One", "Two", "Six"}
MCPayloads  == {"1.0", "2.0"}
MCEncoded   == {"1"}
MCDecode    == [e \in MCEncoded |-> "1.0"]
MCClients   == {"c1"}
MCHash      == [c \in MCClients \cup {"@INDI"} |->
                  IF c = "c1" THEN 11 ELSE 12]
MCHooked    == {<<1, 1>>, <<1, 2>>, <<2, 0>>, <<2, 1>>}
MCRefusing  == {<<2, 1>>}
=============================================================================
