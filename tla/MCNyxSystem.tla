------------------------------ MODULE MCNyxSystem ------------------------------
(***************************************************************************)
(* An instance of NyxSystem: a number whose callback may refuse, and a     *)
(* switch whose messages are too big for the buffer.                       *)
(***************************************************************************)
EXTENDS NyxSystem

MCVectors ==
    << [device |-> "Camera", name |-> "Gain", kind |-> "Number",
        perm |-> "rw", rule |-> None, props |-> <<"One">>],
       [device |-> "Camera", name |-> "Mode", kind |-> "Switch",
        perm |-> "rw", rule |-> "AtMostOne", props |-> <<"One">>] >>

MCDevices   == {"Camera"}
MCNames     == {"Gain", "Mode"}
MCPropNames == {"One"}
MCPayloads  == {"1.0", "2.0"}
MCEncoded   == {"1"}
MCDecode    == [e \in MCEncoded |-> "1.0"]
MCClients   == {"c1"}
MCHash      == [c \in MCClients \cup {"@INDI"} |-> IF c = "c1" THEN 11 ELSE 12]
MCHooked    == {<<1, 1>>}
MCBig       == {2}
================================================================================
