----------------------------- MODULE MCNyxFraming -----------------------------
(***************************************************************************)
(* An instance of NyxIndiFraming: of the table's nine tags, two of the     *)
(* three closed by "/>" and two others, in their order, and enableStream,  *)
(* which the table does not list.                                          *)
(***************************************************************************)
EXTENDS NyxIndiFraming

MCTags     == <<"getProperties", "message", "enableBLOB", "newSwitchVector">>
MCShort    == {"getProperties", "message"}
MCUnlisted == {"enableStream"}
===============================================================================
