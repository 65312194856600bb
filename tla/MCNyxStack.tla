------------------------------ MODULE MCNyxStack ------------------------------
(***************************************************************************)
(* An instance of NyxStack: two structures per service, so that a second   *)
(* connection could exist, and two INDI clients.                           *)
(***************************************************************************)
EXTENDS NyxStack
===============================================================================
