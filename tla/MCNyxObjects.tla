----------------------------- MODULE MCNyxObjects -----------------------------
(***************************************************************************)
(* An instance of NyxVectors: room for a vector of one property and the    *)
(* set vector made of it, or for three objects used at will.               *)
(***************************************************************************)
EXTENDS NyxVectors
===============================================================================
