------------------------------- MODULE NyxPieces -------------------------------
(***************************************************************************)
(* What the loops that fill a buffer piece by piece make: the pieces one   *)
(* after the other, and the sum of their sizes.  They are functions of the *)
(* number of pieces, so that proofs can follow the loop.                   *)
(***************************************************************************)
EXTENDS Integers, Sequences

\* f[1] \o f[2] \o ... \o f[n].
Concat(f, n) ==
    LET join[k \in 0 .. n] == IF k = 0 THEN <<>> ELSE join[k - 1] \o f[k]
    IN join[n]

\* f[1] + f[2] + ... + f[n].
Total(f, n) ==
    LET sum[k \in 0 .. n] == IF k = 0 THEN 0 ELSE sum[k - 1] + f[k]
    IN sum[n]
================================================================================
