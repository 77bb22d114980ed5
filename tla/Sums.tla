-------------------------------- MODULE Sums --------------------------------
(***************************************************************************)
(* f[1] + ... + f[n].  A recursive function rather than one of the folds   *)
(* of the community modules, so that proofs can follow it step by step.    *)
(***************************************************************************)
EXTENDS Integers

SumTo(f, n) ==
    LET sum[i \in 0 .. n] == IF i = 0 THEN 0 ELSE sum[i - 1] + f[i]
    IN  sum[n]
=============================================================================
