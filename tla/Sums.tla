-------------------------------- MODULE Sums --------------------------------
(* The sum of what a function has on a finite set. *)
EXTENDS Integers, FiniteSetsExt

SumOver(S, f) == MapThenSumSet(LAMBDA x : f[x], S)
=============================================================================
