-------------------------------- MODULE Sums --------------------------------
(* The sum of the values that a function has on a finite set. *)
EXTENDS Integers, FiniteSetsExt

SumOver(f, S) == MapThenSumSet(LAMBDA x : f[x], S)

=============================================================================
