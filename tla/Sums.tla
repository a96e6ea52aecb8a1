-------------------------------- MODULE Sums --------------------------------
(* The sum of the values of a function over a finite set of arguments.      *)
EXTENDS Integers, FiniteSetsExt

SumOver(f, S) == MapThenSumSet(LAMBDA x : f[x], S)

=============================================================================
