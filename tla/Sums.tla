-------------------------------- MODULE Sums --------------------------------
(* Sums of sequences of numbers, for the properties that state a total. *)
EXTENDS Integers, Sequences

\* Sums(f)[n] is f[1] + ... + f[n].
Sums(f) ==
  LET g[i \in 0..Len(f)] == IF i = 0 THEN 0 ELSE g[i - 1] + f[i]
  IN  g

SumOf(f) == Sums(f)[Len(f)]
=============================================================================
