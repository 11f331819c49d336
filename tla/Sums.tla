-------------------------------- MODULE Sums --------------------------------
(***************************************************************************)
(* The sum of a sequence of numbers, as a recursive function: what is      *)
(* proved about a measurement or a spectrum rests on it.                   *)
(***************************************************************************)
EXTENDS Integers, Sequences

Total(s) ==
  LET sum[i \in 0..Len(s)] == IF i = 0 THEN 0 ELSE sum[i - 1] + s[i]
  IN sum[Len(s)]
=============================================================================
