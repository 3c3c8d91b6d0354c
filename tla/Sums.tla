-------------------------------- MODULE Sums --------------------------------
(***************************************************************************)
(* Finite sums of integers, as the service code computes them with         *)
(* Array.reduce and as the database does with increments.  SumTo is a        *)
(* recursive function, so TLC evaluates it and TLAPS can reason about it.  *)
(***************************************************************************)
EXTENDS Integers

(* The sums of the first 0, 1, ..., n values of f. *)
PartialSums(f, n) ==
  LET g[i \in 0..n] == IF i = 0 THEN 0 ELSE g[i-1] + f[i]
  IN  g

(* f[1] + ... + f[n]. *)
SumTo(f, n) == PartialSums(f, n)[n]
=============================================================================
