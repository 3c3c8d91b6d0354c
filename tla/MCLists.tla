------------------------------ MODULE MCLists ------------------------------
(* A small instance of Lists for TLC: three items and room for one more, so*)
(* that a list has up to four pages of one or two of two; neighbours may   *)
(* tie.                                                                    *)
EXTENDS Lists

SomeKeys == -1..2
SomeOpenings ==
  {k \in [1..3 -> SomeKeys] : k[1] = 0 /\ \A i \in 1..2 : k[i + 1] - k[i] \in {0, 1}}
=============================================================================
