------------------------------- MODULE Staging -------------------------------
(***************************************************************************)
(* Stages of statements: those of a stage are sent beside each other, and  *)
(* the next stage when they have all succeeded (await Promise.all).        *)
(***************************************************************************)
EXTENDS Integers, Sequences

(* A handler sends the first stage that is not empty, or ends.             *)
Staged(stages) ==
  LET ahead == {k \in DOMAIN stages : stages[k] # {}}
  IN  IF ahead = {} THEN <<>>
      ELSE SubSeq(stages, CHOOSE k \in ahead : \A j \in ahead : k <= j, Len(stages))
=============================================================================
