---------------------------- MODULE HandlerSteps ----------------------------
(***************************************************************************)
(* How the theorems about services speak of the steps of a handler.        *)
(***************************************************************************)
EXTENDS Handlers

(* Every call is a record with the fields of Blank.                        *)
Record(x) == x = [at |-> x.at, request |-> x.request, stages |-> x.stages, ok |-> x.ok]
Shaped == call = [c \in Calls |-> call[c]] /\ \A c \in Calls : Record(call[c])

(* Only call c has moved; it has these stages before it; it has ended.     *)
Alone(c) == \A b \in Calls \ {c} : call'[b] = call[b]
Stands(c, stages) ==
  call'[c].at = "running" /\ call'[c].stages = stages /\ call'[c].request = call[c].request
Ends(c) == call'[c] = [Blank EXCEPT !.at = call'[c].at] /\ call'[c].at \in {"done", "failed"}

(* Call c goes on with what is not empty of these stages.                  *)
Resumes(c, stages) ==
  /\ Alone(c) /\ call'[c].stages = Staged(stages)
  /\ IF Staged(stages) = <<>> THEN Ends(c) ELSE Stands(c, Staged(stages))

(* What a call that was received has to send.                              *)
Reading == <<{[op |-> "read"]}>>
=============================================================================
