------------------------------ MODULE Handlers ------------------------------
(***************************************************************************)
(* How a request handler of a service runs.  It reads, refuses or goes on, *)
(* and sends statements to the database in stages: the statements of a     *)
(* stage (await Promise.all) execute in any order beside those of other    *)
(* calls, and the next stage is sent when all of them have succeeded.  A   *)
(* statement, or a $transaction, is all or nothing; one that fails makes   *)
(* the handler reject, and calls back neither the statements beside it nor *)
(* those that are done.                                                    *)
(***************************************************************************)
EXTENDS Staging

CONSTANTS
  NCalls,  \* how many calls are received (a bound for TLC)
  None     \* no such id, or a field that a request leaves out

ASSUME CallsAssumption == NCalls \in Nat

(* Calls are numbered by arrival; the number is the id of what they insert. *)
Calls == 1..NCalls

VARIABLES
  call,      \* where each call is, what it asks for, and what it has to send
  disturbed  \* history: the documents whose calls overlapped, failed, met
             \* rows other than theirs, or came in an order that the service
             \* does not look at

Blank == [at |-> "idle", request |-> None, stages |-> <<>>, ok |-> TRUE]

HandlersInit ==
  /\ call = [c \in Calls |-> Blank]
  /\ disturbed = {}

Running(c) == call[c].at = "running"
Request(c) == call[c].request

(* The statements of call c that can execute now.                          *)
Sent(c) == IF Running(c) THEN Head(call[c].stages) ELSE {}

Receive(c, request) ==
  /\ call[c].at = "idle"
  /\ \A b \in 1..(c-1) : call[b].at # "idle"
  /\ call' = [call EXCEPT ![c] =
       [at |-> "running", request |-> request, stages |-> <<{[op |-> "read"]}>>, ok |-> TRUE]]
  /\ UNCHANGED disturbed

(* A handler goes on with these stages, or ends if there are none.         *)
Proceed(c, stages, ok) ==
  call' = [call EXCEPT ![c] =
    IF stages = <<>> THEN [Blank EXCEPT !.at = IF ok THEN "done" ELSE "failed"]
    ELSE [@ EXCEPT !.stages = stages, !.ok = ok]]

(* Statement s has succeeded.                                              *)
Executed(c, s) ==
  Proceed(c, Staged(<<Sent(c) \ {s}>> \o Tail(call[c].stages)), call[c].ok)

(* Statement s has succeeded, and what was waiting for it alone is sent.   *)
Followed(c, s, more) ==
  Proceed(c, Staged(<<(Sent(c) \ {s}) \cup more>> \o Tail(call[c].stages)), call[c].ok)

(* A read, alone in its stage, has answered: the handler sends more first. *)
GoOn(c, more) == Proceed(c, Staged(more \o Tail(call[c].stages)), TRUE)

(* The handler throws after a read.                                        *)
Refuse(c) == Proceed(c, <<>>, FALSE)

DisturbIf(c, condition) ==
  disturbed' = IF condition THEN disturbed \cup {Request(c).doc} ELSE disturbed

(* Statement s fails.                                                      *)
Lose(c, s) ==
  /\ Proceed(c, Staged(<<Sent(c) \ {s}>>), FALSE)
  /\ DisturbIf(c, s.op # "read")

(* The server stops, with all the calls that run, and starts again.        *)
Restart ==
  LET cut == {c \in Calls : Running(c)}
      begun == {c \in cut : call[c].stages # <<{[op |-> "read"]}>>}
  IN  /\ cut # {}
      /\ call' = [c \in Calls |-> IF c \in cut THEN [Blank EXCEPT !.at = "aborted"] ELSE call[c]]
      /\ disturbed' = disturbed \cup {Request(c).doc : c \in begun}

(* Another call is at work on the document of call c.                      *)
Busy(c) ==
  \E b \in Calls \ {c} : /\ Running(b) /\ Request(b).doc = Request(c).doc
                         /\ call[b].stages # <<{[op |-> "read"]}>>

(* No call is at work on document d.                                       *)
AtRest(d) == \A c \in Calls : Running(c) => Request(c).doc # d

Put(table, k, row) ==
  [i \in DOMAIN table \cup {k} |-> IF i = k THEN row ELSE table[i]]

(* What a request says, or what is there if it leaves the field out.       *)
Else(sent, old) == IF sent = None THEN old ELSE sent
=============================================================================
