-------------------------- MODULE WarehousingProofs --------------------------
(***************************************************************************)
(* Theorems about receipts, transfers, payments and warehouses together.   *)
(***************************************************************************)
EXTENDS Warehousing, HandlerSteps, DataProofs
-----------------------------------------------------------------------------
(* The steps of a handler.                                                 *)

(* Proceed moves call c alone: to the stages that are left, or to its end. *)
LEMMA ProceedEffect ==
  ASSUME Shaped, NEW c \in Calls, NEW stages, NEW ok, Running(c), Proceed(c, stages, ok)
  PROVE  /\ Shaped' /\ Alone(c)
         /\ stages = <<>> => Ends(c)
         /\ stages # <<>> => Stands(c, stages)
<1> DEFINE new == IF stages = <<>> THEN [Blank EXCEPT !.at = IF ok THEN "done" ELSE "failed"]
                  ELSE [call[c] EXCEPT !.stages = stages, !.ok = ok]
<1>1. call' = [call EXCEPT ![c] = new]
  BY DEF Proceed
<1>2. call' = [b \in Calls |-> IF b = c THEN new ELSE call[b]]
  BY <1>1 DEF Shaped
<1>3. Record(new)
  BY DEF Shaped, Record, Blank
<1>4. stages # <<>> => new.at = "running" /\ new.stages = stages /\ new.request = call[c].request
  BY DEF Shaped, Record, Running
<1>5. stages = <<>> => new = [Blank EXCEPT !.at = new.at] /\ new.at \in {"done", "failed"}
  BY DEF Blank
<1> HIDE DEF new
<1>6. Shaped'
  BY <1>2, <1>3 DEF Shaped
<1>7. Alone(c)
  BY <1>2 DEF Alone
<1> QED
  BY <1>2, <1>4, <1>5, <1>6, <1>7 DEF Stands, Ends

(* A handler that refuses, and one of whose statements fails.              *)
LEMMA RefuseEffect ==
  ASSUME Shaped, NEW c \in Calls, Running(c), Refuse(c)
  PROVE  Shaped' /\ Alone(c) /\ Ends(c)
BY ProceedEffect DEF Refuse

(* A call that is received has its read to send.                           *)
LEMMA ReceiveEffect ==
  ASSUME Shaped, NEW c \in Calls, NEW r, Receive(c, r)
  PROVE  /\ Shaped' /\ Alone(c) /\ call[c].at = "idle"
         /\ call'[c].at = "running" /\ call'[c].request = r /\ call'[c].stages = Reading
BY DEF Shaped, Record, Alone, Receive, Reading

(* The server stops: the calls that run are aborted, the others stay.      *)
LEMMA RestartEffect ==
  ASSUME Shaped, Restart
  PROVE  /\ Shaped'
         /\ \A c \in Calls : IF Running(c) THEN call'[c] = [Blank EXCEPT !.at = "aborted"]
                             ELSE call'[c] = call[c]
BY DEF Shaped, Record, Restart, Blank

(* Proceed, with the stages that are left of these, is one way to do so.   *)
LEMMA ProceedLeaves ==
  ASSUME Shaped, NEW c \in Calls, NEW stages, NEW ok, Running(c), Proceed(c, Staged(stages), ok)
  PROVE  Shaped' /\ Resumes(c, stages)
<1>1. CASE Staged(stages) = <<>>
  <2>1. Shaped' /\ Alone(c) /\ Ends(c)
    BY <1>1, ProceedEffect
  <2> QED
    BY <1>1, <2>1 DEF Resumes, Ends, Blank
<1>2. CASE Staged(stages) # <<>>
  <2>1. Shaped' /\ Alone(c) /\ Stands(c, Staged(stages))
    BY <1>2, ProceedEffect
  <2> QED
    BY <1>2, <2>1 DEF Resumes, Stands
<1> QED
  BY <1>1, <1>2

(* What each way of going on leaves.                                       *)
LEMMA HandlersLeave ==
  ASSUME Shaped, NEW c \in Calls, Running(c)
  PROVE  /\ \A s : Executed(c, s) => Shaped' /\ Resumes(c, <<Sent(c) \ {s}>> \o Tail(call[c].stages))
         /\ \A more : GoOn(c, more) => Shaped' /\ Resumes(c, more \o Tail(call[c].stages))
         /\ \A s : Lose(c, s) => Shaped' /\ Resumes(c, <<Sent(c) \ {s}>>)
         /\ Refuse(c) => Shaped' /\ Resumes(c, <<>>)
<1>1. Staged(<<>>) = <<>>
  BY DEF Staged
<1> QED
  BY <1>1, ProceedLeaves DEF Executed, GoOn, Lose, Refuse
-----------------------------------------------------------------------------

(* What a request of call c says, once what it creates has the id of c.    *)
Understood(c, r) ==
  LET its(kind) == r.doc = <<kind, c>>
      old(kind) == r.doc = <<kind, r.doc[2]>> /\ r.doc[2] \in Ids
  IN  \/ r.op = "createPayment" /\ its("payment") /\ r.type \in PaymentTypes /\ r.amount \in AmountsPaid
      \/ /\ r.op = "updatePayment" /\ old("payment")
         /\ r.type \in PaymentTypes \cup {None} /\ r.amount \in AmountsPaid \cup {None}
      \/ r.op = "createReceipt" /\ its("receipt") /\ r.lines \in Deliveries /\ r.paid \in AmountsPaid
      \/ /\ r.op = "updateReceipt" /\ old("receipt")
         /\ r.lines \in Deliveries \cup {None} /\ r.paid \in AmountsPaid \cup {None}
      \/ r.op \in {"archiveReceipt", "restoreReceipt"} /\ old("receipt")
      \/ r.op = "createTransfer" /\ its("transfer") /\ r.items \in Shipments
      \/ r.op = "updateTransfer" /\ old("transfer") /\ r.items \in Shipments \cup {None}
      \/ r.op \in {"archiveTransfer", "restoreTransfer"} /\ old("transfer")
      \/ r.op = "createReason" /\ its("reason")
      \/ r.op = "removeReason" /\ old("reason")
      \/ /\ r.op \in {"archiveWarehouse", "restoreWarehouse"}
         /\ r.doc = <<"warehouse", r.doc[2]>> /\ r.doc[2] \in Ids \cup Warehouses

ReceiptOps == {"createReceipt", "updateReceipt", "archiveReceipt", "restoreReceipt"}
PaymentOps == {"createPayment", "updatePayment"}
TransferOps == {"createTransfer", "updateTransfer", "archiveTransfer", "restoreTransfer"}

(* A movement, before and after its rows are found.                        *)
IsMove(m) ==
  /\ m.how \in {"ship", "carry", "return", "resend", "level"}
  /\ m.variant \in Variants /\ m.quantity \in Int
  /\ m.from \in Warehouses /\ m.to \in Warehouses
IsFound(m) == IsMove(m) /\ m.toRow \in Nat /\ m.fromRow \in Nat /\ m.seen \in Int

(* The movements of an update say what the request says.                   *)
AsAsked(r, m) ==
  r.op = "updateTransfer" /\ m.how \in {"ship", "level"} =>
    r.items \in Shipments /\ m.variant \in DOMAIN r.items

(* What a statement of call c says.                                        *)
Proper(c, s) ==
  LET r == Request(c)
      d == r.doc[2]
      goods == s.variant \in Variants /\ s.quantity \in Int
      moving ==
        /\ r.op \in TransferOps
        /\ r.op # "createTransfer" => d \in DOMAIN transfers
        /\ r.op = "createTransfer" => r.source \in Warehouses /\ r.destination \in Warehouses
        /\ r.op = "updateTransfer" => r.source \in Warehouses \cup {None} /\ r.destination \in Warehouses \cup {None}
        /\ \A m \in s.moves : AsAsked(r, m)
        /\ \A m, n \in s.moves : m.variant = n.variant => m = n
  IN  \/ s.op = "read"
      \/ s.op = "refused" /\ r.op = "updateReceipt"
      \/ s.op = "balance" /\ r.op \in ReceiptOps \cup PaymentOps /\ s.amount \in Int
      \/ /\ s.op = "payment" /\ r.op \in PaymentOps \cup {"updateReceipt"} /\ s.id \in Ids
         /\ s.row = Payment(s.row.type, s.row.amount, s.row.supplier, s.row.accounted)
         /\ s.row.type \in PaymentTypes /\ s.row.amount \in Int
         /\ s.row.accounted \in [supplier : Suppliers \cup {None}, amount : Int]
      \/ s.op = "total" /\ r.op \in {"createReceipt", "updateReceipt"} /\ goods
      \/ s.op = "rows" /\ r.op \in {"createReceipt", "updateReceipt"} /\ goods /\ s.warehouse \in Warehouses
      \/ /\ s.op = "everywhere" /\ r.op \in {"archiveReceipt", "restoreReceipt"} /\ goods
         /\ d \in DOMAIN receipts
      \/ /\ s.op = "recordReceipt" /\ r.op = "createReceipt"
         /\ r.supplier \in Suppliers /\ r.warehouse \in Warehouses
      \/ /\ s.op = "reread" /\ r.op = "updateReceipt" /\ d \in DOMAIN receipts
         /\ s.warehouse \in Warehouses /\ r.lines \in Deliveries /\ s.kept \subseteq DOMAIN r.lines
      \/ /\ s.op = "line" /\ r.op = "updateReceipt" /\ d \in DOMAIN receipts
         /\ r.lines \in Deliveries /\ s.variant \in DOMAIN r.lines
      \/ /\ s.op = "rewriteReceipt" /\ r.op = "updateReceipt" /\ d \in DOMAIN receipts
         /\ r.supplier \in Suppliers \cup {None} /\ r.warehouse \in Warehouses \cup {None}
      \/ s.op = "markReceipt" /\ r.op \in {"archiveReceipt", "restoreReceipt"} /\ d \in DOMAIN receipts
      \/ s.op = "lookup" /\ moving /\ \A m \in s.moves : IsMove(m)
      \/ s.op = "commit" /\ moving /\ \A m \in s.moves : IsFound(m)
      \/ s.op = "deleteReason" /\ r.op = "removeReason"
      \/ s.op = "closeWarehouse" /\ r.op = "archiveWarehouse" /\ d \in Warehouses
      \/ s.op \in {"countPositive", "countNegative", "openWarehouse"} /\ r.op = "restoreWarehouse" /\ d \in Warehouses

(* The order of the statements of a call.                                  *)
PerVariant == {"total", "rows", "everywhere", "line"}
Alike(s, t) == s.op = t.op /\ (s.op \in PerVariant => s.variant = t.variant)
Solo == {"read", "recordReceipt", "reread", "rewriteReceipt", "lookup", "commit", "deleteReason",
         "closeWarehouse", "countPositive", "countNegative", "openWarehouse"}
Rank(op) ==
  CASE op \in {"read", "recordReceipt", "lookup", "commit", "countPositive", "deleteReason", "closeWarehouse"} -> 1
    [] op \in {"total", "rows", "everywhere", "markReceipt", "countNegative"} -> 2
    [] op \in {"reread", "openWarehouse"} -> 3
    [] op = "line" -> 4
    [] op \in {"rewriteReceipt", "refused"} -> 5
    [] op = "payment" -> 6
    [] op = "balance" -> 7
Follows(o, p) == p \in {"balance", "refused"} \/ Rank(o) < Rank(p)

Own(st) == {st[i] : i \in DOMAIN st}
Orderly(st) ==
  /\ st \in Seq(Own(st))
  /\ \A i \in DOMAIN st : \A s, t \in st[i] : Alike(s, t) => s = t
  /\ \A i \in DOMAIN st : \A s \in st[i] : s.op \in Solo => st[i] = {s}
  /\ \A i, j \in DOMAIN st : i < j => \A s \in st[i], t \in st[j] : Follows(s.op, t.op)

(* The statements that are ahead of a call.                                *)
All(st) == UNION {st[i] : i \in DOMAIN st}
Pending(c) == All(call[c].stages)

CallOK(c) ==
  /\ Orderly(call[c].stages)
  /\ call[c].stages # <<>> => call[c].stages[1] # {}
  /\ Running(c) => call[c].stages # <<>> /\ Understood(c, Request(c))
  /\ ~ Running(c) => call[c].stages = <<>>
  /\ \A s \in Pending(c) : Proper(c, s)
  /\ \A s \in Pending(c) : s.op = "read" => call[c].stages = <<{[op |-> "read"]}>>
CallsOK == \A c \in Calls : CallOK(c)

Tables ==
  /\ DOMAIN payments \subseteq Ids /\ payments \in [DOMAIN payments -> PaymentRow]
  /\ DOMAIN receipts \subseteq Ids /\ receipts = [d \in DOMAIN receipts |-> receipts[d]]
  /\ DOMAIN transfers \subseteq Ids /\ transfers = [d \in DOMAIN transfers |-> transfers[d]]
  /\ \A d \in DOMAIN receipts : IsReceipt(receipts[d])
  /\ \A d \in DOMAIN transfers : IsTransfer(transfers[d], reasons)
  /\ reasons \subseteq OpeningReasons \cup Calls
-----------------------------------------------------------------------------
(* The stages of a call.                                                   *)

(* Stages are sequences of their own stages.                               *)
LEMMA OwnStages ==
  ASSUME NEW T, NEW st \in Seq(T)
  PROVE  st \in Seq(Own(st))
<1> DEFINE R == Own(st)
<1>1. DOMAIN st = 1..Len(st) /\ Len(st) \in Nat /\ st = [i \in 1..Len(st) |-> st[i]]
  OBVIOUS
<1>2. \A i \in 1..Len(st) : st[i] \in R
  BY <1>1 DEF Own
<1> HIDE DEF R
<1>3. st \in [1..Len(st) -> R]
  BY <1>1, <1>2
<1> QED
  BY <1>1, <1>3 DEF R

(* Without the empty stages at their head, stages are as orderly, and have *)
(* the same statements.                                                    *)
LEMMA StagedOrderly ==
  ASSUME NEW st, Orderly(st), NEW new, new = Staged(st)
  PROVE  Orderly(new) /\ All(new) = All(st) /\ (new # <<>> => new[1] # {})
<1> DEFINE T == Own(st)
<1>0. st \in Seq(T)
  BY DEF Orderly
<1> HIDE DEF T
<1>1. DOMAIN st = 1..Len(st) /\ Len(st) \in Nat
  BY <1>0
<1>2. /\ new \in Seq(T) /\ (new # <<>> => new[1] # {})
      /\ \E o \in 0..Len(st) :
           /\ Len(new) = Len(st) - o
           /\ \A i \in 1..o : st[i] = {}
           /\ \A i \in 1..Len(new) : new[i] = st[i + o]
  <2>1. \A T2 : \A st2 \in Seq(T2) : \A new2 : new2 = Staged(st2) =>
          /\ new2 \in Seq(T2) /\ (new2 # <<>> => new2[1] # {})
          /\ \E o \in 0..Len(st2) :
               /\ Len(new2) = Len(st2) - o
               /\ \A i \in 1..o : st2[i] = {}
               /\ \A i \in 1..Len(new2) : new2[i] = st2[i + o]
    BY StagedLeaves
  <2> QED
    BY <1>0, <2>1
<1>3. PICK o \in 0..Len(st) :
        /\ Len(new) = Len(st) - o
        /\ \A i \in 1..o : st[i] = {}
        /\ \A i \in 1..Len(new) : new[i] = st[i + o]
  BY <1>2
<1>4. DOMAIN new = 1..Len(new) /\ Len(new) \in Nat /\ o \in Nat
  BY <1>2
<1>5. \A i \in DOMAIN new : i + o \in DOMAIN st /\ new[i] = st[i + o]
  BY <1>1, <1>3, <1>4
<1>6. \A i \in DOMAIN st : i > o => i - o \in DOMAIN new /\ new[i - o] = st[i]
  <2> SUFFICES ASSUME NEW i \in DOMAIN st, i > o PROVE i - o \in DOMAIN new /\ new[i - o] = st[i]
    OBVIOUS
  <2>1. i - o \in 1..Len(new) /\ (i - o) + o = i
    BY <1>1, <1>3, <1>4
  <2> QED
    BY <2>1, <1>3, <1>4
<1>7. All(new) = All(st)
  <2>1. ASSUME NEW s \in All(new) PROVE s \in All(st)
    BY <1>5 DEF All
  <2>2. ASSUME NEW s \in All(st) PROVE s \in All(new)
    <3>1. PICK i \in DOMAIN st : s \in st[i]
      BY DEF All
    <3>2. i > o
      BY <1>1, <1>3, <3>1
    <3> QED
      BY <1>6, <3>1, <3>2 DEF All
  <2> QED
    BY <2>1, <2>2
<1>8. new \in Seq(Own(new))
  BY <1>2, OwnStages
<1>9. ASSUME NEW i \in DOMAIN new, NEW j \in DOMAIN new, i < j PROVE i + o < j + o
  BY <1>4, <1>9
<1>10. \A i, j \in DOMAIN new : i < j => \A s \in new[i], t \in new[j] : Follows(s.op, t.op)
  BY <1>5, <1>9 DEF Orderly
<1>11. /\ \A i \in DOMAIN new : \A s, t \in new[i] : Alike(s, t) => s = t
       /\ \A i \in DOMAIN new : \A s \in new[i] : s.op \in Solo => new[i] = {s}
  BY <1>5 DEF Orderly
<1> QED
  BY <1>2, <1>7, <1>8, <1>10, <1>11 DEF Orderly

(* The statements after the first stage.                                   *)
After(st) == UNION {st[i] : i \in 2..Len(st)}

(* Another first stage, that the others may follow.                        *)
LEMMA ReplacedOrderly ==
  ASSUME NEW st, Orderly(st), st # <<>>, NEW A, NEW new, new = <<A>> \o Tail(st),
         \A s, t \in A : Alike(s, t) => s = t,
         \A s \in A : s.op \in Solo => A = {s},
         \A s \in A, t \in After(st) : Follows(s.op, t.op)
  PROVE  Orderly(new) /\ All(new) = A \cup After(st) /\ After(st) \subseteq All(st)
<1> DEFINE T == Own(st) \cup {A}
<1>0. st \in Seq(T) /\ A \in T
  BY DEF Orderly
<1> HIDE DEF T
<1>1. DOMAIN st = 1..Len(st) /\ Len(st) \in Nat /\ Len(st) > 0
  BY <1>0
<1>2. /\ new \in Seq(T) /\ Len(new) = Len(st) /\ new[1] = A
      /\ \A i \in 2..Len(st) : new[i] = st[i]
  BY <1>0, FirstReplaced
<1>3. DOMAIN new = DOMAIN st /\ DOMAIN new = {1} \cup 2..Len(st)
  BY <1>1, <1>2
<1>4. All(new) = A \cup After(st)
  BY <1>2, <1>3 DEF All, After
<1>5. After(st) \subseteq All(st)
  BY <1>1, <1>3 DEF All, After
<1>6. new \in Seq(Own(new))
  BY <1>2, OwnStages
<1>7. \A i \in DOMAIN new : \A s, t \in new[i] : Alike(s, t) => s = t
  BY <1>2, <1>3 DEF Orderly
<1>8. \A i \in DOMAIN new : \A s \in new[i] : s.op \in Solo => new[i] = {s}
  BY <1>2, <1>3 DEF Orderly
<1>9. ASSUME NEW i \in DOMAIN new, NEW j \in DOMAIN new, i < j, NEW s \in new[i], NEW t \in new[j]
      PROVE  Follows(s.op, t.op)
  <2>1. j \in 2..Len(st) /\ new[j] = st[j]
    BY <1>1, <1>2, <1>3, <1>9
  <2>2. CASE i = 1
    <3>1. s \in A /\ t \in After(st)
      BY <1>2, <2>1, <2>2, <1>9 DEF After
    <3> QED
      BY <3>1
  <2>3. CASE i # 1
    <3>1. i \in 2..Len(st) /\ new[i] = st[i]
      BY <1>2, <1>3, <2>3
    <3> QED
      BY <1>3, <1>9, <2>1, <3>1 DEF Orderly
  <2> QED
    BY <2>2, <2>3
<1> QED
  BY <1>4, <1>5, <1>6, <1>7, <1>8, <1>9 DEF Orderly

(* A stage alone.                                                          *)
LEMMA OneOrderly ==
  ASSUME NEW A, \A s, t \in A : Alike(s, t) => s = t, \A s \in A : s.op \in Solo => A = {s}
  PROVE  Orderly(<<A>>) /\ All(<<A>>) = A
<1>1. <<A>> \in Seq({A}) /\ DOMAIN <<A>> = {1} /\ <<A>>[1] = A
  OBVIOUS
<1>2. \A i, j \in {1} : ~ (i < j)
  OBVIOUS
<1>3. <<A>> \in Seq(Own(<<A>>))
  BY <1>1, OwnStages
<1> QED
  BY <1>1, <1>2, <1>3 DEF Orderly, All

(* A call without stages has nothing ahead, in good order.                 *)
LEMMA NoneOrderly == Orderly(<<>>) /\ All(<<>>) = {}
<1>1. <<>> \in Seq({}) /\ DOMAIN <<>> = {}
  OBVIOUS
<1>2. <<>> \in Seq(Own(<<>>))
  BY <1>1, OwnStages
<1> QED
  BY <1>1, <1>2 DEF Orderly, All

(* The first stage of a call at work, and what comes after it.             *)
LEMMA SentFirst ==
  ASSUME NEW c \in Calls, CallOK(c), Running(c), NEW st, st = call[c].stages
  PROVE  /\ Sent(c) = st[1] /\ st # <<>> /\ Orderly(st) /\ Sent(c) \subseteq Pending(c)
         /\ Pending(c) = Sent(c) \cup After(st)
         /\ \A s, t \in Sent(c) : Alike(s, t) => s = t
         /\ \A s \in Sent(c) : s.op \in Solo => Sent(c) = {s}
         /\ \A s \in Sent(c), t \in After(st) : Follows(s.op, t.op)
<1> DEFINE T == Own(st)
<1>0. st \in Seq(T) /\ st # <<>> /\ Orderly(st)
  BY DEF Orderly, CallOK
<1> HIDE DEF T
<1>1. DOMAIN st = 1..Len(st) /\ Len(st) \in Nat /\ Len(st) > 0
  BY <1>0
<1>2. DOMAIN st = {1} \cup 2..Len(st) /\ 1 \in DOMAIN st /\ \A i \in 2..Len(st) : 1 < i
  BY <1>1
<1>3. Sent(c) = st[1]
  BY <1>0 DEF Sent
<1>4. Pending(c) = Sent(c) \cup After(st)
  BY <1>2, <1>3 DEF Pending, All, After
<1>5. /\ \A s, t \in Sent(c) : Alike(s, t) => s = t
      /\ \A s \in Sent(c) : s.op \in Solo => Sent(c) = {s}
  BY <1>0, <1>2, <1>3 DEF Orderly
<1>6. \A s \in Sent(c), t \in After(st) : Follows(s.op, t.op)
  BY <1>0, <1>2, <1>3 DEF Orderly, After
<1> QED
  BY <1>0, <1>3, <1>4, <1>5, <1>6
-----------------------------------------------------------------------------
(* What a client may ask for is what the handlers understand.              *)
LEMMA RequestsUnderstood ==
  ASSUME NEW c \in Calls, NEW r \in Requests
  PROVE  Understood(c, [r EXCEPT !.doc[2] = IF @ = None THEN c ELSE @])
<1> DEFINE q == [r EXCEPT !.doc[2] = IF @ = None THEN c ELSE @]
           says(fields) == DOMAIN r = {"op", "doc"} \cup fields
           payment == says({"type", "amount", "supplier"})
           receipt == says({"supplier", "warehouse", "lines", "paid"})
           transfer == says({"reason", "source", "destination", "items"})
           same(fields) == \A f \in {"op"} \cup fields : q[f] = r[f]
           new(kind) == r.doc = New(kind)
           its(kind) == q.doc = <<kind, c>>
           named(kind, S) == r.doc \in {kind} \X S
           old(kind) == named(kind, Ids)
           its2(kind, S) == q.doc = <<kind, q.doc[2]>> /\ q.doc[2] \in S
<1> HIDE DEF q
<1>1. r = [f \in DOMAIN r |-> r[f]] /\ Asked(r)
  BY RequestsAssumption
<1>2. None \notin Ids \cup Warehouses
  BY OpeningAssumption
<1>3. \A kind, id : r.doc = <<kind, id>> /\ "doc" \in DOMAIN r =>
        /\ q.doc = <<kind, IF id = None THEN c ELSE id>>
        /\ \A f \in DOMAIN r \ {"doc"} : q[f] = r[f]
  BY <1>1, Completed DEF q
<1>4. ASSUME NEW kind, NEW fields, says(fields), "doc" \notin fields, new(kind)
      PROVE  its(kind) /\ same(fields)
  <2>1. r.doc = <<kind, None>> /\ "doc" \in DOMAIN r
    BY <1>4 DEF New
  <2> QED
    BY <1>3, <1>4, <2>1
<1>5. ASSUME NEW kind, NEW fields, NEW S, says(fields), "doc" \notin fields, None \notin S, named(kind, S)
      PROVE  its2(kind, S) /\ same(fields)
  <2>1. PICK id \in S : r.doc = <<kind, id>>
    BY <1>5
  <2>2. id # None /\ "doc" \in DOMAIN r
    BY <1>5
  <2>3. q.doc = <<kind, id>> /\ \A f \in DOMAIN r \ {"doc"} : q[f] = r[f]
    BY <1>3, <2>1, <2>2
  <2> QED
    BY <2>3, <1>5
<1>6. None \notin Ids
  BY <1>2
<1> DEFINE paymentFields == {"type", "amount", "supplier"}
           receiptFields == {"supplier", "warehouse", "lines", "paid"}
           transferFields == {"reason", "source", "destination", "items"}
<1>7. "doc" \notin paymentFields /\ "doc" \notin receiptFields /\ "doc" \notin transferFields /\ "doc" \notin {}
  OBVIOUS
<1>8. CASE payment /\ r.op = "createPayment" /\ new("payment") /\ r.type \in PaymentTypes /\ r.amount \in AmountsPaid
  <2>1. its("payment") /\ same(paymentFields)
    BY <1>4, <1>7, <1>8
  <2> QED
    BY <1>8, <2>1 DEF Understood, q
<1>9. CASE /\ payment /\ r.op = "updatePayment" /\ old("payment")
           /\ r.type \in PaymentTypes \cup {None} /\ r.amount \in AmountsPaid \cup {None}
  <2>1. its2("payment", Ids) /\ same(paymentFields)
    BY <1>5, <1>6, <1>7, <1>9
  <2> QED
    BY <1>9, <2>1 DEF Understood, q
<1>10. CASE receipt /\ r.op = "createReceipt" /\ new("receipt") /\ r.lines \in Deliveries /\ r.paid \in AmountsPaid
  <2>1. its("receipt") /\ same(receiptFields)
    BY <1>4, <1>7, <1>10
  <2> QED
    BY <1>10, <2>1 DEF Understood, q
<1>11. CASE /\ receipt /\ r.op = "updateReceipt" /\ old("receipt")
            /\ r.lines \in Deliveries \cup {None} /\ r.paid \in AmountsPaid \cup {None}
  <2>1. its2("receipt", Ids) /\ same(receiptFields)
    BY ZenonT(40), <1>5, <1>6, <1>7, <1>11
  <2> QED
    BY <1>11, <2>1 DEF Understood, q
<1>12. CASE says({}) /\ r.op \in {"archiveReceipt", "restoreReceipt"} /\ old("receipt")
  <2>1. its2("receipt", Ids) /\ same({})
    BY <1>5, <1>6, <1>7, <1>12
  <2> QED
    BY <1>12, <2>1 DEF Understood, q
<1>13. CASE transfer /\ r.op = "createTransfer" /\ new("transfer") /\ r.items \in Shipments
  <2>1. its("transfer") /\ same(transferFields)
    BY <1>4, <1>7, <1>13
  <2> QED
    BY <1>13, <2>1 DEF Understood, q
<1>14. CASE transfer /\ r.op = "updateTransfer" /\ old("transfer") /\ r.items \in Shipments \cup {None}
  <2>1. its2("transfer", Ids) /\ same(transferFields)
    BY ZenonT(40), <1>5, <1>6, <1>7, <1>14
  <2> QED
    BY <1>14, <2>1 DEF Understood, q
<1>15. CASE says({}) /\ r.op \in {"archiveTransfer", "restoreTransfer"} /\ old("transfer")
  <2>1. its2("transfer", Ids) /\ same({})
    BY <1>5, <1>6, <1>7, <1>15
  <2> QED
    BY <1>15, <2>1 DEF Understood, q
<1>16. CASE says({}) /\ r.op = "createReason" /\ new("reason")
  <2>1. its("reason") /\ same({})
    BY <1>4, <1>7, <1>16
  <2> QED
    BY <1>16, <2>1 DEF Understood, q
<1>17. CASE says({}) /\ r.op = "removeReason" /\ old("reason")
  <2>1. its2("reason", Ids) /\ same({})
    BY <1>5, <1>6, <1>7, <1>17
  <2> QED
    BY <1>17, <2>1 DEF Understood, q
<1>18. CASE says({}) /\ r.op \in {"archiveWarehouse", "restoreWarehouse"} /\ named("warehouse", Ids \cup Warehouses)
  <2>1. its2("warehouse", Ids \cup Warehouses) /\ same({})
    BY <1>2, <1>5, <1>7, <1>18
  <2> QED
    BY <1>18, <2>1 DEF Understood, q
<1> QED
  BY <1>1, <1>8, <1>9, <1>10, <1>11, <1>12, <1>13, <1>14, <1>15, <1>16, <1>17, <1>18 DEF Asked
-----------------------------------------------------------------------------
(* Steps of calls.                                                         *)

(* No document is removed.                                                 *)
Grows == DOMAIN receipts \subseteq DOMAIN receipts' /\ DOMAIN transfers \subseteq DOMAIN transfers'

(* What a statement says stays proper as long as its call has the same     *)
(* request and no document goes.                                           *)
LEMMA ProperStays ==
  ASSUME NEW b, NEW s, Proper(b, s), Request(b)' = Request(b), Grows
  PROVE  Proper(b, s)'
BY DEF Proper, Grows

(* A step of another call does not touch a call.                           *)
LEMMA OtherCallsOK ==
  ASSUME CallsOK, NEW b \in Calls, call'[b] = call[b], Grows
  PROVE  CallOK(b)'
<1>1. CallOK(b) /\ Request(b)' = Request(b) /\ Pending(b)' = Pending(b) /\ (Running(b)' <=> Running(b))
  BY DEF CallsOK, Request, Pending, Running
<1>2. \A s \in Pending(b) : Proper(b, s)'
  BY <1>1, ProperStays DEF CallOK
<1> QED
  BY <1>1, <1>2 DEF CallOK, Request

(* A call goes on with stages that are orderly and proper.                 *)
LEMMA Onward ==
  ASSUME CallsOK, NEW c \in Calls, Running(c), NEW stages, Resumes(c, stages), Orderly(stages),
         \A s \in All(stages) : Proper(c, s) /\ s.op # "read", Grows
  PROVE  CallsOK' /\ Pending(c)' = All(stages)
<1> DEFINE new == Staged(stages)
<1>1. Orderly(new) /\ All(new) = All(stages) /\ (new # <<>> => new[1] # {})
  BY StagedOrderly
<1>2. \A b \in Calls \ {c} : CallOK(b)'
  BY OtherCallsOK DEF Resumes, Alone
<1>3. call'[c].stages = new
  BY DEF Resumes
<1>4. Pending(c)' = All(stages)
  BY <1>1, <1>3 DEF Pending
<1>5. CallOK(c)'
  <2>1. CASE new = <<>>
    <3>1. ~ Running(c)' /\ All(stages) = {}
      BY <2>1, <1>1, NoneOrderly DEF Resumes, Ends, Running
    <3> QED
      BY <2>1, <1>1, <1>3, <1>4, <3>1 DEF CallOK
  <2>2. CASE new # <<>>
    <3>1. Running(c)' /\ Request(c)' = Request(c)
      BY <2>2 DEF Resumes, Stands, Running, Request
    <3>2. \A s \in All(stages) : Proper(c, s)'
      BY <3>1, ProperStays
    <3>3. Understood(c, Request(c))'
      BY <3>1 DEF CallsOK, CallOK
    <3> QED
      BY <1>1, <1>3, <1>4, <2>2, <3>1, <3>2, <3>3 DEF CallOK
  <2> QED
    BY <2>1, <2>2
<1> QED
  BY <1>2, <1>4, <1>5 DEF CallsOK

(* What may come after a statement is another one.                         *)
LEMMA RanksDiffer ==
  ASSUME NEW op, ~ (Rank(op) < Rank(op))
  PROVE  Follows(op, op) => op \in {"balance", "refused"}
BY DEF Follows

(* A statement that is proper is one of Statements, and has a rank.        *)
LEMMA RanksAreNumbers ==
  ASSUME NEW c, NEW s, Proper(c, s)
  PROVE  Rank(s.op) \in Nat /\ s.op \in Statements
BY DEF Proper, Rank, Statements

(* The facts about a statement that call c has sent.                       *)
LEMMA SentFacts ==
  ASSUME CallsOK, NEW c \in Calls, NEW s \in Sent(c)
  PROVE  /\ Running(c) /\ CallOK(c) /\ Proper(c, s) /\ Understood(c, Request(c))
         /\ s \in Pending(c) /\ s.op \in Statements
         /\ \A t \in After(call[c].stages) : t \in Pending(c) /\ Proper(c, t) /\ Follows(s.op, t.op)
<1>1. Running(c) /\ CallOK(c)
  BY DEF Sent, CallsOK
<1>2. /\ Sent(c) \subseteq Pending(c) /\ Pending(c) = Sent(c) \cup After(call[c].stages)
      /\ \A t \in After(call[c].stages) : Follows(s.op, t.op)
  BY <1>1, SentFirst
<1> QED
  BY <1>1, <1>2, RanksAreNumbers DEF CallOK

(* A statement has succeeded: the others are still ahead, and no other of  *)
(* its kind is, but for the balances.                                      *)
LEMMA ExecutedOnward ==
  ASSUME Shaped, CallsOK, NEW c \in Calls, NEW s \in Sent(c), Executed(c, s), Grows
  PROVE  /\ Shaped' /\ CallsOK' /\ Alone(c) /\ Pending(c)' \subseteq Pending(c)
         /\ \A t \in Pending(c) : t = s \/ t \in Pending(c)'
         /\ \A t \in Pending(c)' : Alike(s, t) => s.op \in {"balance", "refused"}
<1> DEFINE st == call[c].stages
           A == Sent(c) \ {s}
           stages == <<A>> \o Tail(st)
<1>1. Running(c) /\ CallOK(c) /\ s \in Pending(c)
  BY SentFacts
<1>2. /\ Sent(c) = st[1] /\ st # <<>> /\ Orderly(st) /\ Sent(c) \subseteq Pending(c)
      /\ Pending(c) = Sent(c) \cup After(st)
      /\ \A x, t \in Sent(c) : Alike(x, t) => x = t
      /\ \A x \in Sent(c) : x.op \in Solo => Sent(c) = {x}
      /\ \A x \in Sent(c), t \in After(st) : Follows(x.op, t.op)
  BY <1>1, SentFirst
<1>3. Shaped' /\ Resumes(c, stages)
  BY <1>1, HandlersLeave
<1>4. Orderly(stages) /\ All(stages) = A \cup After(st) /\ After(st) \subseteq All(st)
  <2>1. \A x, t \in A : Alike(x, t) => x = t
    BY <1>2
  <2>2. \A x \in A : x.op \in Solo => A = {x}
    BY <1>2
  <2>3. \A x \in A, t \in After(st) : Follows(x.op, t.op)
    BY <1>2
  <2> HIDE DEF A, st
  <2> QED
    BY <1>2, <2>1, <2>2, <2>3, ReplacedOrderly
<1>5. All(stages) \subseteq Pending(c)
  BY <1>2, <1>4
<1>6. \A t \in All(stages) : t.op # "read"
  <2>1. ASSUME NEW t \in All(stages), t.op = "read" PROVE FALSE
    <3>1. st = <<{[op |-> "read"]}>> /\ t \in Pending(c)
      BY <1>1, <1>5, <2>1 DEF CallOK
    <3>2. Pending(c) = {[op |-> "read"]} /\ After(st) = {} /\ Sent(c) = {[op |-> "read"]}
      <4>1. Sent(c) = {[op |-> "read"]}
        BY <1>2, <3>1
      <4>2. After(st) = {}
        BY <3>1 DEF After
      <4> QED
        BY <1>2, <4>1, <4>2
    <3>3. A = {}
      BY <3>2
    <3> QED
      BY <1>4, <3>2, <3>3
  <2> QED
    BY <2>1
<1>7. CallsOK' /\ Pending(c)' = All(stages)
  BY <1>1, <1>3, <1>4, <1>5, <1>6, Onward DEF CallOK
<1>8. ASSUME NEW t \in Pending(c)', Alike(s, t) PROVE s.op \in {"balance", "refused"}
  <2>1. t \in After(st)
    BY <1>2, <1>4, <1>7, <1>8
  <2>2. Follows(s.op, s.op)
    BY <1>2, <1>8, <2>1 DEF Alike
  <2>3. ~ (Rank(s.op) < Rank(s.op))
    BY <1>1, RanksAreNumbers DEF CallOK
  <2> QED
    BY <2>2, <2>3, RanksDiffer
<1>9. Alone(c)
  BY <1>3 DEF Resumes
<1> QED
  BY ZenonT(40), <1>2, <1>3, <1>4, <1>5, <1>7, <1>8, <1>9

(* A statement that fails: those beside it are still ahead.                *)
LEMMA LoseOnward ==
  ASSUME Shaped, CallsOK, NEW c \in Calls, NEW s \in Sent(c), Lose(c, s), Grows
  PROVE  Shaped' /\ CallsOK' /\ Alone(c) /\ Pending(c)' \subseteq Pending(c) \ {s}
<1> DEFINE st == call[c].stages
           A == Sent(c) \ {s}
<1>1. Running(c) /\ CallOK(c) /\ s \in Pending(c)
  BY SentFacts
<1>2. /\ Sent(c) \subseteq Pending(c) /\ Sent(c) = st[1]
      /\ \A x, t \in Sent(c) : Alike(x, t) => x = t
      /\ \A x \in Sent(c) : x.op \in Solo => Sent(c) = {x}
  BY <1>1, SentFirst
<1>3. Shaped' /\ Resumes(c, <<A>>)
  BY <1>1, HandlersLeave
<1>4. Orderly(<<A>>) /\ All(<<A>>) = A
  <2>1. \A x, t \in A : Alike(x, t) => x = t
    BY <1>2
  <2>2. \A x \in A : x.op \in Solo => A = {x}
    BY <1>2
  <2> HIDE DEF A
  <2> QED
    BY <2>1, <2>2, OneOrderly
<1>5. \A t \in A : t.op # "read"
  <2>1. ASSUME NEW t \in A, t.op = "read" PROVE FALSE
    <3>1. st = <<{[op |-> "read"]}>>
      BY <1>1, <1>2, <2>1 DEF CallOK
    <3> QED
      BY <1>2, <2>1, <3>1
  <2> QED
    BY <2>1
<1>6. CallsOK' /\ Pending(c)' = A
  BY <1>1, <1>2, <1>3, <1>4, <1>5, Onward DEF CallOK
<1> QED
  BY <1>2, <1>3, <1>6 DEF Resumes

(* A handler that throws has nothing more ahead.                           *)
LEMMA RefuseOnward ==
  ASSUME Shaped, CallsOK, NEW c \in Calls, Running(c), Refuse(c), Grows
  PROVE  Shaped' /\ CallsOK' /\ Alone(c) /\ Pending(c)' = {}
<1>1. Shaped' /\ Resumes(c, <<>>)
  BY HandlersLeave
<1>2. CallsOK' /\ Pending(c)' = {}
  BY <1>1, NoneOrderly, Onward
<1> QED
  BY <1>1, <1>2 DEF Resumes

(* A read: the call sends all that it is to send.                          *)
LEMMA ReadOnward ==
  ASSUME Shaped, CallsOK, NEW c \in Calls, NEW s \in Sent(c), s.op = "read", NEW more, GoOn(c, more),
         Orderly(more), \A t \in All(more) : Proper(c, t) /\ t.op # "read", Grows
  PROVE  Shaped' /\ CallsOK' /\ Resumes(c, more) /\ Pending(c)' = All(more)
<1>1. Running(c) /\ CallOK(c) /\ s \in Pending(c)
  BY SentFacts
<1>2. call[c].stages = <<{[op |-> "read"]}>>
  BY <1>1 DEF CallOK
<1>3. more \in Seq(Own(more))
  BY DEF Orderly
<1>4. more \o Tail(call[c].stages) = more
  BY <1>2, <1>3
<1>5. Shaped' /\ Resumes(c, more)
  BY <1>1, <1>4, HandlersLeave
<1> QED
  BY <1>1, <1>5, Onward

(* A stage takes the place of a read that was alone in its own.            *)
LEMMA NextOnward ==
  ASSUME Shaped, CallsOK, NEW c \in Calls, NEW s \in Sent(c), s.op \in Solo, NEW A, GoOn(c, <<A>>),
         \A t, u \in A : Alike(t, u) => t = u,
         \A t \in A : t.op \in Solo => A = {t},
         \A t \in A, u \in After(call[c].stages) : Follows(t.op, u.op),
         \A t \in A : Proper(c, t) /\ t.op # "read", Grows
  PROVE  Shaped' /\ CallsOK' /\ Resumes(c, <<A>> \o Tail(call[c].stages))
         /\ Pending(c)' = A \cup After(call[c].stages)
<1> DEFINE st == call[c].stages
           stages == <<A>> \o Tail(st)
<1>1. Running(c) /\ CallOK(c) /\ s \in Pending(c)
  BY SentFacts
<1>2. /\ st # <<>> /\ Orderly(st) /\ Pending(c) = Sent(c) \cup After(st)
  BY <1>1, SentFirst
<1>3. Shaped' /\ Resumes(c, stages)
  BY <1>1, HandlersLeave
<1>4. Orderly(stages) /\ All(stages) = A \cup After(st)
  <2> HIDE DEF st
  <2> QED
    BY <1>2, ReplacedOrderly DEF st
<1>5. \A t \in After(st) : t.op # "read"
  <2>1. ASSUME NEW t \in After(st), t.op = "read" PROVE FALSE
    <3>1. st = <<{[op |-> "read"]}>>
      BY <1>1, <1>2, <2>1 DEF CallOK
    <3>2. After(st) = {}
      BY <3>1 DEF After
    <3> QED
      BY <3>2, <2>1
  <2> QED
    BY <2>1
<1>6. \A t \in All(stages) : Proper(c, t) /\ t.op # "read"
  BY <1>1, <1>2, <1>4, <1>5 DEF CallOK
<1> HIDE DEF stages
<1>7. CallsOK' /\ Pending(c)' = All(stages)
  BY <1>1, <1>3, <1>4, <1>6, Onward
<1> QED
  BY <1>3, <1>4, <1>7 DEF stages
-----------------------------------------------------------------------------
(* Stages one after the other.                                             *)
LEMMA AppendOrderly ==
  ASSUME NEW p, NEW q, Orderly(p), Orderly(q), NEW new, new = p \o q,
         \A s \in All(p), t \in All(q) : Follows(s.op, t.op)
  PROVE  Orderly(new) /\ All(new) = All(p) \cup All(q)
<1> DEFINE T == Own(p) \cup Own(q)
           n == Len(p)
           m == Len(q)
<1>0. p \in Seq(T) /\ q \in Seq(T)
  BY DEF Orderly
<1> HIDE DEF T
<1>1. DOMAIN p = 1..n /\ DOMAIN q = 1..m /\ n \in Nat /\ m \in Nat
  BY <1>0
<1>2. /\ new \in Seq(T) /\ Len(new) = n + m /\ DOMAIN new = 1..(n + m)
      /\ \A i \in 1..(n + m) : new[i] = IF i <= n THEN p[i] ELSE q[i - n]
  BY <1>0, <1>1
<1> HIDE DEF n, m
<1>3. \A i \in DOMAIN new : i <= n => i \in DOMAIN p /\ new[i] = p[i]
  BY <1>1, <1>2
<1>4. \A i \in DOMAIN new : ~ (i <= n) => i - n \in DOMAIN q /\ new[i] = q[i - n]
  BY <1>1, <1>2
<1>5. \A i \in DOMAIN p : i \in DOMAIN new /\ new[i] = p[i]
  BY <1>1, <1>2
<1>6. \A i \in DOMAIN q : i + n \in DOMAIN new /\ new[i + n] = q[i]
  <2> SUFFICES ASSUME NEW i \in DOMAIN q PROVE i + n \in DOMAIN new /\ new[i + n] = q[i]
    OBVIOUS
  <2>1. i + n \in 1..(n + m) /\ ~ (i + n <= n) /\ (i + n) - n = i
    BY <1>1
  <2>2. new[i + n] = q[(i + n) - n]
    BY <2>1, <1>2
  <2> QED
    BY <2>1, <2>2, <1>2
<1>7. All(new) = All(p) \cup All(q)
  <2>1. ASSUME NEW s \in All(new) PROVE s \in All(p) \cup All(q)
    <3>1. PICK i \in DOMAIN new : s \in new[i]
      BY DEF All
    <3> QED
      BY <1>3, <1>4, <3>1 DEF All
  <2>2. All(p) \subseteq All(new) /\ All(q) \subseteq All(new)
    BY ZenonT(40), <1>5, <1>6 DEF All
  <2> QED
    BY <2>1, <2>2
<1>8. new \in Seq(Own(new))
  BY <1>2, OwnStages
<1>9. ASSUME NEW i \in DOMAIN new
      PROVE  /\ \A s, t \in new[i] : Alike(s, t) => s = t
             /\ \A s \in new[i] : s.op \in Solo => new[i] = {s}
  BY <1>3, <1>4 DEF Orderly
<1>10. ASSUME NEW i \in DOMAIN new, NEW j \in DOMAIN new, i < j, NEW s \in new[i], NEW t \in new[j]
       PROVE  Follows(s.op, t.op)
  <2>1. CASE i <= n /\ j <= n
    BY <2>1, <1>3, <1>10 DEF Orderly
  <2>2. CASE ~ (i <= n) /\ ~ (j <= n)
    <3>1. i - n < j - n
      BY <1>1, <1>2, <1>10
    <3> QED
      BY <2>2, <1>4, <1>10, <3>1 DEF Orderly
  <2>3. CASE i <= n /\ ~ (j <= n)
    <3>1. s \in All(p) /\ t \in All(q)
      BY <2>3, <1>3, <1>4 DEF All
    <3> QED
      BY <3>1
  <2>4. ~ (~ (i <= n) /\ j <= n)
    BY <1>1, <1>2, <1>10
  <2> QED
    BY <2>1, <2>2, <2>3, <2>4
<1> QED
  BY <1>7, <1>8, <1>9, <1>10 DEF Orderly

(* A stage that is fine by itself.                                         *)
Good(A) == /\ \A s, t \in A : Alike(s, t) => s = t
           /\ \A s \in A : s.op \in Solo => A = {s}

(* A stage of one statement, or of none.                                   *)
LEMMA SingleGood == \A s : Good({s}) /\ Good({})
BY DEF Good

(* A good stage alone.                                                     *)
LEMMA GoodOrderly == \A A : Good(A) => Orderly(<<A>>) /\ All(<<A>>) = A
BY OneOrderly DEF Good

(* Two good stages, the second of which may follow the first.              *)
LEMMA TwoOrderly ==
  ASSUME NEW A, NEW B, Good(A), Good(B), \A s \in A, t \in B : Follows(s.op, t.op)
  PROVE  Orderly(<<A, B>>) /\ All(<<A, B>>) = A \cup B
<1>1. Orderly(<<A>>) /\ All(<<A>>) = A /\ Orderly(<<B>>) /\ All(<<B>>) = B
  BY GoodOrderly
<1>2. <<A, B>> = <<A>> \o <<B>>
  BY TwoStages
<1> HIDE DEF Orderly
<1> QED
  BY ZenonT(40), <1>1, <1>2, AppendOrderly

(* Three stages are one before two.                                        *)
LEMMA ThreeStages ==
  ASSUME NEW A, NEW B, NEW C
  PROVE  <<A, B, C>> = <<A>> \o <<B, C>>
<1>1. <<A>> \in Seq({A, B, C}) /\ <<B, C>> \in Seq({A, B, C})
  OBVIOUS
<1>2. <<A>> \o <<B, C>> = [i \in 1..3 |-> IF i <= 1 THEN <<A>>[i] ELSE <<B, C>>[i - 1]]
  BY <1>1
<1>3. <<A, B, C>> = [i \in 1..3 |-> IF i <= 1 THEN <<A>>[i] ELSE <<B, C>>[i - 1]]
  OBVIOUS
<1> QED
  BY <1>2, <1>3, Zenon

(* Three good stages, each of which may follow those before it.            *)
LEMMA ThreeOrderly ==
  ASSUME NEW A, NEW B, NEW C, Good(A), Good(B), Good(C), \A s \in A, t \in B : Follows(s.op, t.op),
         \A s \in A \cup B, t \in C : Follows(s.op, t.op)
  PROVE  Orderly(<<A, B, C>>) /\ All(<<A, B, C>>) = A \cup B \cup C
<1> DEFINE p == <<A>>
           q == <<B, C>>
<1>1. Orderly(p) /\ All(p) = A /\ Orderly(q) /\ All(q) = B \cup C
  BY GoodOrderly, TwoOrderly
<1>2. <<A, B, C>> = p \o q
  BY ThreeStages
<1>3. \A s \in A, t \in B \cup C : Follows(s.op, t.op)
  OBVIOUS
<1> HIDE DEF p, q
<1>4. Orderly(p \o q) /\ All(p \o q) = A \cup (B \cup C)
  BY <1>1, <1>3, AppendOrderly
<1> QED
  BY <1>2, <1>4
-----------------------------------------------------------------------------
(* What a document is called, and who may be disturbed.                    *)
LEMMA DocsKnown ==
  ASSUME CallsOK, NEW c \in Calls, Running(c)
  PROVE  Request(c).doc \in Docs
<1>1. Understood(c, Request(c)) /\ c \in Ids
  BY DEF CallsOK, CallOK, Ids
<1> HIDE DEF Request
<1>2. \A kind \in Kinds, id \in Ids \cup Warehouses : <<kind, id>> \in Docs
  BY DEF Docs
<1>3. {"receipt", "transfer", "payment", "reason", "warehouse"} = Kinds
  BY DEF Kinds
<1> HIDE DEF Kinds, Ids, Warehouses
<1> QED
  BY <1>1, <1>2, <1>3 DEF Understood

(* What is disturbed is a document.                                        *)
LEMMA DisturbedKnown ==
  ASSUME CallsOK, disturbed \subseteq Docs, NEW c \in Calls, Running(c), NEW condition, DisturbIf(c, condition)
  PROVE  disturbed' \subseteq Docs
BY DocsKnown DEF DisturbIf

(* The invariant.                                                          *)
Typed ==
  /\ RowsTypeOK
  /\ balance \in [Suppliers -> Int]
  /\ archived \subseteq Warehouses /\ overlapped \in BOOLEAN
  /\ disturbed \subseteq Docs
Inv == Shaped /\ CallsOK /\ Tables /\ Typed

(* Nothing but calls and who is disturbed has changed.                     *)
TablesStay == UNCHANGED <<rows, total, balance, payments, receipts, transfers, reasons, archived>>

(* A step that leaves the tables alone keeps Inv if it keeps the calls.    *)
LEMMA StayTyped ==
  ASSUME Inv, TablesStay, Shaped', CallsOK', overlapped' \in BOOLEAN, disturbed' \subseteq Docs
  PROVE  Inv'
BY DEF Inv, TablesStay, Tables, Typed, RowsTypeOK

(* Where the tables stay, no document goes.                                *)
LEMMA StayGrows == TablesStay => Grows
BY DEF TablesStay, Grows

(* A read that sends its stages.                                           *)
LEMMA ReadKeeps ==
  ASSUME Inv, NEW c \in Calls, NEW s \in Sent(c), s.op = "read", NEW more, GoOn(c, more),
         Orderly(more), \A t \in All(more) : Proper(c, t) /\ t.op # "read",
         TablesStay, overlapped' = overlapped, disturbed' \subseteq Docs
  PROVE  Inv'
BY StayGrows, StayTyped, ReadOnward DEF Inv, Typed

(* A handler that throws keeps Inv.                                        *)
LEMMA RefuseKeeps ==
  ASSUME Inv, NEW c \in Calls, NEW s \in Sent(c), Refuse(c), TablesStay, overlapped' = overlapped,
         UNCHANGED disturbed
  PROVE  Inv'
<1>1. Running(c)
  BY SentFacts DEF Inv
<1> QED
  BY <1>1, StayGrows, StayTyped, RefuseOnward DEF Inv, Typed
-----------------------------------------------------------------------------
(* Payments.                                                               *)
LEMMA AmountsAreIntegers ==
  /\ AmountsPaid \subseteq Int /\ None \notin AmountsPaid /\ None \notin PaymentTypes /\ None \notin Suppliers
  /\ None \notin Deliveries /\ None \notin Shipments /\ None \notin Ids /\ None \notin Warehouses
BY ReceiptsAssumption, OpeningAssumption

(* What a balance says, and what a payment does.                           *)
LEMMA BalanceProper ==
  ASSUME NEW c, NEW supplier, NEW amount \in Int, Request(c).op \in ReceiptOps \cup PaymentOps
  PROVE  /\ Proper(c, ChangeBalance(supplier, amount))
         /\ ChangeBalance(supplier, amount).op = "balance"
         /\ ChangeBalance(supplier, amount).supplier = supplier
         /\ ChangeBalance(supplier, amount).amount = amount
<1>1. /\ ChangeBalance(supplier, amount).op = "balance"
      /\ ChangeBalance(supplier, amount).supplier = supplier
      /\ ChangeBalance(supplier, amount).amount = amount
  BY DEF ChangeBalance
<1> QED
  BY <1>1 DEF Proper

(* The statement that writes a payment.                                    *)
LEMMA PaymentProper ==
  ASSUME NEW c, NEW id \in Ids, NEW type \in PaymentTypes, NEW amount \in Int, NEW supplier,
         NEW accounted \in [supplier : Suppliers \cup {None}, amount : Int], NEW s,
         s = [op |-> "payment", id |-> id, row |-> Payment(type, amount, supplier, accounted)],
         Request(c).op \in PaymentOps \cup {"updateReceipt"}
  PROVE  Proper(c, s) /\ s.op = "payment"
<1>1. s.op = "payment" /\ s.id = id /\ s.row = Payment(type, amount, supplier, accounted)
  OBVIOUS
<1>2. s.row.type = type /\ s.row.amount = amount /\ s.row.supplier = supplier /\ s.row.accounted = accounted
  BY <1>1 DEF Payment
<1> QED
  BY <1>1, <1>2 DEF Proper

(* What create of a payment sends.                                         *)
LEMMA CreatePaymentStep ==
  ASSUME Inv, NEW c \in Calls, NEW s \in Sent(c), CreatePayment(c, s), TablesStay, overlapped' = overlapped
  PROVE  Inv'
<1> DEFINE r == Request(c)
           insert(supplier) == [op |-> "payment", id |-> c,
                                row |-> Payment(r.type, r.amount, supplier, ByItself)]
           change == ChangeBalance(r.supplier, -r.amount)
<1>1. s.op = "read" /\ r.op = "createPayment" /\ UNCHANGED disturbed
  BY DEF CreatePayment
<1>2. Understood(c, r) /\ disturbed' \subseteq Docs /\ Running(c)
  BY <1>1, SentFacts DEF Inv, Typed
<1>3. r.type \in PaymentTypes /\ r.amount \in Int
  BY <1>1, <1>2, AmountsAreIntegers DEF Understood
<1>4. c \in Ids /\ ByItself \in [supplier : Suppliers \cup {None}, amount : Int]
  BY DEF Ids, ByItself
<1>5. \A supplier : Proper(c, insert(supplier)) /\ insert(supplier).op = "payment"
  BY <1>1, <1>3, <1>4, PaymentProper DEF PaymentOps
<1>6. Proper(c, change) /\ change.op = "balance"
  BY <1>1, <1>3, BalanceProper DEF PaymentOps
<1>7. CASE Refuse(c)
  BY <1>1, <1>7, RefuseKeeps
<1> HIDE DEF insert, change, r
<1>8. CASE GoOn(c, <<{insert(None)}>>)
  <2>1. Orderly(<<{insert(None)}>>) /\ All(<<{insert(None)}>>) = {insert(None)}
    BY SingleGood, GoodOrderly
  <2> QED
    BY <1>1, <1>2, <1>5, <1>8, <2>1, ReadKeeps
<1>9. CASE GoOn(c, <<{change, insert(r.supplier)}>>)
  <2> DEFINE A == {change, insert(r.supplier)}
  <2>1. Good(A)
    BY <1>5, <1>6 DEF Good, Alike, Solo
  <2>2. \A t \in A : Proper(c, t) /\ t.op # "read"
    BY <1>5, <1>6
  <2> HIDE DEF A
  <2>3. Orderly(<<A>>) /\ All(<<A>>) = A
    BY <2>1, GoodOrderly
  <2> QED
    BY <1>1, <1>2, <1>9, <2>2, <2>3, ReadKeeps DEF A
<1> QED
  BY <1>7, <1>8, <1>9 DEF CreatePayment, insert, change, r

(* The balances that follow a payment are one to a stage.                  *)
LEMMA BalancesOrderly ==
  ASSUME NEW c, NEW old \in PaymentRow, Request(c).op = "updatePayment", Understood(c, Request(c))
  PROVE  /\ Orderly(BalancesAfter(old, Request(c)))
         /\ \A t \in All(BalancesAfter(old, Request(c))) : Proper(c, t) /\ t.op = "balance"
<1> DEFINE r == Request(c)
           amount == Else(r.amount, 0)
           giveBack == IF old.supplier = None THEN {} ELSE {ChangeBalance(old.supplier, old.amount)}
           take == IF r.supplier = None THEN {} ELSE {ChangeBalance(r.supplier, -amount)}
           correct == {ChangeBalance(r.supplier, old.amount - amount)}
<1>1. amount \in Int /\ old.amount \in Int
  <2>1. r.amount \in AmountsPaid \cup {None}
    BY DEF Understood
  <2>2. r.amount \in Int \/ r.amount = None
    BY <2>1, AmountsAreIntegers
  <2> QED
    BY <2>2 DEF Else, PaymentRow
<1>2. ASSUME NEW supplier, NEW q \in Int
      PROVE  Proper(c, ChangeBalance(supplier, q)) /\ ChangeBalance(supplier, q).op = "balance"
  BY BalanceProper DEF PaymentOps
<1>3. -amount \in Int /\ old.amount - amount \in Int
  BY <1>1
<1> HIDE DEF amount, r
<1>4. Good(giveBack) /\ Good(take) /\ Good(correct)
  BY SingleGood
<1>5. \A t \in giveBack \cup take \cup correct : Proper(c, t) /\ t.op = "balance"
  BY <1>1, <1>2, <1>3
<1> HIDE DEF giveBack, take, correct
<1>6. \A x \in giveBack, t \in take : Follows(x.op, t.op)
  BY <1>5 DEF Follows
<1>7. Orderly(<<giveBack, take>>) /\ All(<<giveBack, take>>) = giveBack \cup take
  BY <1>4, <1>6, TwoOrderly
<1>8. /\ Orderly(<<giveBack>>) /\ All(<<giveBack>>) = giveBack
      /\ Orderly(<<correct>>) /\ All(<<correct>>) = correct
      /\ Orderly(<<>>) /\ All(<<>>) = {}
  BY <1>4, GoodOrderly, NoneOrderly
<1>9. BalancesAfter(old, r) \in {<<giveBack, take>>, <<correct>>, <<giveBack>>, <<>>}
  BY DEF BalancesAfter, giveBack, take, correct, amount
<1> QED
  BY <1>5, <1>7, <1>8, <1>9 DEF r

(* What update of a payment sends.                                         *)
LEMMA UpdatePaymentStep ==
  ASSUME Inv, NEW c \in Calls, NEW s \in Sent(c), UpdatePayment(c, s), TablesStay, overlapped' = overlapped
  PROVE  Inv'
<1> DEFINE r == Request(c)
           d == r.doc[2]
           old == payments[d]
           row == Payment(Else(r.type, old.type), Else(r.amount, old.amount),
                          Else(r.supplier, old.supplier), old.accounted)
           t == [op |-> "payment", id |-> d, row |-> row]
           more == <<{t}>> \o BalancesAfter(old, r)
<1>1. s.op = "read" /\ r.op = "updatePayment"
  BY DEF UpdatePayment
<1>2. Understood(c, r) /\ Running(c)
  BY SentFacts DEF Inv
<1>3. CASE d \notin DOMAIN payments
  BY <1>1, <1>3, RefuseKeeps DEF UpdatePayment
<1>4. CASE d \in DOMAIN payments
  <2>1. GoOn(c, more) /\ disturbed' \subseteq Docs
    BY <1>2, <1>4, DisturbedKnown DEF UpdatePayment, Inv, Typed
  <2>2. old \in PaymentRow /\ d \in Ids
    BY <1>4 DEF Inv, Tables
  <2>3. /\ Else(r.type, old.type) \in PaymentTypes /\ Else(r.amount, old.amount) \in Int
        /\ old.accounted \in [supplier : Suppliers \cup {None}, amount : Int]
    BY <1>1, <1>2, <2>2, AmountsAreIntegers DEF Understood, Else, PaymentRow
  <2>4. Proper(c, t) /\ t.op = "payment"
    BY <1>1, <2>2, <2>3, PaymentProper DEF PaymentOps
  <2>5. /\ Orderly(BalancesAfter(old, r))
        /\ \A u \in All(BalancesAfter(old, r)) : Proper(c, u) /\ u.op = "balance"
    BY <1>1, <1>2, <2>2, BalancesOrderly
  <2> HIDE DEF t, r, old
  <2>6. Orderly(<<{t}>>) /\ All(<<{t}>>) = {t}
    BY SingleGood, GoodOrderly
  <2>7. Orderly(more) /\ All(more) = {t} \cup All(BalancesAfter(old, r))
    <3>1. \A x \in All(<<{t}>>), u \in All(BalancesAfter(old, r)) : Follows(x.op, u.op)
      BY <2>5, <2>6 DEF Follows
    <3> QED
      BY <2>5, <2>6, <3>1, AppendOrderly
  <2> HIDE DEF more
  <2> QED
    BY <1>1, <2>1, <2>4, <2>5, <2>7, ReadKeeps
<1> QED
  BY <1>3, <1>4

(* A statement that has succeeded keeps Inv if the tables that it changes  *)
(* are still well-formed.                                                  *)
LEMMA ExecutedKeeps ==
  ASSUME Inv, NEW c \in Calls, NEW s \in Sent(c), Executed(c, s), Grows, Tables', Typed'
  PROVE  Inv'
BY ExecutedOnward DEF Inv

(* A balance is incremented.                                               *)
LEMMA UpdateBalanceStep ==
  ASSUME Inv, NEW c \in Calls, NEW s \in Sent(c), UpdateBalance(c, s),
         UNCHANGED <<rows, total, receipts, transfers, reasons, archived, overlapped>>
  PROVE  Inv'
<1>1. Proper(c, s) /\ s.op = "balance"
  BY SentFacts DEF Inv, UpdateBalance
<1>2. s.amount \in Int
  BY <1>1 DEF Proper
<1>3. balance' \in [Suppliers -> Int]
  <2>1. balance \in [Suppliers -> Int]
    BY DEF Inv, Typed
  <2>2. balance' = [x \in Suppliers |-> IF x = s.supplier THEN balance[x] + s.amount ELSE balance[x]]
    BY <2>1 DEF UpdateBalance
  <2>3. \A x \in Suppliers : balance[x] + s.amount \in Int
    BY <1>2, <2>1
  <2> QED
    BY <2>1, <2>2, <2>3
<1>4. Tables' /\ Grows
  BY DEF Inv, Tables, UpdateBalance, Grows
<1>5. Typed'
  BY <1>3 DEF Inv, Typed, RowsTypeOK, UpdateBalance
<1> QED
  BY <1>4, <1>5, ExecutedKeeps DEF UpdateBalance

(* A payment is written.                                                   *)
LEMMA WritePaymentStep ==
  ASSUME Inv, NEW c \in Calls, NEW s \in Sent(c), WritePayment(c, s),
         UNCHANGED <<rows, total, receipts, transfers, reasons, archived, overlapped>>
  PROVE  Inv'
<1>1. Proper(c, s) /\ s.op = "payment" /\ s.row.supplier \in Suppliers \cup {None}
  BY SentFacts DEF Inv, WritePayment
<1>2. s.row \in PaymentRow /\ s.id \in Ids
  <2>1. /\ s.row = Payment(s.row.type, s.row.amount, s.row.supplier, s.row.accounted)
        /\ s.row.type \in PaymentTypes /\ s.row.amount \in Int /\ s.id \in Ids
        /\ s.row.accounted \in [supplier : Suppliers \cup {None}, amount : Int]
    BY <1>1 DEF Proper
  <2> QED
    BY <1>1, <2>1 DEF Payment, PaymentRow
<1>3. payments' = Put(payments, s.id, s.row)
  BY DEF WritePayment
<1>4. DOMAIN payments' \subseteq Ids /\ payments' \in [DOMAIN payments' -> PaymentRow]
  <2>1. DOMAIN payments \subseteq Ids /\ payments \in [DOMAIN payments -> PaymentRow]
    BY DEF Inv, Tables
  <2> HIDE DEF PaymentRow, Ids
  <2> QED
    BY <1>2, <1>3, <2>1 DEF Put
<1>5. Tables' /\ Grows
  BY <1>4 DEF Inv, Tables, WritePayment, Grows
<1>6. Typed'
  BY DEF Inv, Typed, RowsTypeOK, WritePayment
<1> QED
  BY <1>5, <1>6, ExecutedKeeps DEF WritePayment
-----------------------------------------------------------------------------
(* Receipts.                                                               *)
LEMMA AmountType ==
  ASSUME NEW lines, AreLines(lines)
  PROVE  Amount(lines) \in Int
<1> DEFINE f == [v \in Variants |-> IF v \in DOMAIN lines THEN lines[v].quantity * lines[v].price ELSE 0]
<1>1. \A v \in DOMAIN lines : lines[v].quantity \in Int /\ lines[v].price \in Int
  BY DEF AreLines
<1>2. \A v \in Variants : f[v] \in Int
  BY <1>1
<1>3. f \in [1..NVariants -> Int] /\ NVariants \in Nat
  BY <1>2, RowsAssumption DEF Variants
<1> HIDE DEF f
<1>4. SumTo(f, NVariants) \in Int
  BY <1>3, SumType
<1> QED
  BY <1>4 DEF f, Amount

(* No lines are lines.                                                     *)
LEMMA NoLinesAreLines == AreLines(NoLines) /\ DOMAIN NoLines = {}
BY DEF AreLines, NoLines

(* The statements that change quantities.                                  *)
LEMMA IncrementsFacts ==
  ASSUME NEW changes, DOMAIN changes \subseteq Variants, \A v \in DOMAIN changes : changes[v] \in Int,
         NEW w \in Warehouses
  PROVE  /\ Good(Increments(changes, w))
         /\ \A s \in Increments(changes, w) :
              /\ s.op \in {"total", "rows"} /\ s.variant \in DOMAIN changes
              /\ s.quantity = changes[s.variant] /\ (s.op = "rows" => s.warehouse = w)
         /\ \A c : Request(c).op \in {"createReceipt", "updateReceipt"} =>
              \A s \in Increments(changes, w) : Proper(c, s)
<1> DEFINE I == Increments(changes, w)
           totalOf(v) == [op |-> "total", variant |-> v, quantity |-> changes[v]]
           rowsOf(v) == [op |-> "rows", variant |-> v, warehouse |-> w, quantity |-> changes[v]]
<1>1. \A s \in I : \E v \in DOMAIN changes : s = totalOf(v) \/ s = rowsOf(v)
  BY DEF Increments
<1>2. \A v : /\ totalOf(v).op = "total" /\ totalOf(v).variant = v /\ totalOf(v).quantity = changes[v]
             /\ rowsOf(v).op = "rows" /\ rowsOf(v).variant = v /\ rowsOf(v).quantity = changes[v]
             /\ rowsOf(v).warehouse = w
  OBVIOUS
<1> HIDE DEF I, totalOf, rowsOf
<1>3. \A s \in I : /\ s.op \in {"total", "rows"} /\ s.variant \in DOMAIN changes
                   /\ s.quantity = changes[s.variant] /\ (s.op = "rows" => s.warehouse = w)
                   /\ s = IF s.op = "total" THEN totalOf(s.variant) ELSE rowsOf(s.variant)
  BY <1>1, <1>2
<1>4. Good(I)
  <2>1. ASSUME NEW s \in I, NEW t \in I, Alike(s, t) PROVE s = t
    <3>1. s.op = t.op /\ s.variant = t.variant
      BY <1>3, <2>1 DEF Alike, PerVariant
    <3> QED
      BY <1>3, <3>1
  <2>2. \A s \in I : s.op \notin Solo
    BY <1>3 DEF Solo
  <2> QED
    BY <2>1, <2>2 DEF Good
<1>5. ASSUME NEW c, Request(c).op \in {"createReceipt", "updateReceipt"}, NEW s \in I
      PROVE  Proper(c, s)
  <2>1. /\ s.op \in {"total", "rows"} /\ s.variant \in Variants /\ s.quantity \in Int
        /\ (s.op = "rows" => s.warehouse \in Warehouses)
    BY <1>3, <1>5
  <2>2. CASE s.op = "total"
    BY <2>1, <2>2, <1>5 DEF Proper
  <2>3. CASE s.op = "rows"
    BY <2>1, <2>3, <1>5 DEF Proper
  <2> QED
    BY <2>1, <2>2, <2>3
<1> QED
  BY <1>3, <1>4, <1>5 DEF I

(* Quantities that change keep their type.                                 *)
LEMMA AddedType ==
  ASSUME NEW quantities \in Seq(Int), NEW q \in Int
  PROVE  AddToEach(quantities, q) \in Seq(Int) /\ Len(AddToEach(quantities, q)) = Len(quantities)
<1> DEFINE a == [i \in 1..Len(quantities) |-> quantities[i] + q]
<1>1. Len(quantities) \in Nat /\ DOMAIN quantities = 1..Len(quantities)
      /\ \A i \in 1..Len(quantities) : quantities[i] \in Int
  OBVIOUS
<1>2. \A i \in 1..Len(quantities) : quantities[i] + q \in Int
  BY <1>1
<1>3. a \in Seq(Int) /\ Len(a) = Len(quantities)
  BY <1>1, <1>2
<1> QED
  BY <1>1, <1>3 DEF AddToEach

(* The rows of a variant in a place are a sequence of quantities.          *)
LEMMA RowsFacts ==
  ASSUME RowsTypeOK, NEW v \in Variants, NEW w \in Places
  PROVE  rows[v][w] \in Seq(Int) /\ Warehouses \subseteq Places
BY DEF RowsTypeOK, Places

(* A total is incremented.                                                 *)
LEMMA IncrementTotalStep ==
  ASSUME Inv, NEW c \in Calls, NEW s \in Sent(c), IncrementTotal(c, s),
         UNCHANGED <<transfers, reasons, archived, overlapped>>
  PROVE  Inv'
<1>1. Proper(c, s) /\ s.op = "total"
  BY SentFacts DEF Inv, IncrementTotal
<1>2. s.variant \in Variants /\ s.quantity \in Int
  BY <1>1 DEF Proper
<1>3. total' \in [Variants -> Int] /\ total \in [Variants -> Int]
  BY <1>2 DEF Inv, Typed, RowsTypeOK, IncrementTotal
<1>4. Tables' /\ Grows
  BY DEF Inv, Tables, IncrementTotal, Grows
<1>5. Typed'
  BY <1>3 DEF Inv, Typed, RowsTypeOK, IncrementTotal
<1> QED
  BY <1>4, <1>5, ExecutedKeeps DEF IncrementTotal

(* The rows of a variant in a warehouse are incremented.                   *)
LEMMA IncrementRowsStep ==
  ASSUME Inv, NEW c \in Calls, NEW s \in Sent(c), IncrementRows(c, s),
         UNCHANGED <<transfers, reasons, archived, overlapped>>
  PROVE  Inv'
<1> DEFINE v == s.variant
           w == s.warehouse
           new == AddToEach(rows[v][w], s.quantity)
<1>1. Proper(c, s) /\ s.op = "rows" /\ Running(c)
  BY SentFacts DEF Inv, IncrementRows
<1>2. v \in Variants /\ s.quantity \in Int /\ w \in Places
  BY <1>1 DEF Proper, Places
<1>3. new \in Seq(Int)
  BY <1>2, AddedType, RowsFacts DEF Inv, Typed
<1>4. rows' = [rows EXCEPT ![v][w] = new]
  BY DEF IncrementRows
<1> HIDE DEF new, v, w
<1>5. rows' \in [Variants -> [Places -> Seq(Int)]]
  BY <1>2, <1>3, <1>4 DEF Inv, Typed, RowsTypeOK
<1>6. Tables' /\ Grows
  BY DEF Inv, Tables, IncrementRows, Grows
<1>7. disturbed' \subseteq Docs
  BY <1>1, DisturbedKnown DEF IncrementRows, Inv, Typed
<1>8. Typed'
  BY <1>5, <1>7 DEF Inv, Typed, RowsTypeOK, IncrementRows
<1> QED
  BY <1>6, <1>8, ExecutedKeeps DEF IncrementRows

(* All the rows of a variant are incremented.                              *)
LEMMA IncrementEverywhereStep ==
  ASSUME Inv, NEW c \in Calls, NEW s \in Sent(c), IncrementEverywhere(c, s),
         UNCHANGED <<transfers, reasons, archived, overlapped>>
  PROVE  Inv'
<1> DEFINE v == s.variant
           new == [w \in Places |-> AddToEach(rows[v][w], s.quantity)]
<1>1. Proper(c, s) /\ s.op = "everywhere" /\ Running(c)
  BY SentFacts DEF Inv, IncrementEverywhere
<1>2. v \in Variants /\ s.quantity \in Int
  BY <1>1 DEF Proper
<1>3. new \in [Places -> Seq(Int)]
  BY <1>2, AddedType, RowsFacts DEF Inv, Typed
<1>4. rows' = [rows EXCEPT ![v] = new] /\ total' = [total EXCEPT ![v] = @ + s.quantity]
  BY DEF IncrementEverywhere
<1> HIDE DEF new, v
<1>5. rows' \in [Variants -> [Places -> Seq(Int)]] /\ total' \in [Variants -> Int]
  BY <1>2, <1>3, <1>4 DEF Inv, Typed, RowsTypeOK
<1>6. Tables' /\ Grows
  BY DEF Inv, Tables, IncrementEverywhere, Grows
<1>7. disturbed' \subseteq Docs
  BY <1>1, DisturbedKnown DEF IncrementEverywhere, Inv, Typed
<1>8. Typed'
  BY <1>5, <1>7 DEF Inv, Typed, RowsTypeOK, IncrementEverywhere
<1> QED
  BY <1>6, <1>8, ExecutedKeeps DEF IncrementEverywhere
-----------------------------------------------------------------------------
(* The receipt's own statements.                                           *)
LEMMA CreateReceiptStep ==
  ASSUME Inv, NEW c \in Calls, NEW s \in Sent(c), CreateReceipt(c, s),
         UNCHANGED <<transfers, reasons, archived, overlapped>>
  PROVE  Inv'
<1> DEFINE r == Request(c)
           record == [op |-> "recordReceipt", missing |-> MissingRows(r.lines, r.warehouse)]
           changes == [v \in DOMAIN r.lines |-> r.lines[v].quantity]
           owed == ChangeBalance(r.supplier, Amount(r.lines) - r.paid)
           goods == Increments(changes, r.warehouse)
           more == <<{record}, goods \cup {owed}>>
<1>1. s.op = "read" /\ r.op = "createReceipt" /\ UNCHANGED disturbed /\ TablesStay
  BY DEF CreateReceipt, TablesStay
<1>2. Understood(c, r) /\ disturbed' \subseteq Docs
  BY <1>1, SentFacts DEF Inv, Typed
<1>3. r.lines \in Deliveries /\ AreLines(r.lines) /\ r.paid \in Int
  <2>1. r.lines \in Deliveries /\ r.paid \in AmountsPaid
    BY <1>1, <1>2 DEF Understood
  <2> QED
    BY <2>1, ReceiptsAssumption
<1>4. CASE Refuse(c)
  BY <1>1, <1>4, RefuseKeeps
<1>5. CASE r.supplier \in Suppliers /\ r.warehouse \in Warehouses /\ GoOn(c, more)
  <2>1. DOMAIN changes \subseteq Variants /\ \A v \in DOMAIN changes : changes[v] \in Int
    BY <1>3 DEF AreLines
  <2> HIDE DEF changes
  <2>2. Good(goods) /\ \A t \in goods : t.op \in {"total", "rows"} /\ Proper(c, t)
    BY <1>1, <1>5, <2>1, IncrementsFacts
  <2>3. Amount(r.lines) - r.paid \in Int
    BY <1>3, AmountType
  <2>4. Proper(c, owed) /\ owed.op = "balance"
    BY <1>1, <2>3, BalanceProper DEF ReceiptOps
  <2>5. Proper(c, record) /\ record.op = "recordReceipt"
    BY <1>1, <1>5 DEF Proper
  <2> HIDE DEF goods, owed, record
  <2>6. Good({record})
    BY SingleGood
  <2>7. Good(goods \cup {owed})
    BY <2>2, <2>4 DEF Good, Alike, Solo
  <2>8. \A x \in {record}, t \in goods \cup {owed} : Follows(x.op, t.op)
    BY <2>2, <2>4, <2>5 DEF Follows, Rank
  <2>9. Orderly(more) /\ All(more) = {record} \cup (goods \cup {owed})
    BY <2>6, <2>7, <2>8, TwoOrderly
  <2>10. \A t \in All(more) : Proper(c, t) /\ t.op # "read"
    BY <2>2, <2>4, <2>5, <2>9
  <2> HIDE DEF more
  <2> QED
    BY <1>1, <1>2, <1>5, <2>9, <2>10, ReadKeeps
<1> QED
  BY <1>4, <1>5 DEF CreateReceipt

(* A receipt in the table.                                                 *)
LEMMA ReceiptFacts ==
  ASSUME Inv, NEW d \in DOMAIN receipts
  PROVE  /\ IsReceipt(receipts[d]) /\ AreLines(receipts[d].lines) /\ Amount(receipts[d].lines) \in Int
         /\ receipts[d].paid \in Int /\ receipts[d].outstanding \in Int
         /\ receipts[d].warehouse \in Warehouses /\ receipts[d].supplier \in Suppliers
<1>1. IsReceipt(receipts[d])
  BY DEF Inv, Tables
<1> QED
  BY <1>1, AmountType DEF IsReceipt

(* The transaction of create: the receipt, the rows that are missing and   *)
(* the payment.                                                            *)
LEMMA RecordReceiptStep ==
  ASSUME Inv, NEW c \in Calls, NEW s \in Sent(c), RecordReceipt(c, s),
         UNCHANGED <<transfers, reasons, archived, overlapped>>
  PROVE  Inv'
<1> DEFINE r == Request(c)
           receipt == [supplier |-> r.supplier, warehouse |-> r.warehouse, isArchived |-> FALSE,
                       lines |-> r.lines, paid |-> r.paid, outstanding |-> Amount(r.lines) - r.paid]
           payment == Payment("SUPPLIER_PAYMENT", r.paid, r.supplier, [supplier |-> r.supplier, amount |-> r.paid])
<1>1. Proper(c, s) /\ s.op = "recordReceipt" /\ Understood(c, r) /\ c \in Ids
  BY SentFacts DEF Inv, RecordReceipt, Ids
<1>2. r.op = "createReceipt" /\ r.supplier \in Suppliers /\ r.warehouse \in Warehouses
  BY <1>1 DEF Proper
<1>3. AreLines(r.lines) /\ r.paid \in Int /\ Amount(r.lines) - r.paid \in Int
  <2>1. r.lines \in Deliveries /\ r.paid \in AmountsPaid
    BY <1>1, <1>2 DEF Understood
  <2>2. AreLines(r.lines) /\ r.paid \in Int
    BY <2>1, ReceiptsAssumption
  <2> QED
    BY <2>2, AmountType
<1>4. IsReceipt(receipt)
  <2> HIDE DEF r
  <2> QED
    BY <1>2, <1>3 DEF IsReceipt
<1>5. "SUPPLIER_PAYMENT" \in PaymentTypes /\ payment \in PaymentRow
  BY <1>2, <1>3 DEF PaymentTypes, PaymentRow, Payment
<1>6. /\ receipts' = Put(receipts, c, receipt) /\ payments' = Put(payments, c, payment)
      /\ rows' = [v \in Variants |->
           IF v \in s.missing THEN [rows[v] EXCEPT ![r.warehouse] = Append(@, 0)] ELSE rows[v]]
  BY DEF RecordReceipt
<1> HIDE DEF receipt, payment, r
<1>7. /\ DOMAIN receipts' \subseteq Ids /\ receipts' = [d \in DOMAIN receipts' |-> receipts'[d]]
      /\ DOMAIN receipts \subseteq DOMAIN receipts'
      /\ \A d \in DOMAIN receipts' : IsReceipt(receipts'[d])
  <2>1. /\ DOMAIN receipts' = DOMAIN receipts \cup {c} /\ receipts' = [d \in DOMAIN receipts' |-> receipts'[d]]
        /\ receipts'[c] = receipt /\ \A d \in DOMAIN receipts : d # c => receipts'[d] = receipts[d]
    BY <1>6 DEF Put
  <2>2. DOMAIN receipts \subseteq Ids /\ \A d \in DOMAIN receipts : IsReceipt(receipts[d])
    BY DEF Inv, Tables
  <2>3. \A d \in DOMAIN receipts' : IsReceipt(receipts'[d])
    BY <1>4, <2>1, <2>2
  <2> QED
    BY <1>1, <2>1, <2>2, <2>3
<1>8. DOMAIN payments' \subseteq Ids /\ payments' \in [DOMAIN payments' -> PaymentRow]
  BY <1>1, <1>5, <1>6 DEF Put, Inv, Tables
<1>9. rows' \in [Variants -> [Places -> Seq(Int)]]
  <2>0. rows \in [Variants -> [Places -> Seq(Int)]] /\ r.warehouse \in Places
    BY <1>2 DEF Inv, Typed, RowsTypeOK, Places
  <2>1. \A v \in Variants : rows[v] \in [Places -> Seq(Int)] /\ Append(rows[v][r.warehouse], 0) \in Seq(Int)
    BY <2>0
  <2>2. \A v \in Variants : [rows[v] EXCEPT ![r.warehouse] = Append(@, 0)] \in [Places -> Seq(Int)]
    BY <2>1
  <2> QED
    BY <1>6, <2>1, <2>2
<1>10. Tables' /\ Grows
  BY <1>7, <1>8 DEF Inv, Tables, RecordReceipt, Grows
<1>11. Typed'
  BY <1>9 DEF Inv, Typed, RowsTypeOK, RecordReceipt
<1> QED
  BY <1>10, <1>11, ExecutedKeeps DEF RecordReceipt

(* What an update of a receipt changes in what is owed.                    *)
LEMMA DebtChangesOrderly ==
  ASSUME NEW c, NEW old, AreLines(old.lines), old.paid \in Int,
         Request(c).op = "updateReceipt", Understood(c, Request(c)), NEW more, more = DebtChanges(old, Request(c))
  PROVE  /\ Orderly(more)
         /\ \A t \in All(more) : Proper(c, t) /\ t.op \in {"balance", "refused"}
<1> DEFINE r == Request(c)
           lines == Else(r.lines, NoLines)
           debt == Amount(old.lines) - old.paid
           change == Amount(lines) - Else(r.paid, 0) - debt
           giveBack == {ChangeBalance(old.supplier, -debt)}
           take == {ChangeBalance(r.supplier, debt)}
           correct == {ChangeBalance(Else(r.supplier, old.supplier), change)}
           refused == {[op |-> "refused"]}
<1>1. r.lines \in Deliveries \cup {None} /\ r.paid \in AmountsPaid \cup {None}
  BY DEF Understood
<1>2. AreLines(lines) /\ Else(r.paid, 0) \in Int
  <2> HIDE DEF r
  <2>1. r.lines = None \/ (r.lines # None /\ AreLines(r.lines))
    BY <1>1, ReceiptsAssumption
  <2>2. r.paid = None \/ r.paid \in Int
    BY <1>1, AmountsAreIntegers
  <2>3. lines = IF r.lines = None THEN NoLines ELSE r.lines
    BY DEF Else
  <2>4. Else(r.paid, 0) = IF r.paid = None THEN 0 ELSE r.paid
    BY DEF Else
  <2> HIDE DEF lines
  <2>5. Else(r.paid, 0) \in Int
    BY <2>2, <2>4
  <2> QED
    BY <2>1, <2>3, <2>5, NoLinesAreLines
<1>3. debt \in Int /\ change \in Int /\ -debt \in Int
  BY <1>2, AmountType
<1> HIDE DEF lines, debt, change
<1>4. \A t \in giveBack \cup take \cup correct : Proper(c, t) /\ t.op = "balance"
  BY <1>3, BalanceProper DEF ReceiptOps
<1>5. \A t \in refused : Proper(c, t) /\ t.op = "refused"
  BY DEF Proper
<1>6. Good(giveBack) /\ Good(take) /\ Good(correct) /\ Good(refused) /\ Good({})
  BY SingleGood
<1> DEFINE W == {giveBack, take, correct, refused, {}}
<1>7. \A A \in W : Good(A) /\ \A t \in A : Proper(c, t) /\ t.op \in {"balance", "refused"}
  BY <1>4, <1>5, <1>6
<1>8. \E A, B, C \in W : more = <<A, B, C>>
  BY DEF DebtChanges, lines, debt, change
<1> HIDE DEF W
<1>9. PICK A \in W, B \in W, C \in W : more = <<A, B, C>>
  BY <1>8
<1>10. \A s, t : t \in A \cup B \cup C => Follows(s.op, t.op)
  BY <1>7 DEF Follows
<1> QED
  BY <1>7, <1>9, <1>10, ThreeOrderly
-----------------------------------------------------------------------------
(* An update of a receipt.                                                 *)
LEMMA FiveStages ==
  ASSUME NEW A, NEW B, NEW C, NEW D, NEW E
  PROVE  <<A, B, C, D, E>> = <<A, B>> \o <<C, D, E>>
<1>1. <<A, B>> \in Seq({A, B, C, D, E}) /\ <<C, D, E>> \in Seq({A, B, C, D, E})
  OBVIOUS
<1>2. <<A, B>> \o <<C, D, E>> = [i \in 1..5 |-> IF i <= 2 THEN <<A, B>>[i] ELSE <<C, D, E>>[i - 2]]
  BY <1>1
<1>3. <<A, B, C, D, E>> = [i \in 1..5 |-> IF i <= 2 THEN <<A, B>>[i] ELSE <<C, D, E>>[i - 2]]
  OBVIOUS
<1> QED
  BY <1>2, <1>3, Zenon

(* Five good stages, each of which may follow those before it.             *)
LEMMA FiveOrderly ==
  ASSUME NEW A, NEW B, NEW C, NEW D, NEW E, Good(A), Good(B), Good(C), Good(D), Good(E),
         \A s \in A, t \in B : Follows(s.op, t.op),
         \A s \in A \cup B, t \in C : Follows(s.op, t.op),
         \A s \in A \cup B \cup C, t \in D : Follows(s.op, t.op),
         \A s \in A \cup B \cup C \cup D, t \in E : Follows(s.op, t.op)
  PROVE  Orderly(<<A, B, C, D, E>>) /\ All(<<A, B, C, D, E>>) = A \cup B \cup C \cup D \cup E
<1> DEFINE p == <<A, B>>
           q == <<C, D, E>>
<1>1. Orderly(p) /\ All(p) = A \cup B
  BY TwoOrderly
<1>2. Orderly(q) /\ All(q) = C \cup D \cup E
  BY ThreeOrderly
<1>3. <<A, B, C, D, E>> = p \o q
  BY FiveStages
<1>4. \A s \in A \cup B, t \in C \cup D \cup E : Follows(s.op, t.op)
  OBVIOUS
<1> HIDE DEF p, q
<1>5. Orderly(p \o q) /\ All(p \o q) = (A \cup B) \cup (C \cup D \cup E)
  BY <1>1, <1>2, <1>4, AppendOrderly
<1> QED
  BY <1>3, <1>5

(* The lines that are written, each by a statement.                        *)
LEMMA LinesGood ==
  ASSUME NEW kept, NEW A, A = {[op |-> "line", variant |-> v] : v \in kept}
  PROVE  Good(A) /\ \A s \in A : s.op = "line" /\ s.variant \in kept
<1>1. \A s \in A : s.op = "line" /\ s.variant \in kept /\ s = [op |-> "line", variant |-> s.variant]
  OBVIOUS
<1>2. \A s, t \in A : Alike(s, t) => s = t
  BY <1>1 DEF Alike, PerVariant
<1>3. \A s \in A : s.op \notin Solo
  BY <1>1 DEF Solo
<1> QED
  BY <1>1, <1>2, <1>3 DEF Good

(* What update of a receipt sends: at most eight stages, the last three    *)
(* about the balances.                                                     *)
LEMMA UpdateReceiptStep ==
  ASSUME Inv, NEW c \in Calls, NEW s \in Sent(c), UpdateReceipt(c, s),
         UNCHANGED <<transfers, reasons, archived, overlapped>>
  PROVE  Inv'
<1> DEFINE r == Request(c)
           d == r.doc[2]
           old == receipts[d]
           w == Else(r.warehouse, old.warehouse)
           kept == IF r.lines = None THEN {} ELSE DOMAIN old.lines \cap DOMAIN r.lines
           deleted == IF r.lines = None THEN {} ELSE DOMAIN old.lines \ DOMAIN r.lines
           inserted == IF r.lines = None THEN {} ELSE DOMAIN r.lines \ DOMAIN old.lines
           payment == Payment("SUPPLIER_PAYMENT", Else(r.paid, -old.paid), Else(r.supplier, old.supplier),
                              [supplier |-> Else(r.supplier, old.supplier), amount |-> Else(r.paid, -old.paid)])
           changes == [v \in deleted |-> -old.lines[v].quantity]
           A == Increments(changes, w)
           B == IF kept = {} THEN {} ELSE {[op |-> "reread", kept |-> kept, warehouse |-> w]}
           C == {[op |-> "line", variant |-> v] : v \in kept}
           D == {IF inserted = {} THEN [op |-> "rewriteReceipt", deleted |-> [v \in deleted |-> old.lines[v]]]
                                  ELSE [op |-> "refused"]}
           paid == [op |-> "payment", id |-> c, row |-> payment]
           E == {paid}
           first == <<A, B, C, D, E>>
           debts == DebtChanges(old, r)
           more == first \o debts
<1>1. s.op = "read" /\ r.op = "updateReceipt" /\ TablesStay
  BY DEF UpdateReceipt, TablesStay
<1>2. Understood(c, r) /\ Running(c)
  BY SentFacts DEF Inv
<1>3. r.lines \in Deliveries \cup {None} /\ r.paid \in AmountsPaid \cup {None}
  BY <1>1, <1>2 DEF Understood
<1>4. CASE Refuse(c) /\ UNCHANGED disturbed
  BY <1>1, <1>4, RefuseKeeps
<1>5. CASE /\ d \in DOMAIN receipts /\ r.supplier \in Suppliers \cup {None}
           /\ r.warehouse \in Warehouses \cup {None}
           /\ GoOn(c, more) /\ DisturbIf(c, Busy(c) \/ ~ AccountedReceiptUpdate(old, r))
  <2>1. disturbed' \subseteq Docs
    BY <1>2, <1>5, DisturbedKnown DEF Inv, Typed
  <2>2. /\ AreLines(old.lines) /\ old.paid \in Int /\ old.warehouse \in Warehouses
        /\ old.supplier \in Suppliers
    BY <1>5, ReceiptFacts
  <2>3. w \in Warehouses
    BY <1>5, <2>2 DEF Else
  <2>4. /\ deleted \subseteq DOMAIN old.lines
        /\ kept # {} => r.lines \in Deliveries /\ kept \subseteq DOMAIN r.lines
    BY <1>3
  <2>5. /\ Else(r.paid, -old.paid) \in Int
        /\ [supplier |-> Else(r.supplier, old.supplier), amount |-> Else(r.paid, -old.paid)]
             \in [supplier : Suppliers \cup {None}, amount : Int]
    <3>1. r.paid = None \/ r.paid \in Int
      BY <1>3, AmountsAreIntegers
    <3>2. Else(r.paid, -old.paid) \in Int
      BY <2>2, <3>1 DEF Else
    <3>3. Else(r.supplier, old.supplier) \in Suppliers \cup {None}
      BY <1>5, <2>2 DEF Else
    <3> QED
      BY <3>2, <3>3
  <2>6. Orderly(debts) /\ \A t \in All(debts) : Proper(c, t) /\ t.op \in {"balance", "refused"}
    BY <1>1, <1>2, <2>2, DebtChangesOrderly
  <2>7. Good(A) /\ \A t \in A : t.op \in {"total", "rows"} /\ Proper(c, t)
    <3>1. DOMAIN changes \subseteq Variants /\ \A v \in DOMAIN changes : changes[v] \in Int
      BY <2>2, <2>4 DEF AreLines
    <3> HIDE DEF changes, w
    <3> QED
      BY <1>1, <2>3, <3>1, IncrementsFacts
  <2>8. Good(B) /\ \A t \in B : t.op = "reread" /\ Proper(c, t)
    <3>1. Good(B)
      BY SingleGood
    <3> HIDE DEF w, kept
    <3> QED
      BY <1>1, <1>5, <2>3, <2>4, <3>1 DEF Proper
  <2>9. Good(C) /\ \A t \in C : t.op = "line" /\ Proper(c, t)
    <3> HIDE DEF kept
    <3>1. Good(C) /\ \A t \in C : t.op = "line" /\ t.variant \in kept
      BY LinesGood
    <3> HIDE DEF C
    <3> QED
      BY <1>1, <1>5, <2>4, <3>1 DEF Proper
  <2>10. Good(D) /\ \A t \in D : t.op \in {"rewriteReceipt", "refused"} /\ Proper(c, t)
    <3>1. Good(D)
      BY SingleGood
    <3> HIDE DEF inserted, deleted
    <3> QED
      BY <1>1, <1>5, <3>1 DEF Proper
  <2>11. Good(E) /\ \A t \in E : t.op = "payment" /\ Proper(c, t)
    <3>1. Good(E)
      BY SingleGood
    <3>2. "SUPPLIER_PAYMENT" \in PaymentTypes /\ c \in Ids
      BY DEF PaymentTypes, Ids
    <3>3. Proper(c, paid) /\ paid.op = "payment"
      BY <1>1, <2>5, <3>2, PaymentProper
    <3> QED
      BY <3>1, <3>3
  <2> HIDE DEF A, B, C, D, E, debts
  <2>12. Orderly(first) /\ All(first) = A \cup B \cup C \cup D \cup E
    <3>1. \A x \in A, t \in B : Follows(x.op, t.op)
      BY <2>7, <2>8 DEF Follows, Rank
    <3>2. \A x \in A \cup B, t \in C : Follows(x.op, t.op)
      BY <2>7, <2>8, <2>9 DEF Follows, Rank
    <3>3. \A x \in A \cup B \cup C, t \in D : Follows(x.op, t.op)
      BY <2>7, <2>8, <2>9, <2>10 DEF Follows, Rank
    <3>4. \A x \in A \cup B \cup C \cup D, t \in E : Follows(x.op, t.op)
      BY <2>7, <2>8, <2>9, <2>10, <2>11 DEF Follows, Rank
    <3> QED
      BY <2>7, <2>8, <2>9, <2>10, <2>11, <3>1, <3>2, <3>3, <3>4, FiveOrderly
  <2>13. \A x, t : t \in All(debts) => Follows(x.op, t.op)
    BY <2>6 DEF Follows
  <2> HIDE DEF first
  <2>14. Orderly(more) /\ All(more) = All(first) \cup All(debts)
    BY <2>6, <2>12, <2>13, AppendOrderly
  <2>15. \A t \in All(more) : Proper(c, t) /\ t.op # "read"
    BY <2>6, <2>7, <2>8, <2>9, <2>10, <2>11, <2>12, <2>14
  <2> HIDE DEF more
  <2> QED
    BY <1>1, <1>5, <2>1, <2>14, <2>15, ReadKeeps
<1>6. \/ Refuse(c) /\ UNCHANGED disturbed
      \/ /\ d \in DOMAIN receipts /\ r.supplier \in Suppliers \cup {None}
         /\ r.warehouse \in Warehouses \cup {None}
         /\ GoOn(c, more) /\ DisturbIf(c, Busy(c) \/ ~ AccountedReceiptUpdate(old, r))
  BY DEF UpdateReceipt
<1> QED
  BY <1>4, <1>5, <1>6

(* The lines that stay are read again; their quantities are corrected.     *)
LEMMA RereadLinesStep ==
  ASSUME Inv, NEW c \in Calls, NEW s \in Sent(c), RereadLines(c, s),
         UNCHANGED <<transfers, reasons, archived, overlapped>>
  PROVE  Inv'
<1> DEFINE r == Request(c)
           old == receipts[r.doc[2]].lines
           changes == [v \in s.kept \cap DOMAIN old |-> r.lines[v].quantity - old[v].quantity]
           A == Increments(changes, s.warehouse)
<1>1. s.op = "reread" /\ TablesStay /\ UNCHANGED disturbed /\ GoOn(c, <<A>>)
  BY DEF RereadLines, TablesStay
<1>2. Proper(c, s) /\ \A t \in After(call[c].stages) : Proper(c, t) /\ Follows(s.op, t.op)
  BY SentFacts DEF Inv
<1>3. /\ r.op = "updateReceipt" /\ r.doc[2] \in DOMAIN receipts /\ s.warehouse \in Warehouses
      /\ r.lines \in Deliveries /\ s.kept \subseteq DOMAIN r.lines
  BY <1>1, <1>2 DEF Proper
<1>4. AreLines(old) /\ AreLines(r.lines)
  BY <1>3, ReceiptFacts, ReceiptsAssumption
<1>5. DOMAIN changes \subseteq Variants /\ \A v \in DOMAIN changes : changes[v] \in Int
  <2>1. \A v \in s.kept \cap DOMAIN old : /\ v \in Variants /\ r.lines[v].quantity \in Int
                                          /\ old[v].quantity \in Int
    BY <1>3, <1>4 DEF AreLines
  <2> HIDE DEF old, r
  <2> QED
    BY <2>1
<1> HIDE DEF changes
<1>6. Good(A) /\ \A t \in A : t.op \in {"total", "rows"} /\ Proper(c, t)
  BY <1>3, <1>5, IncrementsFacts
<1> HIDE DEF A
<1>7. ASSUME NEW t \in A, NEW u \in After(call[c].stages) PROVE Follows(t.op, u.op)
  <2>1. Follows("reread", u.op) /\ Rank(u.op) \in Nat
    BY <1>1, <1>2, RanksAreNumbers
  <2>2. Rank("reread") = 3 /\ Rank(t.op) = 2
    BY <1>6 DEF Rank
  <2> QED
    BY <2>1, <2>2 DEF Follows
<1>8. "reread" \in Solo /\ Grows /\ disturbed' \subseteq Docs /\ overlapped' \in BOOLEAN
  BY <1>1, StayGrows DEF Solo, Inv, Typed
<1>9. Shaped' /\ CallsOK'
  BY <1>1, <1>6, <1>7, <1>8, NextOnward DEF Inv, Good
<1> QED
  BY <1>1, <1>8, <1>9, StayTyped
-----------------------------------------------------------------------------
(* A statement that changes one receipt.                                   *)
LEMMA ReceiptKeeps ==
  ASSUME Inv, NEW c \in Calls, NEW s \in Sent(c), Executed(c, s), NEW d \in DOMAIN receipts,
         receipts' = [receipts EXCEPT ![d] = receipts'[d]], IsReceipt(receipts'[d]),
         UNCHANGED <<rows, total, balance, payments, disturbed, transfers, reasons, archived, overlapped>>
  PROVE  Inv'
<1>1. /\ DOMAIN receipts \subseteq Ids /\ receipts = [x \in DOMAIN receipts |-> receipts[x]]
      /\ \A x \in DOMAIN receipts : IsReceipt(receipts[x])
  BY DEF Inv, Tables
<1>2. /\ DOMAIN receipts' = DOMAIN receipts /\ receipts' = [x \in DOMAIN receipts' |-> receipts'[x]]
      /\ \A x \in DOMAIN receipts : x # d => receipts'[x] = receipts[x]
  BY <1>1
<1>3. \A x \in DOMAIN receipts' : IsReceipt(receipts'[x])
  BY <1>1, <1>2
<1>4. Tables' /\ Grows
  BY <1>1, <1>2, <1>3 DEF Inv, Tables, Grows
<1>5. Typed'
  BY DEF Inv, Typed, RowsTypeOK
<1> QED
  BY <1>4, <1>5, ExecutedKeeps

(* A line of a receipt is written.                                         *)
LEMMA WriteLineStep ==
  ASSUME Inv, NEW c \in Calls, NEW s \in Sent(c), WriteLine(c, s),
         UNCHANGED <<transfers, reasons, archived, overlapped>>
  PROVE  Inv'
<1> DEFINE r == Request(c)
           d == r.doc[2]
           v == s.variant
           old == receipts[d]
<1>1. s.op = "line" /\ Executed(c, s) /\ UNCHANGED <<rows, total, balance, payments, disturbed>>
  BY DEF WriteLine
<1>2. Proper(c, s)
  BY SentFacts DEF Inv
<1>3. d \in DOMAIN receipts /\ r.lines \in Deliveries /\ v \in DOMAIN r.lines
  BY <1>1, <1>2 DEF Proper
<1>4. IsReceipt(old) /\ AreLines(r.lines)
  BY <1>3, ReceiptFacts, ReceiptsAssumption
<1>5. CASE v \notin DOMAIN old.lines
  <2>1. receipts' = receipts
    BY <1>5 DEF WriteLine
  <2>2. receipts' = [receipts EXCEPT ![d] = receipts'[d]] /\ IsReceipt(receipts'[d])
    <3> HIDE DEF d
    <3> QED
      BY <1>3, <1>4, <2>1 DEF Inv, Tables
  <2> QED
    BY <1>1, <1>3, <2>2, ReceiptKeeps
<1>6. CASE v \in DOMAIN old.lines
  <2> DEFINE new == [old EXCEPT !.lines[v] = r.lines[v]]
  <2>1. receipts' = [receipts EXCEPT ![d] = new]
    BY <1>6 DEF WriteLine
  <2> HIDE DEF r, d, old, v
  <2>2. AreLines(old.lines) /\ old.lines \in [DOMAIN old.lines -> [quantity : Int, price : Int]]
    BY <1>4 DEF IsReceipt, AreLines
  <2>3. r.lines[v] \in [quantity : Int, price : Int]
    BY <1>3, <1>4 DEF AreLines
  <2>4. [old.lines EXCEPT ![v] = r.lines[v]] \in [DOMAIN old.lines -> [quantity : Int, price : Int]]
    BY <1>6, <2>2, <2>3
  <2>5. AreLines([old.lines EXCEPT ![v] = r.lines[v]])
    BY <2>2, <2>4 DEF AreLines
  <2>6. new = [old EXCEPT !.lines = [old.lines EXCEPT ![v] = r.lines[v]]]
    BY <1>4 DEF IsReceipt
  <2>7. IsReceipt(new)
    BY <1>4, <2>5, <2>6 DEF IsReceipt
  <2>8. receipts'[d] = new
    BY <1>3, <2>1
  <2>9. d \in DOMAIN receipts
    BY <1>3
  <2> HIDE DEF new
  <2> QED
    BY <1>1, <2>1, <2>7, <2>8, <2>9, ReceiptKeeps
<1> QED
  BY <1>5, <1>6

(* A receipt is written, without the lines that are deleted.               *)
LEMMA RewriteReceiptStep ==
  ASSUME Inv, NEW c \in Calls, NEW s \in Sent(c), RewriteReceipt(c, s),
         UNCHANGED <<transfers, reasons, archived, overlapped>>
  PROVE  Inv'
<1> DEFINE r == Request(c)
           d == r.doc[2]
           old == receipts[d]
           kept == LinesBut(old.lines, s.deleted)
           lines == [v \in kept |-> old.lines[v]]
           outstanding == IF Else(r.paid, 0) = 0 THEN 0 ELSE Amount(Else(r.lines, NoLines)) - r.paid
           new == [supplier |-> Else(r.supplier, old.supplier), warehouse |-> Else(r.warehouse, old.warehouse),
                   isArchived |-> old.isArchived, lines |-> lines, paid |-> Else(r.paid, old.paid),
                   outstanding |-> outstanding]
<1>1. s.op = "rewriteReceipt" /\ Executed(c, s) /\ UNCHANGED <<rows, total, balance, payments, disturbed>>
  BY DEF RewriteReceipt
<1>2. Proper(c, s) /\ Understood(c, r)
  BY SentFacts DEF Inv
<1>3. /\ d \in DOMAIN receipts /\ r.supplier \in Suppliers \cup {None} /\ r.op = "updateReceipt"
      /\ r.warehouse \in Warehouses \cup {None}
  BY <1>1, <1>2 DEF Proper
<1>4. IsReceipt(old)
  BY <1>3, ReceiptFacts
<1>5. /\ r.lines = None \/ (r.lines # None /\ AreLines(r.lines))
      /\ r.paid = None \/ (r.paid # None /\ r.paid \in Int)
  <2>1. r.lines \in Deliveries \cup {None} /\ r.paid \in AmountsPaid \cup {None}
    BY <1>2, <1>3 DEF Understood
  <2> QED
    BY <2>1, AmountsAreIntegers, ReceiptsAssumption
<1>6. outstanding \in Int
  <2>1. AreLines(Else(r.lines, NoLines))
    BY <1>5, NoLinesAreLines DEF Else
  <2>2. Amount(Else(r.lines, NoLines)) \in Int
    BY <2>1, AmountType
  <2>3. CASE r.paid = None
    BY <2>3 DEF Else
  <2>4. CASE r.paid # None
    BY <1>5, <2>2, <2>4
  <2> QED
    BY <2>3, <2>4
<1>7. AreLines(lines)
  <2>1. kept \subseteq DOMAIN old.lines
    BY DEF LinesBut
  <2> HIDE DEF kept, old
  <2> QED
    BY <1>4, <2>1 DEF IsReceipt, AreLines
<1>8. /\ Else(r.supplier, old.supplier) \in Suppliers /\ Else(r.warehouse, old.warehouse) \in Warehouses
      /\ Else(r.paid, old.paid) \in Int
  <2> HIDE DEF r, d, old
  <2> QED
    BY <1>3, <1>4, <1>5 DEF Else, IsReceipt
<1>9. IsReceipt(new)
  <2> HIDE DEF outstanding, lines
  <2> QED
    BY <1>4, <1>6, <1>7, <1>8 DEF IsReceipt
<1>10. receipts' = [receipts EXCEPT ![d] = new]
  <2>1. receipts' = [receipts EXCEPT
           ![d].supplier = Else(r.supplier, @), ![d].warehouse = Else(r.warehouse, @),
           ![d].lines = [v \in kept |-> @[v]], ![d].paid = Else(r.paid, @),
           ![d].outstanding = outstanding]
    BY DEF RewriteReceipt
  <2>2. old = [supplier |-> old.supplier, warehouse |-> old.warehouse, isArchived |-> old.isArchived,
               lines |-> old.lines, paid |-> old.paid, outstanding |-> old.outstanding]
    BY <1>4 DEF IsReceipt
  <2>3. \A x \in DOMAIN receipts : x # d => receipts'[x] = receipts[x]
    BY <2>1
  <2>4. DOMAIN receipts' = DOMAIN receipts
    BY <2>1
  <2>5. receipts'[d] = new
    <3> HIDE DEF outstanding, kept, r
    <3> QED
      BY <1>3, <2>1, <2>2
  <2>6. receipts' = [x \in DOMAIN receipts |-> receipts'[x]] /\ receipts = [x \in DOMAIN receipts |-> receipts[x]]
    BY <2>1 DEF Inv, Tables
  <2> HIDE DEF new, d
  <2> QED
    BY <1>3, <2>3, <2>4, <2>5, <2>6
<1>11. receipts'[d] = new /\ d \in DOMAIN receipts
  <2> HIDE DEF new, d
  <2> QED
    BY <1>3, <1>10
<1> HIDE DEF new
<1> QED
  BY <1>1, <1>9, <1>10, <1>11, ReceiptKeeps

(* A receipt is archived or restored.                                      *)
LEMMA MarkReceiptStep ==
  ASSUME Inv, NEW c \in Calls, NEW s \in Sent(c), MarkReceipt(c, s),
         UNCHANGED <<transfers, reasons, archived, overlapped>>
  PROVE  Inv'
<1> DEFINE d == Request(c).doc[2]
           mark == Request(c).op = "archiveReceipt"
           new == [receipts[d] EXCEPT !.isArchived = mark]
<1>1. /\ s.op = "markReceipt" /\ Executed(c, s) /\ UNCHANGED <<rows, total, balance, payments, disturbed>>
      /\ receipts' = [receipts EXCEPT ![d] = new]
  BY DEF MarkReceipt
<1>2. Proper(c, s)
  BY SentFacts DEF Inv
<1>3. d \in DOMAIN receipts /\ mark \in BOOLEAN
  BY <1>1, <1>2 DEF Proper
<1>4. IsReceipt(receipts[d])
  BY <1>3, ReceiptFacts
<1> HIDE DEF d, mark
<1>5. IsReceipt(new)
  BY <1>3, <1>4 DEF IsReceipt
<1>6. receipts'[d] = new
  BY <1>1, <1>3
<1> HIDE DEF new
<1> QED
  BY <1>1, <1>3, <1>5, <1>6, ReceiptKeeps

(* A statement that fails.                                                 *)
LEMMA LoseKeeps ==
  ASSUME Inv, NEW c \in Calls, NEW s \in Sent(c), Lose(c, s), TablesStay, overlapped' = overlapped
  PROVE  Inv'
<1>1. Running(c)
  BY SentFacts DEF Inv
<1>2. disturbed' \subseteq Docs
  BY <1>1, DisturbedKnown DEF Lose, Inv, Typed
<1>3. Grows
  BY StayGrows
<1>4. Shaped' /\ CallsOK'
  BY <1>3, LoseOnward DEF Inv
<1> QED
  BY <1>2, <1>4, StayTyped DEF Inv, Typed

(* A statement that the database client refuses changes nothing.           *)
LEMMA FailRefusedStep ==
  ASSUME Inv, NEW c \in Calls, NEW s \in Sent(c), FailRefused(c, s),
         UNCHANGED <<transfers, reasons, archived, overlapped>>
  PROVE  Inv'
BY LoseKeeps DEF FailRefused, TablesStay

(* What archive and restore of a receipt send.                             *)
LEMMA ArchiveReceiptStep ==
  ASSUME Inv, NEW c \in Calls, NEW s \in Sent(c), ArchiveReceipt(c, s),
         UNCHANGED <<transfers, reasons, archived, overlapped>>
  PROVE  Inv'
<1> DEFINE r == Request(c)
           d == r.doc[2]
           old == receipts[d]
           sign == IF r.op = "archiveReceipt" THEN -1 ELSE 1
           goods == {[op |-> "everywhere", variant |-> v, quantity |-> sign * old.lines[v].quantity] :
                       v \in DOMAIN old.lines}
           owed == ChangeBalance(old.supplier, sign * old.outstanding)
           mark == [op |-> "markReceipt"]
           A == IF old.isArchived = (r.op = "archiveReceipt") THEN {} ELSE goods \cup {owed, mark}
           more == <<A>>
<1>1. s.op = "read" /\ r.op \in {"archiveReceipt", "restoreReceipt"} /\ TablesStay
  BY DEF ArchiveReceipt, TablesStay
<1>2. Running(c)
  BY SentFacts DEF Inv
<1>3. CASE Refuse(c) /\ UNCHANGED disturbed
  BY <1>1, <1>3, RefuseKeeps
<1>4. CASE d \in DOMAIN receipts /\ GoOn(c, more) /\ DisturbIf(c, Busy(c))
  <2>1. disturbed' \subseteq Docs
    BY <1>2, <1>4, DisturbedKnown DEF Inv, Typed
  <2>2. AreLines(old.lines) /\ old.outstanding \in Int
    BY <1>4, ReceiptFacts
  <2>3. sign \in Int /\ sign * old.outstanding \in Int
        /\ \A v \in DOMAIN old.lines : v \in Variants /\ sign * old.lines[v].quantity \in Int
    <3>1. \A v \in DOMAIN old.lines : v \in Variants /\ old.lines[v].quantity \in Int
      BY <2>2 DEF AreLines
    <3> HIDE DEF old
    <3> QED
      BY <2>2, <3>1
  <2>4. \A t \in goods : /\ t.op = "everywhere" /\ t.variant \in Variants /\ t.quantity \in Int
                         /\ t.quantity = sign * old.lines[t.variant].quantity
                         /\ t = [op |-> "everywhere", variant |-> t.variant,
                                 quantity |-> sign * old.lines[t.variant].quantity]
    <3> HIDE DEF old, sign
    <3> QED
      BY <2>3
  <2>5. Proper(c, owed) /\ owed.op = "balance"
    BY <1>1, <2>3, BalanceProper DEF ReceiptOps
  <2>6. mark.op = "markReceipt" /\ Proper(c, mark)
    BY <1>1, <1>4 DEF Proper
  <2> HIDE DEF owed, mark, goods
  <2>7. \A t \in goods : Proper(c, t)
    BY <1>1, <1>4, <2>4 DEF Proper
  <2>8. \A x, t \in goods : Alike(x, t) => x = t
    <3> HIDE DEF old, sign
    <3> QED
      BY <2>4 DEF Alike, PerVariant
  <2>9. Good(goods \cup {owed, mark})
    BY <2>4, <2>5, <2>6, <2>8 DEF Good, Alike, Solo
  <2>10. Good(A) /\ \A t \in A : Proper(c, t) /\ t.op # "read"
    BY <2>4, <2>5, <2>6, <2>7, <2>9, SingleGood
  <2> HIDE DEF A
  <2>11. Orderly(more) /\ All(more) = A
    BY <2>10, GoodOrderly
  <2> HIDE DEF more
  <2> QED
    BY <1>1, <1>4, <2>1, <2>10, <2>11, ReadKeeps
<1>5. \/ Refuse(c) /\ UNCHANGED disturbed
      \/ d \in DOMAIN receipts /\ GoOn(c, more) /\ DisturbIf(c, Busy(c))
  BY DEF ArchiveReceipt
<1> QED
  BY <1>3, <1>4, <1>5
-----------------------------------------------------------------------------
(* Transfers: what is moved.                                               *)
LEMMA MovesFacts ==
  ASSUME NEW how, NEW items, NEW from, NEW to, NEW M, M = Moves(how, items, from, to)
  PROVE  /\ \A m \in M : /\ m.how = how /\ m.variant \in DOMAIN items /\ m.from = from /\ m.to = to
                         /\ m.quantity = items[m.variant]
         /\ \A m, n \in M : m.variant = n.variant => m = n
<1>1. \A m \in M : /\ m.how = how /\ m.variant \in DOMAIN items /\ m.from = from /\ m.to = to
                   /\ m.quantity = items[m.variant]
                   /\ m = [how |-> how, variant |-> m.variant, from |-> from, to |-> to,
                           quantity |-> items[m.variant]]
  BY DEF Moves
<1> QED
  BY <1>1

(* The movements of some of the items.                                     *)
LEMMA MovesOfFacts ==
  ASSUME NEW how, NEW items, NEW S, NEW from, NEW to, NEW M, M = Moves(how, Of(items, S), from, to)
  PROVE  /\ \A m \in M : /\ m.how = how /\ m.variant \in DOMAIN items \cap S /\ m.from = from /\ m.to = to
                         /\ m.quantity = items[m.variant]
         /\ \A m, n \in M : m.variant = n.variant => m = n
<1>1. DOMAIN Of(items, S) = DOMAIN items \cap S /\ \A v \in DOMAIN items \cap S : Of(items, S)[v] = items[v]
  BY DEF Of
<1> QED
  BY <1>1, MovesFacts

(* What a lookup, or a commit, says.                                       *)
Moving(c, moves) ==
  LET r == Request(c)
      d == r.doc[2]
  IN  /\ r.op \in TransferOps
      /\ r.op # "createTransfer" => d \in DOMAIN transfers
      /\ r.op = "createTransfer" => r.source \in Warehouses /\ r.destination \in Warehouses
      /\ r.op = "updateTransfer" => r.source \in Warehouses \cup {None} /\ r.destination \in Warehouses \cup {None}
      /\ \A m \in moves : AsAsked(r, m)
      /\ \A m, n \in moves : m.variant = n.variant => m = n

(* The statements of a transfer are proper if their movements are.         *)
LEMMA MovingProper ==
  ASSUME NEW c, NEW s
  PROVE  /\ s.op = "lookup" => (Proper(c, s) <=> Moving(c, s.moves) /\ \A m \in s.moves : IsMove(m))
         /\ s.op = "commit" => (Proper(c, s) <=> Moving(c, s.moves) /\ \A m \in s.moves : IsFound(m))
<1>1. CASE s.op = "lookup"
  BY <1>1 DEF Proper, Moving
<1>2. CASE s.op = "commit"
  BY <1>2 DEF Proper, Moving
<1> QED
  BY <1>1, <1>2

(* A handler of a transfer sends a lookup, alone.                          *)
LEMMA LookupKeeps ==
  ASSUME Inv, NEW c \in Calls, NEW s \in Sent(c), s.op = "read", NEW moves,
         GoOn(c, <<{[op |-> "lookup", moves |-> moves]}>>),
         Moving(c, moves), \A m \in moves : IsMove(m),
         TablesStay, overlapped' = overlapped, disturbed' \subseteq Docs
  PROVE  Inv'
<1> DEFINE t == [op |-> "lookup", moves |-> moves]
           more == <<{t}>>
<1>1. t.op = "lookup" /\ t.moves = moves
  OBVIOUS
<1>2. Proper(c, t)
  BY <1>1, MovingProper
<1> HIDE DEF t
<1>3. Orderly(more) /\ All(more) = {t}
  BY SingleGood, GoodOrderly
<1>4. GoOn(c, more) /\ \A u \in All(more) : Proper(c, u) /\ u.op # "read"
  BY <1>1, <1>2, <1>3 DEF t
<1> HIDE DEF more
<1> QED
  BY <1>3, <1>4, ReadKeeps

(* What create of a transfer looks up.                                     *)
LEMMA CreateTransferStep ==
  ASSUME Inv, NEW c \in Calls, NEW s \in Sent(c), CreateTransfer(c, s),
         UNCHANGED <<total, balance, payments, receipts, archived, overlapped>>
  PROVE  Inv'
<1> DEFINE r == Request(c)
           moves == Moves("ship", r.items, r.source, r.destination)
<1>1. s.op = "read" /\ r.op = "createTransfer" /\ TablesStay /\ UNCHANGED disturbed
  BY DEF CreateTransfer, TablesStay
<1>2. Understood(c, r) /\ disturbed' \subseteq Docs
  BY <1>1, SentFacts DEF Inv, Typed
<1>3. CASE Refuse(c)
  BY <1>1, <1>3, RefuseKeeps
<1>4. CASE {r.source, r.destination} \subseteq Warehouses /\ GoOn(c, <<{[op |-> "lookup", moves |-> moves]}>>)
  <2>1. r.items \in Shipments
    BY <1>1, <1>2 DEF Understood
  <2>2. DOMAIN r.items \subseteq Variants /\ \A v \in DOMAIN r.items : r.items[v] \in Int
    BY <2>1, TransfersAssumption
  <2>3. /\ \A m \in moves : /\ m.how = "ship" /\ m.variant \in DOMAIN r.items /\ m.from = r.source
                            /\ m.to = r.destination /\ m.quantity = r.items[m.variant]
        /\ \A m, n \in moves : m.variant = n.variant => m = n
    BY MovesFacts
  <2> HIDE DEF moves
  <2>4. \A m \in moves : IsMove(m)
    BY <1>4, <2>2, <2>3 DEF IsMove
  <2>5. Moving(c, moves)
    BY <1>1, <1>4, <2>3 DEF Moving, TransferOps, AsAsked
  <2> QED
    BY <1>1, <1>2, <1>4, <2>4, <2>5, LookupKeeps
<1>5. \/ Refuse(c)
      \/ {r.source, r.destination} \subseteq Warehouses /\ GoOn(c, <<{[op |-> "lookup", moves |-> moves]}>>)
  BY DEF CreateTransfer
<1> QED
  BY <1>3, <1>4, <1>5

(* A transfer in the table, and the quantities that a handler takes from   *)
(* it.                                                                     *)
LEMMA TransferFacts ==
  ASSUME Inv, NEW d \in DOMAIN transfers, NEW x, x = transfers[d]
  PROVE  /\ IsTransfer(x, reasons) /\ x.source \in Warehouses /\ x.destination \in Warehouses
         /\ DOMAIN x.items \subseteq Variants /\ \A v \in DOMAIN x.items : x.items[v] \in Seq(Int) \ {<<>>}
         /\ DOMAIN Recorded(x) = DOMAIN x.items /\ \A v \in DOMAIN x.items : Recorded(x)[v] \in Int
<1>1. IsTransfer(x, reasons)
  BY DEF Inv, Tables
<1>2. /\ x.source \in Warehouses /\ x.destination \in Warehouses
      /\ DOMAIN x.items \subseteq Variants /\ x.items \in [DOMAIN x.items -> Seq(Int) \ {<<>>}]
  BY <1>1 DEF IsTransfer
<1>3. \A v \in DOMAIN x.items : x.items[v] \in Seq(Int) /\ x.items[v] # <<>>
  BY <1>2
<1>4. \A q : q \in Seq(Int) /\ q # <<>> => q[Len(q)] \in Int
  OBVIOUS
<1>5. DOMAIN Recorded(x) = DOMAIN x.items /\ \A v \in DOMAIN x.items : Recorded(x)[v] \in Int
  BY <1>3, <1>4 DEF Recorded
<1> QED
  BY <1>1, <1>2, <1>3, <1>5

(* What an update moves.                                                   *)
LEMMA MovesOfUpdateFacts ==
  ASSUME Inv, NEW c \in Calls, NEW r, r = Request(c), Understood(c, r), r.op = "updateTransfer",
         NEW old, r.doc[2] \in DOMAIN transfers, old = transfers[r.doc[2]],
         {r.source, r.destination} \subseteq Warehouses \cup {None},
         NEW moves, moves = MovesOfUpdate(old, r)
  PROVE  Moving(c, moves) /\ \A m \in moves : IsMove(m)
<1> DEFINE before == Recorded(old)
           now == Else(r.items, NoItems)
           source == Else(r.source, old.source)
           destination == Else(r.destination, old.destination)
           kept == DOMAIN before \cap DOMAIN now
           changed == {v \in kept : now[v] # before[v]}
           added == Variants \ DOMAIN before
           gone == Variants \ DOMAIN now
           M1 == Moves("ship", Of(now, added), source, destination)
           M2 == Moves("level", Of(now, changed), old.source, destination)
           M3 == Moves("carry", Of(now, kept), old.destination, destination)
           M4 == Moves("return", Of(before, gone), old.destination, old.source)
<1>1. /\ old.source \in Warehouses /\ old.destination \in Warehouses
      /\ DOMAIN before \subseteq Variants /\ \A v \in DOMAIN before : before[v] \in Int
  BY TransferFacts
<1>2. source \in Warehouses /\ destination \in Warehouses
  BY <1>1 DEF Else
<1>3. r.items = None \/ (r.items # None /\ r.items \in Shipments)
  BY AmountsAreIntegers DEF Understood
<1>4. /\ DOMAIN now \subseteq Variants /\ \A v \in DOMAIN now : now[v] \in Int
      /\ DOMAIN now # {} => now = r.items /\ r.items \in Shipments
  <2>1. CASE r.items = None
    BY <2>1 DEF Else, NoItems
  <2>2. CASE r.items # None
    BY <1>3, <2>2, TransfersAssumption DEF Else
  <2> QED
    BY <2>1, <2>2
<1>5. moves = M1 \cup (IF destination = old.destination THEN M2 ELSE M3) \cup M4
  BY DEF MovesOfUpdate
<1> HIDE DEF before, now, source, destination
<1>6. /\ DOMAIN now \cap added \subseteq DOMAIN now \ DOMAIN before
      /\ DOMAIN before \cap gone \subseteq DOMAIN before \ DOMAIN now
      /\ changed \subseteq kept
  OBVIOUS
<1> HIDE DEF added, gone, changed, kept
<1>7. /\ \A m \in M1 : /\ m.how = "ship" /\ m.variant \in DOMAIN now \ DOMAIN before
                       /\ m.from = source /\ m.to = destination /\ m.quantity = now[m.variant]
      /\ \A m, n \in M1 : m.variant = n.variant => m = n
  BY <1>6, MovesOfFacts
<1>8. /\ \A m \in M2 : /\ m.how = "level" /\ m.variant \in kept /\ m.from = old.source /\ m.to = destination
                       /\ m.quantity = now[m.variant]
      /\ \A m, n \in M2 : m.variant = n.variant => m = n
  BY <1>6, MovesOfFacts
<1>9. /\ \A m \in M3 : /\ m.how = "carry" /\ m.variant \in kept /\ m.from = old.destination
                       /\ m.to = destination /\ m.quantity = now[m.variant]
      /\ \A m, n \in M3 : m.variant = n.variant => m = n
  BY <1>6, MovesOfFacts
<1>10. /\ \A m \in M4 : /\ m.how = "return" /\ m.variant \in DOMAIN before \ DOMAIN now
                        /\ m.from = old.destination /\ m.to = old.source /\ m.quantity = before[m.variant]
       /\ \A m, n \in M4 : m.variant = n.variant => m = n
  BY <1>6, MovesOfFacts
<1> HIDE DEF M1, M2, M3, M4
<1>11. \A m \in M1 \cup M2 \cup M3 \cup M4 : IsMove(m)
  BY <1>1, <1>2, <1>4, <1>7, <1>8, <1>9, <1>10 DEF IsMove, kept
<1>12. \A m \in M1 \cup M2 \cup M3 \cup M4 : AsAsked(r, m)
  BY <1>4, <1>7, <1>8, <1>9, <1>10 DEF AsAsked, kept
<1>13. \A m, n \in moves : m.variant = n.variant => m = n
  BY <1>5, <1>7, <1>8, <1>9, <1>10 DEF kept
<1> QED
  BY <1>5, <1>11, <1>12, <1>13 DEF Moving, TransferOps

(* What update of a transfer looks up.                                     *)
LEMMA UpdateTransferStep ==
  ASSUME Inv, NEW c \in Calls, NEW s \in Sent(c), UpdateTransfer(c, s),
         UNCHANGED <<total, balance, payments, receipts, archived, overlapped>>
  PROVE  Inv'
<1> DEFINE r == Request(c)
           d == r.doc[2]
           moves == MovesOfUpdate(transfers[d], r)
<1>1. s.op = "read" /\ r.op = "updateTransfer" /\ TablesStay
  BY DEF UpdateTransfer, TablesStay
<1>2. Understood(c, r) /\ Running(c)
  BY SentFacts DEF Inv
<1>3. CASE Refuse(c) /\ UNCHANGED disturbed
  BY <1>1, <1>3, RefuseKeeps
<1>4. CASE /\ d \in DOMAIN transfers /\ {r.source, r.destination} \subseteq Warehouses \cup {None}
           /\ GoOn(c, <<{[op |-> "lookup", moves |-> moves]}>>)
           /\ DisturbIf(c, Busy(c) \/ ~ AccountedTransferUpdate(transfers[d], r))
  <2>1. disturbed' \subseteq Docs
    BY <1>2, <1>4, DisturbedKnown DEF Inv, Typed
  <2>2. Moving(c, moves) /\ \A m \in moves : IsMove(m)
    BY <1>1, <1>2, <1>4, MovesOfUpdateFacts
  <2> HIDE DEF moves
  <2> QED
    BY <1>1, <1>4, <2>1, <2>2, LookupKeeps
<1>5. \/ Refuse(c) /\ UNCHANGED disturbed
      \/ /\ d \in DOMAIN transfers /\ {r.source, r.destination} \subseteq Warehouses \cup {None}
         /\ GoOn(c, <<{[op |-> "lookup", moves |-> moves]}>>)
         /\ DisturbIf(c, Busy(c) \/ ~ AccountedTransferUpdate(transfers[d], r))
  BY DEF UpdateTransfer
<1> QED
  BY <1>3, <1>4, <1>5

(* What archive and restore of a transfer look up.                         *)
LEMMA ArchiveTransferStep ==
  ASSUME Inv, NEW c \in Calls, NEW s \in Sent(c), ArchiveTransfer(c, s),
         UNCHANGED <<total, balance, payments, receipts, archived, overlapped>>
  PROVE  Inv'
<1> DEFINE r == Request(c)
           d == r.doc[2]
           old == transfers[d]
           moves == IF r.op = "archiveTransfer"
                      THEN Moves("return", Recorded(old), old.destination, old.source)
                      ELSE Moves("resend", Recorded(old), old.source, old.destination)
<1>1. s.op = "read" /\ r.op \in {"archiveTransfer", "restoreTransfer"} /\ TablesStay
  BY DEF ArchiveTransfer, TablesStay
<1>2. Running(c)
  BY SentFacts DEF Inv
<1>3. CASE Refuse(c) /\ UNCHANGED disturbed
  BY <1>1, <1>3, RefuseKeeps
<1>4. CASE /\ d \in DOMAIN transfers /\ GoOn(c, <<{[op |-> "lookup", moves |-> moves]}>>)
           /\ DisturbIf(c, Busy(c) \/ old.isArchived = (r.op = "archiveTransfer"))
  <2>1. disturbed' \subseteq Docs
    BY <1>2, <1>4, DisturbedKnown DEF Inv, Typed
  <2>2. /\ old.source \in Warehouses /\ old.destination \in Warehouses
        /\ DOMAIN Recorded(old) \subseteq Variants /\ \A v \in DOMAIN Recorded(old) : Recorded(old)[v] \in Int
    BY <1>4, TransferFacts
  <2>3. /\ \A m \in moves : /\ m.how \in {"return", "resend"} /\ m.variant \in DOMAIN Recorded(old)
                            /\ m.quantity = Recorded(old)[m.variant]
                            /\ {m.from, m.to} \subseteq {old.source, old.destination}
        /\ \A m, n \in moves : m.variant = n.variant => m = n
    <3> DEFINE M1 == Moves("return", Recorded(old), old.destination, old.source)
               M2 == Moves("resend", Recorded(old), old.source, old.destination)
    <3>1. /\ \A m \in M1 : /\ m.how = "return" /\ m.variant \in DOMAIN Recorded(old)
                           /\ m.quantity = Recorded(old)[m.variant]
                           /\ m.from = old.destination /\ m.to = old.source
          /\ \A m, n \in M1 : m.variant = n.variant => m = n
      BY MovesFacts
    <3>2. /\ \A m \in M2 : /\ m.how = "resend" /\ m.variant \in DOMAIN Recorded(old)
                           /\ m.quantity = Recorded(old)[m.variant]
                           /\ m.from = old.source /\ m.to = old.destination
          /\ \A m, n \in M2 : m.variant = n.variant => m = n
      BY MovesFacts
    <3>3. moves = M1 \/ moves = M2
      OBVIOUS
    <3> HIDE DEF M1, M2, moves, old
    <3> QED
      BY <3>1, <3>2, <3>3
  <2> HIDE DEF moves, old
  <2>4. \A m \in moves : IsMove(m)
    BY <2>2, <2>3 DEF IsMove
  <2>5. Moving(c, moves)
    BY <1>1, <1>4, <2>3 DEF Moving, TransferOps, AsAsked
  <2> QED
    BY <1>1, <1>4, <2>1, <2>4, <2>5, LookupKeeps
<1>5. \/ Refuse(c) /\ UNCHANGED disturbed
      \/ /\ d \in DOMAIN transfers /\ GoOn(c, <<{[op |-> "lookup", moves |-> moves]}>>)
         /\ DisturbIf(c, Busy(c) \/ old.isArchived = (r.op = "archiveTransfer"))
  BY DEF ArchiveTransfer
<1> QED
  BY <1>3, <1>4, <1>5
-----------------------------------------------------------------------------
(* The rows that a movement finds.                                         *)
LEMMA FoundRow ==
  ASSUME NEW quantities \in Seq(Int), NEW newest \in BOOLEAN, NEW i, i = FindRow(quantities, newest)
  PROVE  /\ i \in Nat /\ (i # 0 => i \in DOMAIN quantities) /\ (i = 0 <=> quantities = <<>>)
<1>1. Len(quantities) \in Nat /\ DOMAIN quantities = 1..Len(quantities)
      /\ (quantities = <<>> <=> Len(quantities) = 0)
  OBVIOUS
<1> QED
  BY <1>1 DEF FindRow

(* What was looked up is committed next.                                   *)
LEMMA LookUpStep ==
  ASSUME Inv, NEW c \in Calls, NEW s \in Sent(c), LookUp(c, s),
         UNCHANGED <<total, balance, payments, receipts, archived, overlapped>>
  PROVE  Inv'
<1>1. s.op = "lookup" /\ TablesStay /\ UNCHANGED disturbed
  BY DEF LookUp, TablesStay
<1>2. Proper(c, s) /\ \A t \in After(call[c].stages) : Proper(c, t) /\ Follows(s.op, t.op)
  BY SentFacts DEF Inv
<1>3. PICK newest \in BOOLEAN :
        GoOn(c, <<{[op |-> "commit", moves |-> {
          LET toRow == FindRow(rows[m.variant][m.to], newest)
          IN  [how |-> m.how, variant |-> m.variant, quantity |-> m.quantity,
               from |-> m.from, to |-> m.to, toRow |-> toRow,
               fromRow |-> FindRow(rows[m.variant][m.from], newest),
               seen |-> IF toRow = 0 THEN 0 ELSE rows[m.variant][m.to][toRow]] : m \in s.moves}]}>>)
  BY DEF LookUp
<1> DEFINE toRow(m) == FindRow(rows[m.variant][m.to], newest)
           found(m) == [how |-> m.how, variant |-> m.variant, quantity |-> m.quantity,
                        from |-> m.from, to |-> m.to, toRow |-> toRow(m),
                        fromRow |-> FindRow(rows[m.variant][m.from], newest),
                        seen |-> IF toRow(m) = 0 THEN 0 ELSE rows[m.variant][m.to][toRow(m)]]
           moves == {found(m) : m \in s.moves}
           t == [op |-> "commit", moves |-> moves]
           A == {t}
<1>4. GoOn(c, <<A>>)
  BY <1>3
<1>5. Moving(c, s.moves) /\ \A m \in s.moves : IsMove(m)
  BY <1>1, <1>2, MovingProper
<1>6. ASSUME NEW m \in s.moves
      PROVE  IsFound(found(m)) /\ found(m).variant = m.variant /\ found(m).how = m.how
  <2>1. IsMove(m) /\ m.variant \in Variants /\ m.from \in Places /\ m.to \in Places
    BY <1>5 DEF IsMove, Places
  <2>2. rows[m.variant][m.to] \in Seq(Int) /\ rows[m.variant][m.from] \in Seq(Int)
    BY <2>1, RowsFacts DEF Inv, Typed
  <2>3. /\ toRow(m) \in Nat /\ (toRow(m) # 0 => toRow(m) \in DOMAIN rows[m.variant][m.to])
        /\ FindRow(rows[m.variant][m.from], newest) \in Nat
    BY <2>2, FoundRow
  <2>4. toRow(m) # 0 => rows[m.variant][m.to][toRow(m)] \in Int
    BY <2>2, <2>3
  <2>5. found(m).seen \in Int
    BY <2>4
  <2> QED
    BY <2>1, <2>3, <2>5 DEF IsFound, IsMove
<1>7. \A n \in moves : \E m \in s.moves : n = found(m)
  OBVIOUS
<1>8. t.op = "commit" /\ t.moves = moves
  OBVIOUS
<1> HIDE DEF found, moves
<1>9. \A n \in moves : IsFound(n) /\ \E m \in s.moves : n = found(m) /\ n.variant = m.variant /\ n.how = m.how
  BY <1>6, <1>7
<1>10. Moving(c, moves)
  BY <1>5, <1>9 DEF Moving, AsAsked
<1>11. Proper(c, t)
  BY <1>8, <1>9, <1>10, MovingProper
<1> HIDE DEF t
<1>12. Good(A)
  BY SingleGood
<1>13. ASSUME NEW u \in After(call[c].stages) PROVE Follows(t.op, u.op)
  <2>1. Follows("lookup", u.op) /\ Rank("lookup") = Rank("commit")
    BY <1>1, <1>2 DEF Rank
  <2> QED
    BY <1>8, <2>1 DEF Follows
<1>14. "lookup" \in Solo /\ Grows /\ disturbed' \subseteq Docs /\ overlapped' \in BOOLEAN
  BY <1>1, StayGrows DEF Solo, Inv, Typed
<1>15. \A u \in A : Proper(c, u) /\ u.op # "read" /\ \A x \in After(call[c].stages) : Follows(u.op, x.op)
  BY <1>8, <1>11, <1>13
<1> HIDE DEF A
<1>16. Shaped' /\ CallsOK'
  BY <1>1, <1>4, <1>12, <1>14, <1>15, NextOnward DEF Inv, Good
<1> QED
  BY <1>1, <1>14, <1>16, StayTyped

(* What is left without a quantity, one quantity after the other.          *)
Left(rest, x, q) == IF x = q THEN rest ELSE Append(rest, x)
Leaving(g, f, q, none, n) == g = [i \in 0..n |-> IF i = 0 THEN none ELSE Left(g[i - 1], f[i], q)]

(* The function that leaves a quantity out exists, up to any length.       *)
LEMMA LeavingExists ==
  ASSUME NEW f, NEW q, NEW none, NEW m \in Nat
  PROVE  \E g : Leaving(g, f, q, none, m)
<1> DEFINE S == {n \in Nat : \E g : Leaving(g, f, q, none, n)}
<1>1. 0 \in S
  <2>1. Leaving([i \in 0..0 |-> none], f, q, none, 0)
    BY DEF Leaving
  <2> QED
    BY <2>1
<1>2. ASSUME NEW n \in Nat, n \in S PROVE n + 1 \in S
  <2>1. PICK g : Leaving(g, f, q, none, n)
    BY <1>2
  <2> DEFINE h == [i \in 0..n+1 |-> IF i = n + 1 THEN Left(g[n], f[n + 1], q) ELSE g[i]]
  <2>2. ASSUME NEW i \in 0..n+1
        PROVE  h[i] = IF i = 0 THEN none ELSE Left(h[i - 1], f[i], q)
    BY <2>1 DEF Leaving
  <2>3. Leaving(h, f, q, none, n + 1)
    BY <2>2 DEF Leaving
  <2> QED
    BY <2>3
<1>3. Nat \subseteq S
  <2> HIDE DEF S
  <2> QED
    BY <1>1, <1>2, NatSetInduction
<1> QED
  BY <1>3

(* What is left of quantities are quantities.                              *)
LEMMA WithoutType ==
  ASSUME NEW quantities \in Seq(Int), NEW q
  PROVE  Without(quantities, q) \in Seq(Int)
<1> DEFINE n == Len(quantities)
           g == CHOOSE h : Leaving(h, quantities, q, <<>>, n)
<1>1. Without(quantities, q) = g[n]
  BY DEF Without, Leaving, Left
<1>2. n \in Nat /\ \A i \in 1..n : quantities[i] \in Int
  OBVIOUS
<1>3. Leaving(g, quantities, q, <<>>, n)
  BY <1>2, LeavingExists
<1>4. \A rest \in Seq(Int), x \in Int : Left(rest, x, q) \in Seq(Int)
  BY DEF Left
<1>5. <<>> \in Seq(Int)
  OBVIOUS
<1> HIDE DEF g, n
<1> DEFINE none == <<>>
<1>6. none \in Seq(Int) /\ g = [i \in 0..n |-> IF i = 0 THEN none ELSE Left(g[i - 1], quantities[i], q)]
  BY <1>3, <1>5 DEF Leaving
<1> HIDE DEF none
<1>7. g[0] = none /\ \A i \in 1..n : g[i] = Left(g[i - 1], quantities[i], q)
  BY <1>2, <1>6
<1> DEFINE S == {j \in Nat : g[j] \in Seq(Int)}
<1>8. 0 \in S
  BY <1>6, <1>7
<1>9. ASSUME NEW i \in Nat, i < n, i \in S PROVE i + 1 \in S
  <2>1. i + 1 \in 1..n /\ (i + 1) - 1 = i
    BY <1>2, <1>9
  <2>2. g[i + 1] = Left(g[i], quantities[i + 1], q) /\ g[i] \in Seq(Int) /\ quantities[i + 1] \in Int
    BY <1>2, <1>7, <1>9, <2>1
  <2>3. g[i + 1] \in Seq(Int)
    BY <1>4, <2>2
  <2> QED
    BY <2>3
<1> HIDE DEF S
<1>10. \A i \in 0..n : i \in S
  BY <1>2, <1>8, <1>9, UpToInduction
<1> QED
  BY <1>1, <1>2, <1>10 DEF S
-----------------------------------------------------------------------------
(* A movement.                                                             *)
LEMMA IntoType ==
  ASSUME NEW r \in [Places -> Seq(Int)], NEW w \in Places, NEW found \in Nat, NEW q \in Int
  PROVE  /\ Into(r, w, found, q) \in [Places -> Seq(Int)] /\ OutOf(r, w, found, q) \in [Places -> Seq(Int)]
         /\ OutOfEach(r, w, q) \in [Places -> Seq(Int)]
<1> DEFINE quantities == r[w]
<1>1. quantities \in Seq(Int) /\ \A x \in Seq(Int) : [r EXCEPT ![w] = x] \in [Places -> Seq(Int)]
  OBVIOUS
<1> HIDE DEF quantities
<1>2. Append(quantities, q) \in Seq(Int) /\ AddToEach(quantities, -q) \in Seq(Int)
  BY <1>1, AddedType
<1>3. /\ [quantities EXCEPT ![found] = @ + q] \in Seq(Int)
      /\ [quantities EXCEPT ![found] = @ - q] \in Seq(Int)
  <2> DEFINE n == Len(quantities)
  <2>1. DOMAIN quantities = 1..n /\ quantities \in [1..n -> Int] /\ n \in Nat
    BY <1>1
  <2> HIDE DEF n
  <2>2. \A x \in [1..n -> Int] : x \in Seq(Int)
    BY <2>1
  <2>3. CASE found \in DOMAIN quantities
    <3>1. quantities[found] + q \in Int /\ quantities[found] - q \in Int
      BY <2>1, <2>3
    <3>2. /\ [quantities EXCEPT ![found] = @ + q] \in [1..n -> Int]
          /\ [quantities EXCEPT ![found] = @ - q] \in [1..n -> Int]
      BY <2>1, <3>1
    <3> QED
      BY <2>2, <3>2
  <2>4. CASE found \notin DOMAIN quantities
    <3>1. /\ [quantities EXCEPT ![found] = @ + q] \in [1..n -> Int]
          /\ [quantities EXCEPT ![found] = @ - q] \in [1..n -> Int]
      BY <2>1, <2>4
    <3> QED
      BY <2>2, <3>1
  <2> QED
    BY <2>3, <2>4
<1>4. Increased(quantities, found, q) \in Seq(Int) /\ Decreased(quantities, found, q) \in Seq(Int)
  BY <1>1, <1>2, <1>3 DEF Increased, Decreased
<1> QED
  BY <1>1, <1>2, <1>4 DEF Into, OutOf, OutOfEach, quantities

(* A movement leaves quantities in rows.                                   *)
LEMMA MovedType ==
  ASSUME NEW r \in [Places -> Seq(Int)], NEW m, IsFound(m)
  PROVE  Moved(r, m) \in [Places -> Seq(Int)]
<1> DEFINE T == [Places -> Seq(Int)]
           p == IF m.toRow = 0 THEN Nowhere ELSE m.to
<1>1. /\ m.quantity \in Int /\ m.seen \in Int /\ m.quantity - m.seen \in Int
      /\ m.toRow \in Nat /\ m.fromRow \in Nat /\ m.from \in Places /\ m.to \in Places /\ p \in Places
      /\ m.how \in {"ship", "carry", "return", "resend", "level"}
  BY DEF IsFound, IsMove, Places
<1>2. \A x \in T, w \in Places, found \in Nat, q \in Int :
        Into(x, w, found, q) \in T /\ OutOf(x, w, found, q) \in T /\ OutOfEach(x, w, q) \in T
  BY IntoType
<1>3. r \in T
  OBVIOUS
<1> HIDE DEF T, p
<1>4. Ship(r, m) \in T /\ Carry(r, m) \in T /\ Return(r, m) \in T /\ Level(r, m) \in T
  BY <1>1, <1>2, <1>3 DEF Ship, Carry, Return, Level
<1>5. Resend(r, m) \in T
  BY <1>1, <1>2, <1>3 DEF Resend, p
<1>6. Moved(r, m) \in T
  BY <1>1, <1>4, <1>5 DEF Moved
<1> QED
  BY <1>6 DEF T

(* The transfer that a handler commits.                                    *)
LEMMA ItemsAfterType ==
  ASSUME NEW old, DOMAIN old.items \subseteq Variants,
         \A v \in DOMAIN old.items : old.items[v] \in Seq(Int) \ {<<>>},
         NEW r, r.op = "updateTransfer", NEW moves, \A m \in moves : IsFound(m) /\ AsAsked(r, m),
         \A m, n \in moves : m.variant = n.variant => m = n,
         NEW items, items = ItemsAfter(old, r, moves)
  PROVE  DOMAIN items \subseteq Variants /\ items \in [DOMAIN items -> Seq(Int) \ {<<>>}]
<1> DEFINE was(v) == IF v \in DOMAIN old.items THEN old.items[v] ELSE <<>>
           gone(v) == CHOOSE m \in moves : m.variant = v
           after(v) == CASE \E m \in moves : m.variant = v /\ m.how = "ship" -> Append(was(v), r.items[v])
                         [] \E m \in moves : m.variant = v /\ m.how = "level" /\ m.toRow # 0 ->
                              [i \in DOMAIN was(v) |-> r.items[v]]
                         [] \E m \in moves : m.variant = v /\ m.how = "return" ->
                              Without(was(v), gone(v).quantity)
                         [] OTHER -> was(v)
<1>1. items = [v \in {u \in Variants : after(u) # <<>>} |-> after(v)]
  BY DEF ItemsAfter
<1> DEFINE shipped(v) == \E m \in moves : m.variant = v /\ m.how = "ship"
           levelled(v) == \E m \in moves : m.variant = v /\ m.how = "level" /\ m.toRow # 0
           returned(v) == \E m \in moves : m.variant = v /\ m.how = "return"
<1>2. ASSUME NEW v \in Variants PROVE after(v) \in Seq(Int)
  <2>1. was(v) \in Seq(Int)
    <3>1. <<>> \in Seq(Int)
      OBVIOUS
    <3> QED
      BY <3>1
  <2>2. (\E m \in moves : m.variant = v /\ m.how \in {"ship", "level"}) => r.items[v] \in Int
    BY TransfersAssumption DEF AsAsked
  <2> HIDE DEF was, gone
  <2>3. Without(was(v), gone(v).quantity) \in Seq(Int)
    BY <2>1, WithoutType
  <2>4. \A x \in Int : Append(was(v), x) \in Seq(Int) /\ [i \in DOMAIN was(v) |-> x] \in Seq(Int)
    BY <2>1
  <2>5. ~ (shipped(v) /\ levelled(v)) /\ ~ (shipped(v) /\ returned(v)) /\ ~ (levelled(v) /\ returned(v))
    OBVIOUS
  <2> DEFINE level == [i \in DOMAIN was(v) |-> r.items[v]]
             left == Without(was(v), gone(v).quantity)
  <2>6. after(v) = CASE shipped(v) -> Append(was(v), r.items[v])
                     [] levelled(v) -> level [] returned(v) -> left [] OTHER -> was(v)
    OBVIOUS
  <2>7. /\ shipped(v) => Append(was(v), r.items[v]) \in Seq(Int)
        /\ levelled(v) => level \in Seq(Int)
    BY <2>2, <2>4
  <2> HIDE DEF after, level, left, shipped, levelled, returned
  <2> QED
    BY <2>1, <2>3, <2>5, <2>6, <2>7 DEF left
<1> HIDE DEF after
<1> QED
  BY <1>1, <1>2

(* What a handler commits is a transfer.                                   *)
LEMMA CommittedType ==
  ASSUME Inv, NEW c \in Calls, NEW moves, Moving(c, moves), \A m \in moves : IsFound(m),
         Understood(c, Request(c)),
         Request(c).op \in {"createTransfer", "updateTransfer"} => Request(c).reason \in reasons \cup {None}
  PROVE  IsTransfer(Committed(c, moves), reasons)
<1> DEFINE r == Request(c)
           d == r.doc[2]
           old == transfers[d]
<1>1. r.op \in TransferOps
  BY DEF Moving
<1>2. CASE r.op = "createTransfer"
  <2> DEFINE new == [reason |-> r.reason, source |-> r.source, destination |-> r.destination,
                     isArchived |-> FALSE, items |-> Rows(r.items)]
  <2>1. r.source \in Warehouses /\ r.destination \in Warehouses /\ r.reason \in reasons \cup {None}
    BY <1>2 DEF Moving
  <2>2. r.items \in Shipments
    BY <1>2 DEF Understood
  <2>3. DOMAIN r.items \subseteq Variants /\ \A v \in DOMAIN r.items : r.items[v] \in Int
    BY <2>2, TransfersAssumption
  <2> HIDE DEF r
  <2>4. \A q \in Int : <<q>> \in Seq(Int) \ {<<>>}
    OBVIOUS
  <2>5. DOMAIN Rows(r.items) \subseteq Variants /\ Rows(r.items) \in [DOMAIN Rows(r.items) -> Seq(Int) \ {<<>>}]
    BY <2>3, <2>4 DEF Rows
  <2>6. IsTransfer(new, reasons)
    BY <2>1, <2>5 DEF IsTransfer
  <2>7. Committed(c, moves) = new
    BY <1>2 DEF Committed, r
  <2> QED
    BY <2>6, <2>7
<1>3. CASE r.op = "updateTransfer"
  <2> DEFINE items == ItemsAfter(old, r, moves)
             new == [reason |-> Else(r.reason, old.reason), source |-> Else(r.source, old.source),
                     destination |-> Else(r.destination, old.destination),
                     isArchived |-> old.isArchived, items |-> items]
  <2>1. d \in DOMAIN transfers
    BY <1>3 DEF Moving
  <2>2. /\ IsTransfer(old, reasons) /\ DOMAIN old.items \subseteq Variants
        /\ \A v \in DOMAIN old.items : old.items[v] \in Seq(Int) \ {<<>>}
    BY <2>1, TransferFacts
  <2>3. /\ \A m \in moves : IsFound(m) /\ AsAsked(r, m)
        /\ \A m, n \in moves : m.variant = n.variant => m = n
    BY DEF Moving
  <2>4. DOMAIN items \subseteq Variants /\ items \in [DOMAIN items -> Seq(Int) \ {<<>>}]
    BY <1>3, <2>2, <2>3, ItemsAfterType
  <2>5. /\ r.source \in Warehouses \cup {None} /\ r.destination \in Warehouses \cup {None}
        /\ r.reason \in reasons \cup {None}
    BY <1>3 DEF Moving
  <2>6. Committed(c, moves) = new
    BY <1>3 DEF Committed
  <2> HIDE DEF items, r, old
  <2>7. /\ Else(r.source, old.source) \in Warehouses /\ Else(r.destination, old.destination) \in Warehouses
        /\ Else(r.reason, old.reason) \in reasons \cup {None} /\ old.isArchived \in BOOLEAN
    BY <2>2, <2>5 DEF IsTransfer, Else
  <2>8. IsTransfer(new, reasons)
    BY <2>4, <2>7 DEF IsTransfer
  <2> QED
    BY <2>6, <2>8
<1>4. CASE r.op \in {"archiveTransfer", "restoreTransfer"}
  <2> DEFINE mark == r.op = "archiveTransfer"
             new == [old EXCEPT !.isArchived = mark]
  <2>1. IsTransfer(old, reasons)
    BY <1>4, TransferFacts DEF Moving
  <2>2. mark \in BOOLEAN
    OBVIOUS
  <2>3. Committed(c, moves) = new
    BY <1>4 DEF Committed
  <2> HIDE DEF mark, old
  <2>4. IsTransfer(new, reasons)
    BY <2>1, <2>2 DEF IsTransfer
  <2> QED
    BY <2>3, <2>4
<1> QED
  BY <1>1, <1>2, <1>3, <1>4 DEF TransferOps
(* The transaction of a transfer: its rows and itself.                     *)
LEMMA CommitStep ==
  ASSUME Inv, NEW c \in Calls, NEW s \in Sent(c), Commit(c, s),
         UNCHANGED <<total, balance, payments, receipts, archived, overlapped>>
  PROVE  Inv'
<1> DEFINE r == Request(c)
           d == r.doc[2]
           its(v) == CHOOSE m \in s.moves : m.variant = v
           new == Committed(c, s.moves)
<1>1. s.op = "commit" /\ Executed(c, s) /\ transfers' = Put(transfers, d, new) /\ UNCHANGED reasons
  BY DEF Commit
<1>2. Proper(c, s) /\ Understood(c, r) /\ Running(c)
  BY SentFacts DEF Inv
<1>3. Moving(c, s.moves) /\ \A m \in s.moves : IsFound(m)
  BY <1>1, <1>2, MovingProper
<1>4. disturbed' \subseteq Docs
  BY <1>2, DisturbedKnown DEF Commit, Inv, Typed
<1>5. IsTransfer(new, reasons)
  BY <1>2, <1>3, CommittedType DEF Commit
<1>6. d \in Ids
  <2>1. CASE r.op = "createTransfer"
    <3>1. d = c
      BY <1>2, <2>1 DEF Understood
    <3> QED
      BY <3>1 DEF Ids
  <2>2. CASE r.op # "createTransfer"
    BY <1>3, <2>2 DEF Moving, Inv, Tables
  <2> QED
    BY <2>1, <2>2
<1> HIDE DEF new, d
<1>7. /\ DOMAIN transfers' \subseteq Ids /\ transfers' = [x \in DOMAIN transfers' |-> transfers'[x]]
      /\ DOMAIN transfers \subseteq DOMAIN transfers'
      /\ \A x \in DOMAIN transfers' : IsTransfer(transfers'[x], reasons)
  <2>1. /\ DOMAIN transfers' = DOMAIN transfers \cup {d} /\ transfers' = [x \in DOMAIN transfers' |-> transfers'[x]]
        /\ transfers'[d] = new /\ \A x \in DOMAIN transfers : x # d => transfers'[x] = transfers[x]
    BY <1>1 DEF Put
  <2>2. DOMAIN transfers \subseteq Ids /\ \A x \in DOMAIN transfers : IsTransfer(transfers[x], reasons)
    BY DEF Inv, Tables
  <2>3. \A x \in DOMAIN transfers' : IsTransfer(transfers'[x], reasons)
    BY <1>5, <2>1, <2>2
  <2> QED
    BY <1>6, <2>1, <2>2, <2>3
<1>8. rows' \in [Variants -> [Places -> Seq(Int)]]
  <2> DEFINE moved(v) == IF \E m \in s.moves : m.variant = v THEN Moved(rows[v], its(v)) ELSE rows[v]
  <2>1. rows' = [v \in Variants |-> moved(v)]
    BY DEF Commit
  <2>2. ASSUME NEW v \in Variants PROVE moved(v) \in [Places -> Seq(Int)]
    <3>1. rows[v] \in [Places -> Seq(Int)]
      BY DEF Inv, Typed, RowsTypeOK
    <3>2. (\E m \in s.moves : m.variant = v) => IsFound(its(v))
      BY <1>3
    <3>3. IsFound(its(v)) => Moved(rows[v], its(v)) \in [Places -> Seq(Int)]
      BY <3>1, MovedType
    <3> HIDE DEF its
    <3> QED
      BY <3>1, <3>2, <3>3
  <2> HIDE DEF moved
  <2> QED
    BY <2>1, <2>2
<1>9. Tables' /\ Grows
  BY <1>1, <1>7 DEF Inv, Tables, Grows
<1>10. Typed'
  BY <1>4, <1>8 DEF Inv, Typed, RowsTypeOK
<1> QED
  BY <1>1, <1>9, <1>10, ExecutedKeeps

(* The reasons.                                                            *)
LEMMA CreateReasonStep ==
  ASSUME Inv, NEW c \in Calls, NEW s \in Sent(c), CreateReason(c, s),
         UNCHANGED <<total, balance, payments, receipts, archived, overlapped>>
  PROVE  Inv'
<1>1. reasons' = reasons \cup {c} /\ Executed(c, s) /\ UNCHANGED <<rows, transfers, disturbed>>
  BY DEF CreateReason
<1>2. \A x : IsTransfer(x, reasons) => IsTransfer(x, reasons')
  BY <1>1 DEF IsTransfer
<1>3. reasons' \subseteq OpeningReasons \cup Calls
  BY <1>1 DEF Inv, Tables
<1>4. Tables' /\ Grows
  BY <1>1, <1>2, <1>3 DEF Inv, Tables, Grows
<1>5. Typed'
  BY <1>1 DEF Inv, Typed, RowsTypeOK
<1> QED
  BY <1>1, <1>4, <1>5, ExecutedKeeps

(* The transfers of a reason are counted.                                  *)
LEMMA CountTransfersStep ==
  ASSUME Inv, NEW c \in Calls, NEW s \in Sent(c), CountTransfers(c, s),
         UNCHANGED <<total, balance, payments, receipts, archived, overlapped>>
  PROVE  Inv'
<1> DEFINE t == [op |-> "deleteReason"]
           more == <<{t}>>
<1>1. /\ s.op = "read" /\ Request(c).op = "removeReason" /\ TablesStay /\ UNCHANGED disturbed
      /\ Refuse(c) \/ GoOn(c, more)
  BY DEF CountTransfers, TablesStay
<1>2. Proper(c, t) /\ t.op # "read" /\ disturbed' \subseteq Docs
  BY <1>1 DEF Proper, Inv, Typed
<1> HIDE DEF t
<1>3. Orderly(more) /\ All(more) = {t}
  BY SingleGood, GoodOrderly
<1> HIDE DEF more
<1> QED
  BY <1>1, <1>2, <1>3, RefuseKeeps, ReadKeeps

(* A reason is deleted, and taken from its transfers: they still name      *)
(* reasons that are there.                                                 *)
LEMMA DeleteReasonStep ==
  ASSUME Inv, NEW c \in Calls, NEW s \in Sent(c), DeleteReason(c, s),
         UNCHANGED <<total, balance, payments, receipts, archived, overlapped>>
  PROVE  Inv'
<1> DEFINE d == Request(c).doc[2]
           now(x) == [x EXCEPT !.reason = IF @ = d THEN None ELSE @]
<1>1. /\ reasons' = reasons \ {d} /\ Executed(c, s) /\ UNCHANGED <<rows, disturbed>>
      /\ transfers' = [t \in DOMAIN transfers |-> now(transfers[t])]
  BY DEF DeleteReason
<1> HIDE DEF d
<1>2. \A x : IsTransfer(x, reasons) => IsTransfer(now(x), reasons')
  BY <1>1 DEF IsTransfer
<1> HIDE DEF now
<1>3. reasons' \subseteq OpeningReasons \cup Calls
  BY <1>1 DEF Inv, Tables
<1>4. DOMAIN transfers' = DOMAIN transfers /\ \A t \in DOMAIN transfers' : IsTransfer(transfers'[t], reasons')
  BY <1>1, <1>2 DEF Inv, Tables
<1>5. transfers' = [t \in DOMAIN transfers' |-> transfers'[t]]
  BY <1>1
<1>6. Tables' /\ Grows
  BY <1>1, <1>3, <1>4, <1>5 DEF Inv, Tables, Grows
<1>7. Typed'
  BY <1>1 DEF Inv, Typed, RowsTypeOK
<1> QED
  BY <1>1, <1>6, <1>7, ExecutedKeeps
-----------------------------------------------------------------------------
(* Warehouses.                                                             *)
LEMMA ArchiveWarehouseStep ==
  ASSUME Inv, NEW c \in Calls, NEW s \in Sent(c), ArchiveWarehouse(c, s),
         UNCHANGED <<total, balance, payments, receipts, transfers, reasons, overlapped>>
  PROVE  Inv'
<1> DEFINE t == [op |-> "closeWarehouse"]
           more == <<{t}>>
<1>1. /\ s.op = "read" /\ Request(c).op = "archiveWarehouse" /\ TablesStay /\ UNCHANGED disturbed
      /\ Refuse(c) \/ (Request(c).doc[2] \in Warehouses /\ GoOn(c, more))
  BY DEF ArchiveWarehouse, TablesStay
<1>2. disturbed' \subseteq Docs
  BY <1>1 DEF Inv, Typed
<1>3. Request(c).doc[2] \in Warehouses => Proper(c, t) /\ t.op # "read"
  BY <1>1 DEF Proper
<1> HIDE DEF t
<1>4. Orderly(more) /\ All(more) = {t}
  BY SingleGood, GoodOrderly
<1> HIDE DEF more
<1> QED
  BY <1>1, <1>2, <1>3, <1>4, RefuseKeeps, ReadKeeps

(* A warehouse is closed or opened.                                        *)
LEMMA SetWarehouseStep ==
  ASSUME Inv, NEW c \in Calls, NEW s \in Sent(c), CloseWarehouse(c, s) \/ OpenWarehouse(c, s),
         UNCHANGED <<total, balance, payments, receipts, transfers, reasons, overlapped>>
  PROVE  Inv'
<1> DEFINE d == Request(c).doc[2]
<1>1. /\ s.op \in {"closeWarehouse", "openWarehouse"} /\ Executed(c, s) /\ UNCHANGED <<rows, disturbed>>
      /\ archived' \in {archived \cup {d}, archived \ {d}}
  BY DEF CloseWarehouse, OpenWarehouse
<1>2. Proper(c, s)
  BY SentFacts DEF Inv
<1>3. d \in Warehouses
  BY <1>1, <1>2 DEF Proper
<1>4. Tables' /\ Grows
  BY <1>1 DEF Inv, Tables, Grows
<1>5. Typed'
  BY <1>1, <1>3 DEF Inv, Typed, RowsTypeOK
<1> QED
  BY <1>1, <1>4, <1>5, ExecutedKeeps

(* What restore of a warehouse sends.                                      *)
LEMMA RestoreWarehouseStep ==
  ASSUME Inv, NEW c \in Calls, NEW s \in Sent(c), RestoreWarehouse(c, s),
         UNCHANGED <<total, balance, payments, receipts, transfers, reasons, overlapped>>
  PROVE  Inv'
<1> DEFINE A == {[op |-> "countPositive"]}
           B == {[op |-> "countNegative"]}
           C == {[op |-> "openWarehouse"]}
           more == <<A, B, C>>
<1>1. /\ s.op = "read" /\ Request(c).op = "restoreWarehouse" /\ TablesStay /\ UNCHANGED disturbed
      /\ Refuse(c) \/ (Request(c).doc[2] \in Warehouses /\ GoOn(c, more))
  BY DEF RestoreWarehouse, TablesStay
<1>2. disturbed' \subseteq Docs
  BY <1>1 DEF Inv, Typed
<1>3. /\ \A t \in A : t.op = "countPositive"
      /\ \A t \in B : t.op = "countNegative"
      /\ \A t \in C : t.op = "openWarehouse"
      /\ Good(A) /\ Good(B) /\ Good(C)
  <2>1. Good(A) /\ Good(B) /\ Good(C)
    BY SingleGood
  <2> QED
    BY <2>1
<1> HIDE DEF A, B, C
<1>4. Request(c).doc[2] \in Warehouses => \A t \in A \cup B \cup C : Proper(c, t) /\ t.op # "read"
  BY <1>1, <1>3 DEF Proper
<1>5. /\ \A t \in A, u \in B : Follows(t.op, u.op)
      /\ \A t \in A \cup B, u \in C : Follows(t.op, u.op)
  BY <1>3 DEF Follows, Rank
<1>6. Orderly(more) /\ All(more) = A \cup B \cup C
  BY <1>3, <1>5, ThreeOrderly
<1> HIDE DEF more
<1> QED
  BY <1>1, <1>2, <1>4, <1>6, RefuseKeeps, ReadKeeps

(* The goods in a warehouse are counted.                                   *)
LEMMA CountGoodsStep ==
  ASSUME Inv, NEW c \in Calls, NEW s \in Sent(c), CountGoods(c, s),
         UNCHANGED <<total, balance, payments, receipts, transfers, reasons, overlapped>>
  PROVE  Inv'
<1>1. TablesStay /\ UNCHANGED disturbed /\ (Refuse(c) \/ Executed(c, s))
  BY DEF CountGoods, TablesStay
<1>2. Tables' /\ Grows /\ Typed'
  BY <1>1 DEF TablesStay, Inv, Tables, Typed, RowsTypeOK, Grows
<1> QED
  BY <1>1, <1>2, RefuseKeeps, ExecutedKeeps
-----------------------------------------------------------------------------
(* Requests, crashes, and the whole of a step.                             *)
LEMMA ReceiveStep ==
  ASSUME Inv, NEW c \in Calls, ReceiveRequest(c)
  PROVE  Inv'
<1>1. PICK r \in Requests : Receive(c, [r EXCEPT !.doc[2] = IF @ = None THEN c ELSE @])
  BY DEF ReceiveRequest
<1> DEFINE q == [r EXCEPT !.doc[2] = IF @ = None THEN c ELSE @]
<1>2. Understood(c, q)
  BY RequestsUnderstood
<1> HIDE DEF q
<1>3. TablesStay /\ overlapped' \in BOOLEAN /\ UNCHANGED disturbed
  BY <1>1 DEF ReceiveRequest, TablesStay, Receive, Inv, Typed, q
<1>4. /\ Shaped' /\ Alone(c)
      /\ call'[c].at = "running" /\ call'[c].request = q /\ call'[c].stages = Reading
  BY <1>1, ReceiveEffect DEF Inv, q
<1>5. \A b \in Calls \ {c} : CallOK(b)'
  BY <1>3, <1>4, OtherCallsOK, StayGrows DEF Inv, Alone
<1>6. CallOK(c)'
  <2> DEFINE t == [op |-> "read"]
             A == {t}
  <2>1. Orderly(<<A>>) /\ All(<<A>>) = A
    BY SingleGood, GoodOrderly
  <2>2. Reading = <<A>> /\ <<A>> # <<>> /\ <<A>>[1] # {} /\ t.op = "read"
    BY DEF Reading
  <2>3. Running(c)' /\ Request(c)' = q
    BY <1>4 DEF Running, Request
  <2> HIDE DEF t
  <2>4. Proper(c, t)'
    BY <2>2 DEF Proper
  <2>5. call'[c].stages = <<A>> /\ Pending(c)' = A
    BY <1>4, <2>1, <2>2 DEF Pending
  <2>6. \A s \in A : Proper(c, s)'
    BY <2>4
  <2>7. <<A>> = <<{[op |-> "read"]}>>
    BY DEF t
  <2>8. Understood(c, Request(c))'
    BY <1>2, <2>3
  <2> HIDE DEF A
  <2> QED
    BY <2>1, <2>2, <2>3, <2>5, <2>6, <2>7, <2>8 DEF CallOK
<1>7. CallsOK'
  BY <1>5, <1>6 DEF CallsOK
<1>8. disturbed' \subseteq Docs
  BY <1>3 DEF Inv, Typed
<1> QED
  BY <1>3, <1>4, <1>7, <1>8, StayTyped

(* The server stops and starts.                                            *)
LEMMA CrashStep ==
  ASSUME Inv, Crash
  PROVE  Inv'
<1>1. TablesStay /\ overlapped' = overlapped /\ Restart
  BY DEF Crash, TablesStay
<1>2. /\ Shaped'
      /\ \A c \in Calls : IF Running(c) THEN call'[c] = [Blank EXCEPT !.at = "aborted"] ELSE call'[c] = call[c]
  BY <1>1, RestartEffect DEF Inv
<1>3. ASSUME NEW c \in Calls PROVE CallOK(c)'
  <2>1. CASE ~ Running(c)
    BY <1>1, <1>2, <2>1, OtherCallsOK, StayGrows DEF Inv
  <2>2. CASE Running(c)
    <3>1. call'[c].at = "aborted" /\ call'[c].stages = <<>>
      BY <1>2, <2>2 DEF Blank
    <3>2. ~ Running(c)' /\ Pending(c)' = {}
      BY <3>1, NoneOrderly DEF Running, Pending
    <3> QED
      BY <3>1, <3>2, NoneOrderly DEF CallOK
  <2> QED
    BY <2>1, <2>2
<1>4. disturbed' \subseteq Docs
  <2>1. \A c \in Calls : Running(c) => Request(c).doc \in Docs
    BY DocsKnown DEF Inv
  <2> QED
    BY <1>1, <2>1 DEF Restart, Inv, Typed
<1>5. CallsOK' /\ overlapped' \in BOOLEAN
  BY <1>1, <1>3 DEF CallsOK, Inv, Typed
<1> QED
  BY <1>1, <1>2, <1>4, <1>5, StayTyped

(* A statement, or a read, of call c.                                      *)
LEMMA ServeStep ==
  ASSUME Inv, NEW c \in Calls, Serve(c)
  PROVE  Inv'
<1>1. PICK s \in Sent(c) :
        /\ \/ ReceiptStep(c, s) /\ UNCHANGED <<transfers, reasons, archived>>
           \/ TransferStep(c, s) /\ UNCHANGED <<total, balance, payments, receipts, archived>>
           \/ PremisesStep(c, s) /\ UNCHANGED <<total, balance, payments, receipts, transfers, reasons>>
           \/ LoseStatement(c, s)
        /\ UNCHANGED overlapped
  BY DEF Serve
<1>2. CASE ReceiptStep(c, s) /\ UNCHANGED <<transfers, reasons, archived>>
  <2>1. CASE PaymentStep(c, s) /\ UNCHANGED <<rows, total, receipts>>
    <3>1. CASE UpdateBalance(c, s)
      BY <1>1, <1>2, <2>1, <3>1, UpdateBalanceStep
    <3>2. CASE WritePayment(c, s)
      BY <1>1, <1>2, <2>1, <3>2, WritePaymentStep
    <3>3. CASE CreatePayment(c, s)
      <4>1. TablesStay
        BY <1>2, <2>1, <3>3 DEF TablesStay, CreatePayment
      <4> QED
        BY <1>1, <3>3, <4>1, CreatePaymentStep
    <3>4. CASE UpdatePayment(c, s)
      <4>1. TablesStay
        BY <1>2, <2>1, <3>4 DEF TablesStay, UpdatePayment
      <4> QED
        BY <1>1, <3>4, <4>1, UpdatePaymentStep
    <3> QED
      BY <2>1, <3>1, <3>2, <3>3, <3>4 DEF PaymentStep
  <2>2. CASE IncrementTotal(c, s)
    BY <1>1, <1>2, <2>2, IncrementTotalStep
  <2>3. CASE IncrementRows(c, s)
    BY <1>1, <1>2, <2>3, IncrementRowsStep
  <2>4. CASE IncrementEverywhere(c, s)
    BY <1>1, <1>2, <2>4, IncrementEverywhereStep
  <2>5. CASE CreateReceipt(c, s)
    BY <1>1, <1>2, <2>5, CreateReceiptStep
  <2>6. CASE RecordReceipt(c, s)
    BY <1>1, <1>2, <2>6, RecordReceiptStep
  <2>7. CASE UpdateReceipt(c, s)
    BY <1>1, <1>2, <2>7, UpdateReceiptStep
  <2>8. CASE RereadLines(c, s)
    BY <1>1, <1>2, <2>8, RereadLinesStep
  <2>9. CASE WriteLine(c, s)
    BY <1>1, <1>2, <2>9, WriteLineStep
  <2>10. CASE RewriteReceipt(c, s)
    BY <1>1, <1>2, <2>10, RewriteReceiptStep
  <2>11. CASE ArchiveReceipt(c, s)
    BY <1>1, <1>2, <2>11, ArchiveReceiptStep
  <2>12. CASE MarkReceipt(c, s)
    BY <1>1, <1>2, <2>12, MarkReceiptStep
  <2>13. CASE FailRefused(c, s)
    BY <1>1, <1>2, <2>13, FailRefusedStep
  <2> QED
    BY <1>2, <2>1, <2>2, <2>3, <2>4, <2>5, <2>6, <2>7, <2>8, <2>9, <2>10, <2>11, <2>12, <2>13 DEF ReceiptStep
<1>3. CASE TransferStep(c, s) /\ UNCHANGED <<total, balance, payments, receipts, archived>>
  <2>1. CASE CreateTransfer(c, s)
    BY <1>1, <1>3, <2>1, CreateTransferStep
  <2>2. CASE UpdateTransfer(c, s)
    BY <1>1, <1>3, <2>2, UpdateTransferStep
  <2>3. CASE ArchiveTransfer(c, s)
    BY <1>1, <1>3, <2>3, ArchiveTransferStep
  <2>4. CASE LookUp(c, s)
    BY <1>1, <1>3, <2>4, LookUpStep
  <2>5. CASE Commit(c, s)
    BY <1>1, <1>3, <2>5, CommitStep
  <2>6. CASE CreateReason(c, s)
    BY <1>1, <1>3, <2>6, CreateReasonStep
  <2>7. CASE CountTransfers(c, s)
    BY <1>1, <1>3, <2>7, CountTransfersStep
  <2>8. CASE DeleteReason(c, s)
    BY <1>1, <1>3, <2>8, DeleteReasonStep
  <2> QED
    BY <1>3, <2>1, <2>2, <2>3, <2>4, <2>5, <2>6, <2>7, <2>8 DEF TransferStep
<1>4. CASE PremisesStep(c, s) /\ UNCHANGED <<total, balance, payments, receipts, transfers, reasons>>
  <2>1. CASE ArchiveWarehouse(c, s)
    BY <1>1, <1>4, <2>1, ArchiveWarehouseStep
  <2>2. CASE CloseWarehouse(c, s) \/ OpenWarehouse(c, s)
    BY <1>1, <1>4, <2>2, SetWarehouseStep
  <2>3. CASE RestoreWarehouse(c, s)
    BY <1>1, <1>4, <2>3, RestoreWarehouseStep
  <2>4. CASE CountGoods(c, s)
    BY <1>1, <1>4, <2>4, CountGoodsStep
  <2> QED
    BY <1>4, <2>1, <2>2, <2>3, <2>4 DEF PremisesStep
<1>5. CASE LoseStatement(c, s)
  <2>1. Lose(c, s) /\ TablesStay
    BY <1>5 DEF LoseStatement, TablesStay
  <2> QED
    BY <1>1, <2>1, LoseKeeps
<1> QED
  BY <1>1, <1>2, <1>3, <1>4, <1>5

(* To begin with.                                                          *)
LEMMA InitTyped ==
  ASSUME Init
  PROVE  Inv
<1>1. Shaped
  BY DEF Init, HandlersInit, Shaped, Record, Blank
<1>2. CallsOK
  <2>1. ASSUME NEW c \in Calls PROVE CallOK(c)
    <3>1. call[c].stages = <<>> /\ ~ Running(c)
      BY DEF Init, HandlersInit, Blank, Running
    <3>2. Pending(c) = {}
      BY <3>1, NoneOrderly DEF Pending
    <3> QED
      BY <3>1, <3>2, NoneOrderly DEF CallOK
  <2> QED
    BY <2>1 DEF CallsOK
<1>3. Tables
  <2>1. OpeningIds \subseteq Ids
    BY DEF Ids
  <2> QED
    BY <2>1, OpeningAssumption DEF Init, Tables
<1>4. RowsTypeOK
  <2>1. rows \in [Variants -> [Places -> Seq(Int)]]
    BY RowsAssumption DEF Init, RowsInit
  <2>2. ASSUME NEW v \in Variants PROVE InStock(OpeningRows, v) \in Int
    <3> DEFINE f == [w \in 1..(NWarehouses + 1) |-> InPlace(OpeningRows, v, w - 1)]
    <3>1. ASSUME NEW w \in Places PROVE InPlace(OpeningRows, v, w) \in Int
      <4> DEFINE q == OpeningRows[v][w]
      <4>1. q \in Seq(Int)
        BY RowsAssumption
      <4> HIDE DEF q
      <4>2. Len(q) \in Nat /\ q \in [1..Len(q) -> Int]
        BY <4>1
      <4>3. SumTo(q, Len(q)) \in Int
        BY <4>2, SumType
      <4> QED
        BY <4>3 DEF InPlace, q
    <3>2. NWarehouses + 1 \in Nat /\ \A w \in 1..(NWarehouses + 1) : w - 1 \in Places
      BY RowsAssumption DEF Places, Warehouses, Nowhere
    <3>3. f \in [1..(NWarehouses + 1) -> Int]
      BY <3>1, <3>2
    <3> HIDE DEF f
    <3>4. SumTo(f, NWarehouses + 1) \in Int
      BY <3>2, <3>3, SumType
    <3> QED
      BY <3>4 DEF f, InStock
  <2>3. total = [v \in Variants |-> InStock(OpeningRows, v)]
    BY DEF Init, RowsInit
  <2> QED
    BY <2>1, <2>2, <2>3 DEF RowsTypeOK
<1>5. Typed
  <2>1. balance \in [Suppliers -> {0}] /\ disturbed = {} /\ archived = OpeningArchived /\ overlapped = FALSE
    BY DEF Init, HandlersInit
  <2>2. balance \in [Suppliers -> Int]
    BY <2>1
  <2> QED
    BY <1>4, <2>1, <2>2, OpeningAssumption DEF Typed
<1> QED
  BY <1>1, <1>2, <1>3, <1>5 DEF Inv

(* The tables, the calls and what they are about to send hold what they    *)
(* are meant to, in every state that can be reached.                       *)
THEOREM InvHolds == Spec => []Inv
<1>1. Init => Inv
  BY InitTyped
<1>2. Inv /\ [Next]_vars => Inv'
  <2> SUFFICES ASSUME Inv, [Next]_vars PROVE Inv'
    OBVIOUS
  <2>1. CASE Crash
    BY <2>1, CrashStep
  <2>2. ASSUME NEW c \in Calls, ReceiveRequest(c) PROVE Inv'
    BY <2>2, ReceiveStep
  <2>3. ASSUME NEW c \in Calls, Serve(c) PROVE Inv'
    BY <2>3, ServeStep
  <2>4. CASE UNCHANGED vars
    <3>1. TablesStay /\ UNCHANGED <<call, disturbed, overlapped>>
      BY <2>4 DEF vars, TablesStay
    <3>2. CallsOK'
      BY <3>1, OtherCallsOK, StayGrows DEF Inv, CallsOK
    <3>3. Shaped' /\ disturbed' \subseteq Docs /\ overlapped' \in BOOLEAN
      BY <3>1 DEF Inv, Shaped, Record, Typed
    <3> QED
      BY <3>1, <3>2, <3>3, StayTyped
  <2> QED
    BY <2>1, <2>2, <2>3, <2>4 DEF Next
<1> QED
  BY <1>1, <1>2, PTL DEF Spec

(* TypeOK of the run: the rows of the tables, the statements of the calls  *)
(* and the documents of the history are what they are meant to be.         *)
THEOREM TypeCorrect == Spec => []TypeOK
<1>1. Inv => TypeOK
  BY SentFacts DEF Inv, TypeOK, Tables, Typed
<1> QED
  BY <1>1, InvHolds, PTL
-----------------------------------------------------------------------------
(* One call at a time.                                                     *)

(* What the step of a call does to the calls.                              *)
Proceeds(c, s) == Executed(c, s) \/ Lose(c, s) \/ Refuse(c) \/ \E more : GoOn(c, more)

CallStep(c, s) ==
  \/ ReceiptStep(c, s) /\ UNCHANGED <<transfers, reasons, archived>>
  \/ TransferStep(c, s) /\ UNCHANGED <<total, balance, payments, receipts, archived>>
  \/ PremisesStep(c, s) /\ UNCHANGED <<total, balance, payments, receipts, transfers, reasons>>
  \/ LoseStatement(c, s)

(* A statement succeeds, fails, or is a read after which the handler       *)
(* throws or goes on.                                                      *)
LEMMA ServeProceeds ==
  ASSUME NEW c \in Calls, NEW s \in Sent(c), CallStep(c, s)
  PROVE  Proceeds(c, s) /\ (~ Executed(c, s) /\ ~ Lose(c, s) /\ ~ Refuse(c) => s.op \in {"read", "reread", "lookup"})
<1>1. CASE PaymentStep(c, s)
  BY <1>1 DEF Proceeds, PaymentStep, UpdateBalance, WritePayment, CreatePayment, UpdatePayment
<1>2. CASE CreateReceipt(c, s) \/ UpdateReceipt(c, s) \/ RereadLines(c, s) \/ ArchiveReceipt(c, s)
  BY <1>2 DEF Proceeds, CreateReceipt, UpdateReceipt, RereadLines, ArchiveReceipt
<1>3. CASE \/ IncrementTotal(c, s) \/ IncrementRows(c, s) \/ IncrementEverywhere(c, s) \/ RecordReceipt(c, s)
           \/ WriteLine(c, s) \/ RewriteReceipt(c, s) \/ MarkReceipt(c, s) \/ FailRefused(c, s)
  BY <1>3 DEF Proceeds, IncrementTotal, IncrementRows, IncrementEverywhere, RecordReceipt, WriteLine,
       RewriteReceipt, MarkReceipt, FailRefused
<1>4. CASE TransferStep(c, s)
  BY <1>4 DEF Proceeds, TransferStep, CreateTransfer, UpdateTransfer, ArchiveTransfer, LookUp, Commit,
       CreateReason, CountTransfers, DeleteReason
<1>5. CASE PremisesStep(c, s)
  BY <1>5 DEF Proceeds, PremisesStep, ArchiveWarehouse, CloseWarehouse, RestoreWarehouse, CountGoods, OpenWarehouse
<1>6. CASE LoseStatement(c, s)
  BY <1>6 DEF Proceeds, LoseStatement
<1> QED
  BY <1>1, <1>2, <1>3, <1>4, <1>5, <1>6 DEF ReceiptStep, CallStep

(* No document goes.                                                       *)
LEMMA CallsGrow ==
  ASSUME NEW c \in Calls, NEW s \in Sent(c), CallStep(c, s)
  PROVE  Grows
<1>1. CASE RecordReceipt(c, s) /\ UNCHANGED transfers
  BY <1>1 DEF RecordReceipt, Put, Grows
<1>2. CASE (WriteLine(c, s) \/ RewriteReceipt(c, s) \/ MarkReceipt(c, s)) /\ UNCHANGED transfers
  <2>1. CASE WriteLine(c, s)
    BY <1>2, <2>1 DEF WriteLine, Grows
  <2>2. CASE RewriteReceipt(c, s)
    BY <1>2, <2>2 DEF RewriteReceipt, Grows
  <2>3. CASE MarkReceipt(c, s)
    BY <1>2, <2>3 DEF MarkReceipt, Grows
  <2> QED
    BY <1>2, <2>1, <2>2, <2>3
<1>3. CASE Commit(c, s) /\ UNCHANGED receipts
  BY <1>3 DEF Commit, Put, Grows
<1>4. CASE DeleteReason(c, s) /\ UNCHANGED receipts
  BY <1>4 DEF DeleteReason, Grows
<1>5. CASE UNCHANGED <<receipts, transfers>>
  BY <1>5 DEF Grows
<1>6. CASE ReceiptStep(c, s) /\ UNCHANGED transfers
  BY <1>1, <1>2, <1>5, <1>6 DEF ReceiptStep, IncrementTotal, IncrementRows, IncrementEverywhere,
       CreateReceipt, UpdateReceipt, RereadLines, ArchiveReceipt, FailRefused
<1>7. CASE TransferStep(c, s) /\ UNCHANGED receipts
  BY <1>3, <1>4, <1>5, <1>7 DEF TransferStep, CreateTransfer, UpdateTransfer, ArchiveTransfer, LookUp,
       CreateReason, CountTransfers
<1> QED
  BY <1>5, <1>6, <1>7 DEF CallStep, LoseStatement

(* What is done, lost or refused adds nothing to what is ahead.            *)
LEMMA PendingShrinks ==
  ASSUME Inv, NEW c \in Calls, NEW s \in Sent(c), CallStep(c, s), Executed(c, s) \/ Lose(c, s) \/ Refuse(c)
  PROVE  Pending(c)' \subseteq Pending(c)
<1>1. Shaped /\ CallsOK /\ Grows /\ Running(c)
  BY CallsGrow, SentFacts DEF Inv
<1>2. CASE Executed(c, s)
  BY <1>1, <1>2, ExecutedOnward
<1>3. CASE Lose(c, s)
  BY <1>1, <1>3, LoseOnward
<1>4. CASE Refuse(c)
  BY <1>1, <1>4, RefuseOnward
<1> QED
  BY <1>2, <1>3, <1>4

(* The statements ahead of a call at rest, and of one that goes on.        *)
LEMMA NoneAtRest ==
  ASSUME CallsOK, NEW c \in Calls, ~ Running(c)
  PROVE  Pending(c) = {}
BY NoneOrderly DEF CallsOK, CallOK, Pending

(* What is left of stages without the empty ones at their head was there   *)
(* before.                                                                 *)
LEMMA StagedWithin ==
  ASSUME NEW T, NEW st \in Seq(T)
  PROVE  All(Staged(st)) \subseteq All(st)
<1>1. DOMAIN st = 1..Len(st) /\ Len(st) \in Nat
  OBVIOUS
<1>2. /\ Staged(st) \in Seq(T)
      /\ \E o \in 0..Len(st) :
           /\ Len(Staged(st)) = Len(st) - o
           /\ \A i \in 1..Len(Staged(st)) : Staged(st)[i] = st[i + o]
  <2>1. \A new : new = Staged(st) =>
          /\ new \in Seq(T)
          /\ \E o \in 0..Len(st) :
               /\ Len(new) = Len(st) - o
               /\ \A i \in 1..Len(new) : new[i] = st[i + o]
    BY StagedLeaves
  <2> QED
    BY <2>1
<1>3. DOMAIN Staged(st) = 1..Len(Staged(st)) /\ Len(Staged(st)) \in Nat
  BY <1>2
<1>4. ASSUME NEW i \in DOMAIN Staged(st) PROVE \E j \in DOMAIN st : Staged(st)[i] = st[j]
  <2>1. PICK o \in 0..Len(st) : /\ Len(Staged(st)) = Len(st) - o
                                /\ \A k \in 1..Len(Staged(st)) : Staged(st)[k] = st[k + o]
    BY <1>2
  <2>2. i + o \in DOMAIN st
    BY <1>1, <1>3, <2>1
  <2> QED
    BY <1>3, <2>1, <2>2
<1> QED
  BY <1>4 DEF All

(* After its first read, what a call has ahead is what the read sends.     *)
LEMMA ReadPending ==
  ASSUME Shaped, CallsOK, NEW c \in Calls, NEW s \in Sent(c), s.op = "read",
         NEW T, NEW more \in Seq(T), GoOn(c, more)
  PROVE  Pending(c)' \subseteq All(more)
<1>1. Running(c) /\ CallOK(c) /\ s \in Pending(c)
  BY SentFacts
<1>2. call[c].stages = <<{[op |-> "read"]}>>
  BY <1>1 DEF CallOK
<1>3. more \o Tail(call[c].stages) = more
  BY <1>2
<1>4. call'[c].stages = Staged(more)
  BY <1>1, <1>3, HandlersLeave DEF Resumes
<1> QED
  BY <1>4, StagedWithin DEF Pending

(* After a later read, it is what the read sends and what was waiting      *)
(* already.                                                                *)
LEMMA NextPending ==
  ASSUME Shaped, CallsOK, NEW c \in Calls, NEW s \in Sent(c), NEW A, GoOn(c, <<A>>)
  PROVE  Pending(c)' \subseteq A \cup After(call[c].stages)
<1> DEFINE st == call[c].stages
           T == Own(st) \cup {A}
           new == <<A>> \o Tail(st)
<1>1. Running(c) /\ CallOK(c)
  BY SentFacts
<1>2. st \in Seq(T) /\ st # <<>> /\ A \in T
  BY <1>1 DEF CallOK, Orderly
<1>3. call'[c].stages = Staged(new)
  BY <1>1, HandlersLeave DEF Resumes
<1> HIDE DEF T
<1>4. /\ new \in Seq(T) /\ Len(new) = Len(st) /\ new[1] = A
      /\ \A i \in 2..Len(st) : new[i] = st[i]
  <2> HIDE DEF st
  <2> QED
    BY <1>2, FirstReplaced
<1>5. All(Staged(new)) \subseteq All(new)
  BY <1>4, StagedWithin
<1>6. DOMAIN new = 1..Len(st) /\ Len(st) \in Nat
  BY <1>2, <1>4
<1>7. All(new) \subseteq A \cup After(st)
  <2> HIDE DEF new, st
  <2>1. \A i \in DOMAIN new : i = 1 \/ i \in 2..Len(st)
    BY <1>6
  <2> QED
    BY <1>4, <2>1 DEF All, After
<1> QED
  BY <1>3, <1>5, <1>7 DEF Pending

(* What a call has found not to be there is still not there: the rows that *)
(* it is to create, and goods in a warehouse that it is to open.           *)
Fresh(c, s) ==
  /\ s.op = "recordReceipt" => \A v \in Variants \cap s.missing : rows[v][Request(c).warehouse] = <<>>
  /\ s.op = "commit" => \A m \in s.moves : m.toRow = 0 => rows[m.variant][m.to] = <<>>
Ahead(c, op) == \E s \in Pending(c) : s.op = op
NoneAbove(w) == \A v \in Variants : \A i \in DOMAIN rows[v][w] : ~ (rows[v][w][i] > 0)
NoneBelow(w) == \A v \in Variants : \A i \in DOMAIN rows[v][w] : ~ (rows[v][w][i] < 0)
Counted(c) ==
  LET w == Request(c).doc[2]
  IN  Ahead(c, "openWarehouse") =>
        (Ahead(c, "countPositive") \/ NoneAbove(w)) /\ (Ahead(c, "countNegative") \/ NoneBelow(w))
Cautious(c) == Counted(c) /\ \A s \in Pending(c) : Fresh(c, s)

(* The invariant of calls that come one at a time.                         *)
SingleRows == \A v \in Variants, w \in Warehouses : Len(rows[v][w]) <= 1
Solitary ==
  ~ overlapped => /\ \A b, c \in Calls : Running(b) /\ Running(c) => b = c
                  /\ SingleRows /\ \A c \in Calls : Cautious(c)

(* No rows come or go.                                                     *)
LengthsStay == \A v \in Variants, w \in Places : Len(rows'[v][w]) = Len(rows[v][w])

(* Rows come only with a receipt or a transfer that is recorded, and never *)
(* go.                                                                     *)
LEMMA LengthsOfSteps ==
  ASSUME Inv, NEW c \in Calls, NEW s \in Sent(c),
         CallStep(c, s), ~ RecordReceipt(c, s), ~ Commit(c, s)
  PROVE  LengthsStay
<1>1. CASE UNCHANGED rows
  BY <1>1 DEF LengthsStay
<1>2. Proper(c, s) /\ \A v \in Variants, w \in Places : rows[v][w] \in Seq(Int)
  BY SentFacts, RowsFacts DEF Inv, Typed
<1>3. \A v \in Variants, w \in Places, q \in Int : Len(AddToEach(rows[v][w], q)) = Len(rows[v][w])
  BY <1>2, AddedType
<1>4. rows \in [Variants -> [Places -> Seq(Int)]]
  BY DEF Inv, Typed, RowsTypeOK
<1>5. CASE IncrementRows(c, s)
  <2>1. s.variant \in Variants /\ s.warehouse \in Places /\ s.quantity \in Int
    BY <1>2, <1>5 DEF Proper, IncrementRows, Places
  <2>2. rows' = [rows EXCEPT ![s.variant][s.warehouse] = AddToEach(rows[s.variant][s.warehouse], s.quantity)]
    BY <1>5 DEF IncrementRows
  <2> QED
    BY <1>3, <1>4, <2>1, <2>2 DEF LengthsStay
<1>6. CASE IncrementEverywhere(c, s)
  <2>1. s.variant \in Variants /\ s.quantity \in Int
    BY <1>2, <1>6 DEF Proper, IncrementEverywhere
  <2>2. rows' = [rows EXCEPT ![s.variant] = [w \in Places |-> AddToEach(rows[s.variant][w], s.quantity)]]
    BY <1>6 DEF IncrementEverywhere
  <2> QED
    BY <1>3, <1>4, <2>1, <2>2 DEF LengthsStay
<1>7. CASE ReceiptStep(c, s) /\ ~ RecordReceipt(c, s) /\ ~ IncrementRows(c, s) /\ ~ IncrementEverywhere(c, s)
  <2>1. UNCHANGED rows
    BY <1>7 DEF ReceiptStep, IncrementTotal, CreateReceipt, UpdateReceipt, RereadLines, WriteLine,
         RewriteReceipt, ArchiveReceipt, MarkReceipt, FailRefused
  <2> QED
    BY <1>1, <2>1
<1>8. CASE TransferStep(c, s) /\ ~ Commit(c, s)
  <2>1. UNCHANGED rows
    BY <1>8 DEF TransferStep, CreateTransfer, UpdateTransfer, ArchiveTransfer, LookUp, CreateReason,
         CountTransfers, DeleteReason
  <2> QED
    BY <1>1, <2>1
<1>9. CASE PremisesStep(c, s) \/ LoseStatement(c, s)
  <2>1. UNCHANGED rows
    BY <1>9 DEF PremisesStep, ArchiveWarehouse, CloseWarehouse, RestoreWarehouse, CountGoods, OpenWarehouse,
         LoseStatement
  <2> QED
    BY <1>1, <2>1
<1> QED
  BY <1>5, <1>6, <1>7, <1>8, <1>9 DEF CallStep

(* What the step of a call c that was alone at work leaves to be shown.    *)
LEMMA AloneStays ==
  ASSUME Inv, Inv', Solitary, ~ overlapped, UNCHANGED overlapped, NEW c \in Calls, Running(c), Alone(c),
         SingleRows', Running(c)' => Cautious(c)'
  PROVE  Solitary'
<1>1. ASSUME NEW b \in Calls, b # c PROVE ~ Running(b)'
  <2>1. ~ Running(b) /\ call'[b] = call[b]
    BY <1>1 DEF Solitary, Alone
  <2> QED
    BY <2>1 DEF Running
<1>2. ASSUME NEW b \in Calls, ~ Running(b)' PROVE Cautious(b)'
  <2>1. Pending(b)' = {}
    BY <1>2, NoneOrderly DEF Inv, CallsOK, CallOK, Pending
  <2> QED
    BY <2>1 DEF Cautious, Counted, Ahead
<1>3. \A b \in Calls : Cautious(b)'
  BY <1>1, <1>2
<1>4. \A a, b \in Calls : Running(a)' /\ Running(b)' => a = b
  BY <1>1
<1> QED
  BY <1>3, <1>4 DEF Solitary

(* The calls that look for nothing before they create or open something.   *)
Careless == {"createPayment", "updatePayment", "updateReceipt", "archiveReceipt", "restoreReceipt",
             "createReason", "removeReason", "archiveWarehouse"}

(* Such a call has found nothing that it depends on.                       *)
LEMMA CarelessCautious ==
  ASSUME Inv', NEW c \in Calls, Running(c)', Request(c)'.op \in Careless
  PROVE  Cautious(c)'
<1>1. ASSUME NEW s \in Pending(c)'
      PROVE  s.op # "recordReceipt" /\ s.op # "commit" /\ s.op # "openWarehouse"
  <2>1. Proper(c, s)'
    BY DEF Inv, CallsOK, CallOK
  <2> QED
    BY <2>1 DEF Proper, Careless, TransferOps
<1> QED
  BY <1>1 DEF Cautious, Counted, Fresh, Ahead

(* Where no rows come or go, none that were missing are there, and what a  *)
(* call has still to do is part of what it had to do.                      *)
LEMMA FreshStays ==
  ASSUME Inv, Inv', NEW c \in Calls, Running(c), Running(c)', Request(c)' = Request(c), LengthsStay,
         Pending(c)' \subseteq Pending(c), \A s \in Pending(c) : Fresh(c, s)
  PROVE  \A s \in Pending(c)' : Fresh(c, s)'
<1>1. ASSUME NEW v \in Variants, NEW w \in Places, rows[v][w] = <<>> PROVE rows'[v][w] = <<>>
  <2>1. rows'[v][w] \in Seq(Int) /\ rows[v][w] \in Seq(Int)
    BY DEF Inv, Typed, RowsTypeOK
  <2>2. Len(rows'[v][w]) = Len(rows[v][w]) /\ Len(rows[v][w]) = 0
    BY <1>1, <2>1 DEF LengthsStay
  <2> QED
    BY <2>1, <2>2
<1>2. ASSUME NEW s \in Pending(c)' PROVE Fresh(c, s)'
  <2>1. Fresh(c, s) /\ Proper(c, s)
    BY <1>2 DEF Inv, CallsOK, CallOK
  <2>2. ASSUME s.op = "recordReceipt", NEW v \in Variants \cap s.missing
        PROVE  rows'[v][Request(c).warehouse] = <<>>
    <3>1. Request(c).warehouse \in Places /\ v \in Variants
      BY <2>1, <2>2 DEF Proper, Places
    <3> QED
      BY <1>1, <2>1, <2>2, <3>1 DEF Fresh
  <2>3. ASSUME s.op = "commit", NEW m \in s.moves, m.toRow = 0 PROVE rows'[m.variant][m.to] = <<>>
    <3>1. IsMove(m)
      BY <2>1, <2>3 DEF Proper, IsFound
    <3>2. m.variant \in Variants /\ m.to \in Places
      BY <3>1 DEF IsMove, Places
    <3> QED
      BY <1>1, <2>1, <2>3, <3>2 DEF Fresh
  <2> QED
    BY <2>2, <2>3 DEF Fresh
<1> QED
  BY <1>2

(* The call whose statement it is moves alone, and its request stays.      *)
LEMMA ServedCall ==
  ASSUME Inv, NEW c \in Calls, NEW s \in Sent(c), Proceeds(c, s)
  PROVE  Running(c) /\ Alone(c) /\ (Running(c)' => Request(c)' = Request(c))
<1>1. Running(c) /\ Shaped
  BY SentFacts DEF Inv
<1>2. \E stages : Resumes(c, stages)
  BY <1>1, HandlersLeave DEF Proceeds
<1> QED
  BY <1>1, <1>2 DEF Resumes, Stands, Ends, Running, Request

(* Where no rows come or go, there are as few as before.                   *)
LEMMA SingleStays ==
  ASSUME SingleRows, LengthsStay
  PROVE  SingleRows'
BY DEF SingleRows, LengthsStay, Places

(* The steps of such a call.                                               *)
LEMMA CarelessServed ==
  ASSUME Inv, Inv', NEW c \in Calls, NEW s \in Sent(c), CallStep(c, s), Request(c).op \in Careless,
         SingleRows
  PROVE  SingleRows' /\ (Running(c)' => Cautious(c)')
<1>1. Proceeds(c, s) /\ Proper(c, s)
  BY ServeProceeds, SentFacts DEF Inv
<1>2. s.op # "recordReceipt" /\ s.op # "commit"
  BY <1>1 DEF Proper, Careless, TransferOps
<1>3. ~ RecordReceipt(c, s) /\ ~ Commit(c, s)
  BY <1>2 DEF RecordReceipt, Commit
<1>4. LengthsStay
  BY <1>3, LengthsOfSteps
<1> QED
  BY <1>1, <1>4, ServedCall, SingleStays, CarelessCautious

(* A receipt that is created.                                              *)
LEMMA ReceiptServed ==
  ASSUME Inv, Inv', NEW c \in Calls, NEW s \in Sent(c), CallStep(c, s), Request(c).op = "createReceipt",
         SingleRows, Cautious(c)
  PROVE  SingleRows' /\ (Running(c)' => Cautious(c)')
<1>1. Proceeds(c, s) /\ Proper(c, s) /\ Shaped /\ CallsOK /\ Running(c)
  BY ServeProceeds, SentFacts DEF Inv
<1>2. Running(c)' => Request(c)' = Request(c)
  BY <1>1, ServedCall
<1>3. ~ Commit(c, s)
  BY <1>1 DEF Proper, TransferOps, Commit
<1>4. ASSUME Running(c)' PROVE Counted(c)'
  <2>1. \A t \in Pending(c)' : Proper(c, t)'
    BY <1>4 DEF Inv, CallsOK, CallOK
  <2>2. \A t \in Pending(c)' : t.op # "openWarehouse"
    BY <1>2, <1>4, <2>1 DEF Proper
  <2> QED
    BY <2>2 DEF Counted, Ahead
<1>5. CASE CreateReceipt(c, s) /\ ~ Refuse(c)
  <2> DEFINE r == Request(c)
             lines == r.lines
             first == [op |-> "recordReceipt", missing |-> MissingRows(lines, r.warehouse)]
             second == Increments([v \in DOMAIN lines |-> lines[v].quantity], r.warehouse)
                         \cup {ChangeBalance(r.supplier, Amount(lines) - r.paid)}
             more == <<{first}, second>>
  <2>1. s.op = "read" /\ GoOn(c, more) /\ UNCHANGED rows
    BY <1>5 DEF CreateReceipt
  <2>2. \A t \in second : t.op # "recordReceipt" /\ t.op # "commit"
    <3>1. \A changes, w : \A t \in Increments(changes, w) : t.op \in {"total", "rows"}
      BY DEF Increments
    <3> QED
      BY <3>1 DEF ChangeBalance
  <2>3. first.op = "recordReceipt" /\ first.missing = MissingRows(lines, r.warehouse)
    OBVIOUS
  <2> HIDE DEF first, second
  <2>4. more \in Seq({{first}, second}) /\ All(more) = {first} \cup second
    BY DEF All
  <2> HIDE DEF more
  <2>5. Pending(c)' \subseteq {first} \cup second
    BY <1>1, <2>1, <2>4, ReadPending
  <2>6. ASSUME Running(c)', NEW t \in Pending(c)' PROVE Fresh(c, t)'
    <3>1. CASE t = first
      BY <1>2, <2>1, <2>3, <2>6, <3>1 DEF Fresh, MissingRows
    <3>2. CASE t \in second
      BY <2>2, <3>2 DEF Fresh
    <3> QED
      BY <2>5, <2>6, <3>1, <3>2
  <2>7. SingleRows'
    BY <2>1 DEF SingleRows
  <2> QED
    BY <1>4, <2>6, <2>7 DEF Cautious
<1>6. CASE RecordReceipt(c, s)
  <2>1. s.op = "recordReceipt" /\ s \in Pending(c) /\ Executed(c, s)
    BY <1>1, <1>6, SentFacts DEF RecordReceipt
  <2>2. Grows
    BY CallsGrow
  <2>3. \A t \in Pending(c)' : Alike(s, t) => s.op \in {"balance", "refused"}
    BY <1>1, <2>1, <2>2, ExecutedOnward
  <2>4. \A t \in Pending(c)' : t.op # "recordReceipt"
    BY <2>1, <2>3 DEF Alike, PerVariant
  <2>5. ASSUME Running(c)', NEW t \in Pending(c)' PROVE t.op # "commit"
    <3>1. Proper(c, t)'
      BY <2>5 DEF Inv, CallsOK, CallOK
    <3> QED
      BY <1>2, <2>5, <3>1 DEF Proper, TransferOps
  <2>6. ASSUME NEW v \in Variants, NEW w \in Warehouses PROVE Len(rows'[v][w]) <= 1
    <3>1. Fresh(c, s) /\ w \in Places /\ rows[v] \in [Places -> Seq(Int)] /\ Request(c).warehouse \in Places
      BY <1>1, <2>1 DEF Cautious, Places, Inv, Typed, RowsTypeOK, Proper
    <3>2. rows'[v] = IF v \in s.missing THEN [rows[v] EXCEPT ![Request(c).warehouse] = Append(@, 0)] ELSE rows[v]
      BY <1>6 DEF RecordReceipt
    <3>3. CASE v \in s.missing /\ w = Request(c).warehouse
      <4>1. rows[v][w] = <<>> /\ rows'[v][w] = Append(rows[v][w], 0)
        BY <2>1, <3>1, <3>2, <3>3 DEF Fresh
      <4> QED
        BY <4>1
    <3>4. CASE ~ (v \in s.missing /\ w = Request(c).warehouse)
      <4>1. rows'[v][w] = rows[v][w]
        BY <3>1, <3>2, <3>4
      <4> QED
        BY <4>1 DEF SingleRows
    <3> QED
      BY <3>3, <3>4
  <2> QED
    BY <1>4, <2>4, <2>5, <2>6 DEF Cautious, SingleRows, Fresh
<1>7. CASE ~ RecordReceipt(c, s) /\ (CreateReceipt(c, s) => Refuse(c))
  <2>1. LengthsStay
    BY <1>3, <1>7, LengthsOfSteps
  <2>2. Pending(c)' \subseteq Pending(c)
    <3>1. CASE s.op = "read"
      <4>1. CreateReceipt(c, s) \/ LoseStatement(c, s)
        BY <1>1, <3>1 DEF CallStep, ReceiptStep, PaymentStep, UpdateBalance, WritePayment, CreatePayment,
             UpdatePayment, IncrementTotal, IncrementRows, IncrementEverywhere, RecordReceipt, UpdateReceipt,
             RereadLines, WriteLine, RewriteReceipt, ArchiveReceipt, MarkReceipt, FailRefused, TransferStep,
             CreateTransfer, UpdateTransfer, ArchiveTransfer, LookUp, Commit, CreateReason, CountTransfers,
             DeleteReason, PremisesStep, ArchiveWarehouse, CloseWarehouse, RestoreWarehouse, CountGoods,
             OpenWarehouse
      <4> QED
        BY <1>7, <4>1, PendingShrinks DEF LoseStatement
    <3>2. CASE s.op # "read"
      <4>1. s.op # "reread" /\ s.op # "lookup"
        BY <1>1 DEF Proper, TransferOps
      <4> QED
        BY <3>2, <4>1, ServeProceeds, PendingShrinks
    <3> QED
      BY <3>1, <3>2
  <2> QED
    BY <1>1, <1>2, <1>4, <2>1, <2>2, FreshStays, SingleStays DEF Cautious
<1> QED
  BY <1>5, <1>6, <1>7
-----------------------------------------------------------------------------
(* A movement adds a row where none was found, and no other.               *)
LEMMA IntoLengths ==
  ASSUME NEW r \in [Places -> Seq(Int)], NEW w \in Places, NEW found \in Nat, NEW q \in Int, NEW p \in Places
  PROVE  /\ Len(Into(r, w, found, q)[p]) = IF p = w /\ found = 0 THEN Len(r[p]) + 1 ELSE Len(r[p])
         /\ Len(OutOf(r, w, found, q)[p]) = Len(r[p])
         /\ Len(OutOfEach(r, w, q)[p]) = Len(r[p])
<1> DEFINE quantities == r[w]
<1>1. quantities \in Seq(Int) /\ \A x : [r EXCEPT ![w] = x][p] = IF p = w THEN x ELSE r[p]
  OBVIOUS
<1> HIDE DEF quantities
<1>2. Len(Append(quantities, q)) = Len(quantities) + 1 /\ Len(AddToEach(quantities, -q)) = Len(quantities)
  BY <1>1, AddedType
<1>3. \A x : Len([quantities EXCEPT ![found] = x]) = Len(quantities)
  <2> SUFFICES ASSUME NEW x PROVE Len([quantities EXCEPT ![found] = x]) = Len(quantities)
    OBVIOUS
  <2>1. DOMAIN [quantities EXCEPT ![found] = x] = DOMAIN quantities /\ DOMAIN quantities = 1..Len(quantities)
        /\ Len(quantities) \in Nat
    BY <1>1
  <2> QED
    BY <2>1, <1>1
<1>4. /\ Len(Increased(quantities, found, q)) = IF found = 0 THEN Len(quantities) + 1 ELSE Len(quantities)
      /\ Len(Decreased(quantities, found, q)) = Len(quantities)
  BY <1>2, <1>3 DEF Increased, Decreased
<1> QED
  BY <1>1, <1>2, <1>4 DEF Into, OutOf, OutOfEach, quantities

(* A movement that creates a row where there was none leaves one there at  *)
(* most.                                                                   *)
LEMMA MovedSingle ==
  ASSUME NEW r \in [Places -> Seq(Int)], NEW m, IsFound(m), m.toRow = 0 => r[m.to] = <<>>,
         \A w \in Warehouses : Len(r[w]) <= 1
  PROVE  \A w \in Warehouses : Len(Moved(r, m)[w]) <= 1
<1> DEFINE T == [Places -> Seq(Int)]
           Fits(x) == x \in T /\ \A w \in Warehouses : Len(x[w]) <= 1
           Ready(x) == Fits(x) /\ (m.toRow = 0 => Len(x[m.to]) = 0)
           n == m.quantity - m.seen
<1>1. /\ m.quantity \in Int /\ m.seen \in Int /\ n \in Int
      /\ m.toRow \in Nat /\ m.fromRow \in Nat /\ m.from \in Places /\ m.to \in Places /\ Nowhere \in Places
      /\ m.how \in {"ship", "carry", "return", "resend", "level"}
      /\ Warehouses \subseteq Places /\ Nowhere \notin Warehouses
  BY SMTT(30), RowsAssumption DEF IsFound, IsMove, Places, Warehouses, Nowhere
<1>2. Ready(r)
  OBVIOUS
<1>3. \A x \in T, w \in Places, found \in Nat, q \in Int :
        Into(x, w, found, q) \in T /\ OutOf(x, w, found, q) \in T /\ OutOfEach(x, w, q) \in T
  BY IntoType
<1>4. \A x \in T, w \in Places, found \in Nat, q \in Int, p \in Places :
        /\ Len(Into(x, w, found, q)[p]) = IF p = w /\ found = 0 THEN Len(x[p]) + 1 ELSE Len(x[p])
        /\ Len(OutOf(x, w, found, q)[p]) = Len(x[p])
        /\ Len(OutOfEach(x, w, q)[p]) = Len(x[p])
  BY IntoLengths
<1>5. \A x \in T, p \in Places : Len(x[p]) \in Nat
  OBVIOUS
<1> HIDE DEF T
<1> DEFINE SameLengths(x, y) == \A p \in Places : Len(y[p]) = Len(x[p])
<1>14. ASSUME NEW x \in T, NEW y \in T, SameLengths(x, y)
       PROVE  (Fits(x) => Fits(y)) /\ (Ready(x) => Ready(y))
  BY <1>1, <1>14
<1>15. ASSUME NEW x \in T, NEW q \in Int
       PROVE  /\ OutOf(x, m.from, m.fromRow, q) \in T /\ SameLengths(x, OutOf(x, m.from, m.fromRow, q))
              /\ OutOfEach(x, m.from, q) \in T /\ SameLengths(x, OutOfEach(x, m.from, q))
  <2> DEFINE w == m.from
             found == m.fromRow
  <2>1. w \in Places /\ found \in Nat
    BY <1>1
  <2> HIDE DEF w, found
  <2>2. OutOf(x, w, found, q) \in T /\ OutOfEach(x, w, q) \in T
    BY <2>1, <1>3
  <2>3. ASSUME NEW p \in Places
        PROVE  Len(OutOf(x, w, found, q)[p]) = Len(x[p]) /\ Len(OutOfEach(x, w, q)[p]) = Len(x[p])
    BY <2>1, <1>4
  <2> QED
    BY <2>2, <2>3 DEF w, found
<1>16. \A x : (Fits(x) => x \in T) /\ (Ready(x) => x \in T)
  OBVIOUS
<1> HIDE DEF SameLengths, Fits, Ready
<1>11. ASSUME NEW x, Fits(x), NEW q \in Int
       PROVE  Fits(OutOf(x, m.from, m.fromRow, q)) /\ Fits(OutOfEach(x, m.from, q))
  BY <1>11, <1>14, <1>15, <1>16
<1>12. ASSUME NEW x, Ready(x), NEW q \in Int
       PROVE  Ready(OutOf(x, m.from, m.fromRow, q)) /\ Ready(OutOfEach(x, m.from, q))
  BY <1>12, <1>14, <1>15, <1>16
<1> USE DEF Fits, Ready
<1>13. ASSUME NEW x, Ready(x), NEW q \in Int
      PROVE  Fits(Into(x, m.to, m.toRow, q)) /\ (m.toRow = 0 => Fits(Into(x, Nowhere, m.toRow, q)))
  <2>1. Into(x, m.to, m.toRow, q) \in T /\ Into(x, Nowhere, m.toRow, q) \in T
    BY <1>1, <1>3, <1>13
  <2>2. ASSUME NEW w \in Warehouses
        PROVE  Len(Into(x, m.to, m.toRow, q)[w]) <= 1 /\ Len(Into(x, Nowhere, m.toRow, q)[w]) <= 1
    <3>1. /\ Len(Into(x, m.to, m.toRow, q)[w]) = IF w = m.to /\ m.toRow = 0 THEN Len(x[w]) + 1 ELSE Len(x[w])
          /\ Len(Into(x, Nowhere, m.toRow, q)[w]) = IF w = Nowhere /\ m.toRow = 0 THEN Len(x[w]) + 1 ELSE Len(x[w])
      BY <1>1, <1>4, <1>13
    <3>2. Len(x[w]) <= 1 /\ w # Nowhere /\ (m.toRow = 0 => Len(x[m.to]) = 0) /\ Len(x[w]) \in Nat
      BY <1>1, <1>5, <1>13
    <3> QED
      BY <3>1, <3>2
  <2> QED
    BY <2>1, <2>2
<1> HIDE DEF Fits, Ready, n
<1>6. Fits(Ship(r, m)) /\ Fits(Return(r, m))
  BY <1>1, <1>2, <1>11, <1>12, <1>13 DEF Ship, Return
<1>7. Fits(r)
  BY <1>2 DEF Ready
<1>8. Fits(Carry(r, m)) /\ Fits(Level(r, m))
  BY <1>1, <1>2, <1>11, <1>12, <1>13, <1>7 DEF Carry, Level, n
<1>9. Fits(Resend(r, m))
  BY <1>1, <1>2, <1>11, <1>13 DEF Resend
<1>10. Fits(Moved(r, m))
  BY <1>1, <1>6, <1>8, <1>9 DEF Moved
<1> QED
  BY <1>10 DEF Fits

(* A transfer.                                                             *)
LEMMA TransferServed ==
  ASSUME Inv, Inv', NEW c \in Calls, NEW s \in Sent(c), CallStep(c, s), Request(c).op \in TransferOps,
         SingleRows, Cautious(c)
  PROVE  SingleRows' /\ (Running(c)' => Cautious(c)')
<1>1. /\ Proceeds(c, s) /\ Proper(c, s) /\ Shaped /\ CallsOK /\ Running(c) /\ s \in Pending(c)
      /\ \A t \in After(call[c].stages) : Proper(c, t) /\ Follows(s.op, t.op)
  BY ServeProceeds, SentFacts DEF Inv
<1>2. Running(c)' => Request(c)' = Request(c)
  BY <1>1, ServedCall
<1>3. s.op \in {"read", "lookup", "commit"}
  BY <1>1 DEF Proper, TransferOps, ReceiptOps, PaymentOps
<1>4. ASSUME Running(c)', NEW t \in Pending(c)' PROVE t.op # "openWarehouse" /\ t.op # "recordReceipt"
  <2>1. Proper(c, t)'
    BY <1>4 DEF Inv, CallsOK, CallOK
  <2> QED
    BY <1>2, <1>4, <2>1 DEF Proper, TransferOps
<1>5. Running(c)' => Counted(c)'
  BY <1>4 DEF Counted, Ahead
<1>6. CASE Commit(c, s)
  <2>1. s.op = "commit" /\ Executed(c, s) /\ Grows
    BY <1>6, CallsGrow DEF Commit
  <2>2. \A t \in Pending(c)' : Alike(s, t) => s.op \in {"balance", "refused"}
    BY <1>1, <2>1, ExecutedOnward
  <2>3. \A t \in Pending(c)' : t.op # "commit"
    BY <2>1, <2>2 DEF Alike, PerVariant
  <2>4. Running(c)' => Cautious(c)'
    BY <1>4, <1>5, <2>3 DEF Cautious, Fresh
  <2>5. ASSUME NEW v \in Variants PROVE \A w \in Warehouses : Len(rows'[v][w]) <= 1
    <3> DEFINE its == CHOOSE m \in s.moves : m.variant = v
    <3>1. rows'[v] = IF \E m \in s.moves : m.variant = v THEN Moved(rows[v], its) ELSE rows[v]
      BY <1>6 DEF Commit
    <3>2. rows[v] \in [Places -> Seq(Int)] /\ \A w \in Warehouses : Len(rows[v][w]) <= 1
      BY DEF Inv, Typed, RowsTypeOK, SingleRows
    <3>3. CASE \E m \in s.moves : m.variant = v
      <4>1. its \in s.moves /\ its.variant = v
        BY <3>3
      <4> HIDE DEF its
      <4>2. IsFound(its) /\ (its.toRow = 0 => rows[v][its.to] = <<>>)
        BY <1>1, <2>1, <4>1, MovingProper DEF Cautious, Fresh
      <4>3. \A w \in Warehouses : Len(Moved(rows[v], its)[w]) <= 1
        BY <3>2, <4>2, MovedSingle
      <4> QED
        BY <3>1, <3>3, <4>3
    <3>4. CASE ~ \E m \in s.moves : m.variant = v
      BY <3>1, <3>2, <3>4
    <3> QED
      BY <3>3, <3>4
  <2> QED
    BY <2>4, <2>5 DEF SingleRows
<1>7. CASE ~ Commit(c, s)
  <2>1. ~ RecordReceipt(c, s)
    BY <1>3 DEF RecordReceipt
  <2>2. LengthsStay
    BY <1>7, <2>1, LengthsOfSteps
  <2>3. CASE Executed(c, s) \/ Lose(c, s) \/ Refuse(c)
    <3>1. Pending(c)' \subseteq Pending(c)
      BY <2>3, PendingShrinks
    <3> QED
      BY <1>1, <1>2, <1>5, <2>2, <3>1, FreshStays, SingleStays DEF Cautious
  <2>4. CASE LookUp(c, s)
    <3>1. s.op = "lookup" /\ UNCHANGED rows /\ \A m \in s.moves : IsMove(m)
      BY <1>1, <2>4, MovingProper DEF LookUp
    <3>2. PICK newest \in BOOLEAN :
            GoOn(c, <<{[op |-> "commit", moves |-> {
              LET toRow == FindRow(rows[m.variant][m.to], newest)
              IN  [how |-> m.how, variant |-> m.variant, quantity |-> m.quantity,
                   from |-> m.from, to |-> m.to, toRow |-> toRow,
                   fromRow |-> FindRow(rows[m.variant][m.from], newest),
                   seen |-> IF toRow = 0 THEN 0 ELSE rows[m.variant][m.to][toRow]] : m \in s.moves}]}>>)
      BY <2>4 DEF LookUp
    <3> DEFINE toRow(m) == FindRow(rows[m.variant][m.to], newest)
               found(m) == [how |-> m.how, variant |-> m.variant, quantity |-> m.quantity,
                            from |-> m.from, to |-> m.to, toRow |-> toRow(m),
                            fromRow |-> FindRow(rows[m.variant][m.from], newest),
                            seen |-> IF toRow(m) = 0 THEN 0 ELSE rows[m.variant][m.to][toRow(m)]]
               moves == {found(m) : m \in s.moves}
               t == [op |-> "commit", moves |-> moves]
               A == {t}
    <3>3. GoOn(c, <<A>>)
      BY <3>2
    <3>4. ASSUME NEW m \in s.moves
          PROVE  found(m).toRow = 0 => rows[found(m).variant][found(m).to] = <<>>
      <4>1. m.variant \in Variants /\ m.to \in Places
        BY <3>1 DEF IsMove, Places
      <4>2. rows[m.variant][m.to] \in Seq(Int)
        BY <4>1, RowsFacts DEF Inv, Typed
      <4>3. toRow(m) = 0 <=> rows[m.variant][m.to] = <<>>
        BY <4>2, FoundRow
      <4> QED
        BY <4>3
    <3>5. \A u \in moves : u.toRow = 0 => rows[u.variant][u.to] = <<>>
      BY <3>4
    <3>6. t.moves = moves
      OBVIOUS
    <3> HIDE DEF moves, t
    <3>7. ASSUME NEW u \in After(call[c].stages) PROVE u.op # "commit"
      BY <1>1, <3>1, <3>7 DEF Follows, Rank
    <3>8. Pending(c)' \subseteq A \cup After(call[c].stages)
      <4> HIDE DEF A
      <4> QED
        BY <1>1, <3>3, NextPending
    <3>9. ASSUME Running(c)', NEW u \in Pending(c)' PROVE Fresh(c, u)'
      <4>1. u.op # "recordReceipt"
        BY <1>4, <3>9
      <4>2. u.op = "commit" => u = t
        BY <3>7, <3>8, <3>9
      <4> QED
        BY <3>1, <3>5, <3>6, <4>1, <4>2 DEF Fresh
    <3> QED
      BY <1>5, <2>2, <3>9, SingleStays DEF Cautious
  <2>5. CASE s.op = "read" /\ ~ Executed(c, s) /\ ~ Lose(c, s) /\ ~ Refuse(c)
    <3>1. CreateTransfer(c, s) \/ UpdateTransfer(c, s) \/ ArchiveTransfer(c, s)
      BY <2>5 DEF CallStep, ReceiptStep, PaymentStep, UpdateBalance, WritePayment, CreatePayment,
           UpdatePayment, IncrementTotal, IncrementRows, IncrementEverywhere, RecordReceipt, CreateReceipt,
           UpdateReceipt, RereadLines, WriteLine, RewriteReceipt, ArchiveReceipt, MarkReceipt, FailRefused,
           TransferStep, LookUp, Commit, CreateReason, CountTransfers, DeleteReason, PremisesStep,
           ArchiveWarehouse, CloseWarehouse, RestoreWarehouse, CountGoods, OpenWarehouse, LoseStatement, TransferOps
    <3>2. PICK moves : GoOn(c, <<{[op |-> "lookup", moves |-> moves]}>>)
      BY <2>5, <3>1 DEF CreateTransfer, UpdateTransfer, ArchiveTransfer
    <3> DEFINE t == [op |-> "lookup", moves |-> moves]
    <3>3. GoOn(c, <<{t}>>) /\ t.op = "lookup"
      BY <3>2
    <3> HIDE DEF t
    <3>4. <<{t}>> \in Seq({{t}}) /\ All(<<{t}>>) = {t}
      BY DEF All
    <3>5. Pending(c)' \subseteq {t}
      BY <1>1, <2>5, <3>3, <3>4, ReadPending
    <3>6. \A u \in Pending(c)' : Fresh(c, u)'
      BY <3>3, <3>5 DEF Fresh
    <3> QED
      BY <1>5, <2>2, <3>6, SingleStays DEF Cautious
  <2>6. s.op = "lookup" => LookUp(c, s) \/ Lose(c, s)
    BY DEF CallStep, ReceiptStep, PaymentStep, UpdateBalance, WritePayment, CreatePayment,
         UpdatePayment, IncrementTotal, IncrementRows, IncrementEverywhere, RecordReceipt, CreateReceipt,
         UpdateReceipt, RereadLines, WriteLine, RewriteReceipt, ArchiveReceipt, MarkReceipt, FailRefused,
         TransferStep, CreateTransfer, UpdateTransfer, ArchiveTransfer, Commit, CreateReason, CountTransfers,
         DeleteReason, PremisesStep, ArchiveWarehouse, CloseWarehouse, RestoreWarehouse, CountGoods,
         OpenWarehouse, LoseStatement
  <2> QED
    BY <1>3, <2>3, <2>4, <2>5, <2>6, ServeProceeds
<1> QED
  BY <1>6, <1>7

(* A warehouse that is restored.                                           *)
LEMMA RestoreServed ==
  ASSUME Inv, Inv', NEW c \in Calls, NEW s \in Sent(c), CallStep(c, s), Request(c).op = "restoreWarehouse",
         SingleRows, Cautious(c)
  PROVE  SingleRows' /\ (Running(c)' => Cautious(c)')
<1> DEFINE w == Request(c).doc[2]
           first == {[op |-> "countPositive"]}
           second == {[op |-> "countNegative"]}
           third == {[op |-> "openWarehouse"]}
           more == <<first, second, third>>
<1>1. Proceeds(c, s) /\ Proper(c, s) /\ Shaped /\ CallsOK /\ CallOK(c) /\ Running(c) /\ s \in Pending(c)
  BY ServeProceeds, SentFacts DEF Inv
<1>2. Running(c)' => Request(c)' = Request(c)
  BY <1>1, ServedCall
<1>3. s.op \in {"read", "countPositive", "countNegative", "openWarehouse"}
  BY <1>1 DEF Proper, TransferOps, ReceiptOps, PaymentOps
<1>4. ASSUME Running(c)', NEW t \in Pending(c)' PROVE t.op # "commit" /\ t.op # "recordReceipt"
  <2>1. Proper(c, t)'
    BY <1>4 DEF Inv, CallsOK, CallOK
  <2> QED
    BY <1>2, <1>4, <2>1 DEF Proper, TransferOps
<1>5. \/ RestoreWarehouse(c, s) /\ GoOn(c, more) /\ s.op = "read"
      \/ Refuse(c) /\ UNCHANGED rows
      \/ CountGoods(c, s) /\ Executed(c, s) /\ ~ Refuse(c)
      \/ OpenWarehouse(c, s) /\ ~ Refuse(c)
      \/ LoseStatement(c, s)
  BY <1>3 DEF CallStep, ReceiptStep, PaymentStep, UpdateBalance, WritePayment, CreatePayment,
       UpdatePayment, IncrementTotal, IncrementRows, IncrementEverywhere, RecordReceipt, CreateReceipt,
       UpdateReceipt, RereadLines, WriteLine, RewriteReceipt, ArchiveReceipt, MarkReceipt, FailRefused,
       TransferStep, CreateTransfer, UpdateTransfer, ArchiveTransfer, LookUp, Commit, CreateReason,
       CountTransfers, DeleteReason, PremisesStep, ArchiveWarehouse, CloseWarehouse, RestoreWarehouse, CountGoods,
       OpenWarehouse
<1>6. UNCHANGED rows
  BY <1>5 DEF RestoreWarehouse, CountGoods, OpenWarehouse, LoseStatement
<1>7. SingleRows'
  BY <1>6 DEF SingleRows
<1>8. ASSUME Running(c)'
      PROVE  /\ NoneAbove(w) => NoneAbove(Request(c).doc[2])'
             /\ NoneBelow(w) => NoneBelow(Request(c).doc[2])'
  BY <1>2, <1>6, <1>8 DEF NoneAbove, NoneBelow
<1>9. ASSUME Running(c)' PROVE Counted(c)'
  <2>1. CASE RestoreWarehouse(c, s) /\ GoOn(c, more) /\ s.op = "read"
    <3>1. call[c].stages = <<{[op |-> "read"]}>>
      BY <1>1, <2>1 DEF CallOK
    <3>2. more \o Tail(call[c].stages) = more
      BY <3>1
    <3> DEFINE T == {first, second, third}
    <3>8. first # {} /\ [op |-> "countPositive"] \in first /\ [op |-> "countNegative"] \in second
      OBVIOUS
    <3> HIDE DEF first, second, third
    <3>3. more \in Seq(T) /\ more # <<>> /\ more[1] # {} /\ DOMAIN more = 1..3
          /\ more[1] = first /\ more[2] = second
      BY <3>8
    <3>4. call'[c].stages = Staged(more)
      BY <1>1, <2>1, <3>2, HandlersLeave DEF Resumes
    <3> HIDE DEF more, T
    <3>5. Staged(more) = more
      BY <3>3, StagedNonEmpty
    <3>6. Pending(c)' = All(more)
      BY <3>4, <3>5 DEF Pending
    <3>7. [op |-> "countPositive"] \in All(more) /\ [op |-> "countNegative"] \in All(more)
      BY <3>3, <3>8 DEF All
    <3> QED
      BY <3>6, <3>7 DEF Counted, Ahead
  <2>2. CASE Refuse(c)
    <3>1. ~ Running(c)'
      <4>1. Resumes(c, <<>>) /\ Staged(<<>>) = <<>>
        BY <1>1, <2>2, HandlersLeave DEF Staged
      <4> QED
        BY <4>1 DEF Resumes, Ends, Running
    <3> QED
      BY <1>9, <3>1
  <2>3. CASE (CountGoods(c, s) \/ OpenWarehouse(c, s)) /\ Executed(c, s) /\ ~ Refuse(c)
    <3>1. /\ Pending(c)' \subseteq Pending(c)
          /\ \A t \in Pending(c) : t = s \/ t \in Pending(c)'
      BY <1>1, <2>3, CallsGrow, ExecutedOnward
    <3>2. /\ s.op = "countPositive" => NoneAbove(w)
          /\ s.op = "countNegative" => NoneBelow(w)
      <4>1. CASE CountGoods(c, s) /\ Executed(c, s) /\ ~ Refuse(c)
        BY <4>1 DEF CountGoods, Some, NoneAbove, NoneBelow
      <4>2. CASE OpenWarehouse(c, s)
        BY <4>2 DEF OpenWarehouse
      <4> QED
        BY <2>3, <4>1, <4>2
    <3>3. /\ Ahead(c, "openWarehouse")' => Ahead(c, "openWarehouse")
          /\ Ahead(c, "countPositive") => Ahead(c, "countPositive")' \/ s.op = "countPositive"
          /\ Ahead(c, "countNegative") => Ahead(c, "countNegative")' \/ s.op = "countNegative"
      BY <3>1 DEF Ahead
    <3> QED
      BY <1>8, <1>9, <3>2, <3>3 DEF Cautious, Counted
  <2>4. CASE LoseStatement(c, s)
    <3>1. Sent(c) = {s}
      BY <1>1, <1>3, SentFirst DEF Solo
    <3>2. Resumes(c, <<Sent(c) \ {s}>>)
      BY <1>1, <2>4, HandlersLeave DEF LoseStatement
    <3>3. Staged(<<Sent(c) \ {s}>>) = <<>>
      BY <3>1, StagedOne
    <3> QED
      BY <1>9, <3>2, <3>3 DEF Resumes, Ends, Running
  <2> QED
    BY <1>5, <2>1, <2>2, <2>3, <2>4 DEF OpenWarehouse
<1> QED
  BY <1>4, <1>7, <1>9 DEF Cautious, Fresh

(* The steps of calls that come one at a time.                             *)
LEMMA SolitaryInit ==
  ASSUME Init
  PROVE  Solitary
<1>1. \A c \in Calls : ~ Running(c) /\ call[c].stages = <<>>
  BY DEF Init, HandlersInit, Blank, Running
<1>2. \A c \in Calls : Pending(c) = {}
  BY <1>1, NoneOrderly DEF Pending
<1>3. SingleRows
  BY OpeningRowsUnique DEF Init, RowsInit, SingleRows
<1> QED
  BY <1>1, <1>2, <1>3 DEF Solitary, Cautious, Counted, Ahead

(* A call arrives: it is alone, or two are at work from now on.            *)
LEMMA SolitaryReceive ==
  ASSUME Inv, Inv', Solitary, NEW c \in Calls, ReceiveRequest(c)
  PROVE  Solitary'
<1> SUFFICES ASSUME ~ overlapped' PROVE Solitary'
  BY DEF Solitary
<1>1. ~ overlapped /\ UNCHANGED rows /\ \A b \in Calls : ~ Running(b)
  BY DEF ReceiveRequest
<1>2. PICK r \in Requests : Receive(c, [r EXCEPT !.doc[2] = IF @ = None THEN c ELSE @])
  BY DEF ReceiveRequest
<1> DEFINE q == [r EXCEPT !.doc[2] = IF @ = None THEN c ELSE @]
<1> HIDE DEF q
<1>3. Alone(c) /\ call'[c].at = "running" /\ call'[c].stages = Reading
  BY <1>2, ReceiveEffect DEF Inv, q
<1>4. \A b \in Calls : b # c => ~ Running(b)'
  BY <1>1, <1>3 DEF Alone, Running
<1>5. ASSUME NEW b \in Calls, b # c PROVE Pending(b)' = {}
  BY <1>4, <1>5, NoneOrderly DEF Inv, CallsOK, CallOK, Pending
<1>6. Pending(c)' = {[op |-> "read"]}
  <2> DEFINE A == {[op |-> "read"]}
  <2>1. DOMAIN <<A>> = {1} /\ <<A>>[1] = A
    OBVIOUS
  <2>2. All(<<A>>) = A
    <3> HIDE DEF A
    <3> QED
      BY <2>1 DEF All
  <2> QED
    BY <1>3, <2>2 DEF Pending, Reading
<1>7. ASSUME NEW b \in Calls, NEW s \in Pending(b)' PROVE s.op = "read"
  BY <1>5, <1>6, <1>7
<1>8. \A b \in Calls : Cautious(b)'
  BY <1>7 DEF Cautious, Counted, Ahead, Fresh
<1>9. SingleRows'
  BY <1>1 DEF SingleRows, Solitary
<1> QED
  BY <1>4, <1>8, <1>9 DEF Solitary

(* The server stops: nobody is at work.                                    *)
LEMMA SolitaryCrash ==
  ASSUME Inv, Inv', Solitary, Crash
  PROVE  Solitary'
<1>1. UNCHANGED <<rows, overlapped>> /\ Restart
  BY DEF Crash
<1>2. \A c \in Calls : ~ Running(c)'
  BY <1>1, RestartEffect DEF Inv, Running, Blank
<1>3. \A c \in Calls : Pending(c)' = {}
  BY <1>2, NoneOrderly DEF Inv, CallsOK, CallOK, Pending
<1>4. SingleRows => SingleRows'
  BY <1>1 DEF SingleRows
<1> QED
  BY <1>1, <1>2, <1>3, <1>4 DEF Solitary, Cautious, Counted, Ahead

(* A step of a call, whatever it was asked for.                            *)
LEMMA SolitaryServe ==
  ASSUME Inv, Inv', Solitary, NEW c \in Calls, NEW s \in Sent(c), CallStep(c, s), UNCHANGED overlapped
  PROVE  Solitary'
<1> SUFFICES ASSUME ~ overlapped PROVE Solitary'
  BY DEF Solitary
<1>1. SingleRows /\ Cautious(c)
  BY DEF Solitary
<1>2. Proceeds(c, s) /\ Understood(c, Request(c))
  BY ServeProceeds, SentFacts DEF Inv
<1>3. Running(c) /\ Alone(c)
  BY <1>2, ServedCall
<1>4. Request(c).op \in Careless \cup TransferOps \cup {"createReceipt", "restoreWarehouse"}
  BY <1>2 DEF Understood, Careless, TransferOps
<1>5. SingleRows' /\ (Running(c)' => Cautious(c)')
  BY <1>1, <1>4, CarelessServed, ReceiptServed, TransferServed, RestoreServed
<1> QED
  BY <1>3, <1>5, AloneStays

(* The calls and the rows are what they are meant to be, and when calls    *)
(* come one at a time, what a call has found is still so when it acts.     *)
LEMMA SolitaryHolds == Spec => [](Inv /\ Solitary)
<1>1. Init => Inv /\ Solitary
  BY InitTyped, SolitaryInit
<1>2. Inv /\ Inv' /\ Solitary /\ [Next]_vars => Solitary'
  <2> SUFFICES ASSUME Inv, Inv', Solitary, [Next]_vars PROVE Solitary'
    OBVIOUS
  <2>1. CASE Crash
    BY <2>1, SolitaryCrash
  <2>2. ASSUME NEW c \in Calls, ReceiveRequest(c) PROVE Solitary'
    BY <2>2, SolitaryReceive
  <2>3. ASSUME NEW c \in Calls, Serve(c) PROVE Solitary'
    <3>1. PICK s \in Sent(c) : CallStep(c, s) /\ UNCHANGED overlapped
      BY <2>3 DEF Serve, CallStep
    <3> QED
      BY <3>1, SolitaryServe
  <2>4. CASE UNCHANGED vars
    BY <2>4 DEF vars, Solitary, SingleRows, Cautious, Counted, Ahead, Fresh, Running, Pending, Request,
         NoneAbove, NoneBelow
  <2> QED
    BY <2>1, <2>2, <2>3, <2>4 DEF Next
<1> QED
  BY <1>1, <1>2, InvHolds, PTL DEF Spec

(* RowsUnique of the run: as long as no two calls have been at work at     *)
(* once, a variant has at most one row in a warehouse.                     *)
THEOREM RowsUniqueHolds == Spec => []RowsUnique
<1>1. Solitary => RowsUnique
  BY DEF Solitary, SingleRows, RowsUnique
<1> QED
  BY <1>1, SolitaryHolds, PTL

(* RestoredEmpty of the run: a warehouse that comes back into use holds    *)
(* nothing, unless two calls were at work at once.                         *)
THEOREM RestoredEmptyHolds == Spec => RestoredEmpty
<1>1. ASSUME Inv, Solitary, [Next]_vars, ~ overlapped, NEW w \in archived \ archived', NEW v \in Variants,
             NEW i \in DOMAIN rows[v][w]
      PROVE  rows[v][w][i] = 0
  <2>1. PICK c \in Calls : \E s \in Sent(c) : CallStep(c, s)
    <3>1. ~ (Crash \/ UNCHANGED vars \/ \E b \in Calls : ReceiveRequest(b))
      BY <1>1 DEF Crash, vars, ReceiveRequest
    <3> QED
      BY <1>1, <3>1 DEF Next, Serve, CallStep
  <2>0. PICK s \in Sent(c) : CallStep(c, s)
    BY <2>1
  <2>2. OpenWarehouse(c, s) /\ w = Request(c).doc[2]
    BY <1>1, <2>0 DEF CallStep, PremisesStep, ArchiveWarehouse, CloseWarehouse, RestoreWarehouse,
         CountGoods, OpenWarehouse, LoseStatement
  <2>3. s.op = "openWarehouse" /\ s \in Pending(c) /\ CallOK(c) /\ Running(c)
    BY <1>1, <2>2, SentFacts DEF Inv, OpenWarehouse
  <2>4. Sent(c) = {s} /\ Pending(c) = Sent(c) \cup After(call[c].stages)
        /\ \A t \in After(call[c].stages) : Follows(s.op, t.op)
    BY <2>3, SentFirst DEF Solo
  <2>5. ~ Ahead(c, "countPositive") /\ ~ Ahead(c, "countNegative") /\ Ahead(c, "openWarehouse")
    BY <2>3, <2>4 DEF Ahead, Follows, Rank
  <2>6. NoneAbove(w) /\ NoneBelow(w)
    BY <1>1, <2>2, <2>5 DEF Solitary, Cautious, Counted
  <2>7. w \in Places /\ rows[v][w] \in Seq(Int)
    BY <1>1, OpeningAssumption DEF Inv, Typed, RowsTypeOK, Places
  <2>8. rows[v][w][i] \in Int
    BY <1>1, <2>7
  <2> QED
    BY <1>1, <2>6, <2>8 DEF NoneAbove, NoneBelow
<1>2. Inv /\ Solitary /\ [Next]_vars =>
        [~ overlapped => \A w \in archived \ archived' : \A v \in Variants :
           \A i \in DOMAIN rows[v][w] : rows[v][w][i] = 0]_vars
  BY <1>1
<1> QED
  BY <1>2, SolitaryHolds, PTL DEF Spec, RestoredEmpty
=============================================================================
