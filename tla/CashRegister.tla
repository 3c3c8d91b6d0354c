---------------------------- MODULE CashRegister ----------------------------
(***************************************************************************)
(* The cash register of the points of sale: the handlers of ShiftsService  *)
(* (open a shift, deposit, withdraw, correct, close) and the nightly job   *)
(* that closes every shift.                                                *)
(*                                                                         *)
(* A call is a process.  Each step of it is one statement sent to the      *)
(* database, and the statements of concurrent calls interleave: none of    *)
(* these handlers opens a transaction.  The two writes that move cash, a   *)
(* row of the transaction table and the increment of the till's balance,   *)
(* are sent together by Promise.all, so they execute in either order, one  *)
(* may fail while the other succeeds, and a restart of the server can      *)
(* leave either undone.                                                    *)
(***************************************************************************)
EXTENDS Integers, FiniteSets, Sums

CONSTANTS
  Pos,       \* the points of sale, each with one till
  Users,     \* the users who call the service
  Admins,    \* those with the role ADMIN
  Amounts,   \* the sums of money a client may name
  NCalls,    \* how many calls are received (a bound for TLC)
  None       \* no such id

ASSUME CashAssumption ==
  /\ NCalls \in Nat
  /\ Admins \subseteq Users
  /\ Amounts \subseteq Int
  /\ None \notin Users \cup Pos \cup (1..NCalls)

(* The DTOs only ask for a number; the bound on overdrafts is about sums   *)
(* that are not negative.                                                  *)
ASSUME AmountsAssumption == Amounts \subseteq Nat

(* A call, numbered by arrival; also the id of the shift or of the         *)
(* transaction row it inserts.                                             *)
Calls == 1..NCalls

Directions == {"DEBIT", "CREDIT"}
Writes == {"row", "balance"}
WriteStates == {"none", "todo", "done", "lost"}
Ops == {"none", "create", "deposit", "withdrawal", "close", "update"}

(* The isOpened of an update's body.  The DTO does not declare it, but     *)
(* nothing strips what is not declared, and the body is written as it is.  *)
Flags == {"absent", "true", "false"}

(* Where a handler is: the statement it will execute next.                 *)
Running == {"count", "insert", "getShift", "getPos", "pay", "close", "update"}
Ended == {"done", "failed", "aborted"}

VARIABLES
  balance,   \* pointOfSale.balance
  shifts,    \* the table cashierShift, by id
  ledger,    \* the rows of the table transaction of deposits and withdrawals
  pc,        \* where each call is
  call       \* what each call asks for and has read so far

tables == <<balance, shifts, ledger>>
vars == <<balance, shifts, ledger, pc, call>>

Shift == [pos : Pos, cashier : Users, isOpened : BOOLEAN,
          number : 1..NCalls, startingCashBalance : Amounts]
Row == [shift : Calls, amount : Amounts, direction : Directions]
Call == [op : Ops, user : Users \cup {None}, shift : Calls \cup {None},
         pos : Pos \cup {None}, amount : Amounts \cup {0}, count : 0..NCalls,
         isOpened : Flags, stmt : [Writes -> WriteStates]]

(* A table gains or replaces the row with key k. *)
Put(table, k, row) ==
  [i \in DOMAIN table \cup {k} |-> IF i = k THEN row ELSE table[i]]

Blank == [op |-> "none", user |-> None, shift |-> None, pos |-> None,
          amount |-> 0, count |-> 0, isOpened |-> "absent",
          stmt |-> [w \in Writes |-> "none"]]

Init ==
  /\ balance = [p \in Pos |-> 0]
  /\ shifts = [s \in {} |-> Blank]
  /\ ledger = [t \in {} |-> Blank]
  /\ pc = [c \in Calls |-> "idle"]
  /\ call = [c \in Calls |-> Blank]
-----------------------------------------------------------------------------
(* Helpers of the handlers. *)

Goto(c, label) == pc' = [pc EXCEPT ![c] = label]

(* A handler that ends without a cash movement leaves nothing behind.      *)
End(c, label) == Goto(c, label) /\ call' = [call EXCEPT ![c] = Blank]

Reject(c) == End(c, "failed")

ShiftsOf(p) == {s \in DOMAIN shifts : shifts[s].pos = p}

Exists(s) == s \in DOMAIN shifts

(* user.id === shift.cashierId || user.role === 'ADMIN' *)
MayUse(u, s) == shifts[s].cashier = u \/ u \in Admins

DirectionOf(op) == IF op = "withdrawal" THEN "CREDIT" ELSE "DEBIT"

Signed(direction, amount) == IF direction = "DEBIT" THEN amount ELSE -amount

(* What the call adds to the balance. *)
Delta(c) == Signed(DirectionOf(call[c].op), call[c].amount)

(* A call arrives with its parameters. *)
Receive(c, request, label) ==
  /\ pc[c] = "idle"
  /\ \A b \in 1..(c-1) : pc[b] # "idle"
  /\ Goto(c, label)
  /\ call' = [call EXCEPT ![c] = request]
  /\ UNCHANGED tables

(* The ids a client knows: those of the shifts it was shown, or a wrong one. *)
KnownIds == DOMAIN shifts \cup {None}

ReceiveCreate(c) ==
  \E u \in Users, p \in Pos, a \in Amounts :
    Receive(c, [Blank EXCEPT !.op = "create", !.user = u, !.pos = p,
                             !.amount = a], "count")

ReceiveCash(c) ==
  \E u \in Users, s \in KnownIds, a \in Amounts, op \in {"deposit", "withdrawal"} :
    Receive(c, [Blank EXCEPT !.op = op, !.user = u, !.shift = s, !.amount = a],
            "getShift")

ReceiveClose(c) ==
  \E u \in Users, s \in KnownIds :
    Receive(c, [Blank EXCEPT !.op = "close", !.user = u, !.shift = s], "getShift")

(* update is open to administrators only.  (A body that gives the shift    *)
(* another name or point of sale is left out.)                             *)
ReceiveUpdate(c) ==
  \E u \in Admins, s \in KnownIds, a \in Amounts, flag \in Flags :
    Receive(c, [Blank EXCEPT !.op = "update", !.user = u, !.shift = s,
                             !.amount = a, !.isOpened = flag], "getShift")

(* Mutant of CountShifts: only the open shifts are counted.                *)
CountOpenShifts(c) ==
  /\ pc[c] = "count"
  /\ LET open == {s \in ShiftsOf(call[c].pos) : shifts[s].isOpened}
     IN  call' = [call EXCEPT ![c].count = Cardinality(open)]
  /\ Goto(c, "insert")
  /\ UNCHANGED tables

(* create: the shifts of the point of sale are counted for the new name.   *)
CountShifts(c) ==
  /\ pc[c] = "count"
  /\ call' = [call EXCEPT ![c].count = Cardinality(ShiftsOf(call[c].pos))]
  /\ Goto(c, "insert")
  /\ UNCHANGED tables

(* Mutant of InsertShift: shifts are numbered from 0.                      *)
InsertShiftFromZero(c) ==
  /\ pc[c] = "insert"
  /\ shifts' = Put(shifts, c, [pos |-> call[c].pos,
                               cashier |-> call[c].user,
                               isOpened |-> TRUE,
                               number |-> call[c].count,
                               startingCashBalance |-> call[c].amount])
  /\ call' = [call EXCEPT ![c].shift = c, ![c].count = 0]
  /\ Goto(c, "getShift")
  /\ UNCHANGED <<balance, ledger>>

(* create: the shift is inserted, then handed to deposit.                  *)
InsertShift(c) ==
  /\ pc[c] = "insert"
  /\ shifts' = Put(shifts, c, [pos |-> call[c].pos,
                               cashier |-> call[c].user,
                               isOpened |-> TRUE,
                               number |-> call[c].count + 1,
                               startingCashBalance |-> call[c].amount])
  /\ call' = [call EXCEPT ![c].shift = c, ![c].count = 0]
  /\ Goto(c, "getShift")
  /\ UNCHANGED <<balance, ledger>>

(* deposit, withdrawal, close and update: the shift is read.               *)
ShiftMissing(c) ==
  /\ pc[c] = "getShift"
  /\ ~ Exists(call[c].shift)
  /\ Reject(c)
  /\ UNCHANGED tables

ShiftForbidden(c) ==
  /\ pc[c] = "getShift"
  /\ Exists(call[c].shift)
  /\ call[c].op # "update"
  /\ ~ MayUse(call[c].user, call[c].shift)
  /\ Reject(c)
  /\ UNCHANGED tables

GetShift(c) ==
  /\ pc[c] = "getShift"
  /\ Exists(call[c].shift)
  /\ call[c].op = "update" \/ MayUse(call[c].user, call[c].shift)
  /\ Goto(c, CASE call[c].op = "close" -> "close"
               [] call[c].op = "update" -> "update"
               [] OTHER -> "getPos")
  /\ call' = [call EXCEPT ![c].pos = shifts[call[c].shift].pos]
  /\ UNCHANGED tables

(* deposit and withdrawal: the till is read, and the two writes are sent   *)
(* unless a withdrawal asks for more than the balance read.                *)
Pay(c) ==
  /\ Goto(c, "pay")
  /\ call' = [call EXCEPT ![c].stmt = [w \in Writes |-> "todo"]]

GetPosForDeposit(c) ==
  /\ pc[c] = "getPos"
  /\ call[c].op # "withdrawal"
  /\ Pay(c)
  /\ UNCHANGED tables

(* Mutant of GetPosForWithdrawal: the balance is not checked.              *)
GetPosUnchecked(c) ==
  /\ pc[c] = "getPos"
  /\ call[c].op = "withdrawal"
  /\ Pay(c)
  /\ UNCHANGED tables

GetPosForWithdrawal(c) ==
  /\ pc[c] = "getPos"
  /\ call[c].op = "withdrawal"
  /\ IF call[c].amount > balance[call[c].pos] THEN Reject(c) ELSE Pay(c)
  /\ UNCHANGED tables

(* Mutants of Settle: a failed write is not reported (Promise.allSettled), *)
(* or the call waits for it forever.                                       *)
SettleSilently(c, w, state) ==
  LET stmt == [call[c].stmt EXCEPT ![w] = state]
  IN  /\ call' = [call EXCEPT ![c].stmt = stmt]
      /\ Goto(c, IF \E v \in Writes : stmt[v] = "todo" THEN "pay" ELSE "done")
SettleNever(c, w, state) ==
  LET stmt == [call[c].stmt EXCEPT ![w] = state]
  IN  /\ call' = [call EXCEPT ![c].stmt = stmt]
      /\ Goto(c, IF \A v \in Writes : stmt[v] = "done" THEN "done" ELSE "pay")

(* One of the two promises settles; with the second one the call returns,  *)
(* or rejects if one of them failed.                                       *)
Settle(c, w, state) ==
  LET stmt == [call[c].stmt EXCEPT ![w] = state]
  IN  /\ call' = [call EXCEPT ![c].stmt = stmt]
      /\ pc' = [pc EXCEPT ![c] = CASE \E v \in Writes : stmt[v] = "todo" -> "pay"
                                   [] \A v \in Writes : stmt[v] = "done" -> "done"
                                   [] OTHER -> "failed"]

CreateTransaction(c) ==
  /\ pc[c] = "pay"
  /\ call[c].stmt["row"] = "todo"
  /\ ledger' = Put(ledger, c, [shift |-> call[c].shift,
                               amount |-> call[c].amount,
                               direction |-> DirectionOf(call[c].op)])
  /\ Settle(c, "row", "done")
  /\ UNCHANGED <<balance, shifts>>

(* Mutant of UpdateBalance: a withdrawal increments as a deposit does.     *)
IncrementBalance(c) ==
  /\ pc[c] = "pay"
  /\ call[c].stmt["balance"] = "todo"
  /\ balance' = [balance EXCEPT ![call[c].pos] = @ + call[c].amount]
  /\ Settle(c, "balance", "done")
  /\ UNCHANGED <<shifts, ledger>>

(* balance: { increment } or { decrement }: atomic in the database.        *)
UpdateBalance(c) ==
  /\ pc[c] = "pay"
  /\ call[c].stmt["balance"] = "todo"
  /\ balance' = [balance EXCEPT ![call[c].pos] = @ + Delta(c)]
  /\ Settle(c, "balance", "done")
  /\ UNCHANGED <<shifts, ledger>>

(* One of the two statements fails; the other is not called back.          *)
LoseWrite(c) ==
  /\ pc[c] = "pay"
  /\ \E w \in Writes : call[c].stmt[w] = "todo" /\ Settle(c, w, "lost")
  /\ UNCHANGED tables

CloseShift(c) ==
  /\ pc[c] = "close"
  /\ shifts' = [shifts EXCEPT ![call[c].shift].isOpened = FALSE]
  /\ End(c, "done")
  /\ UNCHANGED <<balance, ledger>>

(* Mutant of Corrected: a body without isOpened stands for an open shift.  *)
CorrectedOpen(shift, body) ==
  [shift EXCEPT !.startingCashBalance = body.amount, !.isOpened = body.isOpened # "false"]

(* update writes the body over the columns it names (closedAt stays).      *)
Corrected(shift, body) ==
  [shift EXCEPT !.startingCashBalance = body.amount,
                !.isOpened = IF body.isOpened = "absent" THEN @ ELSE body.isOpened = "true"]

UpdateShift(c) ==
  /\ pc[c] = "update"
  /\ shifts' = [shifts EXCEPT ![call[c].shift] = Corrected(@, call[c])]
  /\ End(c, "done")
  /\ UNCHANGED <<balance, ledger>>

(* The job of 23:00: one updateMany over the opened shifts.                *)
CloseAllShifts ==
  /\ \E s \in DOMAIN shifts : shifts[s].isOpened
  /\ shifts' = [s \in DOMAIN shifts |-> [shifts[s] EXCEPT !.isOpened = FALSE]]
  /\ UNCHANGED <<balance, ledger, pc, call>>

(* The server stops and starts again: the calls it was serving are gone,   *)
(* with the statements they had not executed.                              *)
Restart ==
  /\ \E c \in Calls : pc[c] \in Running
  /\ pc' = [c \in Calls |-> IF pc[c] \in Running THEN "aborted" ELSE pc[c]]
  /\ call' = [c \in Calls |-> IF pc[c] \in Running \ {"pay"} THEN Blank ELSE call[c]]
  /\ UNCHANGED tables
-----------------------------------------------------------------------------
Arrive(c) ==
  ReceiveCreate(c) \/ ReceiveCash(c) \/ ReceiveClose(c) \/ ReceiveUpdate(c)

(* The steps of a handler that the event loop and the database make sure   *)
(* happen once it is called.                                               *)
Serve(c) ==
  \/ CountShifts(c) \/ InsertShift(c)
  \/ ShiftMissing(c) \/ ShiftForbidden(c) \/ GetShift(c)
  \/ GetPosForDeposit(c) \/ GetPosForWithdrawal(c)
  \/ CreateTransaction(c) \/ UpdateBalance(c)
  \/ CloseShift(c) \/ UpdateShift(c)

Next ==
  \/ \E c \in Calls : Arrive(c) \/ Serve(c) \/ LoseWrite(c)
  \/ CloseAllShifts
  \/ Restart

Spec == Init /\ [][Next]_vars

(* Handlers run to their end, and the job fires every night.               *)
FairSpec == Spec /\ (\A c \in Calls : WF_vars(Serve(c))) /\ WF_vars(CloseAllShifts)
-----------------------------------------------------------------------------
(* What the service promises. *)

(* Every variable keeps its type; in particular a shift is numbered from 1 *)
(* (`Смена #${count + 1}`).                                                *)
TypeOK ==
  /\ balance \in [Pos -> Int]
  /\ DOMAIN shifts \subseteq Calls
  /\ \A s \in DOMAIN shifts : shifts[s] \in Shift
  /\ DOMAIN ledger \subseteq Calls
  /\ \A t \in DOMAIN ledger : ledger[t] \in Row
  /\ pc \in [Calls -> {"idle"} \cup Running \cup Ended]
  /\ call \in [Calls -> Call]

(* What the rows of the ledger say is in the till of p. *)
RowOf(t, p) ==
  IF t \in DOMAIN ledger /\ shifts[ledger[t].shift].pos = p
    THEN Signed(ledger[t].direction, ledger[t].amount)
    ELSE 0
LedgerBalance(p) == SumTo([t \in Calls |-> RowOf(t, p)], NCalls)

(* What a half-done call leaves between the till and the ledger.           *)
Done(c, w) == call[c].stmt[w] = "done"
Half(c, p) ==
  IF call[c].pos # p THEN 0
  ELSE (IF Done(c, "balance") THEN Delta(c) ELSE 0)
         - (IF Done(c, "row") THEN Delta(c) ELSE 0)

(* The balance of a till differs from the sum of its ledger rows exactly   *)
(* by the cash movements of which one of the two writes of Promise.all is  *)
(* done and the other is not, whatever the interleaving, the failed        *)
(* statements and the restarts.                                            *)
DriftExplained ==
  \A p \in Pos :
    balance[p] - LedgerBalance(p) = SumTo([c \in Calls |-> Half(c, p)], NCalls)

(* A withdrawal on p whose check of the balance has passed. *)
Granted(c, p) ==
  call[c].op = "withdrawal" /\ call[c].pos = p /\ call[c].stmt["balance"] # "none"

(* The granted withdrawals on p other than c. *)
GrantedBeside(c, p) ==
  SumTo([d \in Calls |-> IF d # c /\ Granted(d, p) THEN call[d].amount ELSE 0], NCalls)

(* A till is overdrawn only through withdrawals that raced with another    *)
(* one (withdrawal checks the balance in one statement and decrements it   *)
(* in another), and by no more than all of them but one.                   *)
OverdraftBounded ==
  \A p \in Pos :
    \/ balance[p] >= 0
    \/ \E c \in Calls : Granted(c, p) /\ balance[p] >= - GrantedBeside(c, p)

(* A create that returns has left its shift and the deposit of its         *)
(* starting cash, in the ledger and in the till.                           *)
CreatedShiftIsFunded ==
  \A c \in Calls : call[c].op = "create" /\ pc[c] = "done" =>
    /\ Exists(c)
    /\ shifts[c].pos = call[c].pos
    /\ c \in DOMAIN ledger
    /\ ledger[c] = [shift |-> c, amount |-> call[c].amount, direction |-> "DEBIT"]
    /\ Done(c, "balance")

(* Creates that overlap may give two shifts the same name, but a shift     *)
(* never gets the name of one of its point of sale that existed before its *)
(* create counted the shifts, even if other creates ran in between.        *)
SameName(s, t) ==
  shifts[s].pos = shifts[t].pos /\ shifts[s].number = shifts[t].number
OldNamesNotReused ==
  \A s, c \in Calls :
    [](Exists(s) /\ pc[c] \in {"idle", "count"} =>
         [](Exists(s) /\ Exists(c) => ~ SameName(s, c)))

(* No balance is negative: what the refusal "Недостаточно средств на кассе *)
(* для выполнения операции." is there for.                                 *)
NeverOverdrawn == \A p \in Pos : balance[p] >= 0

(* Every call ends, though one of its writes may fail or the server stop   *)
(* while it waits for the other.                                           *)
CallsEnd == \A c \in Calls : pc[c] \in Running ~> pc[c] \in Ended

(* A shift that is open, however it came to be, is closed in the end, by  *)
(* its cashier, an update or the nightly job; and a closed one is opened   *)
(* again only by an update whose body says so: not by an update of         *)
(* something else that read the shift before it was closed and writes      *)
(* after, nor by a create, a deposit or a restart beside the closing.      *)
Opened(s) == Exists(s) /\ shifts[s].isOpened
Closed(s) == Exists(s) /\ ~ shifts[s].isOpened
ToldToOpen(s) ==
  \E c \in Calls : call[c].op = "update" /\ call[c].shift = s /\ call[c].isOpened = "true"
ShiftsClose ==
  /\ \A s \in Calls : Opened(s) ~> Closed(s)
  /\ [][\A s \in Calls : Closed(s) /\ Opened(s)' => ToldToOpen(s)]_vars
=============================================================================
