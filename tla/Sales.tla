------------------------------- MODULE Sales -------------------------------
(***************************************************************************)
(* Selling and taking back: OrdersService.create and RefundsService.create *)
(* running concurrently with each other and with the closing of shifts.    *)
(*                                                                         *)
(* A handler first reads what it checks (the shift, the order, the user)   *)
(* outside any transaction, then runs one interactive transaction.  The    *)
(* transaction updates one row after another: for each line the quantity   *)
(* in the warehouse, the total of the variant and the total of the         *)
(* product.  It holds the locks of the rows it has updated until it ends,  *)
(* waits for the rows of others, and is rolled back by the database when   *)
(* the waiting is circular.  What it wrote is seen when it commits.        *)
(***************************************************************************)
EXTENDS StockBook, SequencesExt

CONSTANTS
  NShifts,      \* how many shifts there are
  WarehouseOf,  \* the warehouse of each shift's point of sale, or None
  Stocked,      \* the pairs <<v, w>> that have a variantToWarehouse row
  Quantities,   \* the quantities a client may name
  MaxItems,     \* how many items a client sends at most (a bound for TLC)
  None          \* no such id

Shifts == 1..NShifts

(* The shift ids a client may send; no shift has the id 0.                 *)
ShiftIds == 0..NShifts

(* A call, numbered by arrival; also the id of the order or refund it      *)
(* inserts, which is the document it posts.                                *)
Calls == Docs

ASSUME SalesAssumption ==
  /\ NShifts \in Nat /\ MaxItems \in Nat
  /\ WarehouseOf \in [Shifts -> Warehouses \cup {None}]
  /\ Stocked \subseteq Variants \X Warehouses
  /\ Quantities \subseteq Int
  /\ None \notin Int

VARIABLES
  opened,   \* cashierShift.isOpened
  orders,   \* the table order, with its customerOrderItem rows, by id
  refunds,  \* the table refund, with its refundItem rows, by id
  pc,       \* where each call is
  call      \* what each call asks for and knows

salesVars == <<vtw, variantTotal, productTotal, docs, opened, orders, refunds, pc, call>>
tables == <<vtw, variantTotal, productTotal, docs, opened, orders, refunds>>

Put(table, k, row) ==
  [i \in DOMAIN table \cup {k} |-> IF i = k THEN row ELSE table[i]]

(* An item of an order names a variant; one of a refund, a line of an order. *)
OrderItem == [variant : Variants, quantity : Quantities]
RefundItem == [order : Calls, line : 1..MaxItems, quantity : Quantities]

(* A call that asks for that; the rows of its document, and how many of    *)
(* them it has updated, come later.                                        *)
Request(op, shift, admin, order, items) ==
  [op |-> op, shift |-> shift, admin |-> admin, order |-> order,
   items |-> items, lines |-> <<>>, step |-> 0]
Blank == Request("none", None, FALSE, None, <<>>)

Init ==
  /\ BookInit
  /\ opened = [s \in Shifts |-> TRUE]
  /\ orders = [o \in {} |-> Blank]
  /\ refunds = [r \in {} |-> Blank]
  /\ pc = [c \in Calls |-> "idle"]
  /\ call = [c \in Calls |-> Blank]
-----------------------------------------------------------------------------
Goto(c, label) == pc' = [pc EXCEPT ![c] = label]

(* A handler that ends forgets what it knew.                               *)
End(c, label) == Goto(c, label) /\ call' = [call EXCEPT ![c] = Blank]

Receive(c, request) ==
  /\ pc[c] = "idle"
  /\ \A b \in 1..(c-1) : pc[b] # "idle"
  /\ Goto(c, "check")
  /\ call' = [call EXCEPT ![c] = request]
  /\ UNCHANGED tables

ReceiveOrder(c) ==
  \E s \in ShiftIds, items \in SeqOf(OrderItem, MaxItems) :
    Receive(c, Request("order", s, FALSE, None, items))

(* The client picks lines of the orders it was shown, of any of them; the  *)
(* shift is optional.                                                      *)
ShownItems ==
  {i \in RefundItem : i.order \in DOMAIN orders /\ i.line \in DOMAIN orders[i.order].lines}

ReceiveRefund(c) ==
  \E s \in ShiftIds \cup {None}, admin \in BOOLEAN, o \in DOMAIN orders \cup {None},
     items \in SeqOf(ShownItems, MaxItems) :
    Receive(c, Request("refund", s, admin, o, items))

(* The order's rows, in the order in which the reads of its items finish:  *)
(* an item whose variant has no variantToWarehouse row in the shift's      *)
(* warehouse is left out.                                                  *)
SoldLines(items, w) ==
  LET kept == {k \in DOMAIN items : <<items[k].variant, w>> \in Stocked}
  IN  {[j \in DOMAIN p |-> [variant |-> items[p[j]].variant, warehouse |-> w,
                           quantity |-> items[p[j]].quantity]] : p \in SetToSeqs(kept)}

(* The refund's rows, likewise: goods go back to the row of the order's    *)
(* line.                                                                   *)
ReturnedLines(items) ==
  {[j \in DOMAIN p |-> [orders[items[p[j]].order].lines[items[p[j]].line]
                          EXCEPT !.quantity = items[p[j]].quantity]] :
     p \in SetToSeqs(DOMAIN items)}

(* Mutant of OrderAdmitted: the shift may be closed.                       *)
OrderAdmittedAnyway(c) ==
  /\ call[c].shift \in Shifts
  /\ WarehouseOf[call[c].shift] # None

(* The shift exists and is open, and its point of sale has a warehouse.    *)
OrderAdmitted(c) ==
  /\ call[c].shift \in Shifts
  /\ opened[call[c].shift]
  /\ WarehouseOf[call[c].shift] # None

(* Mutant of RefundAdmitted: the order is not required.                    *)
RefundAdmittedUnordered(c) ==
  /\ call[c].shift \in Shifts \cup {None}
  /\ ~ call[c].admin => call[c].shift # None /\ opened[call[c].shift]

(* The order exists, the shift if one is named, and only an administrator  *)
(* does without an open one.                                               *)
RefundAdmitted(c) ==
  /\ call[c].order \in DOMAIN orders
  /\ call[c].shift \in Shifts \cup {None}
  /\ ~ call[c].admin => call[c].shift # None /\ opened[call[c].shift]

Admitted(c) == IF call[c].op = "order" THEN OrderAdmitted(c) ELSE RefundAdmitted(c)

Refuse(c) ==
  /\ pc[c] = "check"
  /\ ~ Admitted(c)
  /\ End(c, "failed")
  /\ UNCHANGED tables

(* An order without items is answered without doing anything.              *)
AcceptEmptyOrder(c) ==
  /\ pc[c] = "check"
  /\ call[c].op = "order" /\ Admitted(c) /\ call[c].items = <<>>
  /\ End(c, "done")
  /\ UNCHANGED tables

Begin(c, choices) ==
  /\ pc[c] = "check"
  /\ Admitted(c)
  /\ Goto(c, "tx")
  /\ \E lines \in choices :
       call' = [call EXCEPT ![c].lines = lines, ![c].items = <<>>]
  /\ UNCHANGED tables

BeginOrder(c) ==
  /\ call[c].op = "order" /\ call[c].items # <<>>
  /\ Begin(c, SoldLines(call[c].items, WarehouseOf[call[c].shift]))

BeginRefund(c) ==
  /\ call[c].op = "refund"
  /\ Begin(c, ReturnedLines(call[c].items))
-----------------------------------------------------------------------------
(* The transaction. *)

(* The rows it updates, in order: three per line.                          *)
RowsOf(line) ==
  << <<"variantToWarehouse", line.variant, line.warehouse>>,
     <<"variant", line.variant>>,
     <<"product", ProductOf[line.variant]>> >>
NRows(c) == 3 * Len(call[c].lines)
RowAt(c, k) == RowsOf(call[c].lines[1 + ((k - 1) \div 3)])[1 + ((k - 1) % 3)]

InTx(c) == pc[c] = "tx"
Locked(c) == IF InTx(c) THEN {RowAt(c, k) : k \in 1..call[c].step} ELSE {}

WaitsFor(c, d) ==
  /\ InTx(c) /\ c # d /\ call[c].step < NRows(c)
  /\ RowAt(c, call[c].step + 1) \in Locked(d)

(* Mutants of UpdateRow: each update is sent outside the transaction, so   *)
(* that it is seen at once, or waits for the transaction's own locks.      *)
UpdateRowAtOnce(c) ==
  /\ InTx(c)
  /\ call[c].step < NRows(c)
  /\ LET line == call[c].lines[1 + (call[c].step \div 3)]
     IN  vtw' = [vtw EXCEPT ![line.variant][line.warehouse] = @ - line.quantity]
  /\ call' = [call EXCEPT ![c].step = @ + 1]
  /\ UNCHANGED <<variantTotal, productTotal, docs, opened, orders, refunds, pc>>
UpdateRowBlocked(c) ==
  /\ InTx(c)
  /\ call[c].step < NRows(c)
  /\ \A d \in Calls : RowAt(c, call[c].step + 1) \notin Locked(d)
  /\ call' = [call EXCEPT ![c].step = @ + 1]
  /\ UNCHANGED <<tables, pc>>

UpdateRow(c) ==
  /\ InTx(c)
  /\ call[c].step < NRows(c)
  /\ \A d \in Calls : ~ WaitsFor(c, d)
  /\ call' = [call EXCEPT ![c].step = @ + 1]
  /\ UNCHANGED <<tables, pc>>

CommitOrder(c) ==
  /\ call[c].op = "order"
  /\ orders' = Put(orders, c, [shift |-> call[c].shift, lines |-> call[c].lines])
  /\ UNCHANGED refunds

CommitRefund(c) ==
  /\ call[c].op = "refund"
  /\ refunds' = Put(refunds, c, [order |-> call[c].order, shift |-> call[c].shift,
                                 admin |-> call[c].admin, lines |-> call[c].lines])
  /\ UNCHANGED orders

(* Mutant of MovedLines: an order increments too.                          *)
MovedLinesUnsigned(c) == call[c].lines

(* An order decrements the quantities of its rows, a refund increments them. *)
MovedLines(c) ==
  [k \in 1..Len(call[c].lines) |->
     [call[c].lines[k] EXCEPT !.quantity = IF call[c].op = "order" THEN -@ ELSE @]]

Commit(c) ==
  /\ InTx(c)
  /\ call[c].step = NRows(c)
  /\ Apply(MovedLines(c))
  /\ docs' = Put(docs, c, MovedLines(c))
  /\ CommitOrder(c) \/ CommitRefund(c)
  /\ End(c, "done")
  /\ UNCHANGED opened

(* The calls of a circle of waiting transactions.                          *)
Circles ==
  {D \in SUBSET {c \in Calls : InTx(c)} :
     /\ D # {}
     /\ \A c \in D : \E d \in D : WaitsFor(c, d)
     /\ \A d \in D : \E c \in D : WaitsFor(c, d)}

(* PostgreSQL ends a circle by rolling one of its transactions back.       *)
DeadlockVictim(c) ==
  /\ \E D \in Circles : c \in D
  /\ End(c, "failed")
  /\ UNCHANGED tables

(* A timeout of the transaction, a lost connection or a restart.           *)
Abort(c) ==
  /\ pc[c] \in {"check", "tx"}
  /\ End(c, "failed")
  /\ UNCHANGED tables

(* ShiftsService.close or closeAllShifts.                                  *)
CloseShift(s) ==
  /\ opened[s]
  /\ opened' = [opened EXCEPT ![s] = FALSE]
  /\ UNCHANGED <<vtw, variantTotal, productTotal, docs, orders, refunds, pc, call>>

(* ShiftsService.update with a body whose isOpened is true.                *)
ReopenShift(s) ==
  /\ ~ opened[s]
  /\ opened' = [opened EXCEPT ![s] = TRUE]
  /\ UNCHANGED <<vtw, variantTotal, productTotal, docs, orders, refunds, pc, call>>
-----------------------------------------------------------------------------
Serve(c) ==
  \/ Refuse(c) \/ AcceptEmptyOrder(c) \/ BeginOrder(c) \/ BeginRefund(c)
  \/ UpdateRow(c) \/ Commit(c) \/ DeadlockVictim(c)

Next ==
  \/ \E c \in Calls : ReceiveOrder(c) \/ ReceiveRefund(c) \/ Serve(c) \/ Abort(c)
  \/ \E s \in Shifts : CloseShift(s) \/ ReopenShift(s)

Spec == Init /\ [][Next]_salesVars

(* The event loop and the database go on with every call.                  *)
FairSpec == Spec /\ \A c \in Calls : WF_salesVars(Serve(c))
-----------------------------------------------------------------------------
TypeOK ==
  /\ BookTypeOK
  /\ opened \in [Shifts -> BOOLEAN]
  /\ DOMAIN orders \cup DOMAIN refunds \subseteq Calls
  /\ \A o \in DOMAIN orders : orders[o].shift \in Shifts /\ orders[o].lines \in Seq(Line)
  /\ \A r \in DOMAIN refunds :
       /\ refunds[r].order \in Calls /\ refunds[r].shift \in Shifts \cup {None}
       /\ refunds[r].lines \in Seq(Line)
  /\ pc \in [Calls -> {"idle", "check", "tx", "done", "failed"}]
  /\ \A c \in Calls : call[c].lines \in Seq(Line) /\ call[c].step \in 0..(3 * MaxItems)

(* What is in a warehouse is what was there, less the quantities of the    *)
(* recorded order rows, plus those of the recorded refund rows, for each   *)
(* interleaving of the transactions: one that was rolled back has moved    *)
(* nothing, and none has moved goods without its record.                   *)
InRows(table, v, w) ==
  SumTo([c \in Calls |-> IF c \in DOMAIN table THEN Moved(table[c].lines, v, w) ELSE 0], NDocs)
StockConserved ==
  \A v \in Variants, w \in Warehouses :
    vtw[v][w] = Opening[v][w] - InRows(orders, v, w) + InRows(refunds, v, w)

(* Every order and refund moves the stock at its three levels at once, as  *)
(* StockBook says.                                                         *)
ImplementsBook == BookSpec

(* A cashier cannot sell or take back in a shift that was closed before    *)
(* the call arrived and has not been opened again by an update: only calls *)
(* that were being served at the closing can still be recorded in it.      *)
NothingAfterClosing ==
  \A c \in Calls, s \in Shifts :
    [](pc[c] = "idle" /\ [](~ opened[s]) =>
         []( /\ c \in DOMAIN orders => orders[c].shift # s
             /\ c \in DOMAIN refunds => refunds[c].admin \/ refunds[c].shift # s))

(* "Смена закрыта.": an order is recorded only in an open shift.           *)
OrderInOpenShift ==
  [][\A c \in DOMAIN orders' \ DOMAIN orders : opened[orders'[c].shift]]_salesVars

(* Every call is answered, though transactions wait for each other's rows  *)
(* and may do so in a circle.                                              *)
CallsEnd == \A c \in Calls : pc[c] = "check" ~> pc[c] \in {"done", "failed"}
=============================================================================
