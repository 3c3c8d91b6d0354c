------------------------------ MODULE Receipts ------------------------------
(***************************************************************************)
(* Goods receipts: goods that a supplier delivers to a warehouse, and what *)
(* is owed for them (GoodsReceiptsService).  The receipt is recorded in    *)
(* one transaction; the quantities and the supplier's balance are changed  *)
(* before or after it, each in a statement of its own.                     *)
(* Selling prices, names and dates are left out.                           *)
(***************************************************************************)
EXTENDS StockRows, Payments

CONSTANTS
  Deliveries,       \* what a client may send as the lines of a receipt
  AmountsPaid,      \* and as the amount paid, with a receipt or by itself
  OpeningReceipts   \* the receipts to begin with, by id

(* Lines: a quantity and a supplier's price of some variants.  A client    *)
(* names a variant once.                                                   *)
AreLines(lines) ==
  DOMAIN lines \subseteq Variants /\ lines \in [DOMAIN lines -> [quantity : Int, price : Int]]

ASSUME ReceiptsAssumption == AmountsPaid \subseteq Int /\ \A lines \in Deliveries : AreLines(lines)

VARIABLE receipts   \* goodsReceipt with its invoice and its lines, by id

IsReceipt(x) ==
  /\ x = [supplier |-> x.supplier, warehouse |-> x.warehouse, isArchived |-> x.isArchived,
          lines |-> x.lines, paid |-> x.paid, outstanding |-> x.outstanding]
  /\ x.supplier \in Suppliers /\ x.warehouse \in Warehouses /\ x.isArchived \in BOOLEAN
  /\ AreLines(x.lines) /\ x.paid \in Int /\ x.outstanding \in Int

Amount(lines) ==
  SumTo([v \in Variants |-> IF v \in DOMAIN lines THEN lines[v].quantity * lines[v].price ELSE 0],
        NVariants)

(* incrementQuantity: for each variant a statement for its totals and one  *)
(* for its rows in the warehouse.                                          *)
Increments(changes, w) ==
  {[op |-> "total", variant |-> v, quantity |-> changes[v]] : v \in DOMAIN changes}
    \cup {[op |-> "rows", variant |-> v, warehouse |-> w, quantity |-> changes[v]] : v \in DOMAIN changes}

IncrementTotal(c, s) ==
  /\ s.op = "total"
  /\ total' = [total EXCEPT ![s.variant] = @ + s.quantity]
  /\ Executed(c, s)
  /\ UNCHANGED <<rows, balance, payments, receipts, disturbed>>

IncrementRows(c, s) ==
  /\ s.op = "rows"
  /\ rows' = [rows EXCEPT ![s.variant][s.warehouse] = AddToEach(@, s.quantity)]
  /\ Executed(c, s)
  /\ DisturbIf(c, Len(rows[s.variant][s.warehouse]) # 1)
  /\ UNCHANGED <<total, balance, payments, receipts>>
-----------------------------------------------------------------------------
(* Mutant of MissingRows: a row is created for every line.                 *)
RowsOfEachLine(lines, w) == DOMAIN lines

(* getVtwsToCreate *)
MissingRows(lines, w) == {v \in DOMAIN lines : rows[v][w] = <<>>}

(* create: the receipt, the missing rows and the payment in a transaction, *)
(* then the quantities and the balance.                                    *)
CreateReceipt(c, s) ==
  LET r == Request(c)
      lines == r.lines
  IN  /\ s.op = "read" /\ r.op = "createReceipt"
      /\ IF r.supplier \in Suppliers /\ r.warehouse \in Warehouses
           THEN GoOn(c, <<{[op |-> "recordReceipt", missing |-> MissingRows(lines, r.warehouse)]},
                          Increments([v \in DOMAIN lines |-> lines[v].quantity], r.warehouse)
                            \cup {ChangeBalance(r.supplier, Amount(lines) - r.paid)}>>)
           ELSE Refuse(c)
      /\ UNCHANGED <<rows, total, balance, payments, receipts, disturbed>>

RecordReceipt(c, s) ==
  LET r == Request(c)
  IN  /\ s.op = "recordReceipt"
      /\ receipts' = Put(receipts, c,
           [supplier |-> r.supplier, warehouse |-> r.warehouse, isArchived |-> FALSE,
            lines |-> r.lines, paid |-> r.paid, outstanding |-> Amount(r.lines) - r.paid])
      /\ rows' = [v \in Variants |->
           IF v \in s.missing THEN [rows[v] EXCEPT ![r.warehouse] = Append(@, 0)] ELSE rows[v]]
      /\ payments' = Put(payments, c, Payment("SUPPLIER_PAYMENT", r.paid, r.supplier,
                                              [supplier |-> r.supplier, amount |-> r.paid]))
      /\ Executed(c, s)
      /\ UNCHANGED <<total, balance, disturbed>>
-----------------------------------------------------------------------------
(* update.  compareArrays also compares the price, a Decimal with a number,*)
(* so that every line that stays counts as updated.                        *)
NoLines == [v \in {} |-> [quantity |-> 0, price |-> 0]]

(* The supplier's balance: first the old debt goes from the old supplier   *)
(* to the new one (a supplier that is not sent is not the old one: the     *)
(* statement names none, and fails), then the difference is added.         *)
DebtChanges(old, r) ==
  LET lines == Else(r.lines, NoLines)
      debt == Amount(old.lines) - old.paid
      change == Amount(lines) - Else(r.paid, 0) - debt
      replaced == r.supplier # old.supplier
  IN  << IF replaced THEN {ChangeBalance(old.supplier, -debt)} ELSE {},
         IF ~ replaced THEN {}
         ELSE IF r.supplier = None THEN {[op |-> "refused"]} ELSE {ChangeBalance(r.supplier, debt)},
         IF Amount(lines) # 0 /\ (Amount(lines) # Amount(old.lines) \/ r.paid # old.paid)
           THEN {ChangeBalance(Else(r.supplier, old.supplier), change)} ELSE {} >>

(* The updates after which the receipt accounts for the stock and the debt:*)
(* the warehouse stays, and the lines and the amount paid are sent and are *)
(* not nothing.                                                            *)
AccountedReceiptUpdate(old, r) ==
  /\ ~ old.isArchived
  /\ Else(r.warehouse, old.warehouse) = old.warehouse
  /\ r.lines # None /\ Amount(Else(r.lines, NoLines)) # 0
  /\ r.paid # None /\ r.paid # 0

(* Deleted lines are taken from the stock, then the quantities of the      *)
(* other lines are read again and corrected, then the lines are written,   *)
(* the receipt, a payment (of all of the amount, or of minus the old one), *)
(* and the debts.  New lines carry the selling price, which the table does *)
(* not have: the client refuses the transaction.                           *)
UpdateReceipt(c, s) ==
  LET r == Request(c)
      d == r.doc[2]
      old == receipts[d]
      w == Else(r.warehouse, old.warehouse)
      kept == IF r.lines = None THEN {} ELSE DOMAIN old.lines \cap DOMAIN r.lines
      deleted == IF r.lines = None THEN {} ELSE DOMAIN old.lines \ DOMAIN r.lines
      inserted == IF r.lines = None THEN {} ELSE DOMAIN r.lines \ DOMAIN old.lines
      payment == Payment("SUPPLIER_PAYMENT", Else(r.paid, -old.paid), Else(r.supplier, old.supplier),
                         [supplier |-> Else(r.supplier, old.supplier),
                          amount |-> Else(r.paid, -old.paid)])
  IN  /\ s.op = "read" /\ r.op = "updateReceipt"
      /\ IF /\ d \in DOMAIN receipts /\ r.supplier \in Suppliers \cup {None}
            /\ r.warehouse \in Warehouses \cup {None}
           THEN /\ GoOn(c, << Increments([v \in deleted |-> -old.lines[v].quantity], w),
                              IF kept = {} THEN {} ELSE {[op |-> "reread", kept |-> kept, warehouse |-> w]},
                              {[op |-> "line", variant |-> v] : v \in kept},
                              {IF inserted = {}
                                 THEN [op |-> "rewriteReceipt", deleted |-> [v \in deleted |-> old.lines[v]]]
                                                ELSE [op |-> "refused"]},
                              {[op |-> "payment", id |-> c, row |-> payment]} >>
                           \o DebtChanges(old, r))
                /\ DisturbIf(c, Busy(c) \/ ~ AccountedReceiptUpdate(old, r))
           ELSE Refuse(c) /\ UNCHANGED disturbed
      /\ UNCHANGED <<rows, total, balance, payments, receipts>>

(* updateQuantities: the lines that stay are read, and their quantities    *)
(* corrected by the difference.                                            *)
RereadLines(c, s) ==
  LET old == receipts[Request(c).doc[2]].lines
      new == Request(c).lines
  IN  /\ s.op = "reread"
      /\ GoOn(c, <<Increments([v \in s.kept \cap DOMAIN old |-> new[v].quantity - old[v].quantity],
                              s.warehouse)>>)
      /\ UNCHANGED <<rows, total, balance, payments, receipts, disturbed>>

WriteLine(c, s) ==
  LET d == Request(c).doc[2]
  IN  /\ s.op = "line"
      /\ receipts' = IF s.variant \in DOMAIN receipts[d].lines
                       THEN [receipts EXCEPT ![d].lines[s.variant] = Request(c).lines[s.variant]]
                       ELSE receipts
      /\ Executed(c, s)
      /\ UNCHANGED <<rows, total, balance, payments, disturbed>>

(* deleteMany: the lines that still are as they were read go.              *)
LinesBut(lines, deleted) ==
  {v \in DOMAIN lines : v \in DOMAIN deleted => lines[v] # deleted[v]}

(* The receipt and its invoice.  Without an amount paid, or with 0, the    *)
(* invoice has nothing outstanding; without lines its total is 0.          *)
RewriteReceipt(c, s) ==
  LET r == Request(c)
      d == r.doc[2]
      kept == LinesBut(receipts[d].lines, s.deleted)
  IN  /\ s.op = "rewriteReceipt"
      /\ receipts' = [receipts EXCEPT
           ![d].supplier = Else(r.supplier, @), ![d].warehouse = Else(r.warehouse, @),
           ![d].lines = [v \in kept |-> @[v]], ![d].paid = Else(r.paid, @),
           ![d].outstanding = IF Else(r.paid, 0) = 0 THEN 0
                              ELSE Amount(Else(r.lines, NoLines)) - r.paid]
      /\ Executed(c, s)
      /\ UNCHANGED <<rows, total, balance, payments, disturbed>>

(* A statement that the database client refuses.                           *)
FailRefused(c, s) ==
  /\ s.op = "refused"
  /\ Lose(c, s)
  /\ UNCHANGED <<rows, total, balance, payments, receipts>>
-----------------------------------------------------------------------------
(* archive and restore of a receipt that is not, or is, archived: the      *)
(* quantities, the balance and the receipt, side by side.                  *)
ArchiveReceipt(c, s) ==
  LET r == Request(c)
      d == r.doc[2]
      old == receipts[d]
      sign == IF r.op = "archiveReceipt" THEN -1 ELSE 1
  IN  /\ s.op = "read" /\ r.op \in {"archiveReceipt", "restoreReceipt"}
      /\ IF d \in DOMAIN receipts
           THEN /\ GoOn(c, <<IF old.isArchived = (r.op = "archiveReceipt") THEN {}
                             ELSE {[op |-> "everywhere", variant |-> v,
                                    quantity |-> sign * old.lines[v].quantity] : v \in DOMAIN old.lines}
                                    \cup {ChangeBalance(old.supplier, sign * old.outstanding),
                                          [op |-> "markReceipt"]}>>)
                /\ DisturbIf(c, Busy(c))
           ELSE Refuse(c) /\ UNCHANGED disturbed
      /\ UNCHANGED <<rows, total, balance, payments, receipts>>

(* updateVariantQuantities: the total and every row of the variant, in the *)
(* warehouse of the receipt or in another one.                             *)
IncrementEverywhere(c, s) ==
  LET home == receipts[Request(c).doc[2]].warehouse
  IN  /\ s.op = "everywhere"
      /\ total' = [total EXCEPT ![s.variant] = @ + s.quantity]
      /\ rows' = [rows EXCEPT ![s.variant] = [w \in Places |-> AddToEach(@[w], s.quantity)]]
      /\ Executed(c, s)
      /\ DisturbIf(c, \E w \in Places : Len(rows[s.variant][w]) # IF w = home THEN 1 ELSE 0)
      /\ UNCHANGED <<balance, payments, receipts>>

MarkReceipt(c, s) ==
  /\ s.op = "markReceipt"
  /\ receipts' = [receipts EXCEPT ![Request(c).doc[2]].isArchived = Request(c).op = "archiveReceipt"]
  /\ Executed(c, s)
  /\ UNCHANGED <<rows, total, balance, payments, disturbed>>
-----------------------------------------------------------------------------
ReceiptStep(c, s) ==
  \/ PaymentStep(c, s) /\ UNCHANGED <<rows, total, receipts>>
  \/ IncrementTotal(c, s) \/ IncrementRows(c, s) \/ IncrementEverywhere(c, s)
  \/ CreateReceipt(c, s) \/ RecordReceipt(c, s)
  \/ UpdateReceipt(c, s) \/ RereadLines(c, s) \/ WriteLine(c, s) \/ RewriteReceipt(c, s)
  \/ ArchiveReceipt(c, s) \/ MarkReceipt(c, s) \/ FailRefused(c, s)

(* What receipt d should have brought of variant v to place w, and owes.   *)
Received(d, v) == IF ~ receipts[d].isArchived /\ v \in DOMAIN receipts[d].lines
                    THEN receipts[d].lines[v].quantity ELSE 0
ReceivedIn(d, v, w) == IF w = receipts[d].warehouse THEN Received(d, v) ELSE 0
OwedByReceipt(d, supplier) ==
  IF ~ receipts[d].isArchived /\ receipts[d].supplier = supplier
    THEN receipts[d].outstanding ELSE 0
=============================================================================
