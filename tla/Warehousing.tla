---------------------------- MODULE Warehousing ----------------------------
(***************************************************************************)
(* Receipts, transfers, payments and warehouses together: the calls of four*)
(* services on the same rows, totals and balances, beside each other.      *)
(***************************************************************************)
EXTENDS Receipts, Transfers, Premises

CONSTANTS
  OpeningIds,  \* the ids that documents and reasons have to begin with
  Requests     \* what clients ask for; what is created has no id yet

VARIABLES
  effect,     \* history: what the calls on a document changed in the stock,
              \* in the totals and in the balances
  overlapped  \* history: two calls have been at work at once

vars == <<rows, total, balance, payments, receipts, transfers, reasons, archived,
          call, disturbed, effect, overlapped>>

Kinds == {"receipt", "transfer", "payment", "reason", "warehouse"}
Ids == Calls \cup OpeningIds
Docs == Kinds \X (Ids \cup Warehouses)
New(kind) == <<kind, None>>

(* What there is to begin with.  A receipt owes what is not paid, and a    *)
(* transfer has a variant once.                                            *)
ASSUME OpeningAssumption ==
  /\ OpeningIds \cap Calls = {}
  /\ None \notin Ids \cup Warehouses /\ None \notin Suppliers /\ None \notin PaymentTypes
  /\ None \notin AmountsPaid /\ None \notin Deliveries /\ None \notin Shipments
  /\ DOMAIN OpeningPayments \subseteq OpeningIds
  /\ OpeningPayments \in [DOMAIN OpeningPayments -> PaymentRow]
  /\ DOMAIN OpeningReceipts \subseteq OpeningIds
  /\ OpeningReceipts = [d \in DOMAIN OpeningReceipts |-> OpeningReceipts[d]]
  /\ \A d \in DOMAIN OpeningReceipts :
       /\ IsReceipt(OpeningReceipts[d])
       /\ OpeningReceipts[d].outstanding = Amount(OpeningReceipts[d].lines) - OpeningReceipts[d].paid
  /\ DOMAIN OpeningTransfers \subseteq OpeningIds
  /\ OpeningTransfers = [d \in DOMAIN OpeningTransfers |-> OpeningTransfers[d]]
  /\ \A d \in DOMAIN OpeningTransfers :
       /\ IsTransfer(OpeningTransfers[d], OpeningReasons)
       /\ \A v \in DOMAIN OpeningTransfers[d].items : Len(OpeningTransfers[d].items[v]) = 1
  /\ OpeningReasons \subseteq OpeningIds
  /\ OpeningArchived \subseteq Warehouses

(* To begin with, a variant has one row in a warehouse, or none.           *)
ASSUME OpeningRowsUnique ==
  \A v \in Variants, w \in Warehouses : Len(OpeningRows[v][w]) <= 1

(* What a client may ask for.  It may name any supplier, warehouse or      *)
(* reason.                                                                 *)
Asked(r) ==
  LET says(fields) == DOMAIN r = {"op", "doc"} \cup fields
      payment == says({"type", "amount", "supplier"})
      receipt == says({"supplier", "warehouse", "lines", "paid"})
      transfer == says({"reason", "source", "destination", "items"})
      old(kind) == r.doc \in {kind} \X Ids
  IN  \/ /\ payment /\ r.op = "createPayment" /\ r.doc = New("payment")
         /\ r.type \in PaymentTypes /\ r.amount \in AmountsPaid
      \/ /\ payment /\ r.op = "updatePayment" /\ old("payment")
         /\ r.type \in PaymentTypes \cup {None} /\ r.amount \in AmountsPaid \cup {None}
      \/ /\ receipt /\ r.op = "createReceipt" /\ r.doc = New("receipt")
         /\ r.lines \in Deliveries /\ r.paid \in AmountsPaid
      \/ /\ receipt /\ r.op = "updateReceipt" /\ old("receipt")
         /\ r.lines \in Deliveries \cup {None} /\ r.paid \in AmountsPaid \cup {None}
      \/ says({}) /\ r.op \in {"archiveReceipt", "restoreReceipt"} /\ old("receipt")
      \/ transfer /\ r.op = "createTransfer" /\ r.doc = New("transfer") /\ r.items \in Shipments
      \/ transfer /\ r.op = "updateTransfer" /\ old("transfer") /\ r.items \in Shipments \cup {None}
      \/ says({}) /\ r.op \in {"archiveTransfer", "restoreTransfer"} /\ old("transfer")
      \/ says({}) /\ r.op = "createReason" /\ r.doc = New("reason")
      \/ says({}) /\ r.op = "removeReason" /\ old("reason")
      \/ /\ says({}) /\ r.op \in {"archiveWarehouse", "restoreWarehouse"}
         /\ r.doc \in {"warehouse"} \X (Ids \cup Warehouses)
ASSUME RequestsAssumption == \A r \in Requests : r = [f \in DOMAIN r |-> r[f]] /\ Asked(r)

(* What a document accounts for.                                           *)
Accounted(d) ==
  [goods |-> [v \in Variants |-> [w \in Places |->
                CASE d[1] = "receipt" /\ d[2] \in DOMAIN receipts -> ReceivedIn(d[2], v, w)
                  [] d[1] = "transfer" /\ d[2] \in DOMAIN transfers -> Shipped(d[2], v, w)
                  [] OTHER -> 0]],
   totals |-> [v \in Variants |->
                IF d[1] = "receipt" /\ d[2] \in DOMAIN receipts THEN Received(d[2], v) ELSE 0],
   debts |-> [s \in Suppliers |->
                CASE d[1] = "receipt" /\ d[2] \in DOMAIN receipts -> OwedByReceipt(d[2], s)
                  [] d[1] = "payment" /\ d[2] \in DOMAIN payments -> OwedByPayment(d[2], s)
                  [] OTHER -> 0]]

Init ==
  /\ RowsInit /\ HandlersInit
  /\ balance \in [Suppliers -> {0}]
  /\ payments = OpeningPayments
  /\ receipts = OpeningReceipts
  /\ transfers = OpeningTransfers
  /\ reasons = OpeningReasons
  /\ archived = OpeningArchived
  /\ effect = [d \in Docs |-> Accounted(d)]
  /\ overlapped = FALSE
-----------------------------------------------------------------------------
ReceiveRequest(c) ==
  \E r \in Requests :
    /\ Receive(c, [r EXCEPT !.doc[2] = IF @ = None THEN c ELSE @])
    /\ overlapped' = (overlapped \/ \E b \in Calls : Running(b))
    /\ UNCHANGED <<rows, total, balance, payments, receipts, transfers, reasons, archived, effect>>

LoseStatement(c, s) ==
  /\ Lose(c, s)
  /\ UNCHANGED <<rows, total, balance, payments, receipts, transfers, reasons, archived>>

(* What a step adds to the stock, the totals and the balances goes to the  *)
(* account of the document of its call.                                    *)
Account(c) ==
  effect' = [effect EXCEPT ![Request(c).doc] =
    [goods |-> [v \in Variants |-> [w \in Places |->
                  @.goods[v][w] + InPlace(rows', v, w) - InPlace(rows, v, w)]],
     totals |-> [v \in Variants |-> @.totals[v] + total'[v] - total[v]],
     debts |-> [s \in Suppliers |-> @.debts[s] + balance'[s] - balance[s]]]]

Serve(c) ==
  \E s \in Sent(c) :
    /\ \/ ReceiptStep(c, s) /\ UNCHANGED <<transfers, reasons, archived>>
       \/ TransferStep(c, s) /\ UNCHANGED <<total, balance, payments, receipts, archived>>
       \/ PremisesStep(c, s) /\ UNCHANGED <<total, balance, payments, receipts, transfers, reasons>>
       \/ LoseStatement(c, s)
    /\ Account(c)
    /\ UNCHANGED overlapped

Crash ==
  /\ Restart
  /\ UNCHANGED <<rows, total, balance, payments, receipts, transfers, reasons, archived, effect, overlapped>>

Next == Crash \/ \E c \in Calls : ReceiveRequest(c) \/ Serve(c)

Spec == Init /\ [][Next]_vars
-----------------------------------------------------------------------------
Statements ==
  {"read", "balance", "payment", "total", "rows", "recordReceipt", "reread", "line", "rewriteReceipt",
   "refused", "everywhere", "markReceipt", "lookup", "commit", "deleteReason",
   "closeWarehouse", "countPositive", "countNegative", "openWarehouse"}

(* The tables, the calls and the histories hold what they are meant to.    *)
TypeOK ==
  /\ RowsTypeOK
  /\ balance \in [Suppliers -> Int]
  /\ payments \in [DOMAIN payments -> PaymentRow]
  /\ \A d \in DOMAIN receipts : IsReceipt(receipts[d])
  /\ \A d \in DOMAIN transfers : IsTransfer(transfers[d], reasons)
  /\ reasons \subseteq OpeningReasons \cup Calls
  /\ archived \subseteq Warehouses /\ overlapped \in BOOLEAN
  /\ \A c \in Calls : \A s \in Sent(c) : s.op \in Statements
  /\ disturbed \subseteq Docs

(* A receipt or a transfer at rest has moved exactly what it says of each  *)
(* variant to each warehouse, and in the totals, however the calls on other*)
(* documents interleaved: all the updates of the rows of other documents   *)
(* are increments.  The documents that are disturbed are left out, and the *)
(* reasons are above where each is (GoodsReceiptsService.update, archive,  *)
(* InventoryTransfersService.update, archive, restore).                    *)
StockAccounts ==
  \A d \in Docs \ disturbed :
    AtRest(d) => /\ effect[d].goods = Accounted(d).goods
                 /\ effect[d].totals = Accounted(d).totals

(* A receipt or a payment at rest has changed what is owed to each supplier*)
(* by exactly what it says (supplier.totalOutstandingBalance).             *)
DebtAccounts ==
  \A d \in Docs \ disturbed : AtRest(d) => effect[d].debts = Accounted(d).debts

(* A variant has at most one row in a warehouse as long as no two calls    *)
(* have been at work at once: what looks for a row and then creates it is  *)
(* right by itself (getVtwsToCreate, moveNewVtwsToDestinationWarehouse).   *)
RowsUnique ==
  ~ overlapped => \A v \in Variants, w \in Warehouses : Len(rows[v][w]) <= 1

(* A warehouse comes back into use with nothing in it, above or below zero,*)
(* unless two calls were at work at once: what it holds is counted when it *)
(* is restored, and not when it is archived (WarehousesService.restore).   *)
RestoredEmpty ==
  [][~ overlapped =>
       \A w \in archived \ archived' : \A v \in Variants :
         \A i \in DOMAIN rows[v][w] : rows[v][w][i] = 0]_vars
=============================================================================
