------------------------------ MODULE Payments ------------------------------
(***************************************************************************)
(* Suppliers, what is owed to each (supplier.totalOutstandingBalance), and *)
(* the transactions that pay them (FinancialTransactionsService).  A       *)
(* handler writes the transaction and the balances as statements of their  *)
(* own, without a common transaction.                                      *)
(***************************************************************************)
EXTENDS Handlers

CONSTANTS
  Suppliers,        \* the ids of the suppliers; nothing deletes one
  OpeningPayments   \* the transactions to begin with, by id

VARIABLES
  balance,   \* supplier.totalOutstandingBalance
  payments   \* the table transaction, by id

PaymentTypes == {"SUPPLIER_PAYMENT", "OTHER"}
PaymentRow ==
  [type : PaymentTypes, amount : Int, supplier : Suppliers \cup {None},
   accounted : [supplier : Suppliers \cup {None}, amount : Int]]

(* A transaction.  What a receipt has recorded with itself, its own        *)
(* outstanding amount accounts for (history).                              *)
Payment(type, amount, supplier, accounted) ==
  [type |-> type, amount |-> amount, supplier |-> supplier, accounted |-> accounted]
ByItself == [supplier |-> None, amount |-> 0]

(* supplier.update with an increment of the balance.                       *)
ChangeBalance(supplier, amount) == [op |-> "balance", supplier |-> supplier, amount |-> amount]
UpdateBalance(c, s) ==
  /\ s.op = "balance"
  /\ balance' = [balance EXCEPT ![s.supplier] = @ + s.amount]
  /\ Executed(c, s)
  /\ UNCHANGED <<payments, disturbed>>

(* The row names its supplier: the statement fails if there is none with   *)
(* that id.                                                                *)
WritePayment(c, s) ==
  /\ s.op = "payment"
  /\ s.row.supplier \in Suppliers \cup {None}
  /\ payments' = Put(payments, s.id, s.row)
  /\ Executed(c, s)
  /\ UNCHANGED <<balance, disturbed>>

(* create: a transaction of another kind is inserted, a payment is         *)
(* inserted beside the decrement of the balance.                           *)
CreatePayment(c, s) ==
  LET r == Request(c)
      insert(supplier) == [op |-> "payment", id |-> c,
                           row |-> Payment(r.type, r.amount, supplier, ByItself)]
  IN  /\ s.op = "read" /\ r.op = "createPayment"
      /\ CASE r.type = "OTHER" -> GoOn(c, <<{insert(None)}>>)
           [] r.type # "OTHER" /\ r.supplier \in Suppliers ->
                GoOn(c, <<{ChangeBalance(r.supplier, -r.amount), insert(r.supplier)}>>)
           [] OTHER -> Refuse(c)
      /\ UNCHANGED <<balance, payments, disturbed>>

(* Mutant of BalancesAfter: a supplier that is replaced gets nothing back. *)
BalancesOfNewSupplier(old, r) ==
  IF r.type = "SUPPLIER_PAYMENT" /\ r.supplier # None
    THEN <<{ChangeBalance(r.supplier, -Else(r.amount, 0))}>> ELSE <<>>

(* The balances follow an update of a payment, one after the other.  An    *)
(* amount that is not sent counts as 0.                                    *)
BalancesAfter(old, r) ==
  LET amount == Else(r.amount, 0)
      giveBack == IF old.supplier = None THEN {} ELSE {ChangeBalance(old.supplier, old.amount)}
  IN  CASE r.type = "SUPPLIER_PAYMENT" /\ r.supplier # old.supplier ->
             <<giveBack, IF r.supplier = None THEN {} ELSE {ChangeBalance(r.supplier, -amount)}>>
        [] r.type = "SUPPLIER_PAYMENT" /\ r.supplier = old.supplier
             /\ amount # old.amount /\ r.supplier # None ->
             <<{ChangeBalance(r.supplier, old.amount - amount)}>>
        [] r.type = "OTHER" /\ old.type = "SUPPLIER_PAYMENT" -> <<giveBack>>
        [] OTHER -> <<>>

(* The updates after which the balances are what the transaction says.     *)
AccountedUpdate(old, r) ==
  \/ /\ r.type = "SUPPLIER_PAYMENT" /\ r.amount # None /\ r.supplier # None
     /\ (old.type = "SUPPLIER_PAYMENT" \/ old.supplier = None)
  \/ r.type = "OTHER"
  \/ /\ r.type = None
     /\ (old.type = "OTHER" \/ (r.amount = None /\ r.supplier = None))

(* update: the row first, then the balances.                               *)
UpdatePayment(c, s) ==
  LET r == Request(c)
      old == payments[r.doc[2]]
      row == Payment(Else(r.type, old.type), Else(r.amount, old.amount),
                     Else(r.supplier, old.supplier), old.accounted)
  IN  /\ s.op = "read" /\ r.op = "updatePayment"
      /\ IF r.doc[2] \in DOMAIN payments
           THEN /\ GoOn(c, <<{[op |-> "payment", id |-> r.doc[2], row |-> row]}>>
                             \o BalancesAfter(old, r))
                /\ DisturbIf(c, Busy(c) \/ ~ AccountedUpdate(old, r))
           ELSE Refuse(c) /\ UNCHANGED disturbed
      /\ UNCHANGED <<balance, payments>>

PaymentStep(c, s) ==
  \/ UpdateBalance(c, s) \/ WritePayment(c, s)
  \/ CreatePayment(c, s) \/ UpdatePayment(c, s)

(* What transaction p should have added to the balance of a supplier.      *)
OwedByPayment(p, supplier) ==
  (IF payments[p].accounted.supplier = supplier THEN payments[p].accounted.amount ELSE 0)
  - (IF payments[p].type = "SUPPLIER_PAYMENT" /\ payments[p].supplier = supplier
       THEN payments[p].amount ELSE 0)
=============================================================================
