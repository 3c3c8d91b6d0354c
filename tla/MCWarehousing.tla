--------------------------- MODULE MCWarehousing ---------------------------
(* A small instance of Warehousing for TLC: two variants in two warehouses,*)
(* one variant without a row in the second, which is archived, and a       *)
(* document of each kind to begin with, so that two calls can meet on it.  *)
EXTENDS Warehousing, TLC

CONSTANTS s1, s2  \* suppliers

Line(q, price) == [quantity |-> q, price |-> price]
NewDeliveries == {1 :> Line(2, 1), (1 :> Line(1, 2)) @@ (2 :> Line(1, 1))}
SomeDeliveries == NewDeliveries \cup {2 :> Line(1, 1)}
SomeShipments == {2 :> 1, 2 :> 2, 1 :> 1}

SomeRows == << (0 :> <<>>) @@ (1 :> <<3>>) @@ (2 :> <<>>),
               (0 :> <<>>) @@ (1 :> <<2>>) @@ (2 :> <<1>>) >>
SomeReceipts == 0 :> [supplier |-> s1, warehouse |-> 1, isArchived |-> FALSE,
                      lines |-> 1 :> Line(1, 2), paid |-> 1, outstanding |-> 1]
SomeTransfers == 0 :> [reason |-> None, source |-> 1, destination |-> 2, isArchived |-> FALSE,
                       items |-> 2 :> <<1>>]
SomePayments == 0 :> Payment("SUPPLIER_PAYMENT", 2, s1, ByItself)

ReceiptRequests ==
  [op : {"createReceipt"}, doc : {New("receipt")}, supplier : {s1}, warehouse : {2},
   lines : NewDeliveries, paid : {1}]
  \cup [op : {"updateReceipt"}, doc : {<<"receipt", 0>>}, supplier : {s1, s2}, warehouse : {None},
        lines : {1 :> Line(2, 1)}, paid : {2}]
  \cup [op : {"updateReceipt"}, doc : {<<"receipt", 0>>}, supplier : {s1}, warehouse : {None},
        lines : {2 :> Line(1, 1)}, paid : {1}]
  \cup [op : {"updateReceipt"}, doc : {<<"receipt", 0>>}, supplier : {None}, warehouse : {2},
        lines : {None}, paid : {None}]
  \cup [op : {"archiveReceipt", "restoreReceipt"}, doc : {<<"receipt", 0>>}]
TransferRequests ==
  [op : {"createTransfer"}, doc : {New("transfer")}, reason : {0}, source : {1}, destination : {2},
   items : {1 :> 1, 2 :> 2}]
  \cup [op : {"updateTransfer"}, doc : {<<"transfer", 0>>}, reason : {None}, source : {None},
        destination : {None}, items : Shipments \cup {None}]
  \cup [op : {"updateTransfer"}, doc : {<<"transfer", 0>>}, reason : {None}, source : {None},
        destination : {1}, items : {2 :> 1}]
  \cup [op : {"archiveTransfer", "restoreTransfer"}, doc : {<<"transfer", 0>>}]
  \cup [op : {"createReason"}, doc : {New("reason")}] \cup [op : {"removeReason"}, doc : {<<"reason", 0>>}]
PaymentRequests ==
  [op : {"createPayment"}, doc : {New("payment")}, type : {"SUPPLIER_PAYMENT", "OTHER"}, amount : {1},
   supplier : {s1, None}]
  \cup [op : {"updatePayment"}, doc : {<<"payment", 0>>}, type : {"SUPPLIER_PAYMENT"},
        amount : {3}, supplier : {s1, s2}]
  \cup [op : {"updatePayment"}, doc : {<<"payment", 0>>}, type : {"OTHER", None},
        amount : {None}, supplier : {None}]
WarehouseRequests ==
  [op : {"archiveWarehouse"}, doc : {<<"warehouse", 1>>}]
  \cup [op : {"restoreWarehouse"}, doc : {<<"warehouse", 2>>}]
SomeRequests == ReceiptRequests \cup TransferRequests \cup PaymentRequests \cup WarehouseRequests
=============================================================================
