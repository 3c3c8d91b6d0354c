----------------------------- MODULE StockRows -----------------------------
(***************************************************************************)
(* The quantities in stock as the services find them: a variant has no, one*)
(* or several rows variantToWarehouse in a warehouse (the pair is indexed, *)
(* not unique), and a total of its own.  A warehouse may be missing from a *)
(* row: such a row is in Nowhere.                                          *)
(***************************************************************************)
EXTENDS Integers, Sequences, Sums

CONSTANTS
  NVariants, NWarehouses,  \* how many there are of each
  OpeningRows              \* the rows to begin with

Variants == 1..NVariants
Warehouses == 1..NWarehouses
Nowhere == 0
Places == Warehouses \cup {Nowhere}

ASSUME RowsAssumption ==
  /\ NVariants \in Nat /\ NWarehouses \in Nat
  /\ OpeningRows \in [Variants -> [Places -> Seq(Int)]]

VARIABLES
  rows,   \* the quantities of the rows of each variant and warehouse
  total   \* variant.totalWarehouseQuantity (its product's goes with it)

(* The quantity of a variant in a place, and everywhere.                   *)
InPlace(r, v, w) == SumTo(r[v][w], Len(r[v][w]))
InStock(r, v) == SumTo([w \in 1..(NWarehouses + 1) |-> InPlace(r, v, w - 1)], NWarehouses + 1)

RowsInit ==
  /\ rows = OpeningRows
  /\ total = [v \in Variants |-> InStock(OpeningRows, v)]

(* updateMany increments every row that it matches, find a row is any of   *)
(* them (0 if there is none): the oldest or the newest.                    *)
AddToEach(quantities, q) == [i \in DOMAIN quantities |-> quantities[i] + q]
FindRow(quantities, newest) == IF newest \/ quantities = <<>> THEN Len(quantities) ELSE 1

RowsTypeOK ==
  /\ rows \in [Variants -> [Places -> Seq(Int)]]
  /\ total \in [Variants -> Int]
=============================================================================
