---------------------------- MODULE StockLevels ----------------------------
(***************************************************************************)
(* Stock is kept at three levels: variantToWarehouse.warehouseQuantity,    *)
(* variant.totalWarehouseQuantity and product.totalWarehouseQuantity.      *)
(* Each service that moves goods increments all three, by the quantities   *)
(* of some lines, and promises that the levels agree.                      *)
(***************************************************************************)
EXTENDS Integers, Sequences, Sums

CONSTANTS
  NVariants, NWarehouses, NProducts,  \* how many there are of each
  ProductOf,                          \* the product of each variant
  Opening                             \* the quantities to begin with

Variants == 1..NVariants
Warehouses == 1..NWarehouses
Products == 1..NProducts

ASSUME StockAssumption ==
  /\ NVariants \in Nat /\ NWarehouses \in Nat /\ NProducts \in Nat
  /\ ProductOf \in [Variants -> Products]
  /\ Opening \in [Variants -> [Warehouses -> Int]]

VARIABLES
  vtw,           \* variantToWarehouse.warehouseQuantity
  variantTotal,  \* variant.totalWarehouseQuantity
  productTotal   \* product.totalWarehouseQuantity

stock == <<vtw, variantTotal, productTotal>>

(* A line moves a quantity, negative when goods leave.                     *)
Line == [variant : Variants, warehouse : Warehouses, quantity : Int]

(* How much the lines move of variant v in warehouse w, of v, of product p. *)
Moved(lines, v, w) ==
  SumTo([i \in 1..Len(lines) |->
         IF lines[i].variant = v /\ lines[i].warehouse = w
           THEN lines[i].quantity ELSE 0], Len(lines))
MovedOfVariant(lines, v) ==
  SumTo([i \in 1..Len(lines) |->
         IF lines[i].variant = v THEN lines[i].quantity ELSE 0], Len(lines))
MovedOfProduct(lines, p) ==
  SumTo([i \in 1..Len(lines) |->
         IF ProductOf[lines[i].variant] = p THEN lines[i].quantity ELSE 0], Len(lines))

(* The totals that quantities q add up to. *)
InAllWarehouses(q, v) == SumTo([w \in Warehouses |-> q[v][w]], NWarehouses)
InAllVariants(t, p) ==
  SumTo([v \in Variants |-> IF ProductOf[v] = p THEN t[v] ELSE 0], NVariants)

LevelsInit ==
  /\ vtw = Opening
  /\ variantTotal = [v \in Variants |-> InAllWarehouses(Opening, v)]
  /\ productTotal = [p \in Products |->
       InAllVariants([v \in Variants |-> InAllWarehouses(Opening, v)], p)]

(* Mutant of Apply: the totals of the products are forgotten.              *)
ApplyToVariants(lines) ==
  /\ vtw' = [v \in Variants |-> [w \in Warehouses |-> vtw[v][w] + Moved(lines, v, w)]]
  /\ variantTotal' = [v \in Variants |-> variantTotal[v] + MovedOfVariant(lines, v)]
  /\ UNCHANGED productTotal

(* The increments of the lines, at the three levels.                       *)
Apply(lines) ==
  /\ vtw' = [v \in Variants |-> [w \in Warehouses |-> vtw[v][w] + Moved(lines, v, w)]]
  /\ variantTotal' = [v \in Variants |-> variantTotal[v] + MovedOfVariant(lines, v)]
  /\ productTotal' = [p \in Products |-> productTotal[p] + MovedOfProduct(lines, p)]

LevelsNext == \E lines \in Seq(Line) : Apply(lines)

LevelsSpec == LevelsInit /\ [][LevelsNext]_stock
-----------------------------------------------------------------------------
LevelsTypeOK ==
  /\ vtw \in [Variants -> [Warehouses -> Int]]
  /\ variantTotal \in [Variants -> Int]
  /\ productTotal \in [Products -> Int]

(* The total of a variant is the sum of its quantities in the warehouses,  *)
(* and the total of a product is the sum of the totals of its variants.    *)
TotalsAgree ==
  /\ \A v \in Variants : variantTotal[v] = InAllWarehouses(vtw, v)
  /\ \A p \in Products : productTotal[p] = InAllVariants(variantTotal, p)
=============================================================================
