------------------------------ MODULE MCSales ------------------------------
(* Small instances of Sales for TLC. *)
EXTENDS Sales

(* Two variants of one product. *)
OneProduct == [v \in Variants |-> 1]

(* One unit of everything to begin with. *)
OneEach == [v \in Variants |-> [w \in Warehouses |-> 1]]

(* Shift s sells from warehouse s; the last shift's point of sale has none. *)
ShiftWarehouse == [s \in Shifts |-> IF s > NWarehouses THEN None ELSE s]
SharedWarehouse == [s \in Shifts |-> 1]

AllStocked == Variants \X Warehouses
(* The last variant is not kept in warehouse 1. *)
LastUnstocked == (Variants \X Warehouses) \ {<<NVariants, 1>>}
=============================================================================
