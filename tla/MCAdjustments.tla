--------------------------- MODULE MCAdjustments ---------------------------
(* Small instances of Adjustments for TLC. *)
EXTENDS Adjustments

(* Variants of one product. *)
OneProduct == [v \in Variants |-> 1]

(* One unit of everything to begin with. *)
OneEach == [v \in Variants |-> [w \in Warehouses |-> 1]]
=============================================================================
