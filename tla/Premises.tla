------------------------------ MODULE Premises ------------------------------
(***************************************************************************)
(* The warehouses: which of them are archived (WarehousesService).         *)
(* Goods are not looked at when a warehouse is archived, but when it is    *)
(* restored; no other service looks at isArchived.                         *)
(***************************************************************************)
EXTENDS StockRows, Handlers

CONSTANT OpeningArchived  \* the warehouses that are archived to begin with

VARIABLE archived  \* warehouse.isArchived

ArchiveWarehouse(c, s) ==
  LET w == Request(c).doc[2]
  IN  /\ s.op = "read" /\ Request(c).op = "archiveWarehouse"
      /\ IF w \in Warehouses THEN GoOn(c, <<{[op |-> "closeWarehouse"]}>>) ELSE Refuse(c)
      /\ UNCHANGED <<rows, archived, disturbed>>

CloseWarehouse(c, s) ==
  /\ s.op = "closeWarehouse"
  /\ archived' = archived \cup {Request(c).doc[2]}
  /\ Executed(c, s)
  /\ UNCHANGED <<rows, disturbed>>

RestoreWarehouse(c, s) ==
  LET w == Request(c).doc[2]
  IN  /\ s.op = "read" /\ Request(c).op = "restoreWarehouse"
      /\ IF w \in Warehouses
           THEN GoOn(c, <<{[op |-> "countPositive"]}, {[op |-> "countNegative"]}, {[op |-> "openWarehouse"]}>>)
           ELSE Refuse(c)
      /\ UNCHANGED <<rows, archived, disturbed>>

Some(w, holds(_)) == \E v \in Variants : \E i \in DOMAIN rows[v][w] : holds(rows[v][w][i])

(* Mutant of CountGoods: goods that are there do not matter.               *)
CountDebts(c, s) ==
  LET w == Request(c).doc[2]
      negative(q) == q < 0
  IN  /\ s.op \in {"countPositive", "countNegative"}
      /\ IF s.op = "countNegative" /\ Some(w, negative) THEN Refuse(c) ELSE Executed(c, s)
      /\ UNCHANGED <<rows, archived, disturbed>>

(* The variants with rows above zero are counted, then those with rows     *)
(* below; whichever are found, the handler throws.                         *)
CountGoods(c, s) ==
  LET w == Request(c).doc[2]
      positive(q) == q > 0
      negative(q) == q < 0
  IN  /\ s.op \in {"countPositive", "countNegative"}
      /\ IF \/ s.op = "countPositive" /\ Some(w, positive)
            \/ s.op = "countNegative" /\ Some(w, negative)
           THEN Refuse(c) ELSE Executed(c, s)
      /\ UNCHANGED <<rows, archived, disturbed>>

OpenWarehouse(c, s) ==
  /\ s.op = "openWarehouse"
  /\ archived' = archived \ {Request(c).doc[2]}
  /\ Executed(c, s)
  /\ UNCHANGED <<rows, disturbed>>

PremisesStep(c, s) ==
  \/ ArchiveWarehouse(c, s) \/ CloseWarehouse(c, s)
  \/ RestoreWarehouse(c, s) \/ CountGoods(c, s) \/ OpenWarehouse(c, s)
=============================================================================
