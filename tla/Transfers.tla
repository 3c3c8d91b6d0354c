----------------------------- MODULE Transfers -----------------------------
(***************************************************************************)
(* Inventory transfers: quantities that go from a warehouse to another one *)
(* (InventoryTransfersService).  A handler reads the transfer, looks rows  *)
(* of the variants up in a transaction, and changes the rows that it has   *)
(* found and the transfer when the transaction commits.                    *)
(***************************************************************************)
EXTENDS StockRows, Handlers

CONSTANTS
  Shipments,        \* what a client may send as the items of a transfer
  OpeningTransfers, \* the transfers to begin with, by id
  OpeningReasons    \* the reasons to begin with

(* Items: a quantity of some variants.  A client names a variant once.     *)
ASSUME TransfersAssumption ==
  \A items \in Shipments : DOMAIN items \subseteq Variants /\ items \in [DOMAIN items -> Int]

VARIABLES
  transfers,  \* inventoryTransfer; the quantities of its items by variant
  reasons     \* inventoryTransferReason: the ids that are there

(* A transfer of one of these reasons, or none.                            *)
IsTransfer(x, ofReasons) ==
  /\ x = [reason |-> x.reason, source |-> x.source, destination |-> x.destination,
          isArchived |-> x.isArchived, items |-> x.items]
  /\ x.reason \in ofReasons \cup {None}
  /\ x.source \in Warehouses /\ x.destination \in Warehouses /\ x.isArchived \in BOOLEAN
  /\ DOMAIN x.items \subseteq Variants
  /\ x.items \in [DOMAIN x.items -> Seq(Int) \ {<<>>}]

NoItems == [v \in {} |-> 0]
Rows(items) == [v \in DOMAIN items |-> <<items[v]>>]

(* The quantity of a variant that a handler takes from the items it read.  *)
Recorded(old) == [v \in DOMAIN old.items |-> old.items[v][Len(old.items[v])]]

(* What a handler has to move: quantities of variants, in one of the ways  *)
(* below.                                                                  *)
Moves(how, items, from, to) ==
  {[how |-> how, variant |-> v, from |-> from, to |-> to, quantity |-> items[v]] : v \in DOMAIN items}
Of(items, variants) == [v \in DOMAIN items \cap variants |-> items[v]]

(* A row that was found is increased, or one is created; decreased, or not.*)
Increased(quantities, found, q) ==
  IF found = 0 THEN Append(quantities, q) ELSE [quantities EXCEPT ![found] = @ + q]
Decreased(quantities, found, q) ==
  IF found = 0 THEN quantities ELSE [quantities EXCEPT ![found] = @ - q]
Into(r, w, found, q) == [r EXCEPT ![w] = Increased(@, found, q)]
OutOf(r, w, found, q) == [r EXCEPT ![w] = Decreased(@, found, q)]
OutOfEach(r, w, q) == [r EXCEPT ![w] = AddToEach(@, -q)]

(* moveNewVtwsToDestinationWarehouse: from every row of the source.        *)
Ship(r, m) == Into(OutOfEach(r, m.from, m.quantity), m.to, m.toRow, m.quantity)

(* moveExistingVtwsToNewWarehouse: unless the old row is missing.          *)
Carry(r, m) ==
  IF m.fromRow = 0 THEN r
  ELSE Into(OutOf(r, m.from, m.fromRow, m.quantity), m.to, m.toRow, m.quantity)

(* moveVtwsToSourceWarehouse.                                              *)
Return(r, m) == OutOf(Into(r, m.to, m.toRow, m.quantity), m.from, m.fromRow, m.quantity)

(* moveVtwsToDestinationWarehouse: the row that it creates has the missing *)
(* row as its warehouse.                                                   *)
Resend(r, m) ==
  OutOf(Into(r, IF m.toRow = 0 THEN Nowhere ELSE m.to, m.toRow, m.quantity),
        m.from, m.fromRow, m.quantity)

(* A quantity that changed: the row of the destination gets the quantity,  *)
(* as if it held nothing but the goods of the transfer.                    *)
Level(r, m) ==
  IF m.toRow = 0 THEN r
  ELSE OutOfEach(Into(r, m.to, m.toRow, m.quantity - m.seen), m.from, m.quantity - m.seen)

Moved(r, m) ==
  CASE m.how = "ship" -> Ship(r, m) [] m.how = "carry" -> Carry(r, m)
    [] m.how = "return" -> Return(r, m) [] m.how = "resend" -> Resend(r, m)
    [] m.how = "level" -> Level(r, m)
-----------------------------------------------------------------------------
(* create *)
CreateTransfer(c, s) ==
  LET r == Request(c)
  IN  /\ s.op = "read" /\ r.op = "createTransfer"
      /\ IF {r.source, r.destination} \subseteq Warehouses /\ r.reason \in reasons
           THEN GoOn(c, <<{[op |-> "lookup",
                            moves |-> Moves("ship", r.items, r.source, r.destination)]}>>)
           ELSE Refuse(c)
      /\ UNCHANGED <<rows, transfers, reasons, disturbed>>

(* Mutant of MovesOfUpdate: items that are left out are not returned.      *)
MovesWithoutReturn(old, r) ==
  LET before == Recorded(old)
      now == Else(r.items, NoItems)
      destination == Else(r.destination, old.destination)
      kept == DOMAIN before \cap DOMAIN now
      changed == {v \in kept : now[v] # before[v]}
  IN  Moves("ship", Of(now, Variants \ DOMAIN before), Else(r.source, old.source), destination)
      \cup (IF destination = old.destination
              THEN Moves("level", Of(now, changed), old.source, destination)
              ELSE Moves("carry", Of(now, kept), old.destination, destination))

(* update: new items are shipped, the others follow the destination or are *)
(* corrected, and those left out (all, if none are sent) return.           *)
MovesOfUpdate(old, r) ==
  LET before == Recorded(old)
      now == Else(r.items, NoItems)
      destination == Else(r.destination, old.destination)
      kept == DOMAIN before \cap DOMAIN now
      changed == {v \in kept : now[v] # before[v]}
  IN  Moves("ship", Of(now, Variants \ DOMAIN before), Else(r.source, old.source), destination)
      \cup (IF destination = old.destination
              THEN Moves("level", Of(now, changed), old.source, destination)
              ELSE Moves("carry", Of(now, kept), old.destination, destination))
      \cup Moves("return", Of(before, Variants \ DOMAIN now), old.destination, old.source)

(* The updates that leave the stock as the transfer says: it is in force,  *)
(* goods that stay do not change their source, nor their quantity with the *)
(* destination.                                                            *)
AccountedTransferUpdate(old, r) ==
  LET kept == DOMAIN old.items \cap DOMAIN Else(r.items, NoItems)
  IN  /\ ~ old.isArchived
      /\ kept = {} \/ Else(r.source, old.source) = old.source
      /\ \/ Else(r.destination, old.destination) = old.destination
         \/ \A v \in kept : r.items[v] = Recorded(old)[v]

UpdateTransfer(c, s) ==
  LET r == Request(c)
      d == r.doc[2]
  IN  /\ s.op = "read" /\ r.op = "updateTransfer"
      /\ IF /\ d \in DOMAIN transfers
            /\ {r.source, r.destination} \subseteq Warehouses \cup {None}
            /\ r.reason \in reasons \cup {None}
           THEN /\ GoOn(c, <<{[op |-> "lookup", moves |-> MovesOfUpdate(transfers[d], r)]}>>)
                /\ DisturbIf(c, Busy(c) \/ ~ AccountedTransferUpdate(transfers[d], r))
           ELSE Refuse(c) /\ UNCHANGED disturbed
      /\ UNCHANGED <<rows, transfers, reasons>>

(* archive returns the items, restore sends them again; neither looks at   *)
(* isArchived.                                                             *)
ArchiveTransfer(c, s) ==
  LET r == Request(c)
      d == r.doc[2]
      old == transfers[d]
      moves == IF r.op = "archiveTransfer"
                 THEN Moves("return", Recorded(old), old.destination, old.source)
                 ELSE Moves("resend", Recorded(old), old.source, old.destination)
  IN  /\ s.op = "read" /\ r.op \in {"archiveTransfer", "restoreTransfer"}
      /\ IF d \in DOMAIN transfers
           THEN /\ GoOn(c, <<{[op |-> "lookup", moves |-> moves]}>>)
                /\ DisturbIf(c, Busy(c) \/ old.isArchived = (r.op = "archiveTransfer"))
           ELSE Refuse(c) /\ UNCHANGED disturbed
      /\ UNCHANGED <<rows, transfers, reasons>>

(* findFirst: the rows, and the quantity of the one to be corrected.       *)
LookUp(c, s) ==
  \E newest \in BOOLEAN :
    LET found(m) ==
          LET toRow == FindRow(rows[m.variant][m.to], newest)
          IN  [how |-> m.how, variant |-> m.variant, quantity |-> m.quantity,
               from |-> m.from, to |-> m.to, toRow |-> toRow,
               fromRow |-> FindRow(rows[m.variant][m.from], newest),
               seen |-> IF toRow = 0 THEN 0 ELSE rows[m.variant][m.to][toRow]]
    IN  /\ s.op = "lookup"
        /\ GoOn(c, <<{[op |-> "commit", moves |-> {found(m) : m \in s.moves}]}>>)
        /\ UNCHANGED <<rows, transfers, reasons, disturbed>>

(* deleteMany by the quantity.                                             *)
Without(quantities, q) ==
  LET left[i \in 0..Len(quantities)] ==
        IF i = 0 THEN <<>>
        ELSE IF quantities[i] = q THEN left[i - 1] ELSE Append(left[i - 1], quantities[i])
  IN  left[Len(quantities)]

(* The items after an update: corrected if the row of the destination was  *)
(* found, created, and deleted if they have the variant and the quantity   *)
(* of one that is left out.                                                *)
ItemsAfter(old, r, moves) ==
  LET was(v) == IF v \in DOMAIN old.items THEN old.items[v] ELSE <<>>
      after(v) == CASE \E m \in moves : m.variant = v /\ m.how = "ship" -> Append(was(v), r.items[v])
                    [] \E m \in moves : m.variant = v /\ m.how = "level" /\ m.toRow # 0 ->
                         [i \in DOMAIN was(v) |-> r.items[v]]
                    [] \E m \in moves : m.variant = v /\ m.how = "return" ->
                         LET gone == CHOOSE m \in moves : m.variant = v
                         IN  Without(was(v), gone.quantity)
                    [] OTHER -> was(v)
  IN  [v \in {u \in Variants : after(u) # <<>>} |-> after(v)]

Committed(c, moves) ==
  LET r == Request(c)
      d == r.doc[2]
      old == transfers[d]
  IN  CASE r.op = "createTransfer" ->
             [reason |-> r.reason, source |-> r.source, destination |-> r.destination,
              isArchived |-> FALSE, items |-> Rows(r.items)]
        [] r.op = "updateTransfer" ->
             [reason |-> Else(r.reason, old.reason), source |-> Else(r.source, old.source),
              destination |-> Else(r.destination, old.destination),
              isArchived |-> old.isArchived, items |-> ItemsAfter(old, r, moves)]
        [] OTHER -> [old EXCEPT !.isArchived = r.op = "archiveTransfer"]

(* A movement that changes other goods than it names: rows that are missing*)
(* or more than one where every row is changed, and a row that held more or*)
(* less than the goods of the transfer.                                    *)
Unaccounted(c, m) ==
  \/ m.how \in {"ship", "level"} /\ Len(rows[m.variant][m.from]) # 1
  \/ m.how \in {"carry", "return", "resend"} /\ m.fromRow = 0
  \/ m.how \in {"level", "resend"} /\ m.toRow = 0
  \/ m.how = "level" /\ LET items == transfers[Request(c).doc[2]].items
                        IN  ~ (m.variant \in DOMAIN items /\ items[m.variant] = <<m.seen>>)

Commit(c, s) ==
  LET r == Request(c)
  IN  /\ s.op = "commit"
      /\ r.op \in {"createTransfer", "updateTransfer"} => r.reason \in reasons \cup {None}
      /\ rows' = [v \in Variants |->
           IF \E m \in s.moves : m.variant = v
             THEN Moved(rows[v], CHOOSE m \in s.moves : m.variant = v) ELSE rows[v]]
      /\ transfers' = Put(transfers, r.doc[2], Committed(c, s.moves))
      /\ Executed(c, s)
      /\ DisturbIf(c, Busy(c) \/ \E m \in s.moves : Unaccounted(c, m))
      /\ UNCHANGED reasons
-----------------------------------------------------------------------------
CreateReason(c, s) ==
  /\ s.op = "read" /\ Request(c).op = "createReason"
  /\ reasons' = reasons \cup {c}
  /\ Executed(c, s)
  /\ UNCHANGED <<rows, transfers, disturbed>>

(* removeReason counts the transfers of a reason and deletes it later.     *)
CountTransfers(c, s) ==
  LET d == Request(c).doc[2]
  IN  /\ s.op = "read" /\ Request(c).op = "removeReason"
      /\ IF d \in reasons /\ \A t \in DOMAIN transfers : transfers[t].reason # d
           THEN GoOn(c, <<{[op |-> "deleteReason"]}>>) ELSE Refuse(c)
      /\ UNCHANGED <<rows, transfers, reasons, disturbed>>

(* Mutant of DeleteReason: the transfers keep the id.                      *)
DeleteReasonAlone(c, s) ==
  LET d == Request(c).doc[2]
  IN  /\ s.op = "deleteReason"
      /\ d \in reasons
      /\ reasons' = reasons \ {d}
      /\ Executed(c, s)
      /\ UNCHANGED <<rows, transfers, disturbed>>

(* The transfers of a reason that is deleted have none.                    *)
DeleteReason(c, s) ==
  LET d == Request(c).doc[2]
  IN  /\ s.op = "deleteReason"
      /\ d \in reasons
      /\ reasons' = reasons \ {d}
      /\ transfers' = [t \in DOMAIN transfers |->
           [transfers[t] EXCEPT !.reason = IF @ = d THEN None ELSE @]]
      /\ Executed(c, s)
      /\ UNCHANGED <<rows, disturbed>>

TransferStep(c, s) ==
  \/ CreateTransfer(c, s) \/ UpdateTransfer(c, s) \/ ArchiveTransfer(c, s)
  \/ LookUp(c, s) \/ Commit(c, s)
  \/ CreateReason(c, s) \/ CountTransfers(c, s) \/ DeleteReason(c, s)

(* What transfer d should have brought of variant v to place w.            *)
Shipped(d, v, w) ==
  LET t == transfers[d]
      q == IF t.isArchived \/ v \notin DOMAIN t.items THEN 0 ELSE Recorded(t)[v]
  IN  (IF w = t.destination THEN q ELSE 0) - (IF w = t.source THEN q ELSE 0)
=============================================================================
