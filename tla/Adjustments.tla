---------------------------- MODULE Adjustments ----------------------------
(***************************************************************************)
(* Inventory adjustments: documents that correct the quantities of some    *)
(* variantToWarehouse rows, and the reasons they name                      *)
(* (InventoryAdjustmentsService).                                          *)
(*                                                                         *)
(* A handler sends the update of each quantity as a statement of its own   *)
(* (a nested update of the three levels) beside the statement that writes  *)
(* the document, without a common transaction: they execute in any order,  *)
(* each may fail, and nothing is taken back.  archive writes the document  *)
(* in a transaction, but sends the quantities outside of it.               *)
(***************************************************************************)
EXTENDS StockLevels, FiniteSets, SequencesExt

CONSTANTS
  NCalls,      \* how many calls are received (a bound for TLC)
  Reasons,     \* the ids that reasons may get
  Quantities,  \* the changes of quantity a client may name
  MaxItems,    \* how many items a client sends at most (a bound for TLC)
  None         \* no such id, or nothing sent

(* A call, numbered by arrival; also the id of the adjustment it inserts.  *)
Calls == 1..NCalls

ASSUME AdjustmentsAssumption ==
  /\ NCalls \in Nat /\ MaxItems \in Nat
  /\ Quantities \subseteq Int
  /\ None \notin Reasons \cup Calls

(* An item of a document corrects one row of the table variantToWarehouse. *)
Item == [variant : Variants, warehouse : Warehouses, quantity : Quantities]

(* What is sent is told from nothing sent.                                 *)
ASSUME ItemsAssumption == None \notin SeqOf(Item, MaxItems)

Row(item) == <<item.variant, item.warehouse>>
RowsIn(items) == {Row(items[k]) : k \in DOMAIN items}

Ops == {"none", "create", "update", "archive", "restore", "removeReason"}
Running == {"check", "find", "move", "lines", "findNew", "moveNew", "header",
            "count", "delete"}
Ended == {"done", "failed", "aborted"}

VARIABLES
  reasons,      \* the table inventoryAdjustmentReason: which ids are in it
  adjustments,  \* the table inventoryAdjustment with its lines, by id
  pc,           \* where each call is
  call,         \* what each call asks for and knows
  moved,        \* history: what the calls on a document moved in the stock
  disturbed     \* history: the documents whose calls overlapped, failed or
                \* came in an order that the service does not look at

vars == <<vtw, variantTotal, productTotal, reasons, adjustments, pc, call, moved, disturbed>>
tables == <<vtw, variantTotal, productTotal, reasons, adjustments>>

Put(table, k, row) ==
  [i \in DOMAIN table \cup {k} |-> IF i = k THEN row ELSE table[i]]

(* A call that asks for that.  While it runs it knows the old lines of the *)
(* document, the updates of quantities it has sent (moves), whether the    *)
(* statement of the document is still to come (header), and whether all    *)
(* went well.                                                              *)
Request(op, doc, reason, items) ==
  [op |-> op, doc |-> doc, reason |-> reason, items |-> items,
   old |-> {}, moves |-> {}, header |-> FALSE, ok |-> TRUE]
Blank == Request("none", None, None, None)

Init ==
  /\ LevelsInit
  /\ reasons = [r \in Reasons |-> "unused"]
  /\ adjustments = [d \in {} |-> Blank]
  /\ pc = [c \in Calls |-> "idle"]
  /\ call = [c \in Calls |-> Blank]
  /\ moved = [d \in Calls |-> [v \in Variants |-> [w \in Warehouses |-> 0]]]
  /\ disturbed = {}
-----------------------------------------------------------------------------
Goto(c, label) == pc' = [pc EXCEPT ![c] = label]
End(c, label) == Goto(c, label) /\ call' = [call EXCEPT ![c] = Blank]

Disturb(docs) == disturbed' = disturbed \cup docs

Receive(c, request) ==
  /\ pc[c] = "idle"
  /\ \A b \in 1..(c-1) : pc[b] # "idle"
  /\ Goto(c, "check")
  /\ call' = [call EXCEPT ![c] = request]
  /\ UNCHANGED <<tables, moved, disturbed>>

(* The ids a client knows: of what it was shown, or a wrong one.           *)
KnownIds == DOMAIN adjustments \cup {None}
KnownReasons == {r \in Reasons : reasons[r] # "unused"}
Items == SeqOf(Item, MaxItems)

ReceiveCreate(c) ==
  \E r \in KnownReasons, items \in Items : Receive(c, Request("create", c, r, items))

(* Each field of an update may be left out.                                *)
ReceiveUpdate(c) ==
  \E d \in KnownIds, r \in KnownReasons \cup {None}, items \in Items \cup {None} :
    Receive(c, Request("update", d, r, items))

ReceiveArchive(c) ==
  \E d \in KnownIds, op \in {"archive", "restore"} : Receive(c, Request(op, d, None, None))

ReceiveRemoveReason(c) ==
  \E r \in KnownReasons : Receive(c, Request("removeReason", None, r, None))

CreateReason(r) ==
  /\ reasons[r] = "unused"
  /\ reasons' = [reasons EXCEPT ![r] = "present"]
  /\ UNCHANGED <<vtw, variantTotal, productTotal, adjustments, pc, call, moved, disturbed>>
-----------------------------------------------------------------------------
(* What a handler reads first. *)

Present(r) == r # None /\ reasons[r] = "present"

Admitted(c) ==
  LET r == call[c].reason
      d == call[c].doc
  IN  CASE call[c].op \in {"create", "removeReason"} -> Present(r)
        [] call[c].op = "update" -> d \in DOMAIN adjustments /\ (r = None \/ Present(r))
        [] OTHER -> d \in DOMAIN adjustments

Refuse(c) ==
  /\ pc[c] = "check"
  /\ ~ Admitted(c)
  /\ End(c, "failed")
  /\ UNCHANGED <<tables, moved, disturbed>>

(* A call that begins disturbs its document if another one is at work on   *)
(* it, if it names a row twice, or if the document is archived already     *)
(* (for restore: is not), which no handler looks at.                       *)
Twice(items) == \E i, j \in DOMAIN items : i # j /\ Row(items[i]) = Row(items[j])
BusyWith(d) == \E b \in Calls : pc[b] \in Running \ {"check"} /\ call[b].doc = d
Irregular(c) ==
  \/ BusyWith(call[c].doc)
  \/ call[c].items # None /\ Twice(call[c].items)
  \/ call[c].op = "archive" /\ adjustments[call[c].doc].isArchived
  \/ call[c].op = "restore" /\ ~ adjustments[call[c].doc].isArchived
  \/ /\ call[c].op = "update" /\ call[c].items # None
     /\ adjustments[call[c].doc].isArchived

(* The items of a call as lines of a document, each with an id of its own. *)
Lines(c, K) ==
  {[id |-> <<c, k>>, variant |-> call[c].items[k].variant,
    warehouse |-> call[c].items[k].warehouse,
    quantity |-> call[c].items[k].quantity] : k \in K}
Negated(lines) == {[l EXCEPT !.quantity = -@] : l \in lines}

(* The lines of one row.                                                   *)
OldAt(old, row) == {l \in old : Row(l) = row}

(* For each row that the lines name, one of the lines that name it: the    *)
(* service takes inventoryAdjustments[0], and compareArrays keeps one.     *)
OnePerRow(lines) ==
  {P \in SUBSET lines : \A l \in lines : Cardinality(OldAt(P, Row(l))) = 1}

Begin(c, label, next) ==
  /\ pc[c] = "check"
  /\ Admitted(c)
  /\ Goto(c, label)
  /\ call' = [call EXCEPT ![c] = next]
  /\ Disturb(IF Irregular(c) THEN {call[c].doc} ELSE {})
  /\ UNCHANGED <<tables, moved>>

(* create sends the document and the quantities of its items together.     *)
BeginCreate(c) ==
  /\ call[c].op = "create"
  /\ Begin(c, "move", [call[c] EXCEPT !.moves = Lines(c, DOMAIN call[c].items),
                                      !.header = TRUE])

(* update sends the document's own fields beside the work on its lines,    *)
(* if there is any.                                                        *)
BeginUpdate(c) ==
  /\ call[c].op = "update" /\ Admitted(c)
  /\ \E old \in OnePerRow(adjustments[call[c].doc].lines) :
       Begin(c, IF call[c].items = None THEN "header" ELSE "find",
             [call[c] EXCEPT !.old = old, !.header = TRUE])

BeginArchive(c) ==
  /\ call[c].op \in {"archive", "restore"}
  /\ Begin(c, "find", call[c])

BeginRemoveReason(c) ==
  /\ call[c].op = "removeReason"
  /\ Begin(c, "count", call[c])
-----------------------------------------------------------------------------
(* The statements beside each other. *)

(* The rows of the document are read, to take back what they brought       *)
(* (update, archive) or to bring it again (restore).                       *)
FindLines(c) ==
  /\ pc[c] = "find"
  /\ \E lines \in OnePerRow(adjustments[call[c].doc].lines) :
       call' = [call EXCEPT
         ![c].moves = IF call[c].op = "restore" THEN lines ELSE Negated(lines),
         ![c].header = @ \/ call[c].op = "restore"]
  /\ Goto(c, "move")
  /\ UNCHANGED <<tables, moved, disturbed>>

(* updateQuantity: one of the updates executes, at the three levels.       *)
Move(c, m) ==
  /\ Apply(<<[variant |-> m.variant, warehouse |-> m.warehouse, quantity |-> m.quantity]>>)
  /\ moved' = [moved EXCEPT ![call[c].doc][m.variant][m.warehouse] = @ + m.quantity]
  /\ call' = [call EXCEPT ![c].moves = @ \ {m}]
  /\ UNCHANGED <<reasons, adjustments, pc, disturbed>>
UpdateQuantity(c) == \E m \in call[c].moves : Move(c, m)

(* The statement of the document: it inserts it, rewrites its reason, or   *)
(* marks it as restored.  A reason that is gone makes it fail.             *)
WriteHeader(c) ==
  /\ call[c].header
  /\ call[c].reason = None \/ Present(call[c].reason)
  /\ adjustments' =
       CASE call[c].op = "create" ->
              Put(adjustments, c, [reason |-> call[c].reason, isArchived |-> FALSE,
                                   lines |-> Lines(c, DOMAIN call[c].items)])
         [] call[c].op = "update" ->
              [adjustments EXCEPT ![call[c].doc].reason =
                 IF call[c].reason = None THEN @ ELSE call[c].reason]
         [] call[c].op = "restore" ->
              [adjustments EXCEPT ![call[c].doc].isArchived = FALSE]
  /\ call' = [call EXCEPT ![c].header = FALSE]
  /\ UNCHANGED <<stock, reasons, pc, moved, disturbed>>

(* A statement fails; those beside it are not called back.                 *)
Fail(c, next) ==
  /\ call' = [call EXCEPT ![c] = [next EXCEPT !.ok = FALSE]]
  /\ Disturb({call[c].doc})
  /\ UNCHANGED <<tables, pc, moved>>
LoseMove(c) == \E m \in call[c].moves : Fail(c, [call[c] EXCEPT !.moves = @ \ {m}])
LoseHeader(c) == call[c].header /\ Fail(c, [call[c] EXCEPT !.header = FALSE])

(* A step that waits for the quantities: await Promise.all.                *)
AllMoved(c, label) == pc[c] = label /\ call[c].ok /\ call[c].moves = {}
-----------------------------------------------------------------------------
(* update: the lines. *)

ContinueUpdate(c) ==
  /\ call[c].op = "update" /\ AllMoved(c, "move")
  /\ Goto(c, "lines")
  /\ UNCHANGED <<tables, call, moved, disturbed>>

(* compareArrays(old, items): an item is new if no old line has its row,   *)
(* or an earlier item has taken that line; otherwise it is an update if    *)
(* the quantity differs.  Old lines that no item takes are deleted.        *)
NewItems(old, items) ==
  {k \in DOMAIN items : \/ OldAt(old, Row(items[k])) = {}
                        \/ \E j \in 1..(k-1) : Row(items[j]) = Row(items[k])}

(* Mutant of Updated: the quantities are not compared.                     *)
UpdatedByRow(old, items) ==
  {k \in DOMAIN items \ NewItems(old, items) : OldAt(old, Row(items[k])) = {}}

Updated(old, items) ==
  {k \in DOMAIN items \ NewItems(old, items) :
     \E l \in OldAt(old, Row(items[k])) : l.quantity # items[k].quantity}
Deleted(old, items) == {l \in old : Row(l) \notin RowsIn(items)}

(* One statement inserts the new lines and rewrites the updated ones.  It  *)
(* cannot delete: deleteMany gets the old lines as filters, which were     *)
(* read with the relation variantToWarehouse included, and the client      *)
(* refuses a statement whose scalar filters name a relation.               *)
WriteLines(c) ==
  LET items == call[c].items
      old == call[c].old
      Changes(l) == {k \in Updated(old, items) : Row(items[k]) = Row(l)}
      Written(l) == IF Changes(l) = {} THEN l
                    ELSE [l EXCEPT !.quantity = items[CHOOSE k \in Changes(l) : TRUE].quantity]
  IN  /\ pc[c] = "lines" /\ call[c].ok
      /\ Deleted(old, items) = {}
      /\ adjustments' = [adjustments EXCEPT ![call[c].doc].lines =
           {Written(l) : l \in @ \cup Lines(c, NewItems(old, items))}]
      /\ Goto(c, "findNew")
      /\ UNCHANGED <<stock, reasons, call, moved, disturbed>>

LoseLines(c) == pc[c] = "lines" /\ call[c].ok /\ Fail(c, call[c])

(* Mutant of FindNewLines: only the lines just inserted are brought.       *)
FindInsertedLines(c) ==
  /\ pc[c] = "findNew"
  /\ \E lines \in OnePerRow(adjustments[call[c].doc].lines) :
       call' = [call EXCEPT ![c].moves = {l \in lines : l.id[1] = c}]
  /\ Goto(c, "moveNew")
  /\ UNCHANGED <<tables, moved, disturbed>>

(* The rows of the document are read again, to bring what it says now.     *)
FindNewLines(c) ==
  /\ pc[c] = "findNew"
  /\ \E lines \in OnePerRow(adjustments[call[c].doc].lines) :
       call' = [call EXCEPT ![c].moves = lines]
  /\ Goto(c, "moveNew")
  /\ UNCHANGED <<tables, moved, disturbed>>
-----------------------------------------------------------------------------
(* The end of a handler. *)

(* archive: the transaction commits when the quantities are written.       *)
CommitArchive(c) ==
  /\ call[c].op = "archive" /\ AllMoved(c, "move")
  /\ adjustments' = [adjustments EXCEPT ![call[c].doc].isArchived = TRUE]
  /\ End(c, "done")
  /\ UNCHANGED <<stock, reasons, moved, disturbed>>

LoseArchive(c) == call[c].op = "archive" /\ AllMoved(c, "move") /\ Fail(c, call[c])

(* The last stage of the other handlers is over.                           *)
LastStage(c) ==
  CASE call[c].op = "update" -> IF call[c].items = None THEN "header" ELSE "moveNew"
    [] OTHER -> "move"
Return(c) ==
  /\ call[c].op \in {"create", "update", "restore"}
  /\ AllMoved(c, LastStage(c)) /\ ~ call[c].header
  /\ End(c, "done")
  /\ UNCHANGED <<tables, moved, disturbed>>

(* A handler of which a statement failed rejects; the model keeps it until *)
(* the statements beside it are settled.                                   *)
RejectFailed(c) ==
  /\ ~ call[c].ok
  /\ call[c].moves = {} /\ ~ call[c].header
  /\ End(c, "failed")
  /\ UNCHANGED <<tables, moved, disturbed>>

(* removeReason counts the adjustments of the reason, and deletes it if    *)
(* there are none; the database clears it in those that there are by then. *)
CountAdjustments(c) ==
  /\ pc[c] = "count"
  /\ IF \E d \in DOMAIN adjustments : adjustments[d].reason = call[c].reason
       THEN End(c, "failed")
       ELSE Goto(c, "delete") /\ UNCHANGED call
  /\ UNCHANGED <<tables, moved, disturbed>>

(* Mutant of DeleteReason: the adjustments keep the reason.                *)
DeleteReasonOnly(c) ==
  /\ pc[c] = "delete"
  /\ IF Present(call[c].reason) THEN End(c, "done") ELSE End(c, "failed")
  /\ reasons' = [reasons EXCEPT ![call[c].reason] = "removed"]
  /\ UNCHANGED <<stock, adjustments, moved, disturbed>>

DeleteReason(c) ==
  /\ pc[c] = "delete"
  /\ IF Present(call[c].reason) THEN End(c, "done") ELSE End(c, "failed")
  /\ reasons' = [reasons EXCEPT ![call[c].reason] = "removed"]
  /\ adjustments' = [d \in DOMAIN adjustments |->
       [adjustments[d] EXCEPT !.reason = IF @ = call[c].reason THEN None ELSE @]]
  /\ UNCHANGED <<stock, moved, disturbed>>

(* The server stops and starts again.                                      *)
Restart ==
  LET cut == {c \in Calls : pc[c] \in Running}
  IN  /\ cut # {}
      /\ pc' = [c \in Calls |-> IF c \in cut THEN "aborted" ELSE pc[c]]
      /\ call' = [c \in Calls |-> IF c \in cut THEN Blank ELSE call[c]]
      /\ Disturb({call[c].doc : c \in {b \in cut : pc[b] # "check"}})
      /\ UNCHANGED <<tables, moved>>
-----------------------------------------------------------------------------
Arrive(c) ==
  ReceiveCreate(c) \/ ReceiveUpdate(c) \/ ReceiveArchive(c) \/ ReceiveRemoveReason(c)

Serve(c) ==
  \/ Refuse(c)
  \/ BeginCreate(c) \/ BeginUpdate(c) \/ BeginArchive(c) \/ BeginRemoveReason(c)
  \/ FindLines(c) \/ UpdateQuantity(c) \/ WriteHeader(c)
  \/ ContinueUpdate(c) \/ WriteLines(c) \/ FindNewLines(c)
  \/ CommitArchive(c) \/ Return(c) \/ RejectFailed(c)
  \/ CountAdjustments(c) \/ DeleteReason(c)

Lose(c) == LoseMove(c) \/ LoseHeader(c) \/ LoseLines(c) \/ LoseArchive(c)

Next ==
  \/ \E c \in Calls : Arrive(c) \/ Serve(c) \/ Lose(c)
  \/ \E r \in Reasons : CreateReason(r)
  \/ Restart

Spec == Init /\ [][Next]_vars
-----------------------------------------------------------------------------
(* The rows that the tables and the calls hold.                            *)
LineRow == [id : Calls \X Nat, variant : Variants, warehouse : Warehouses, quantity : Int]
Adjustment == [reason : {r \in Reasons : Present(r)} \cup {None},
               isArchived : BOOLEAN, lines : SUBSET LineRow]
CallRow == [op : Ops, doc : Calls \cup {None}, reason : Reasons \cup {None},
            items : Items \cup {None}, old : SUBSET LineRow,
            moves : SUBSET LineRow, header : BOOLEAN, ok : BOOLEAN]

(* Type correctness, and with it: an adjustment whose reason was removed   *)
(* has none, and only a running call has something to send.                *)
TypeOK ==
  /\ LevelsTypeOK
  /\ reasons \in [Reasons -> {"unused", "present", "removed"}]
  /\ DOMAIN adjustments \subseteq Calls
  /\ \A d \in DOMAIN adjustments : adjustments[d] \in Adjustment
  /\ pc \in [Calls -> {"idle"} \cup Running \cup Ended]
  /\ call \in [Calls -> CallRow]
  /\ \A c \in Calls : pc[c] \notin Running => call[c] = Blank

(* No call is at work on d, and what d records of a row.                   *)
AtRest(d) == \A c \in Calls : call[c].doc = d => pc[c] \notin Running \ {"check"}
Recorded(d, v, w) ==
  LET lines == OldAt(adjustments[d].lines, <<v, w>>)
  IN  IF adjustments[d].isArchived \/ lines = {} THEN {0} ELSE {l.quantity : l \in lines}

(* A document at rest records what its calls have moved in the stock:      *)
(* nothing if it is archived, else the quantities of its lines.  So it is  *)
(* for a document whose calls came one at a time, were regular and did not *)
(* fail, whatever happens to the others meanwhile.                         *)
DocumentsAccount ==
  \A d \in DOMAIN adjustments \ disturbed : AtRest(d) =>
    \A v \in Variants, w \in Warehouses : Recorded(d, v, w) = {moved[d][v][w]}

(* What the calls have moved is the whole change of the stock.             *)
CallsAccount ==
  \A v \in Variants, w \in Warehouses :
    vtw[v][w] = Opening[v][w] + SumTo([d \in Calls |-> moved[d][v][w]], NCalls)

(* The documents account for the stock: create, update, archive and        *)
(* restore move exactly what they record, though each quantity is a        *)
(* statement of its own.                                                   *)
DocumentsAccountForStock == DocumentsAccount /\ CallsAccount

(* An update that returns has left the items it was sent as the lines of   *)
(* the document, if no other call disturbed it.                            *)
UpdateTakesEffect ==
  [][\A c \in Calls :
       (/\ call[c].op = "update" /\ call[c].items # None /\ pc'[c] = "done"
        /\ call[c].doc \notin disturbed) =>
         {[variant |-> l.variant, warehouse |-> l.warehouse, quantity |-> l.quantity] :
            l \in adjustments[call[c].doc].lines} = ToSet(call[c].items)]_vars

(* "Невозможно удалить причину списания": a reason that an adjustment has  *)
(* is not removed.                                                         *)
ReasonsInUseStay ==
  [][\A r \in Reasons : reasons[r] = "present" /\ reasons'[r] = "removed" =>
       \A d \in DOMAIN adjustments : adjustments[d].reason # r]_vars
=============================================================================
