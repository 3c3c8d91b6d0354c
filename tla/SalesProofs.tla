---------------------------- MODULE SalesProofs ----------------------------
(***************************************************************************)
(* The orders and refunds implement StockBook, keep the types, move the    *)
(* stock by exactly what they record, and leave a closed shift alone.      *)
(***************************************************************************)
EXTENDS Sales, StockLevelsProofs, FiniteSetTheorems

Labels == {"idle", "check", "tx", "done", "failed"}

CallRecord ==
  [op : {"none", "order", "refund"}, shift : ShiftIds \cup {None}, admin : BOOLEAN,
   order : Calls \cup {None}, items : Seq(OrderItem) \cup Seq(RefundItem),
   lines : Seq(Line), step : Nat]

(* What was recorded was recorded by calls that have ended.                *)
Recorded ==
  /\ DOMAIN docs \subseteq Calls
  /\ DOMAIN orders \subseteq Calls
  /\ DOMAIN refunds \subseteq Calls
  /\ \A c \in DOMAIN docs \cup DOMAIN orders \cup DOMAIN refunds : pc[c] = "done"

RowsTyped ==
  /\ \A o \in DOMAIN orders : orders[o].shift \in Shifts /\ orders[o].lines \in Seq(Line)
  /\ \A r \in DOMAIN refunds :
       /\ refunds[r].order \in Calls /\ refunds[r].shift \in Shifts \cup {None}
       /\ refunds[r].lines \in Seq(Line)

(* What a call that has been received asks for.                            *)
Asked(c) ==
  pc[c] = "check" =>
    \/ call[c].op = "order" /\ call[c].items \in SeqOf(OrderItem, MaxItems)
    \/ call[c].op = "refund" /\ call[c].items \in SeqOf(ShownItems, MaxItems)

(* What a call has found out when its transaction runs.                    *)
Started(c) ==
  pc[c] = "tx" =>
    /\ \/ call[c].op = "order" /\ call[c].shift \in Shifts
       \/ /\ call[c].op = "refund" /\ call[c].order \in Calls
          /\ call[c].shift \in Shifts \cup {None}
    /\ Len(call[c].lines) <= MaxItems
    /\ call[c].step <= NRows(c)

NotStarted(c) == pc[c] # "tx" => call[c].lines = <<>> /\ call[c].step = 0

SalesInv ==
  /\ opened \in [Shifts -> BOOLEAN]
  /\ pc \in [Calls -> Labels]
  /\ call \in [Calls -> CallRecord]
  /\ Recorded
  /\ RowsTyped
  /\ \A c \in Calls : Asked(c) /\ Started(c) /\ NotStarted(c)
-----------------------------------------------------------------------------
(* The rows of a document. *)

(* A sequence over the first m naturals is a sequence.                     *)
LEMMA IsSequence ==
  ASSUME NEW m \in Nat, NEW S, NEW f \in [1..m -> S]
  PROVE  f \in Seq(S) /\ Len(f) = m /\ DOMAIN f = 1..m
OBVIOUS

(* An enumeration of a set of positions is a sequence of positions, no     *)
(* longer than there are positions.                                        *)
LEMMA Enumeration ==
  ASSUME NEW m \in Nat, NEW K \in SUBSET (1..m), NEW p \in SetToSeqs(K)
  PROVE  \E n \in 0..m : p \in [1..n -> K]
<1>1. IsFiniteSet(1..m) /\ Cardinality(1..m) = m
  BY FS_Interval
<1>2. IsFiniteSet(K) /\ Cardinality(K) <= m
  BY <1>1, FS_Subset
<1>3. Cardinality(K) \in Nat
  BY <1>2, FS_CardinalityType
<1>4. p \in [1..Cardinality(K) -> K]
  BY DEF SetToSeqs
<1>5. Cardinality(K) \in 0..m
  BY <1>2, <1>3
<1> QED
  BY <1>4, <1>5

(* What an order sells are lines, no more than it has items.               *)
LEMMA SoldLinesType ==
  ASSUME NEW items \in SeqOf(OrderItem, MaxItems), NEW w \in Warehouses,
         NEW lines \in SoldLines(items, w)
  PROVE  lines \in Seq(Line) /\ Len(lines) <= MaxItems
<1>1. PICK m \in 0..MaxItems : items \in [1..m -> OrderItem]
  BY DEF SeqOf
<1>2. m \in Nat /\ MaxItems \in Nat /\ m <= MaxItems /\ DOMAIN items = 1..m
  BY <1>1, SalesAssumption
<1> DEFINE kept == {k \in DOMAIN items : <<items[k].variant, w>> \in Stocked}
<1>3. PICK p \in SetToSeqs(kept) :
        lines = [j \in DOMAIN p |-> [variant |-> items[p[j]].variant, warehouse |-> w,
                                     quantity |-> items[p[j]].quantity]]
  BY DEF SoldLines
<1>4. kept \in SUBSET (1..m)
  BY <1>2
<1>5. PICK n \in 0..m : p \in [1..n -> kept]
  <2> HIDE DEF kept
  <2> QED
    BY <1>2, <1>4, Enumeration
<1>6. n \in Nat /\ n <= MaxItems
  BY <1>2
<1>7. ASSUME NEW j \in 1..n PROVE lines[j] \in Line
  <2>1. p[j] \in 1..m
    BY <1>4, <1>5
  <2>2. items[p[j]] \in OrderItem
    BY <1>1, <2>1
  <2>3. items[p[j]].variant \in Variants /\ items[p[j]].quantity \in Int
    BY <2>2, SalesAssumption DEF OrderItem
  <2> QED
    BY <1>3, <1>5, <2>3 DEF Line
<1>8. lines \in [1..n -> Line]
  BY <1>3, <1>5, <1>7
<1> QED
  BY <1>6, <1>8, IsSequence

(* What a refund takes back are lines, as many as it has items.            *)
LEMMA ReturnedLinesType ==
  ASSUME RowsTyped, NEW items \in SeqOf(ShownItems, MaxItems),
         NEW lines \in ReturnedLines(items)
  PROVE  lines \in Seq(Line) /\ Len(lines) <= MaxItems
<1>1. PICK m \in 0..MaxItems : items \in [1..m -> ShownItems]
  BY DEF SeqOf
<1>2. m \in Nat /\ MaxItems \in Nat /\ m <= MaxItems /\ DOMAIN items = 1..m
  BY <1>1, SalesAssumption
<1>3. PICK p \in SetToSeqs(1..m) :
        lines = [j \in DOMAIN p |-> [orders[items[p[j]].order].lines[items[p[j]].line]
                                       EXCEPT !.quantity = items[p[j]].quantity]]
  BY <1>2 DEF ReturnedLines
<1>5. PICK n \in 0..m : p \in [1..n -> 1..m]
  BY <1>2, Enumeration
<1>6. n \in Nat /\ n <= MaxItems
  BY <1>2
<1>7. ASSUME NEW j \in 1..n PROVE lines[j] \in Line
  <2>1. p[j] \in 1..m
    BY <1>5
  <2> DEFINE i == items[p[j]]
  <2>2. i \in ShownItems
    BY <1>1, <2>1
  <2>3. /\ i.order \in DOMAIN orders /\ i.line \in DOMAIN orders[i.order].lines
        /\ i.quantity \in Int
    BY <2>2, SalesAssumption DEF ShownItems, RefundItem
  <2>4. orders[i.order].lines \in Seq(Line)
    BY <2>3 DEF RowsTyped
  <2>5. orders[i.order].lines[i.line] \in Line
    BY <2>3, <2>4
  <2>6. lines[j] = [orders[i.order].lines[i.line] EXCEPT !.quantity = i.quantity]
    BY <1>3, <1>5
  <2> QED
    BY <2>3, <2>5, <2>6 DEF Line
<1>8. lines \in [1..n -> Line]
  BY <1>3, <1>5, <1>7
<1> QED
  BY <1>6, <1>8, IsSequence

(* The lines a call moves are lines, as many as it has rows.               *)
LEMMA MovedLinesType ==
  ASSUME SalesInv, NEW c \in Calls
  PROVE  /\ MovedLines(c) \in Seq(Line)
         /\ Len(MovedLines(c)) = Len(call[c].lines)
<1> DEFINE lines == call[c].lines
<1>1. lines \in Seq(Line)
  BY DEF SalesInv, CallRecord
<1>2. Len(lines) \in Nat /\ \A k \in 1..Len(lines) : lines[k] \in Line
  BY <1>1
<1>3. MovedLines(c) \in [1..Len(lines) -> Line]
  BY <1>2 DEF MovedLines, Line
<1> QED
  BY <1>2, <1>3, IsSequence
-----------------------------------------------------------------------------
(* The invariant. *)

(* A call that has not arrived is a call.                                  *)
LEMMA BlankType == Blank \in CallRecord
BY DEF Blank, Request, CallRecord

(* A document that was not recorded yet leaves the items shown earlier.    *)
LEMMA ShownItemsGrow ==
  ASSUME \A o \in DOMAIN orders : o \in DOMAIN orders' /\ orders'[o] = orders[o],
         NEW items \in SeqOf(ShownItems, MaxItems)
  PROVE  items \in SeqOf(ShownItems, MaxItems)'
<1>1. ShownItems \subseteq ShownItems'
  BY DEF ShownItems
<1> QED
  BY <1>1 DEF SeqOf

(* A step of one call leaves what is known of the others.                  *)
LEMMA OthersKeep ==
  ASSUME NEW c \in Calls, NEW b \in Calls, b # c, SalesInv,
         \A o \in DOMAIN orders : o \in DOMAIN orders' /\ orders'[o] = orders[o],
         pc'[b] = pc[b], call'[b] = call[b]
  PROVE  Asked(b)' /\ Started(b)' /\ NotStarted(b)'
<1>1. Asked(b) /\ Started(b) /\ NotStarted(b)
  BY DEF SalesInv
<1>2. Asked(b)'
  BY <1>1, ShownItemsGrow DEF Asked
<1>3. Started(b)'
  BY <1>1 DEF Started, NRows
<1>4. NotStarted(b)'
  BY <1>1 DEF NotStarted
<1> QED
  BY <1>2, <1>3, <1>4

(* A step of a call that leaves the tables alone.                          *)
LEMMA CallStep ==
  ASSUME SalesInv, NEW c \in Calls, pc[c] # "done", UNCHANGED tables,
         NEW label \in Labels, pc' = [pc EXCEPT ![c] = label],
         NEW r \in CallRecord, call' = [call EXCEPT ![c] = r],
         Asked(c)', Started(c)', NotStarted(c)'
  PROVE  SalesInv'
<1>1. pc' \in [Calls -> Labels] /\ call' \in [Calls -> CallRecord]
  BY DEF SalesInv
<1>2. opened' \in [Shifts -> BOOLEAN] /\ RowsTyped'
  BY DEF SalesInv, RowsTyped, tables
<1>3. Recorded'
  BY DEF SalesInv, Recorded, tables
<1>4. ASSUME NEW b \in Calls PROVE Asked(b)' /\ Started(b)' /\ NotStarted(b)'
  <2>1. CASE b = c
    BY <2>1
  <2>2. CASE b # c
    <3>1. pc'[b] = pc[b] /\ call'[b] = call[b]
      BY <2>2 DEF SalesInv
    <3>2. \A o \in DOMAIN orders : o \in DOMAIN orders' /\ orders'[o] = orders[o]
      BY DEF tables
    <3> QED
      BY <2>2, <3>1, <3>2, OthersKeep
  <2> QED
    BY <2>1, <2>2
<1> QED
  BY <1>1, <1>2, <1>3, <1>4 DEF SalesInv

(* A handler that ends without writing anything.                           *)
LEMMA EndKeepsInv ==
  ASSUME SalesInv, NEW c \in Calls, pc[c] # "done", UNCHANGED tables,
         NEW label \in {"done", "failed"}, End(c, label)
  PROVE  SalesInv'
<1>1. pc' = [pc EXCEPT ![c] = label] /\ call' = [call EXCEPT ![c] = Blank]
  BY DEF End, Goto
<1>2. pc'[c] = label /\ call'[c] = Blank
  BY <1>1 DEF SalesInv
<1>3. Asked(c)' /\ Started(c)' /\ NotStarted(c)'
  BY <1>2 DEF Asked, Started, NotStarted, Blank, Request
<1> QED
  BY <1>1, <1>3, BlankType, CallStep DEF Labels

(* The invariant holds at the start.                                       *)
LEMMA SalesInvInit == Init => SalesInv
<1> SUFFICES ASSUME Init PROVE SalesInv
  OBVIOUS
<1>1. call \in [Calls -> CallRecord]
  BY BlankType DEF Init
<1>2. DOMAIN docs = {} /\ DOMAIN orders = {} /\ DOMAIN refunds = {}
  BY DEF Init, BookInit, LevelsInit
<1>3. \A c \in Calls : pc[c] = "idle" /\ call[c] = Blank
  BY DEF Init
<1>4. \A c \in Calls : Asked(c) /\ Started(c) /\ NotStarted(c)
  BY <1>3 DEF Asked, Started, NotStarted, Blank, Request
<1>5. opened \in [Shifts -> BOOLEAN] /\ pc \in [Calls -> Labels]
  BY DEF Init, Labels
<1> QED
  BY <1>1, <1>2, <1>4, <1>5 DEF SalesInv, Recorded, RowsTyped

(* A request names items that exist.                                       *)
LEMMA ReceiveKeepsInv ==
  ASSUME SalesInv, NEW c \in Calls, ReceiveOrder(c) \/ ReceiveRefund(c)
  PROVE  SalesInv'
<1>0. MaxItems \in Nat
  BY SalesAssumption
<1>1. ASSUME NEW r \in CallRecord, Receive(c, r), r.lines = <<>>, r.step = 0,
             \/ r.op = "order" /\ r.items \in SeqOf(OrderItem, MaxItems)
             \/ r.op = "refund" /\ r.items \in SeqOf(ShownItems, MaxItems)
      PROVE  SalesInv'
  <2>1. /\ pc[c] = "idle" /\ UNCHANGED tables
        /\ pc' = [pc EXCEPT ![c] = "check"] /\ call' = [call EXCEPT ![c] = r]
    BY <1>1 DEF Receive, Goto
  <2>2. pc'[c] = "check" /\ call'[c] = r
    BY <2>1 DEF SalesInv
  <2>3. \A o \in DOMAIN orders : o \in DOMAIN orders' /\ orders'[o] = orders[o]
    BY <2>1 DEF tables
  <2>4. Asked(c)'
    BY <1>1, <2>2, <2>3, ShownItemsGrow DEF Asked
  <2>5. Started(c)' /\ NotStarted(c)'
    BY <1>1, <2>2 DEF Started, NotStarted
  <2> QED
    BY <1>1, <2>1, <2>4, <2>5, CallStep DEF Labels
<1>2. ASSUME NEW s \in ShiftIds, NEW items \in SeqOf(OrderItem, MaxItems),
             Receive(c, Request("order", s, FALSE, None, items))
      PROVE  SalesInv'
  <2>1. PICK m \in 0..MaxItems : items \in [1..m -> OrderItem]
    BY <1>2 DEF SeqOf
  <2>2. items \in Seq(OrderItem)
    BY <1>0, <2>1
  <2> DEFINE r == Request("order", s, FALSE, None, items)
  <2>3. r \in CallRecord
    BY <2>2 DEF CallRecord, Request
  <2>4. r.lines = <<>> /\ r.step = 0 /\ r.op = "order" /\ r.items = items
    BY DEF Request
  <2> HIDE DEF r
  <2>5. Receive(c, r)
    BY <1>2 DEF r
  <2> QED
    BY <1>1, <1>2, <2>3, <2>4, <2>5
<1>3. ASSUME NEW s \in ShiftIds \cup {None}, NEW admin \in BOOLEAN,
             NEW o \in DOMAIN orders \cup {None}, NEW items \in SeqOf(ShownItems, MaxItems),
             Receive(c, Request("refund", s, admin, o, items))
      PROVE  SalesInv'
  <2>1. PICK m \in 0..MaxItems : items \in [1..m -> ShownItems]
    BY <1>3 DEF SeqOf
  <2>2. items \in Seq(RefundItem)
    BY <1>0, <2>1 DEF ShownItems
  <2>3. o \in Calls \cup {None}
    BY DEF SalesInv, Recorded
  <2> DEFINE r == Request("refund", s, admin, o, items)
  <2>4. r \in CallRecord
    BY <2>2, <2>3 DEF CallRecord, Request
  <2>5. r.lines = <<>> /\ r.step = 0 /\ r.op = "refund" /\ r.items = items
    BY DEF Request
  <2> HIDE DEF r
  <2>6. Receive(c, r)
    BY <1>3 DEF r
  <2> QED
    BY <1>1, <1>3, <2>4, <2>5, <2>6
<1> QED
  BY <1>2, <1>3 DEF ReceiveOrder, ReceiveRefund

(* A call whose transaction begins has found a shift, and lines to move.   *)
LEMMA BeginKeepsInv ==
  ASSUME SalesInv, NEW c \in Calls, BeginOrder(c) \/ BeginRefund(c)
  PROVE  SalesInv'
<1>1. /\ call \in [Calls -> CallRecord] /\ call[c] \in CallRecord
      /\ Asked(c) /\ NotStarted(c)
  BY DEF SalesInv
<1>2. ASSUME NEW choices, Begin(c, choices),
             \A lines \in choices : lines \in Seq(Line) /\ Len(lines) <= MaxItems,
             \/ call[c].op = "order" /\ call[c].shift \in Shifts
             \/ /\ call[c].op = "refund" /\ call[c].order \in Calls
                /\ call[c].shift \in Shifts \cup {None}
      PROVE  SalesInv'
  <2>1. PICK lines \in choices :
          call' = [call EXCEPT ![c].lines = lines, ![c].items = <<>>]
    BY <1>2 DEF Begin
  <2>2. lines \in Seq(Line) /\ Len(lines) <= MaxItems /\ Len(lines) \in Nat
    BY <1>2, <2>1
  <2> DEFINE q == [call[c] EXCEPT !.lines = lines]
             r == [q EXCEPT !.items = <<>>]
  <2>10. /\ q \in CallRecord /\ q.op = call[c].op /\ q.shift = call[c].shift
        /\ q.order = call[c].order /\ q.step = call[c].step /\ q.lines = lines
    BY <1>1, <2>2 DEF CallRecord
  <2> HIDE DEF q
  <2>11. <<>> \in Seq(OrderItem)
    OBVIOUS
  <2>12. /\ r.op = call[c].op /\ r.shift = call[c].shift
        /\ r.order = call[c].order /\ r.step = call[c].step /\ r.lines = lines
    BY <2>10 DEF CallRecord
  <2>13. r \in CallRecord
    BY <2>10, <2>11 DEF CallRecord
  <2>3. /\ r \in CallRecord /\ r.op = call[c].op /\ r.shift = call[c].shift
        /\ r.order = call[c].order /\ r.step = call[c].step /\ r.lines = lines
    BY <2>12, <2>13
  <2>4. call' = [call EXCEPT ![c] = r]
    BY <1>1, <2>1 DEF q
  <2>5. pc[c] = "check" /\ pc' = [pc EXCEPT ![c] = "tx"] /\ UNCHANGED tables
    BY <1>2 DEF Begin, Goto
  <2> HIDE DEF r
  <2>6. pc'[c] = "tx" /\ call'[c] = r
    BY <2>4, <2>5 DEF SalesInv
  <2>7. r.step = 0
    BY <1>1, <2>3, <2>5 DEF NotStarted
  <2>8. Started(c)'
    BY <1>2, <2>2, <2>3, <2>6, <2>7 DEF Started, NRows
  <2>9. Asked(c)' /\ NotStarted(c)'
    BY <2>6 DEF Asked, NotStarted
  <2> QED
    BY <2>3, <2>4, <2>5, <2>8, <2>9, CallStep DEF Labels
<1>3. CASE BeginOrder(c)
  <2>1. /\ pc[c] = "check" /\ call[c].op = "order"
        /\ Begin(c, SoldLines(call[c].items, WarehouseOf[call[c].shift]))
    BY <1>3 DEF BeginOrder, Begin
  <2>2. call[c].items \in SeqOf(OrderItem, MaxItems)
    BY <1>1, <2>1 DEF Asked
  <2>3. call[c].shift \in Shifts /\ WarehouseOf[call[c].shift] # None
    BY <2>1 DEF Begin, Admitted, OrderAdmitted
  <2>4. WarehouseOf[call[c].shift] \in Warehouses
    BY <2>3, SalesAssumption
  <2> QED
    BY <1>2, <2>1, <2>2, <2>3, <2>4, SoldLinesType
<1>4. CASE BeginRefund(c)
  <2>1. /\ pc[c] = "check" /\ call[c].op = "refund"
        /\ Begin(c, ReturnedLines(call[c].items))
    BY <1>4 DEF BeginRefund, Begin
  <2>2. call[c].items \in SeqOf(ShownItems, MaxItems)
    BY <1>1, <2>1 DEF Asked
  <2>3. call[c].order \in DOMAIN orders /\ call[c].shift \in Shifts \cup {None}
    BY <2>1 DEF Begin, Admitted, RefundAdmitted
  <2>4. call[c].order \in Calls
    BY <2>3 DEF SalesInv, Recorded
  <2>5. RowsTyped
    BY DEF SalesInv
  <2> QED
    BY <1>2, <2>1, <2>2, <2>3, <2>4, <2>5, ReturnedLinesType
<1> QED
  BY <1>3, <1>4

(* A call updates one row after another, no more than it has.              *)
LEMMA UpdateRowKeepsInv ==
  ASSUME SalesInv, NEW c \in Calls, UpdateRow(c)
  PROVE  SalesInv'
<1>1. /\ call \in [Calls -> CallRecord] /\ call[c] \in CallRecord
      /\ pc \in [Calls -> Labels] /\ Started(c)
  BY DEF SalesInv
<1>2. /\ pc[c] = "tx" /\ call[c].step < NRows(c)
      /\ call' = [call EXCEPT ![c].step = @ + 1] /\ UNCHANGED <<tables, pc>>
  BY DEF UpdateRow, InTx
<1> DEFINE r == [call[c] EXCEPT !.step = @ + 1]
<1>3. /\ call[c].step \in Nat /\ call[c].lines \in Seq(Line) /\ Len(call[c].lines) \in Nat
  BY <1>1 DEF CallRecord
<1>4. /\ r \in CallRecord /\ r.op = call[c].op /\ r.shift = call[c].shift
      /\ r.order = call[c].order /\ r.step = call[c].step + 1 /\ r.lines = call[c].lines
  BY <1>1, <1>3 DEF CallRecord
<1>5. call' = [call EXCEPT ![c] = r] /\ pc' = [pc EXCEPT ![c] = "tx"]
  BY <1>1, <1>2
<1> HIDE DEF r
<1>6. pc'[c] = "tx" /\ call'[c] = r
  BY <1>1, <1>5
<1>7. r.step <= 3 * Len(r.lines)
  BY <1>2, <1>3, <1>4 DEF NRows
<1>8. Started(c)'
  BY <1>1, <1>2, <1>4, <1>6, <1>7 DEF Started, NRows
<1>9. Asked(c)' /\ NotStarted(c)'
  BY <1>6 DEF Asked, NotStarted
<1> QED
  BY <1>2, <1>4, <1>5, <1>8, <1>9, CallStep DEF Labels

(* What a committing call adds to the tables.                              *)
LEMMA CommitEffect ==
  ASSUME SalesInv, NEW c \in Calls, Commit(c)
  PROVE  /\ c \notin DOMAIN docs /\ c \notin DOMAIN orders /\ c \notin DOMAIN refunds
         /\ call[c].lines \in Seq(Line)
         /\ docs' = Put(docs, c, MovedLines(c))
         /\ \/ /\ call[c].op = "order" /\ call[c].shift \in Shifts
               /\ orders' = Put(orders, c, [shift |-> call[c].shift, lines |-> call[c].lines])
               /\ refunds' = refunds
            \/ /\ call[c].op = "refund"
               /\ call[c].order \in Calls /\ call[c].shift \in Shifts \cup {None}
               /\ refunds' = Put(refunds, c,
                    [order |-> call[c].order, shift |-> call[c].shift,
                     admin |-> call[c].admin, lines |-> call[c].lines])
               /\ orders' = orders
<1>1. pc[c] = "tx"
  BY DEF Commit, InTx
<1>2. c \notin DOMAIN docs /\ c \notin DOMAIN orders /\ c \notin DOMAIN refunds
  BY <1>1 DEF SalesInv, Recorded
<1>3. call[c].lines \in Seq(Line) /\ Started(c)
  BY DEF SalesInv, CallRecord
<1>4. /\ docs' = Put(docs, c, MovedLines(c))
      /\ CommitOrder(c) \/ CommitRefund(c)
  BY DEF Commit
<1>5. CASE CommitOrder(c)
  <2>1. call[c].op = "order" /\ call[c].shift \in Shifts
    BY <1>1, <1>3, <1>5 DEF CommitOrder, Started
  <2>2. /\ orders' = Put(orders, c, [shift |-> call[c].shift, lines |-> call[c].lines])
        /\ refunds' = refunds
    BY <1>5 DEF CommitOrder
  <2> QED
    BY <1>2, <1>3, <1>4, <2>1, <2>2
<1>6. CASE CommitRefund(c)
  <2>1. /\ call[c].op = "refund"
        /\ call[c].order \in Calls /\ call[c].shift \in Shifts \cup {None}
    BY <1>1, <1>3, <1>6 DEF CommitRefund, Started
  <2>2. /\ refunds' = Put(refunds, c,
                    [order |-> call[c].order, shift |-> call[c].shift,
                     admin |-> call[c].admin, lines |-> call[c].lines])
        /\ orders' = orders
    BY <1>6 DEF CommitRefund
  <2> QED
    BY <1>2, <1>3, <1>4, <2>1, <2>2
<1> QED
  BY <1>4, <1>5, <1>6

(* A committing call records rows of the right types, and has ended.       *)
LEMMA CommitKeepsInv ==
  ASSUME SalesInv, NEW c \in Calls, Commit(c)
  PROVE  SalesInv'
<1>1. /\ pc' = [pc EXCEPT ![c] = "done"] /\ call' = [call EXCEPT ![c] = Blank]
      /\ opened' = opened
  BY DEF Commit, End, Goto
<1>2. /\ pc' \in [Calls -> Labels] /\ call' \in [Calls -> CallRecord]
      /\ opened' \in [Shifts -> BOOLEAN]
  BY <1>1, BlankType DEF SalesInv, Labels
<1>3. pc'[c] = "done" /\ call'[c] = Blank
  BY <1>1 DEF SalesInv
<1>4. \A b \in Calls : b # c => pc'[b] = pc[b] /\ call'[b] = call[b]
  BY <1>1 DEF SalesInv
<1>5. \A o \in DOMAIN orders : o \in DOMAIN orders' /\ orders'[o] = orders[o]
  <2>1. \/ orders' = Put(orders, c, [shift |-> call[c].shift, lines |-> call[c].lines])
        \/ orders' = orders
    BY CommitEffect
  <2>2. c \notin DOMAIN orders
    BY CommitEffect
  <2>3. PICK row : orders' = Put(orders, c, row) \/ orders' = orders
    BY <2>1
  <2>4. CASE orders' = Put(orders, c, row)
    BY <2>2, <2>4 DEF Put
  <2> QED
    BY <2>3, <2>4
<1>6. Recorded'
  <2>1. /\ DOMAIN docs' \subseteq DOMAIN docs \cup {c}
        /\ DOMAIN orders' \subseteq DOMAIN orders \cup {c}
        /\ DOMAIN refunds' \subseteq DOMAIN refunds \cup {c}
    BY CommitEffect DEF Put
  <2>2. Recorded
    BY DEF SalesInv
  <2> QED
    BY <1>3, <1>4, <2>1, <2>2 DEF Recorded
<1>7. RowsTyped'
  <2>1. RowsTyped
    BY DEF SalesInv
  <2>2. CASE call[c].op = "order"
    <3>1. /\ call[c].shift \in Shifts /\ call[c].lines \in Seq(Line)
          /\ orders' = Put(orders, c, [shift |-> call[c].shift, lines |-> call[c].lines])
          /\ refunds' = refunds
      BY <2>2, CommitEffect
    <3> QED
      BY <2>1, <3>1 DEF RowsTyped, Put
  <2>3. CASE call[c].op # "order"
    <3>1. /\ call[c].order \in Calls /\ call[c].shift \in Shifts \cup {None}
          /\ call[c].lines \in Seq(Line) /\ orders' = orders
          /\ refunds' = Put(refunds, c,
                    [order |-> call[c].order, shift |-> call[c].shift,
                     admin |-> call[c].admin, lines |-> call[c].lines])
      BY <2>3, CommitEffect
    <3> QED
      BY <2>1, <3>1 DEF RowsTyped, Put
  <2> QED
    BY <2>2, <2>3
<1>8. ASSUME NEW b \in Calls PROVE Asked(b)' /\ Started(b)' /\ NotStarted(b)'
  <2>1. CASE b = c
    BY <1>3, <2>1 DEF Asked, Started, NotStarted, Blank, Request
  <2>2. CASE b # c
    BY <1>4, <1>5, <2>2, OthersKeep
  <2> QED
    BY <2>1, <2>2
<1> QED
  BY <1>2, <1>6, <1>7, <1>8 DEF SalesInv

(* Closing a shift, or opening it again, touches nothing else.             *)
LEMMA CloseShiftKeepsInv ==
  ASSUME SalesInv, NEW s \in Shifts, CloseShift(s) \/ ReopenShift(s)
  PROVE  SalesInv'
<1>1. /\ \/ opened' = [opened EXCEPT ![s] = FALSE]
         \/ opened' = [opened EXCEPT ![s] = TRUE]
      /\ UNCHANGED <<docs, orders, refunds, pc, call>>
  BY DEF CloseShift, ReopenShift
<1>2. opened' \in [Shifts -> BOOLEAN]
  BY <1>1 DEF SalesInv
<1>3. Recorded' /\ RowsTyped'
  BY <1>1 DEF SalesInv, Recorded, RowsTyped
<1>4. ASSUME NEW c \in Calls PROVE Asked(c)' /\ Started(c)' /\ NotStarted(c)'
  BY <1>1 DEF SalesInv, Asked, Started, NotStarted, NRows, ShownItems
<1> QED
  BY <1>1, <1>2, <1>3, <1>4 DEF SalesInv

(* The invariant is inductive.                                             *)
LEMMA SalesInvNext == SalesInv /\ [Next]_salesVars => SalesInv'
<1> SUFFICES ASSUME SalesInv, [Next]_salesVars PROVE SalesInv'
  OBVIOUS
<1>1. ASSUME NEW c \in Calls, ReceiveOrder(c) \/ ReceiveRefund(c) PROVE SalesInv'
  BY <1>1, ReceiveKeepsInv
<1>2. ASSUME NEW c \in Calls, Refuse(c) \/ AcceptEmptyOrder(c) PROVE SalesInv'
  <2>1. PICK label \in {"done", "failed"} :
          pc[c] = "check" /\ UNCHANGED tables /\ End(c, label)
    BY <1>2 DEF Refuse, AcceptEmptyOrder
  <2> QED
    BY <2>1, EndKeepsInv
<1>3. ASSUME NEW c \in Calls, BeginOrder(c) \/ BeginRefund(c) PROVE SalesInv'
  BY <1>3, BeginKeepsInv
<1>4. ASSUME NEW c \in Calls, UpdateRow(c) PROVE SalesInv'
  BY <1>4, UpdateRowKeepsInv
<1>5. ASSUME NEW c \in Calls, Commit(c) PROVE SalesInv'
  BY <1>5, CommitKeepsInv
<1>6. ASSUME NEW c \in Calls, DeadlockVictim(c) PROVE SalesInv'
  <2>1. pc[c] = "tx" /\ UNCHANGED tables /\ End(c, "failed")
    BY <1>6 DEF DeadlockVictim, Circles, InTx
  <2> QED
    BY <2>1, EndKeepsInv
<1>7. ASSUME NEW c \in Calls, Abort(c) PROVE SalesInv'
  <2>1. pc[c] # "done" /\ UNCHANGED tables /\ End(c, "failed")
    BY <1>7 DEF Abort
  <2> QED
    BY <2>1, EndKeepsInv
<1>8. ASSUME NEW s \in Shifts, CloseShift(s) \/ ReopenShift(s) PROVE SalesInv'
  BY <1>8, CloseShiftKeepsInv
<1>9. CASE UNCHANGED salesVars
  BY <1>9 DEF salesVars, SalesInv, Recorded, RowsTyped, Asked, Started, NotStarted,
              NRows, ShownItems
<1> QED
  BY <1>1, <1>2, <1>3, <1>4, <1>5, <1>6, <1>7, <1>8, <1>9 DEF Next, Serve

(* It holds in every state.                                                *)
LEMMA SalesInvariant == Spec => []SalesInv
BY SalesInvInit, SalesInvNext, PTL DEF Spec
-----------------------------------------------------------------------------
(* Refinement. *)

(* Only a commit changes the stock, and it posts one document.             *)
LEMMA StepImplements == SalesInv /\ [Next]_salesVars => [BookNext]_bookVars
<1> SUFFICES ASSUME SalesInv, [Next]_salesVars PROVE [BookNext]_bookVars
  OBVIOUS
<1>1. ASSUME NEW c \in Calls, Commit(c) PROVE BookNext
  <2>1. c \notin DOMAIN docs /\ docs' = Put(docs, c, MovedLines(c))
    BY <1>1, CommitEffect
  <2>2. MovedLines(c) \in Seq(Line)
    BY MovedLinesType
  <2>3. /\ DOMAIN docs' = DOMAIN docs \cup {c}
        /\ \A e \in DOMAIN docs : docs'[e] = docs[e]
        /\ docs'[c] = MovedLines(c)
    BY <2>1 DEF Put
  <2>4. Apply(docs'[c])
    BY <1>1, <2>3 DEF Commit
  <2>5. Post(c)
    BY <2>1, <2>2, <2>3, <2>4 DEF Post
  <2> QED
    BY <2>5 DEF BookNext, Calls
<1>2. ASSUME UNCHANGED <<vtw, variantTotal, productTotal, docs>> PROVE UNCHANGED bookVars
  BY <1>2 DEF bookVars
<1>3. ASSUME NEW c \in Calls,
             \/ ReceiveOrder(c) \/ ReceiveRefund(c) \/ Refuse(c) \/ AcceptEmptyOrder(c)
             \/ BeginOrder(c) \/ BeginRefund(c) \/ UpdateRow(c) \/ DeadlockVictim(c)
             \/ Abort(c)
      PROVE  UNCHANGED bookVars
  BY <1>2, <1>3 DEF ReceiveOrder, ReceiveRefund, Receive, Refuse, AcceptEmptyOrder,
     BeginOrder, BeginRefund, Begin, UpdateRow, DeadlockVictim, Abort, tables
<1>4. ASSUME NEW s \in Shifts, CloseShift(s) \/ ReopenShift(s) PROVE UNCHANGED bookVars
  BY <1>2, <1>4 DEF CloseShift, ReopenShift
<1>5. CASE UNCHANGED salesVars
  BY <1>2, <1>5 DEF salesVars
<1> QED
  BY <1>1, <1>3, <1>4, <1>5 DEF Next, Serve

(* A document posted is some lines applied: StockBook implements           *)
(* StockLevels, whatever its documents are.                                *)
THEOREM BookImplementsLevels == BookSpec => LevelsSpec
<1>1. BookInit => LevelsInit
  BY DEF BookInit
<1>2. [BookNext]_bookVars => [LevelsNext]_stock
  BY DEF BookNext, Post, LevelsNext, bookVars, stock
<1> QED
  BY <1>1, <1>2, PTL DEF BookSpec, LevelsSpec

(* Documents keep their type, and the levels agree: whatever posts         *)
(* documents as StockBook says keeps TotalsAgree.                          *)
THEOREM BookTotalsAgree == BookSpec => [](BookTypeOK /\ TotalsAgree)
<1> DEFINE DocsOK == DOMAIN docs \subseteq Docs /\ \A d \in DOMAIN docs : docs[d] \in Seq(Line)
<1>1. BookInit => DocsOK
  BY DEF BookInit
<1>2. DocsOK /\ [BookNext]_bookVars => DocsOK'
  BY DEF BookNext, Post, bookVars
<1>3. LevelsTypeOK /\ DocsOK => BookTypeOK
  BY DEF BookTypeOK
<1> QED
  BY <1>1, <1>2, <1>3, BookImplementsLevels, LevelsAgree, PTL DEF BookSpec

(* ImplementsBook: whatever the interleaving of their handlers and row     *)
(* updates, orders and refunds move the stock as StockBook says, a whole   *)
(* document at its three levels in one step.                               *)
THEOREM SalesImplementBook == Spec => ImplementsBook
<1>1. Init => BookInit
  BY DEF Init
<1> QED
  BY <1>1, SalesInvariant, StepImplements, PTL DEF Spec, BookSpec, ImplementsBook

(* TotalsAgree: the three levels of the stock agree after every step of    *)
(* OrdersService.create and RefundsService.create.                         *)
THEOREM SalesTotalsAgree == Spec => [](BookTypeOK /\ TotalsAgree)
BY SalesImplementBook, BookTotalsAgree, PTL DEF ImplementsBook

(* TypeOK, and with it: an order is recorded in a shift that exists, a     *)
(* refund for an order that was made, and no call updates more rows than   *)
(* its lines have.                                                         *)
THEOREM SalesTypeCorrect == Spec => []TypeOK
<1>1. SalesInv /\ BookTypeOK => TypeOK
  <2> SUFFICES ASSUME SalesInv, BookTypeOK PROVE TypeOK
    OBVIOUS
  <2>1. ASSUME NEW c \in Calls
        PROVE  call[c].lines \in Seq(Line) /\ call[c].step \in 0..(3 * MaxItems)
    <3>1. call[c].lines \in Seq(Line) /\ call[c].step \in Nat
      BY DEF SalesInv, CallRecord
    <3>2. Started(c) /\ NotStarted(c)
      BY DEF SalesInv
    <3>3. MaxItems \in Nat /\ Len(call[c].lines) \in Nat
      BY <3>1, SalesAssumption
    <3>4. CASE pc[c] = "tx"
      <4>1. Len(call[c].lines) <= MaxItems /\ call[c].step <= 3 * Len(call[c].lines)
        BY <3>2, <3>4 DEF Started, NRows
      <4> QED
        BY <3>1, <3>3, <4>1
    <3>5. CASE pc[c] # "tx"
      BY <3>1, <3>2, <3>3, <3>5 DEF NotStarted
    <3> QED
      BY <3>4, <3>5
  <2> QED
    BY <2>1 DEF SalesInv, Recorded, RowsTyped, Labels, TypeOK
<1> QED
  BY <1>1, SalesInvariant, SalesTotalsAgree, PTL
-----------------------------------------------------------------------------
(* Conservation. *)

(* An order takes out what its rows say, a refund brings it in.            *)
LEMMA MovedByCommit ==
  ASSUME SalesInv, NEW c \in Calls, NEW v \in Variants, NEW w \in Warehouses
  PROVE  /\ call[c].op = "order" =>
              Moved(MovedLines(c), v, w) = - Moved(call[c].lines, v, w)
         /\ call[c].op # "order" =>
              Moved(MovedLines(c), v, w) = Moved(call[c].lines, v, w)
<1> DEFINE lines == call[c].lines
           n == Len(lines)
           f == [i \in 1..n |-> IF lines[i].variant = v /\ lines[i].warehouse = w
                                  THEN lines[i].quantity ELSE 0]
           h == [i \in 1..n |-> IF /\ MovedLines(c)[i].variant = v
                                   /\ MovedLines(c)[i].warehouse = w
                                  THEN MovedLines(c)[i].quantity ELSE 0]
<1>1. lines \in Seq(Line)
  BY DEF SalesInv, CallRecord
<1>2. n \in Nat /\ \A i \in 1..n : lines[i] \in Line
  BY <1>1
<1>3. MovedLines(c) \in Seq(Line) /\ Len(MovedLines(c)) = n
  BY MovedLinesType
<1>4. \A i \in 1..n : MovedLines(c)[i] \in Line
  BY <1>2, <1>3
<1>5. f \in [1..n -> Int] /\ h \in [1..n -> Int]
  BY <1>2, <1>4 DEF Line
<1>6. /\ Moved(lines, v, w) = SumTo(f, n)
      /\ Moved(MovedLines(c), v, w) = SumTo(h, n)
  BY <1>3 DEF Moved
<1>7. ASSUME NEW i \in 1..n
      PROVE  /\ MovedLines(c)[i].variant = lines[i].variant
             /\ MovedLines(c)[i].warehouse = lines[i].warehouse
             /\ MovedLines(c)[i].quantity
                  = IF call[c].op = "order" THEN - lines[i].quantity ELSE lines[i].quantity
  BY <1>2 DEF MovedLines, Line
<1>8. CASE call[c].op = "order"
  <2>1. \A i \in 1..n : h[i] = - f[i]
    BY <1>7, <1>8
  <2> HIDE DEF f, h, n
  <2>2. SumTo(h, n) = - SumTo(f, n)
    BY <1>2, <1>5, <2>1, SumNegate
  <2> QED
    BY <1>6, <1>8, <2>2
<1>9. CASE call[c].op # "order"
  <2>1. h = f
    BY <1>7, <1>9
  <2> QED
    BY <1>6, <1>9, <2>1
<1> QED
  BY <1>8, <1>9

(* A new row adds what its lines move.                                     *)
LEMMA InRowsPut ==
  ASSUME NEW table, NEW c \in Calls, NEW row, NEW v, NEW w,
         c \notin DOMAIN table, row.lines \in Seq(Line),
         \A d \in DOMAIN table : table[d].lines \in Seq(Line)
  PROVE  /\ InRows(table, v, w) \in Int
         /\ InRows(Put(table, c, row), v, w) = InRows(table, v, w) + Moved(row.lines, v, w)
<1> DEFINE n == NDocs
           f == [d \in 1..n |-> IF d \in DOMAIN table THEN Moved(table[d].lines, v, w) ELSE 0]
           h == [d \in 1..n |-> IF d \in DOMAIN Put(table, c, row)
                                  THEN Moved(Put(table, c, row)[d].lines, v, w) ELSE 0]
<1>1. n \in Nat /\ Calls = 1..n
  BY DocsAssumption DEF Calls, Docs
<1>2. \A lines \in Seq(Line) : Moved(lines, v, w) \in Int
  BY MovedType
<1>3. f \in [1..n -> Int]
  BY <1>2
<1>4. \A d \in 1..n : h[d] = IF d = c THEN Moved(row.lines, v, w) ELSE f[d]
  BY DEF Put
<1>5. h \in [1..n -> Int]
  BY <1>2, <1>3, <1>4
<1>6. f[c] = 0 /\ h[c] = Moved(row.lines, v, w) /\ Moved(row.lines, v, w) \in Int
  BY <1>1, <1>2, <1>4
<1>7. /\ InRows(table, v, w) = SumTo(f, n)
      /\ InRows(Put(table, c, row), v, w) = SumTo(h, n)
  BY <1>1 DEF InRows
<1>8. \A d \in 1..n : d # c => h[d] = f[d]
  BY <1>4
<1>9. c \in 1..n
  BY <1>1
<1> HIDE DEF f, h, n
<1>10. SumTo(h, n) = SumTo(f, n) + (h[c] - f[c])
  BY ONLY <1>1, <1>3, <1>5, <1>8, <1>9, SumChange
<1>11. SumTo(f, n) \in Int
  BY <1>1, <1>3, SumType
<1> QED
  BY ONLY <1>6, <1>7, <1>10, <1>11

(* A commit changes the quantities by what it records.                     *)
LEMMA CommitConserves ==
  ASSUME SalesInv, BookTypeOK, StockConserved, NEW c \in Calls, Commit(c),
         NEW v \in Variants, NEW w \in Warehouses
  PROVE  vtw'[v][w] = Opening[v][w] - InRows(orders', v, w) + InRows(refunds', v, w)
<1>1. vtw'[v][w] = vtw[v][w] + Moved(MovedLines(c), v, w)
  BY DEF Commit, Apply
<1>2. vtw[v][w] = Opening[v][w] - InRows(orders, v, w) + InRows(refunds, v, w)
  BY DEF StockConserved
<1>3. /\ c \notin DOMAIN orders /\ c \notin DOMAIN refunds /\ call[c].lines \in Seq(Line)
      /\ \A o \in DOMAIN orders : orders[o].lines \in Seq(Line)
      /\ \A r \in DOMAIN refunds : refunds[r].lines \in Seq(Line)
  BY CommitEffect DEF SalesInv, RowsTyped
<1>4. Opening[v][w] \in Int
  BY StockAssumption
<1> DEFINE m == Moved(call[c].lines, v, w)
<1>5. m \in Int
  BY <1>3, MovedType
<1> DEFINE sale == [shift |-> call[c].shift, lines |-> call[c].lines]
           return == [order |-> call[c].order, shift |-> call[c].shift,
                      admin |-> call[c].admin, lines |-> call[c].lines]
<1>6. /\ InRows(orders, v, w) \in Int
      /\ InRows(Put(orders, c, sale), v, w) = InRows(orders, v, w) + m
  <2>1. sale.lines = call[c].lines
    OBVIOUS
  <2> HIDE DEF sale
  <2> QED
    BY <1>3, <2>1, InRowsPut
<1>7. /\ InRows(refunds, v, w) \in Int
      /\ InRows(Put(refunds, c, return), v, w) = InRows(refunds, v, w) + m
  <2>1. return.lines = call[c].lines
    OBVIOUS
  <2> HIDE DEF return
  <2> QED
    BY <1>3, <2>1, InRowsPut
<1>8. CASE call[c].op = "order"
  <2>1. orders' = Put(orders, c, sale) /\ refunds' = refunds
    BY <1>8, CommitEffect
  <2>2. Moved(MovedLines(c), v, w) = - m
    BY <1>8, MovedByCommit
  <2>3. /\ vtw'[v][w] = vtw[v][w] - m
        /\ InRows(orders', v, w) = InRows(orders, v, w) + m
        /\ InRows(refunds', v, w) = InRows(refunds, v, w)
    <3>1. vtw[v][w] \in Int
      BY DEF BookTypeOK, LevelsTypeOK
    <3> HIDE DEF m, sale
    <3> QED
      BY <1>1, <1>5, <1>6, <2>1, <2>2, <3>1
  <2> HIDE DEF m
  <2> QED
    BY ONLY <1>2, <1>4, <1>5, <1>6, <1>7, <2>3
<1>9. CASE call[c].op # "order"
  <2>1. orders' = orders /\ refunds' = Put(refunds, c, return)
    BY <1>9, CommitEffect
  <2>2. Moved(MovedLines(c), v, w) = m
    BY <1>9, MovedByCommit
  <2>3. /\ vtw'[v][w] = vtw[v][w] + m
        /\ InRows(orders', v, w) = InRows(orders, v, w)
        /\ InRows(refunds', v, w) = InRows(refunds, v, w) + m
    <3> HIDE DEF m, return
    <3> QED
      BY <1>1, <1>7, <2>1, <2>2
  <2> HIDE DEF m
  <2> QED
    BY ONLY <1>2, <1>4, <1>5, <1>6, <1>7, <2>3
<1> QED
  BY <1>8, <1>9

(* Conservation is inductive.                                              *)
LEMMA NextConserves ==
  SalesInv /\ BookTypeOK /\ StockConserved /\ [Next]_salesVars => StockConserved'
<1> SUFFICES ASSUME SalesInv, BookTypeOK, StockConserved, [Next]_salesVars
             PROVE  StockConserved'
  OBVIOUS
<1>1. ASSUME NEW c \in Calls, Commit(c) PROVE StockConserved'
  BY <1>1, CommitConserves DEF StockConserved
<1>2. ASSUME UNCHANGED <<vtw, orders, refunds>> PROVE StockConserved'
  BY <1>2 DEF StockConserved, InRows
<1>3. ASSUME NEW c \in Calls,
             \/ ReceiveOrder(c) \/ ReceiveRefund(c) \/ Refuse(c) \/ AcceptEmptyOrder(c)
             \/ BeginOrder(c) \/ BeginRefund(c) \/ UpdateRow(c) \/ DeadlockVictim(c)
             \/ Abort(c)
      PROVE  StockConserved'
  <2>1. UNCHANGED tables
    BY <1>3 DEF ReceiveOrder, ReceiveRefund, Receive, Refuse, AcceptEmptyOrder,
       BeginOrder, BeginRefund, Begin, UpdateRow, DeadlockVictim, Abort, tables
  <2> QED
    BY <1>2, <2>1 DEF tables
<1>4. ASSUME NEW s \in Shifts, CloseShift(s) \/ ReopenShift(s) PROVE StockConserved'
  BY <1>2, <1>4 DEF CloseShift, ReopenShift
<1>5. CASE UNCHANGED salesVars
  BY <1>2, <1>5 DEF salesVars
<1> QED
  BY <1>1, <1>3, <1>4, <1>5 DEF Next, Serve

(* Before any document nothing has moved.                                  *)
LEMMA InitConserved == Init => StockConserved
<1> SUFFICES ASSUME Init, NEW v \in Variants, NEW w \in Warehouses
             PROVE  vtw[v][w] = Opening[v][w] - InRows(orders, v, w) + InRows(refunds, v, w)
  BY DEF StockConserved
<1> DEFINE n == NDocs
           z == [c \in 1..n |-> 0]
<1>1. n \in Nat /\ Calls = 1..n
  BY DocsAssumption DEF Calls, Docs
<1>2. z \in [1..n -> Int] /\ \A c \in 1..n : z[c] = 0
  OBVIOUS
<1>3. DOMAIN orders = {} /\ DOMAIN refunds = {} /\ vtw = Opening
  BY DEF Init, BookInit, LevelsInit
<1>4. /\ [c \in Calls |-> IF c \in DOMAIN orders THEN Moved(orders[c].lines, v, w) ELSE 0] = z
      /\ [c \in Calls |-> IF c \in DOMAIN refunds THEN Moved(refunds[c].lines, v, w) ELSE 0] = z
  BY <1>1, <1>3
<1>5. InRows(orders, v, w) = SumTo(z, n) /\ InRows(refunds, v, w) = SumTo(z, n)
  BY <1>4 DEF InRows
<1> HIDE DEF z, n
<1>6. SumTo(z, n) = 0
  BY <1>1, <1>2, SumZero
<1>7. Opening[v][w] \in Int
  BY StockAssumption
<1> QED
  BY <1>3, <1>5, <1>6, <1>7

(* StockConserved: what is in a warehouse is what the recorded orders and  *)
(* refunds account for, whatever was rolled back, and whatever the items   *)
(* without a row in the warehouse.                                         *)
THEOREM SalesConserveStock == Spec => []StockConserved
<1>1. SalesInv /\ BookTypeOK /\ StockConserved /\ [Next]_salesVars => StockConserved'
  BY NextConserves
<1>2. Spec => []BookTypeOK
  BY SalesTotalsAgree, PTL
<1> QED
  BY <1>1, <1>2, InitConserved, SalesInvariant, PTL DEF Spec
-----------------------------------------------------------------------------
(* Closed shifts. *)

(* While s is closed, a call c that arrives later stays out of it.         *)
KeptOut(c, s) ==
  /\ ~ opened[s]
  /\ pc[c] = "tx" =>
       IF call[c].op = "order" THEN call[c].shift # s
                               ELSE call[c].admin \/ call[c].shift # s
  /\ c \in DOMAIN orders => orders[c].shift # s
  /\ c \in DOMAIN refunds => refunds[c].admin \/ refunds[c].shift # s

(* A transaction begins only for a shift that is open, or an administrator's. *)
LEMMA BeginKeepsOut ==
  ASSUME SalesInv, NEW c \in Calls, NEW s \in Shifts, KeptOut(c, s),
         BeginOrder(c) \/ BeginRefund(c)
  PROVE  KeptOut(c, s)'
<1>1. PICK lines : call' = [call EXCEPT ![c].lines = lines, ![c].items = <<>>]
  BY DEF BeginOrder, BeginRefund, Begin
<1>2. /\ call'[c].op = call[c].op /\ call'[c].shift = call[c].shift
      /\ call'[c].admin = call[c].admin
  BY <1>1 DEF SalesInv, CallRecord
<1>3. Admitted(c) /\ UNCHANGED tables
  BY DEF BeginOrder, BeginRefund, Begin
<1>4. IF call[c].op = "order" THEN call[c].shift # s
                              ELSE call[c].admin \/ call[c].shift # s
  BY <1>3 DEF Admitted, OrderAdmitted, RefundAdmitted, KeptOut
<1> QED
  BY <1>2, <1>3, <1>4 DEF KeptOut, tables

(* What is recorded is what the call knew when it began.                   *)
LEMMA CommitKeepsOut ==
  ASSUME SalesInv, NEW c \in Calls, NEW s \in Shifts, KeptOut(c, s), Commit(c)
  PROVE  KeptOut(c, s)'
<1>1. pc[c] = "tx" /\ pc'[c] = "done" /\ opened' = opened
  BY DEF Commit, InTx, End, Goto, SalesInv
<1>2. CASE call[c].op = "order"
  <2>1. /\ orders' = Put(orders, c, [shift |-> call[c].shift, lines |-> call[c].lines])
        /\ refunds' = refunds /\ c \notin DOMAIN refunds
    BY <1>2, CommitEffect
  <2>2. orders'[c].shift = call[c].shift
    BY <2>1 DEF Put
  <2> QED
    BY <1>1, <1>2, <2>1, <2>2 DEF KeptOut
<1>3. CASE call[c].op # "order"
  <2>1. /\ refunds' = Put(refunds, c,
                    [order |-> call[c].order, shift |-> call[c].shift,
                     admin |-> call[c].admin, lines |-> call[c].lines])
        /\ orders' = orders /\ c \notin DOMAIN orders
    BY <1>3, CommitEffect
  <2>2. refunds'[c].shift = call[c].shift /\ refunds'[c].admin = call[c].admin
    BY <2>1 DEF Put
  <2> QED
    BY <1>1, <1>3, <2>1, <2>2 DEF KeptOut
<1> QED
  BY <1>2, <1>3

(* What the other calls do to c: nothing.                                  *)
LEMMA OthersKeepOut ==
  ASSUME SalesInv, NEW c \in Calls, NEW s \in Shifts, KeptOut(c, s),
         NEW d \in Calls, d # c,
         ReceiveOrder(d) \/ ReceiveRefund(d) \/ Serve(d) \/ Abort(d)
  PROVE  KeptOut(c, s)'
<1>1. ASSUME pc'[c] = pc[c], call'[c] = call[c], opened' = opened,
             c \in DOMAIN orders' <=> c \in DOMAIN orders, orders'[c] = orders[c],
             c \in DOMAIN refunds' <=> c \in DOMAIN refunds, refunds'[c] = refunds[c]
      PROVE  KeptOut(c, s)'
  BY <1>1 DEF KeptOut
<1>2. CASE Commit(d)
  <2>1. pc'[c] = pc[c] /\ call'[c] = call[c] /\ opened' = opened
    BY <1>2 DEF Commit, End, Goto, SalesInv
  <2>2. PICK row : \/ orders' = Put(orders, d, row) /\ refunds' = refunds
                   \/ orders' = orders /\ refunds' = Put(refunds, d, row)
    BY <1>2 DEF Commit, CommitOrder, CommitRefund
  <2>3. KeptOut(c, s)
    OBVIOUS
  <2>4. CASE orders' = Put(orders, d, row) /\ refunds' = refunds
    <3>1. /\ c \in DOMAIN orders' <=> c \in DOMAIN orders
          /\ c \in DOMAIN orders => orders'[c] = orders[c]
      BY <2>4 DEF Put
    <3> QED
      BY <2>1, <2>3, <2>4, <3>1 DEF KeptOut
  <2>5. CASE orders' = orders /\ refunds' = Put(refunds, d, row)
    <3>1. /\ c \in DOMAIN refunds' <=> c \in DOMAIN refunds
          /\ c \in DOMAIN refunds => refunds'[c] = refunds[c]
      BY <2>5 DEF Put
    <3> QED
      BY <2>1, <2>3, <2>5, <3>1 DEF KeptOut
  <2> QED
    BY <2>2, <2>4, <2>5
<1>3. CASE \/ ReceiveOrder(d) \/ ReceiveRefund(d) \/ Refuse(d) \/ AcceptEmptyOrder(d)
           \/ BeginOrder(d) \/ BeginRefund(d) \/ UpdateRow(d) \/ DeadlockVictim(d)
           \/ Abort(d)
  <2>1. UNCHANGED tables
    BY <1>3 DEF ReceiveOrder, ReceiveRefund, Receive, Refuse, AcceptEmptyOrder,
       BeginOrder, BeginRefund, Begin, UpdateRow, DeadlockVictim, Abort, tables
  <2>2. pc'[c] = pc[c] /\ call'[c] = call[c]
    BY <1>3 DEF ReceiveOrder, ReceiveRefund, Receive, Refuse, AcceptEmptyOrder,
       BeginOrder, BeginRefund, Begin, UpdateRow, DeadlockVictim, Abort, End, Goto, SalesInv
  <2> QED
    BY <1>1, <2>1, <2>2 DEF tables
<1> QED
  BY <1>2, <1>3 DEF Serve

(* A call that is kept out of a shift stays out while the shift is closed. *)
LEMMA NextKeepsOut ==
  ASSUME NEW c \in Calls, NEW s \in Shifts
  PROVE  SalesInv /\ KeptOut(c, s) /\ [Next]_salesVars /\ (~ opened[s])' => KeptOut(c, s)'
<1> SUFFICES ASSUME SalesInv, KeptOut(c, s), [Next]_salesVars, (~ opened[s])'
             PROVE  KeptOut(c, s)'
  OBVIOUS
<1>1. CASE BeginOrder(c) \/ BeginRefund(c)
  BY <1>1, BeginKeepsOut
<1>2. CASE Commit(c)
  BY <1>2, CommitKeepsOut
<1>3. CASE UpdateRow(c)
  <2>1. /\ UNCHANGED <<tables, pc>>
        /\ call'[c].op = call[c].op /\ call'[c].shift = call[c].shift
        /\ call'[c].admin = call[c].admin
    BY <1>3 DEF UpdateRow, SalesInv, CallRecord
  <2> QED
    BY <2>1 DEF KeptOut, tables
<1>4. CASE \/ ReceiveOrder(c) \/ ReceiveRefund(c) \/ Refuse(c) \/ AcceptEmptyOrder(c)
           \/ DeadlockVictim(c) \/ Abort(c)
  <2>1. UNCHANGED tables /\ pc'[c] # "tx"
    BY <1>4 DEF ReceiveOrder, ReceiveRefund, Receive, Refuse, AcceptEmptyOrder,
       DeadlockVictim, Abort, End, Goto, SalesInv
  <2> QED
    BY <2>1 DEF KeptOut, tables
<1>5. ASSUME NEW d \in Calls, d # c,
             ReceiveOrder(d) \/ ReceiveRefund(d) \/ Serve(d) \/ Abort(d)
      PROVE  KeptOut(c, s)'
  BY <1>5, OthersKeepOut
<1>6. ASSUME NEW t \in Shifts, CloseShift(t) \/ ReopenShift(t) PROVE KeptOut(c, s)'
  BY <1>6 DEF CloseShift, ReopenShift, KeptOut
<1>7. CASE UNCHANGED salesVars
  BY <1>7 DEF salesVars, KeptOut
<1> QED
  BY <1>1, <1>2, <1>3, <1>4, <1>5, <1>6, <1>7 DEF Next, Serve

(* NothingAfterClosing, for every number of shifts and calls: a cashier's  *)
(* call that arrives after a shift was closed is not recorded in it unless *)
(* the shift is opened again.                                              *)
THEOREM SalesNothingAfterClosing == Spec => NothingAfterClosing
<1>1. ASSUME NEW c \in Calls, NEW s \in Shifts
      PROVE  Spec => [](pc[c] = "idle" /\ [](~ opened[s]) =>
                 []( /\ c \in DOMAIN orders => orders[c].shift # s
                     /\ c \in DOMAIN refunds => refunds[c].admin \/ refunds[c].shift # s))
  <2>1. SalesInv /\ pc[c] = "idle" /\ ~ opened[s] => KeptOut(c, s)
    BY DEF SalesInv, Recorded, KeptOut
  <2>2. SalesInv /\ KeptOut(c, s) /\ [Next]_salesVars /\ (~ opened[s])' => KeptOut(c, s)'
    BY NextKeepsOut
  <2>3. KeptOut(c, s) => /\ c \in DOMAIN orders => orders[c].shift # s
                         /\ c \in DOMAIN refunds => refunds[c].admin \/ refunds[c].shift # s
    BY DEF KeptOut
  <2> QED
    BY <2>1, <2>2, <2>3, SalesInvariant, PTL DEF Spec
<1> QED
  BY <1>1 DEF NothingAfterClosing
=============================================================================
