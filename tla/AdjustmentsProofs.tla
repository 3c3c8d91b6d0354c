------------------------- MODULE AdjustmentsProofs -------------------------
(***************************************************************************)
(* The calls on adjustments keep the types, move the stock at its three    *)
(* levels together, and account for all that they move; a document that is *)
(* not disturbed records what its calls moved, and an update leaves the    *)
(* items it was sent.                                                      *)
(***************************************************************************)
EXTENDS Adjustments, StockLevelsProofs, FiniteSetTheorems

TablesTyped ==
  /\ reasons \in [Reasons -> {"unused", "present", "removed"}]
  /\ DOMAIN adjustments \subseteq Calls
  /\ \A d \in DOMAIN adjustments : adjustments[d] \in Adjustment

(* The stages of a handler that works on the lines of a document.          *)
Stages == {"find", "move", "lines", "findNew", "moveNew", "header"}

(* What holds of call c with request r at a place in its handler.          *)
Placed(c, label, r) ==
  /\ label \notin Running => r = Blank
  /\ r.op = "create" => r.doc = c /\ r.items \in Items
  /\ r.op = "removeReason" => r.reason \in Reasons
  /\ label \in Stages => r.op \in {"create", "update", "archive", "restore"}
  /\ label \in Stages /\ r.op # "create" => r.doc \in DOMAIN adjustments
  /\ label = "find" => r.op # "create" /\ (r.op = "update" => r.items \in Items)
  /\ label \in {"move", "lines"} /\ r.op = "update" => r.items \in Items
  /\ label \in {"lines", "findNew", "moveNew"} => r.op = "update"
  /\ label \in {"count", "delete"} => r.op = "removeReason"
  /\ r.header => label \in Stages /\ r.op \in {"create", "update", "restore"}
  /\ r.moves # {} => label \in Stages

CallsPlaced ==
  /\ pc \in [Calls -> {"idle"} \cup Running \cup Ended]
  /\ call \in [Calls -> CallRow]
  /\ \A c \in Calls : Placed(c, pc[c], call[c])

Inv == TablesTyped /\ CallsPlaced

-----------------------------------------------------------------------------
(* Calls. *)

LEMMA BlankIsCall == Blank \in CallRow /\ \A c \in Calls : Placed(c, "idle", Blank)
<1>1. Blank = [op |-> "none", doc |-> None, reason |-> None, items |-> None,
               old |-> {}, moves |-> {}, header |-> FALSE, ok |-> TRUE]
  BY DEF Blank, Request
<1>2. Blank \in CallRow
  BY <1>1 DEF CallRow, Ops
<1>3. ASSUME NEW c \in Calls PROVE Placed(c, "idle", Blank)
  BY <1>1 DEF Placed, Stages
<1> QED
  BY <1>2, <1>3

(* A call may stop anywhere. *)
LEMMA EndedIsPlaced ==
  ASSUME NEW c \in Calls, NEW label \in Ended
  PROVE  Placed(c, label, Blank)
<1>1. Blank = [op |-> "none", doc |-> None, reason |-> None, items |-> None,
               old |-> {}, moves |-> {}, header |-> FALSE, ok |-> TRUE]
  BY DEF Blank, Request
<1> QED
  BY <1>1 DEF Placed, Stages, Ended

(* One call goes on, and no document is lost: the others stay in place.    *)
LEMMA CallStep ==
  ASSUME CallsPlaced, NEW c \in Calls, NEW label \in Running \cup Ended, NEW next \in CallRow,
         pc' = [pc EXCEPT ![c] = label], call' = [call EXCEPT ![c] = next],
         DOMAIN adjustments \subseteq DOMAIN adjustments',
         Placed(c, label, next)'
  PROVE  CallsPlaced'
<1>1. /\ pc' \in [Calls -> {"idle"} \cup Running \cup Ended]
      /\ call' \in [Calls -> CallRow]
  BY DEF CallsPlaced
<1>2. ASSUME NEW b \in Calls PROVE Placed(b, pc[b], call[b])'
  <2>1. CASE b = c
    <3>1. pc'[b] = label /\ call'[b] = next
      BY <2>1 DEF CallsPlaced
    <3> QED
      BY <3>1, <2>1 DEF Placed
  <2>2. CASE b # c
    <3>1. pc'[b] = pc[b] /\ call'[b] = call[b] /\ Placed(b, pc[b], call[b])
      BY <2>2 DEF CallsPlaced
    <3> QED
      BY <3>1 DEF Placed
  <2> QED
    BY <2>1, <2>2
<1> QED
  BY <1>1, <1>2 DEF CallsPlaced
-----------------------------------------------------------------------------
(* Lines. *)

LEMMA ItemsTyped ==
  ASSUME NEW items \in Items, NEW k \in DOMAIN items
  PROVE  k \in Nat /\ items[k].variant \in Variants /\ items[k].warehouse \in Warehouses
         /\ items[k].quantity \in Int
<1>1. PICK m \in 0..MaxItems : items \in [1..m -> Item]
  BY DEF Items, SeqOf
<1>2. k \in 1..m /\ items[k] \in Item
  BY <1>1
<1>3. k \in Nat
  BY <1>2
<1>4. /\ items[k].variant \in Variants /\ items[k].warehouse \in Warehouses
      /\ items[k].quantity \in Quantities
  BY <1>2 DEF Item
<1> QED
  BY <1>3, <1>4, AdjustmentsAssumption

LEMMA LinesTyped ==
  ASSUME NEW c \in Calls, call[c].items \in Items, NEW K \in SUBSET DOMAIN call[c].items
  PROVE  Lines(c, K) \in SUBSET LineRow
<1>1. ASSUME NEW k \in K
      PROVE  [id |-> <<c, k>>, variant |-> call[c].items[k].variant,
              warehouse |-> call[c].items[k].warehouse,
              quantity |-> call[c].items[k].quantity] \in LineRow
  BY ItemsTyped DEF LineRow
<1> QED
  BY <1>1 DEF Lines

LEMMA NegatedTyped ==
  ASSUME NEW lines \in SUBSET LineRow
  PROVE  Negated(lines) \in SUBSET LineRow
<1>1. ASSUME NEW l \in lines PROVE [l EXCEPT !.quantity = -@] \in LineRow
  BY DEF LineRow
<1> QED
  BY <1>1 DEF Negated

LEMMA ChosenTyped ==
  ASSUME NEW lines \in SUBSET LineRow, NEW P \in OnePerRow(lines)
  PROVE  P \in SUBSET LineRow
BY DEF OnePerRow

LEMMA DocumentTyped ==
  ASSUME TablesTyped, NEW d \in DOMAIN adjustments
  PROVE  d \in Calls /\ adjustments[d].lines \in SUBSET LineRow
BY DEF TablesTyped, Adjustment

(* A call with other moves, and with its statement to send or not.         *)
LEMMA SendTyped ==
  ASSUME NEW r \in CallRow, NEW moves \in SUBSET LineRow, NEW h \in BOOLEAN
  PROVE  /\ [r EXCEPT !.moves = moves] \in CallRow
         /\ [r EXCEPT !.header = h] \in CallRow
         /\ [r EXCEPT !.ok = FALSE] \in CallRow
         /\ [r EXCEPT !.moves = moves, !.header = h] \in CallRow
         /\ [r EXCEPT !.old = moves, !.header = h] \in CallRow
BY DEF CallRow
-----------------------------------------------------------------------------
(* Steps. *)

(* What is known of a call, and its fields.                                *)
LEMMA CallFacts ==
  ASSUME CallsPlaced, NEW c \in Calls
  PROVE  /\ pc[c] \in {"idle"} \cup Running \cup Ended
         /\ call[c] \in CallRow
         /\ call[c].op \in Ops /\ call[c].doc \in Calls \cup {None}
         /\ call[c].reason \in Reasons \cup {None} /\ call[c].items \in Items \cup {None}
         /\ call[c].old \in SUBSET LineRow /\ call[c].moves \in SUBSET LineRow
         /\ call[c].header \in BOOLEAN
         /\ Placed(c, pc[c], call[c])
<1>1. call[c] \in CallRow /\ pc[c] \in {"idle"} \cup Running \cup Ended
      /\ Placed(c, pc[c], call[c])
  BY DEF CallsPlaced
<1> QED
  BY <1>1 DEF CallRow

LEMMA InitHolds == Init => Inv
<1> SUFFICES ASSUME Init PROVE Inv
  OBVIOUS
<1>1. TablesTyped
  BY DEF Init, TablesTyped
<1>2. CallsPlaced
  BY BlankIsCall DEF Init, CallsPlaced
<1> QED
  BY <1>1, <1>2 DEF Inv

LEMMA EndStep ==
  ASSUME CallsPlaced, NEW c \in Calls, NEW label \in Ended, End(c, label),
         DOMAIN adjustments \subseteq DOMAIN adjustments'
  PROVE  CallsPlaced'
<1>1. Placed(c, label, Blank)'
  BY EndedIsPlaced DEF Placed, Blank, Request, Stages, Ended
<1> QED
  BY <1>1, CallStep, BlankIsCall DEF End, Goto

LEMMA ReceiveStep ==
  ASSUME Inv, NEW c \in Calls, NEW op \in Ops, NEW d \in Calls \cup {None},
         NEW reason \in Reasons \cup {None}, NEW items \in Items \cup {None},
         op = "create" => d = c /\ items \in Items,
         op = "removeReason" => reason \in Reasons,
         Receive(c, Request(op, d, reason, items))
  PROVE  Inv'
<1> DEFINE r == Request(op, d, reason, items)
<1>1. /\ r \in CallRow /\ r.op = op /\ r.doc = d /\ r.reason = reason /\ r.items = items
      /\ r.header = FALSE /\ r.moves = {}
  BY DEF Request, CallRow
<1>2. /\ pc' = [pc EXCEPT ![c] = "check"] /\ call' = [call EXCEPT ![c] = r]
      /\ UNCHANGED <<reasons, adjustments>>
  BY DEF Receive, Goto, tables
<1> HIDE DEF r
<1>3. Placed(c, "check", r)'
  BY <1>1 DEF Placed, Stages, Running
<1>4. "check" \in Running
  BY DEF Running
<1>5. CallsPlaced'
  BY <1>1, <1>2, <1>3, <1>4, CallStep DEF Inv
<1>6. TablesTyped'
  BY <1>2 DEF Inv, TablesTyped, Adjustment, Present
<1> QED
  BY <1>5, <1>6 DEF Inv

LEMMA ArriveStep ==
  ASSUME Inv, NEW c \in Calls, Arrive(c)
  PROVE  Inv'
<1>1. CASE ReceiveCreate(c)
  <2>1. PICK r \in KnownReasons, items \in Items : Receive(c, Request("create", c, r, items))
    BY <1>1 DEF ReceiveCreate
  <2>2. "create" \in Ops /\ r \in Reasons
    BY DEF Ops, KnownReasons
  <2> QED
    BY <2>1, <2>2, ReceiveStep
<1>2. CASE ReceiveUpdate(c)
  <2>1. PICK d \in KnownIds, r \in KnownReasons \cup {None}, items \in Items \cup {None} :
          Receive(c, Request("update", d, r, items))
    BY <1>2 DEF ReceiveUpdate
  <2>2. "update" \in Ops /\ d \in Calls \cup {None} /\ r \in Reasons \cup {None}
    BY DEF Ops, KnownIds, KnownReasons, Inv, TablesTyped
  <2> QED
    BY <2>1, <2>2, ReceiveStep
<1>3. CASE ReceiveArchive(c)
  <2>1. PICK d \in KnownIds, op \in {"archive", "restore"} :
          Receive(c, Request(op, d, None, None))
    BY <1>3 DEF ReceiveArchive
  <2>2. op \in Ops /\ d \in Calls \cup {None}
    BY DEF Ops, KnownIds, Inv, TablesTyped
  <2> QED
    BY <2>1, <2>2, ReceiveStep
<1>4. CASE ReceiveRemoveReason(c)
  <2>1. PICK r \in KnownReasons : Receive(c, Request("removeReason", None, r, None))
    BY <1>4 DEF ReceiveRemoveReason
  <2>2. "removeReason" \in Ops /\ r \in Reasons
    BY DEF Ops, KnownReasons
  <2> QED
    BY <2>1, <2>2, ReceiveStep
<1> QED
  BY <1>1, <1>2, <1>3, <1>4 DEF Arrive

(* A call goes on and changes no row of reasons or adjustments.            *)
LEMMA QuietStep ==
  ASSUME Inv, NEW c \in Calls, NEW label \in Running \cup Ended, NEW next \in CallRow,
         pc' = [pc EXCEPT ![c] = label], call' = [call EXCEPT ![c] = next],
         UNCHANGED <<reasons, adjustments>>, Placed(c, label, next)
  PROVE  Inv'
<1>1. Placed(c, label, next)'
  BY DEF Placed
<1>2. CallsPlaced'
  BY <1>1, CallStep DEF Inv
<1>3. TablesTyped'
  BY DEF Inv, TablesTyped, Adjustment, Present
<1> QED
  BY <1>2, <1>3 DEF Inv

LEMMA QuietEnd ==
  ASSUME Inv, NEW c \in Calls, NEW label \in Ended, End(c, label),
         UNCHANGED <<reasons, adjustments>>
  PROVE  Inv'
<1>1. Placed(c, label, Blank) /\ Blank \in CallRow
  BY EndedIsPlaced, BlankIsCall
<1> QED
  BY <1>1, QuietStep DEF End, Goto

LEMMA BeginStep ==
  ASSUME Inv, NEW c \in Calls,
         BeginCreate(c) \/ BeginUpdate(c) \/ BeginArchive(c) \/ BeginRemoveReason(c)
  PROVE  Inv'
<1> DEFINE r == call[c]
<1>0. /\ r \in CallRow /\ r.items \in Items \cup {None} /\ r.moves = {} /\ r.header = FALSE
      /\ r.op = "create" => r.doc = c /\ r.items \in Items
      /\ r.op = "removeReason" => r.reason \in Reasons
      /\ pc[c] = "check"
  <2>1. pc[c] = "check" /\ "check" \notin Stages
    BY DEF BeginCreate, BeginUpdate, BeginArchive, BeginRemoveReason, Begin, Stages
  <2> QED
    BY <2>1, CallFacts DEF Inv, Placed
<1>1. CASE BeginCreate(c)
  <2> DEFINE n == [r EXCEPT !.moves = Lines(c, DOMAIN r.items), !.header = TRUE]
  <2>1. /\ r.op = "create" /\ UNCHANGED <<reasons, adjustments>>
        /\ pc' = [pc EXCEPT ![c] = "move"] /\ call' = [call EXCEPT ![c] = n]
    BY <1>1 DEF BeginCreate, Begin, Goto, tables
  <2>2. Lines(c, DOMAIN r.items) \in SUBSET LineRow
    BY <1>0, <2>1, LinesTyped
  <2>3. n \in CallRow
    BY <1>0, <2>2, SendTyped
  <2>4. /\ n.op = r.op /\ n.doc = r.doc /\ n.items = r.items
    BY <1>0 DEF CallRow
  <2> HIDE DEF n
  <2>5. Placed(c, "move", n) /\ "move" \in Running
    BY <1>0, <2>1, <2>4 DEF Placed, Stages, Running
  <2> QED
    BY <2>1, <2>3, <2>5, QuietStep
<1>2. CASE BeginUpdate(c)
  <2> DEFINE label == IF r.items = None THEN "header" ELSE "find"
  <2>1. PICK old \in OnePerRow(adjustments[r.doc].lines) :
          Begin(c, label, [r EXCEPT !.old = old, !.header = TRUE])
    BY <1>2 DEF BeginUpdate
  <2> DEFINE n == [r EXCEPT !.old = old, !.header = TRUE]
  <2>2. /\ r.op = "update" /\ r.doc \in DOMAIN adjustments /\ UNCHANGED <<reasons, adjustments>>
        /\ pc' = [pc EXCEPT ![c] = label] /\ call' = [call EXCEPT ![c] = n]
    BY <1>2, <2>1 DEF BeginUpdate, Begin, Admitted, Goto, tables
  <2>3. old \in SUBSET LineRow
    BY <2>2, ChosenTyped, DocumentTyped DEF Inv
  <2>4. n \in CallRow
    BY <1>0, <2>3, SendTyped
  <2>5. /\ n.op = r.op /\ n.doc = r.doc /\ n.items = r.items /\ n.moves = r.moves
    BY <1>0 DEF CallRow
  <2> HIDE DEF n
  <2>6. Placed(c, label, n) /\ label \in Running
    BY <1>0, <2>2, <2>5 DEF Placed, Stages, Running
  <2> HIDE DEF label
  <2> QED
    BY <2>2, <2>4, <2>6, QuietStep
<1>3. CASE BeginArchive(c)
  <2>1. /\ r.op \in {"archive", "restore"} /\ UNCHANGED <<reasons, adjustments>>
        /\ r.doc \in DOMAIN adjustments
        /\ pc' = [pc EXCEPT ![c] = "find"] /\ call' = [call EXCEPT ![c] = r]
    BY <1>3 DEF BeginArchive, Begin, Admitted, Goto, tables
  <2>2. Placed(c, "find", r) /\ "find" \in Running
    BY <1>0, <2>1 DEF Placed, Stages, Running
  <2> QED
    BY <1>0, <2>1, <2>2, QuietStep
<1>4. CASE BeginRemoveReason(c)
  <2>1. /\ r.op = "removeReason" /\ UNCHANGED <<reasons, adjustments>>
        /\ pc' = [pc EXCEPT ![c] = "count"] /\ call' = [call EXCEPT ![c] = r]
    BY <1>4 DEF BeginRemoveReason, Begin, Goto, tables
  <2>2. Placed(c, "count", r) /\ "count" \in Running
    BY <1>0, <2>1 DEF Placed, Stages, Running
  <2> QED
    BY <1>0, <2>1, <2>2, QuietStep
<1> QED
  BY <1>1, <1>2, <1>3, <1>4

LEMMA FindStep ==
  ASSUME Inv, NEW c \in Calls, FindLines(c) \/ FindNewLines(c)
  PROVE  Inv'
<1> DEFINE r == call[c]
<1>0. r \in CallRow /\ Placed(c, pc[c], r) /\ r.header \in BOOLEAN
  BY CallFacts DEF Inv
<1>1. CASE FindLines(c)
  <2>1. pc[c] = "find"
    BY <1>1 DEF FindLines
  <2>2. /\ r.op # "create" /\ r.op \in {"create", "update", "archive", "restore"}
        /\ r.doc \in DOMAIN adjustments /\ (r.op = "update" => r.items \in Items)
        /\ r.header => r.op \in {"create", "update", "restore"}
    BY <1>0, <2>1 DEF Placed, Stages
  <2>3. PICK lines \in OnePerRow(adjustments[r.doc].lines) :
          call' = [call EXCEPT
            ![c].moves = IF r.op = "restore" THEN lines ELSE Negated(lines),
            ![c].header = @ \/ r.op = "restore"]
    BY <1>1 DEF FindLines
  <2> DEFINE moves == IF r.op = "restore" THEN lines ELSE Negated(lines)
             h == r.header \/ r.op = "restore"
             n == [r EXCEPT !.moves = moves, !.header = h]
  <2>4. moves \in SUBSET LineRow /\ h \in BOOLEAN
    BY <1>0, <2>2, ChosenTyped, NegatedTyped, DocumentTyped DEF Inv
  <2>5. /\ pc' = [pc EXCEPT ![c] = "move"] /\ call' = [call EXCEPT ![c] = n]
        /\ UNCHANGED <<reasons, adjustments>>
    BY <1>0, <1>1, <2>3 DEF FindLines, Goto, tables, Inv, CallsPlaced, CallRow
  <2>6. n.op = r.op /\ n.doc = r.doc /\ n.items = r.items /\ n.header = h
    BY <1>0 DEF CallRow
  <2>7. n \in CallRow
    BY <1>0, <2>4, SendTyped
  <2> HIDE DEF n
  <2>8. Placed(c, "move", n) /\ "move" \in Running
    BY <2>2, <2>6 DEF Placed, Stages, Running
  <2> QED
    BY <2>5, <2>7, <2>8, QuietStep
<1>2. CASE FindNewLines(c)
  <2>1. pc[c] = "findNew"
    BY <1>2 DEF FindNewLines
  <2>2. r.op = "update" /\ r.doc \in DOMAIN adjustments
    BY <1>0, <2>1 DEF Placed, Stages
  <2>3. PICK lines \in OnePerRow(adjustments[r.doc].lines) :
          call' = [call EXCEPT ![c].moves = lines]
    BY <1>2 DEF FindNewLines
  <2> DEFINE n == [r EXCEPT !.moves = lines]
  <2>4. lines \in SUBSET LineRow
    BY <2>2, ChosenTyped, DocumentTyped DEF Inv
  <2>5. /\ pc' = [pc EXCEPT ![c] = "moveNew"] /\ call' = [call EXCEPT ![c] = n]
        /\ UNCHANGED <<reasons, adjustments>>
    BY <1>2, <2>3 DEF FindNewLines, Goto, tables
  <2>6. n.op = r.op /\ n.doc = r.doc /\ n.items = r.items /\ n.header = r.header
    BY <1>0 DEF CallRow
  <2>7. n \in CallRow
    BY <1>0, <2>4, SendTyped
  <2> HIDE DEF n
  <2>8. Placed(c, "moveNew", n) /\ "moveNew" \in Running
    BY <2>2, <2>6 DEF Placed, Stages, Running
  <2> QED
    BY <2>5, <2>7, <2>8, QuietStep
<1> QED
  BY <1>1, <1>2

(* A running call has less to send, and stays where it is.                 *)
LEMMA StayStep ==
  ASSUME Inv, NEW c \in Calls, NEW next \in CallRow,
         call' = [call EXCEPT ![c] = next], UNCHANGED <<pc, reasons, adjustments>>,
         pc[c] \in Running,
         next.op = call[c].op, next.doc = call[c].doc, next.items = call[c].items,
         next.reason = call[c].reason, next.moves # {} => call[c].moves # {},
         next.header => call[c].header
  PROVE  Inv'
<1>1. pc' = [pc EXCEPT ![c] = pc[c]]
  BY DEF Inv, CallsPlaced
<1>2. Placed(c, pc[c], call[c])
  BY CallFacts DEF Inv
<1>3. Placed(c, pc[c], next)
  BY <1>2 DEF Placed
<1> QED
  BY <1>1, <1>3, QuietStep

LEMMA StagesRun == Stages \subseteq Running
BY DEF Stages, Running

LEMMA MoveStep ==
  ASSUME Inv, NEW c \in Calls, UpdateQuantity(c)
  PROVE  Inv'
<1> DEFINE r == call[c]
<1>1. PICK m \in r.moves : Move(c, m)
  BY DEF UpdateQuantity
<1> DEFINE n == [r EXCEPT !.moves = @ \ {m}]
<1>2. r \in CallRow /\ Placed(c, pc[c], r) /\ r.moves \in SUBSET LineRow
  BY CallFacts DEF Inv
<1>3. pc[c] \in Running
  BY <1>2, StagesRun DEF Placed
<1>4. call' = [call EXCEPT ![c] = n] /\ UNCHANGED <<pc, reasons, adjustments>>
  BY <1>1 DEF Move
<1>5. /\ n.op = r.op /\ n.doc = r.doc /\ n.items = r.items /\ n.reason = r.reason
      /\ n.header = r.header /\ n \in CallRow
  BY <1>2 DEF CallRow
<1> HIDE DEF n
<1> QED
  BY <1>1, <1>3, <1>4, <1>5, StayStep

LEMMA FailStep ==
  ASSUME Inv, NEW c \in Calls, NEW next \in CallRow, Fail(c, next), pc[c] \in Running,
         next.op = call[c].op, next.doc = call[c].doc, next.items = call[c].items,
         next.reason = call[c].reason, next.moves # {} => call[c].moves # {},
         next.header => call[c].header
  PROVE  Inv'
<1> DEFINE n == [next EXCEPT !.ok = FALSE]
<1>1. call' = [call EXCEPT ![c] = n] /\ UNCHANGED <<pc, reasons, adjustments>>
  BY DEF Fail, tables
<1>2. /\ n.op = next.op /\ n.doc = next.doc /\ n.items = next.items /\ n.reason = next.reason
      /\ n.header = next.header /\ n.moves = next.moves /\ n \in CallRow
  BY DEF CallRow
<1> HIDE DEF n
<1> QED
  BY <1>1, <1>2, StayStep

LEMMA LoseStep ==
  ASSUME Inv, NEW c \in Calls, Lose(c)
  PROVE  Inv'
<1> DEFINE r == call[c]
<1>1. /\ r \in CallRow /\ Placed(c, pc[c], r) /\ r.moves \in SUBSET LineRow
      /\ r.header \in BOOLEAN
  BY CallFacts DEF Inv
<1>2. CASE LoseMove(c)
  <2>1. PICK m \in r.moves : Fail(c, [r EXCEPT !.moves = @ \ {m}])
    BY <1>2 DEF LoseMove
  <2> DEFINE n == [r EXCEPT !.moves = @ \ {m}]
  <2>2. pc[c] \in Running
    BY <1>1, StagesRun DEF Placed
  <2>3. /\ n.op = r.op /\ n.doc = r.doc /\ n.items = r.items /\ n.reason = r.reason
        /\ n.header = r.header /\ n \in CallRow /\ Fail(c, n)
    BY <1>1, <2>1 DEF CallRow
  <2> HIDE DEF n
  <2> QED
    BY <2>1, <2>2, <2>3, FailStep
<1>3. CASE LoseHeader(c)
  <2> DEFINE n == [r EXCEPT !.header = FALSE]
  <2>1. r.header /\ Fail(c, n)
    BY <1>3 DEF LoseHeader
  <2>2. pc[c] \in Running
    BY <1>1, <2>1, StagesRun DEF Placed
  <2>3. /\ n.op = r.op /\ n.doc = r.doc /\ n.items = r.items /\ n.reason = r.reason
        /\ n.header = FALSE /\ n.moves = r.moves /\ n \in CallRow
    BY <1>1 DEF CallRow
  <2> HIDE DEF n
  <2> QED
    BY <2>1, <2>2, <2>3, FailStep
<1>4. CASE LoseLines(c) \/ LoseArchive(c)
  <2>1. pc[c] \in Running /\ Fail(c, r)
    BY <1>4 DEF LoseLines, LoseArchive, AllMoved, Running
  <2> QED
    BY <1>1, <2>1, FailStep
<1> QED
  BY <1>2, <1>3, <1>4 DEF Lose

LEMMA WriteHeaderStep ==
  ASSUME Inv, NEW c \in Calls, WriteHeader(c)
  PROVE  Inv'
<1> DEFINE r == call[c]
           n == [r EXCEPT !.header = FALSE]
<1>1. /\ r \in CallRow /\ Placed(c, pc[c], r) /\ r.reason \in Reasons \cup {None}
  BY CallFacts DEF Inv
<1>2. /\ r.header /\ UNCHANGED <<pc, reasons>> /\ (r.reason = None \/ Present(r.reason))
      /\ call' = [call EXCEPT ![c] = n]
  BY DEF WriteHeader
<1>3. /\ pc[c] \in Running /\ pc[c] \in Stages
      /\ r.op \in {"create", "update", "restore"}
      /\ r.op = "create" => r.items \in Items
      /\ r.op # "create" => r.doc \in DOMAIN adjustments
  BY <1>1, <1>2, StagesRun DEF Placed
<1>4. r.reason \in {q \in Reasons : Present(q)} \cup {None}
  BY <1>1, <1>2
<1>5. TablesTyped' /\ DOMAIN adjustments \subseteq DOMAIN adjustments'
  <2>1. \A q : Present(q)' <=> Present(q)
    BY <1>2 DEF Present
  <2>2. CASE r.op = "create"
    <3> DEFINE row == [reason |-> r.reason, isArchived |-> FALSE,
                       lines |-> Lines(c, DOMAIN r.items)]
    <3>1. adjustments' = [i \in DOMAIN adjustments \cup {c} |->
                            IF i = c THEN row ELSE adjustments[i]]
      BY <2>2 DEF WriteHeader, Put
    <3>2. Lines(c, DOMAIN r.items) \in SUBSET LineRow
      BY <1>3, <2>2, LinesTyped
    <3>3. row \in Adjustment
      BY <1>4, <3>2 DEF Adjustment
    <3> HIDE DEF row
    <3>4. Adjustment' = Adjustment
      BY <2>1 DEF Adjustment
    <3> QED
      BY <1>2, <3>1, <3>3, <3>4 DEF Inv, TablesTyped
  <2>3. CASE r.op = "update"
    <3> DEFINE a == adjustments[r.doc]
               row == [a EXCEPT !.reason = IF r.reason = None THEN @ ELSE r.reason]
    <3>1. adjustments' = [adjustments EXCEPT ![r.doc] = row]
      BY <2>3 DEF WriteHeader
    <3>2. a \in Adjustment
      BY <1>3, <2>3 DEF Inv, TablesTyped
    <3>3. row \in Adjustment
      BY <1>4, <3>2 DEF Adjustment
    <3> HIDE DEF row
    <3>4. Adjustment' = Adjustment
      BY <2>1 DEF Adjustment
    <3> QED
      BY <1>2, <3>1, <3>3, <3>4 DEF Inv, TablesTyped
  <2>4. CASE r.op = "restore"
    <3> DEFINE a == adjustments[r.doc]
               row == [a EXCEPT !.isArchived = FALSE]
    <3>1. adjustments' = [adjustments EXCEPT ![r.doc] = row]
      BY <2>4 DEF WriteHeader
    <3>2. a \in Adjustment
      BY <1>3, <2>4 DEF Inv, TablesTyped
    <3>3. row \in Adjustment
      BY <3>2 DEF Adjustment
    <3> HIDE DEF row
    <3>4. Adjustment' = Adjustment
      BY <2>1 DEF Adjustment
    <3> QED
      BY <1>2, <3>1, <3>3, <3>4 DEF Inv, TablesTyped
  <2> QED
    BY <1>3, <2>2, <2>3, <2>4
<1>6. /\ n.op = r.op /\ n.doc = r.doc /\ n.items = r.items /\ n.reason = r.reason
      /\ n.header = FALSE /\ n.moves = r.moves /\ n \in CallRow
  BY <1>1 DEF CallRow
<1> HIDE DEF n
<1>7. pc' = [pc EXCEPT ![c] = pc[c]]
  BY <1>2 DEF Inv, CallsPlaced
<1>8. Placed(c, pc[c], n)
  BY <1>1, <1>3, <1>6 DEF Placed
<1>9. PICK label : label = pc[c]
  OBVIOUS
<1>10. PICK next : next = n
  OBVIOUS
<1>11. Placed(c, label, next)'
  BY <1>5, <1>8, <1>9, <1>10 DEF Placed
<1>12. label \in Running \cup Ended /\ next \in CallRow
  BY <1>3, <1>6, <1>9, <1>10
<1>13. pc' = [pc EXCEPT ![c] = label] /\ call' = [call EXCEPT ![c] = next]
  BY <1>2, <1>7, <1>9, <1>10
<1>14. CallsPlaced'
  BY <1>5, <1>11, <1>12, <1>13, CallStep DEF Inv
<1> QED
  BY <1>5, <1>14 DEF Inv

(* A call keeps what it knows and goes to another place.                   *)
LEMMA PassStep ==
  ASSUME CallsPlaced, NEW c \in Calls, NEW label \in Running,
         pc' = [pc EXCEPT ![c] = label], UNCHANGED call,
         DOMAIN adjustments \subseteq DOMAIN adjustments', Placed(c, label, call[c])
  PROVE  CallsPlaced'
<1>1. PICK next : next = call[c]
  OBVIOUS
<1>2. next \in CallRow /\ call' = [call EXCEPT ![c] = next]
  BY <1>1 DEF CallsPlaced
<1>3. Placed(c, label, next)'
  BY <1>1 DEF Placed
<1> QED
  BY <1>2, <1>3, CallStep

LEMMA WriteLinesStep ==
  ASSUME Inv, NEW c \in Calls, WriteLines(c)
  PROVE  Inv'
<1> DEFINE items == call[c].items
           old == call[c].old
           d == call[c].doc
           Changes(l) == {k \in Updated(old, items) : Row(items[k]) = Row(l)}
           Written(l) == IF Changes(l) = {} THEN l
                         ELSE [l EXCEPT !.quantity = items[CHOOSE k \in Changes(l) : TRUE].quantity]
           lines == {Written(l) : l \in adjustments[d].lines \cup Lines(c, NewItems(old, items))}
           row == [adjustments[d] EXCEPT !.lines = lines]
<1>1. /\ pc[c] = "lines" /\ UNCHANGED <<reasons, call>>
      /\ pc' = [pc EXCEPT ![c] = "findNew"]
      /\ adjustments' = [adjustments EXCEPT ![d].lines =
           {Written(l) : l \in @ \cup Lines(c, NewItems(old, items))}]
  BY DEF WriteLines, Goto
<1>2. adjustments' = [adjustments EXCEPT ![d] = row]
  BY <1>1
<1>3. /\ call[c].op = "update" /\ d \in DOMAIN adjustments /\ items \in Items
      /\ Placed(c, "lines", call[c])
  BY <1>1, CallFacts DEF Inv, Placed, Stages
<1>4. Lines(c, NewItems(old, items)) \in SUBSET LineRow
  BY <1>3, LinesTyped DEF NewItems
<1>5. ASSUME NEW l \in LineRow PROVE Written(l) \in LineRow
  <2>1. CASE Changes(l) = {}
    BY <2>1, <1>5
  <2>2. CASE Changes(l) # {}
    <3> DEFINE k == CHOOSE k \in Changes(l) : TRUE
    <3>1. k \in DOMAIN items
      <4>1. k \in Changes(l)
        BY <2>2
      <4> QED
        BY <4>1 DEF Updated
    <3> HIDE DEF k
    <3>2. items[k].quantity \in Int
      BY <1>3, <3>1, ItemsTyped
    <3>3. [l EXCEPT !.quantity = items[k].quantity] \in LineRow
      BY <3>2 DEF LineRow
    <3>4. Written(l) = [l EXCEPT !.quantity = items[k].quantity]
      BY <2>2 DEF k
    <3> QED
      BY <3>3, <3>4
  <2> QED
    BY <2>1, <2>2
<1>6. adjustments[d] \in Adjustment /\ adjustments[d].lines \in SUBSET LineRow
  BY <1>3, DocumentTyped DEF Inv, TablesTyped
<1>7. lines \in SUBSET LineRow
  <2> HIDE DEF Written
  <2> QED
    BY <1>4, <1>5, <1>6
<1> HIDE DEF lines
<1>8. row \in Adjustment
  BY <1>6, <1>7 DEF Adjustment
<1>9. Adjustment' = Adjustment
  BY <1>1 DEF Adjustment, Present
<1> HIDE DEF row
<1>10. TablesTyped' /\ DOMAIN adjustments \subseteq DOMAIN adjustments'
  BY <1>1, <1>2, <1>8, <1>9 DEF Inv, TablesTyped
<1>11. Placed(c, "findNew", call[c]) /\ "findNew" \in Running
  BY <1>3 DEF Placed, Stages, Running
<1>12. CallsPlaced'
  BY <1>1, <1>10, <1>11, PassStep DEF Inv
<1> QED
  BY <1>10, <1>12 DEF Inv

LEMMA CommitArchiveStep ==
  ASSUME Inv, NEW c \in Calls, CommitArchive(c)
  PROVE  Inv'
<1> DEFINE d == call[c].doc
           row == [adjustments[d] EXCEPT !.isArchived = TRUE]
<1>1. /\ pc[c] = "move" /\ call[c].op = "archive" /\ UNCHANGED reasons
      /\ adjustments' = [adjustments EXCEPT ![d] = row] /\ End(c, "done")
  BY DEF CommitArchive, AllMoved
<1>2. d \in DOMAIN adjustments
  BY <1>1, CallFacts DEF Inv, Placed, Stages
<1>3. row \in Adjustment
  <2>1. adjustments[d] \in Adjustment
    BY <1>2 DEF Inv, TablesTyped
  <2> QED
    BY <2>1 DEF Adjustment
<1>4. Adjustment' = Adjustment
  BY <1>1 DEF Adjustment, Present
<1> HIDE DEF row
<1>5. TablesTyped' /\ DOMAIN adjustments \subseteq DOMAIN adjustments'
  BY <1>1, <1>3, <1>4 DEF Inv, TablesTyped
<1>6. CallsPlaced'
  BY <1>1, <1>5, EndStep DEF Inv, Ended
<1> QED
  BY <1>5, <1>6 DEF Inv

LEMMA DeleteReasonStep ==
  ASSUME Inv, NEW c \in Calls, DeleteReason(c)
  PROVE  Inv'
<1> DEFINE q == call[c].reason
           Cleared(d) == [adjustments[d] EXCEPT !.reason = IF @ = q THEN None ELSE @]
<1>1. /\ pc[c] = "delete" /\ (End(c, "done") \/ End(c, "failed"))
      /\ reasons' = [reasons EXCEPT ![q] = "removed"]
      /\ adjustments' = [d \in DOMAIN adjustments |-> Cleared(d)]
  BY DEF DeleteReason
<1>2. DOMAIN adjustments' = DOMAIN adjustments
  BY <1>1
<1>3. ASSUME NEW d \in DOMAIN adjustments PROVE adjustments'[d] \in Adjustment'
  <2>1. adjustments'[d] = Cleared(d)
    BY <1>1
  <2>2. adjustments[d] \in Adjustment
    BY DEF Inv, TablesTyped
  <2>3. \A r \in Reasons : Present(r) /\ r # q => Present(r)'
    BY <1>1 DEF Present, Inv, TablesTyped
  <2>4. /\ Cleared(d).reason \in {r \in Reasons : Present(r)'} \cup {None}
        /\ Cleared(d).reason \in Reasons \cup {None}
    BY <2>2, <2>3 DEF Adjustment
  <2>5. Cleared(d) = [reason |-> Cleared(d).reason, isArchived |-> adjustments[d].isArchived,
                      lines |-> adjustments[d].lines]
    BY <2>2 DEF Adjustment
  <2>6. adjustments[d].isArchived \in BOOLEAN /\ adjustments[d].lines \in SUBSET LineRow
    BY <2>2 DEF Adjustment
  <2> HIDE DEF Cleared
  <2> QED
    BY <2>1, <2>4, <2>5, <2>6 DEF Adjustment
<1>4. TablesTyped'
  BY <1>1, <1>2, <1>3 DEF Inv, TablesTyped
<1>5. CallsPlaced'
  BY <1>1, <1>2, EndStep DEF Inv, Ended
<1> QED
  BY <1>4, <1>5 DEF Inv

LEMMA CountStep ==
  ASSUME Inv, NEW c \in Calls, CountAdjustments(c)
  PROVE  Inv'
<1>1. pc[c] = "count" /\ UNCHANGED <<reasons, adjustments>>
  BY DEF CountAdjustments, tables
<1>2. CASE End(c, "failed")
  BY <1>1, <1>2, QuietEnd DEF Ended
<1>3. CASE Goto(c, "delete") /\ UNCHANGED call
  <2>1. Placed(c, "delete", call[c]) /\ "delete" \in Running
    BY <1>1, CallFacts DEF Inv, Placed, Stages, Running
  <2>2. CallsPlaced'
    BY <1>1, <1>3, <2>1, PassStep DEF Inv, Goto
  <2>3. TablesTyped'
    BY <1>1 DEF Inv, TablesTyped, Adjustment, Present
  <2> QED
    BY <2>2, <2>3 DEF Inv
<1> QED
  BY <1>2, <1>3 DEF CountAdjustments

LEMMA ContinueStep ==
  ASSUME Inv, NEW c \in Calls, ContinueUpdate(c)
  PROVE  Inv'
<1>1. /\ pc[c] = "move" /\ call[c].op = "update" /\ UNCHANGED <<call, reasons, adjustments>>
      /\ pc' = [pc EXCEPT ![c] = "lines"]
  BY DEF ContinueUpdate, AllMoved, Goto, tables
<1>2. Placed(c, "lines", call[c]) /\ "lines" \in Running
  BY <1>1, CallFacts DEF Inv, Placed, Stages, Running
<1>3. CallsPlaced'
  BY <1>1, <1>2, PassStep DEF Inv
<1>4. TablesTyped'
  BY <1>1 DEF Inv, TablesTyped, Adjustment, Present
<1> QED
  BY <1>3, <1>4 DEF Inv

LEMMA CreateReasonStep ==
  ASSUME Inv, NEW r \in Reasons, CreateReason(r)
  PROVE  Inv'
<1>1. reasons' = [reasons EXCEPT ![r] = "present"] /\ UNCHANGED <<adjustments, pc, call>>
  BY DEF CreateReason
<1>2. {q \in Reasons : Present(q)} \subseteq {q \in Reasons : Present(q)'}
  BY <1>1 DEF Inv, TablesTyped, Present
<1>3. Adjustment \subseteq Adjustment'
  BY <1>2 DEF Adjustment
<1>4. TablesTyped'
  BY <1>1, <1>3 DEF Inv, TablesTyped
<1>5. CallsPlaced'
  BY <1>1 DEF Inv, CallsPlaced, Placed
<1> QED
  BY <1>4, <1>5 DEF Inv

LEMMA RestartStep ==
  ASSUME Inv, Restart
  PROVE  Inv'
<1> DEFINE cut == {c \in Calls : pc[c] \in Running}
<1>1. /\ pc' = [c \in Calls |-> IF c \in cut THEN "aborted" ELSE pc[c]]
      /\ call' = [c \in Calls |-> IF c \in cut THEN Blank ELSE call[c]]
      /\ UNCHANGED <<reasons, adjustments>>
  BY DEF Restart, tables
<1>2. ASSUME NEW c \in Calls
      PROVE  /\ pc'[c] \in {"idle"} \cup Running \cup Ended /\ call'[c] \in CallRow
             /\ Placed(c, pc[c], call[c])'
  <2>1. CASE c \in cut
    <3>1. pc'[c] = "aborted" /\ call'[c] = Blank
      BY <1>1, <2>1
    <3>2. "aborted" \in Ended /\ Placed(c, "aborted", Blank) /\ Blank \in CallRow
      BY EndedIsPlaced, BlankIsCall DEF Ended
    <3> QED
      BY <1>1, <3>1, <3>2 DEF Placed
  <2>2. CASE c \notin cut
    <3>1. pc'[c] = pc[c] /\ call'[c] = call[c]
      BY <1>1, <2>2
    <3> QED
      BY <1>1, <3>1, CallFacts DEF Inv, Placed
  <2> QED
    BY <2>1, <2>2
<1>3. CallsPlaced'
  BY <1>1, <1>2 DEF CallsPlaced
<1>4. TablesTyped'
  BY <1>1 DEF Inv, TablesTyped, Adjustment, Present
<1> QED
  BY <1>3, <1>4 DEF Inv

LEMMA NextKeepsInv == Inv /\ [Next]_vars => Inv'
<1> SUFFICES ASSUME Inv, [Next]_vars PROVE Inv'
  OBVIOUS
<1>1. ASSUME NEW c \in Calls, Arrive(c) \/ Serve(c) \/ Lose(c) PROVE Inv'
  <2>1. CASE Arrive(c)
    BY <2>1, ArriveStep
  <2>2. CASE Lose(c)
    BY <2>2, LoseStep
  <2>3. CASE Refuse(c)
    BY <2>3, QuietEnd DEF Refuse, tables, Ended
  <2>4. CASE Return(c)
    BY <2>4, QuietEnd DEF Return, tables, Ended
  <2>5. CASE RejectFailed(c)
    BY <2>5, QuietEnd DEF RejectFailed, tables, Ended
  <2> QED
    BY <1>1, <2>1, <2>2, <2>3, <2>4, <2>5, BeginStep, FindStep, MoveStep, WriteHeaderStep,
       ContinueStep, WriteLinesStep, CommitArchiveStep, CountStep, DeleteReasonStep DEF Serve
<1>2. ASSUME NEW r \in Reasons, CreateReason(r) PROVE Inv'
  BY <1>2, CreateReasonStep
<1>3. CASE Restart
  BY <1>3, RestartStep
<1>4. CASE UNCHANGED vars
  BY <1>4 DEF vars, Inv, TablesTyped, Adjustment, Present, CallsPlaced, Placed
<1> QED
  BY <1>1, <1>2, <1>3, <1>4 DEF Next

LEMMA InvHolds == Spec => []Inv
BY InitHolds, NextKeepsInv, PTL DEF Spec
-----------------------------------------------------------------------------
(* The stock. *)

(* A step leaves the stock alone, or sends one update of a quantity.       *)
LEMMA MoveOrStay ==
  ASSUME Inv, [Next]_vars
  PROVE  \/ UNCHANGED <<stock, moved>>
         \/ \E c \in Calls : \E m \in call[c].moves : Move(c, m)
<1>1. ASSUME NEW c \in Calls, Arrive(c) PROVE UNCHANGED <<stock, moved>>
  BY <1>1 DEF Arrive, ReceiveCreate, ReceiveUpdate, ReceiveArchive, ReceiveRemoveReason,
     Receive, tables, stock
<1>2. ASSUME NEW c \in Calls, Lose(c) PROVE UNCHANGED <<stock, moved>>
  BY <1>2 DEF Lose, LoseMove, LoseHeader, LoseLines, LoseArchive, Fail, tables, stock
<1>3. ASSUME NEW c \in Calls,
             BeginCreate(c) \/ BeginUpdate(c) \/ BeginArchive(c) \/ BeginRemoveReason(c)
      PROVE  UNCHANGED <<stock, moved>>
  BY <1>3 DEF BeginCreate, BeginUpdate, BeginArchive, BeginRemoveReason, Begin, tables, stock
<1>4. ASSUME NEW c \in Calls, Serve(c), ~ UpdateQuantity(c) PROVE UNCHANGED <<stock, moved>>
  BY <1>3, <1>4 DEF Serve, Refuse, FindLines, WriteHeader, ContinueUpdate, WriteLines,
     FindNewLines, CommitArchive, Return, RejectFailed, CountAdjustments, DeleteReason,
     tables, stock
<1>5. ASSUME NEW c \in Calls, UpdateQuantity(c)
      PROVE  \E b \in Calls : \E m \in call[b].moves : Move(b, m)
  BY <1>5 DEF UpdateQuantity
<1>6. ASSUME NEW r \in Reasons, CreateReason(r) PROVE UNCHANGED <<stock, moved>>
  BY <1>6 DEF CreateReason, stock
<1>7. CASE Restart
  BY <1>7 DEF Restart, tables, stock
<1>8. CASE UNCHANGED vars
  BY <1>8 DEF vars, stock
<1> QED
  BY <1>1, <1>2, <1>4, <1>5, <1>6, <1>7, <1>8 DEF Next

(* An update of a quantity is a line applied at the three levels.          *)
LEMMA MoveApplies ==
  ASSUME Inv, NEW c \in Calls, NEW m \in call[c].moves, Move(c, m)
  PROVE  /\ m.variant \in Variants /\ m.warehouse \in Warehouses /\ m.quantity \in Int
         /\ \E lines \in Seq(Line) :
              /\ Apply(lines)
              /\ lines = <<[variant |-> m.variant, warehouse |-> m.warehouse,
                            quantity |-> m.quantity]>>
<1>1. m \in LineRow
  BY CallFacts DEF Inv
<1>2. /\ m.variant \in Variants /\ m.warehouse \in Warehouses /\ m.quantity \in Int
  BY <1>1 DEF LineRow
<1>3. [variant |-> m.variant, warehouse |-> m.warehouse, quantity |-> m.quantity] \in Line
  BY <1>2 DEF Line
<1>4. PICK lines : lines = <<[variant |-> m.variant, warehouse |-> m.warehouse,
                              quantity |-> m.quantity]>>
  OBVIOUS
<1>5. lines \in Seq(Line)
  BY <1>3, <1>4
<1>6. Apply(lines)
  BY <1>4 DEF Move
<1> QED
  BY <1>2, <1>4, <1>5, <1>6

(* TotalsAgree: the adjustments implement StockLevels, each update of a    *)
(* quantity as one step, so the three levels agree although a document's   *)
(* quantities are updated apart, may fail, and are cut short.              *)
THEOREM AdjustmentsImplementLevels == Spec => LevelsSpec
<1>1. Init => LevelsInit
  BY DEF Init
<1>2. Inv /\ [Next]_vars => [LevelsNext]_stock
  BY MoveOrStay, MoveApplies DEF LevelsNext, stock
<1> QED
  BY <1>1, <1>2, InvHolds, PTL DEF Spec, LevelsSpec

(* So the totals of variants and products are those of the level below.    *)
THEOREM AdjustmentsTotalsAgree == Spec => [](LevelsTypeOK /\ TotalsAgree)
BY AdjustmentsImplementLevels, LevelsAgree, PTL

(* TypeOK, and with it: an adjustment names a reason that is in its table. *)
THEOREM AdjustmentsTypeCorrect == Spec => []TypeOK
<1>1. Inv /\ LevelsTypeOK => TypeOK
  BY DEF Inv, TablesTyped, CallsPlaced, Placed, TypeOK
<1> QED
  BY <1>1, InvHolds, AdjustmentsTotalsAgree, PTL

(* The history of what was moved keeps its type, and accounts for it all.  *)
Tracked == moved \in [Calls -> [Variants -> [Warehouses -> Int]]] /\ CallsAccount
Accounted == LevelsTypeOK /\ Tracked

LEMMA MovedByOne ==
  ASSUME NEW lines \in Seq(Line), Len(lines) = 1, NEW v \in Variants, NEW w \in Warehouses
  PROVE  Moved(lines, v, w) =
           IF lines[1].variant = v /\ lines[1].warehouse = w THEN lines[1].quantity ELSE 0
<1> DEFINE n == Len(lines)
           f == [i \in 1..n |-> IF lines[i].variant = v /\ lines[i].warehouse = w
                                  THEN lines[i].quantity ELSE 0]
<1>1. f \in [1..n -> Int]
  BY MovedType
<1>2. Moved(lines, v, w) = SumTo(f, n)
  BY DEF Moved
<1>3. f[1] = IF lines[1].variant = v /\ lines[1].warehouse = w THEN lines[1].quantity ELSE 0
  OBVIOUS
<1>4. n \in Nat /\ 1 \in 1..n /\ \A i \in 1..n : i # 1 => f[i] = 0
  OBVIOUS
<1> HIDE DEF n, f
<1>5. SumTo(f, n) = f[1]
  BY <1>1, <1>4, SumSingle
<1> QED
  BY <1>2, <1>3, <1>5

LEMMA MoveAccounts ==
  ASSUME Inv, Accounted, NEW c \in Calls, NEW m \in call[c].moves, Move(c, m)
  PROVE  Tracked'
<1> DEFINE d == call[c].doc
           x == m.variant
           y == m.warehouse
<1>1. /\ x \in Variants /\ y \in Warehouses /\ m.quantity \in Int
  BY MoveApplies
<1>2. PICK lines \in Seq(Line) :
        Apply(lines) /\ lines = <<[variant |-> x, warehouse |-> y, quantity |-> m.quantity]>>
  BY MoveApplies
<1>3. d \in Calls
  <2>1. pc[c] \in Stages
    BY CallFacts DEF Inv, Placed
  <2>2. /\ call[c].op = "create" => d = c
        /\ call[c].op # "create" => d \in DOMAIN adjustments
    BY <2>1, CallFacts DEF Inv, Placed
  <2> QED
    BY <2>2 DEF Inv, TablesTyped
<1>4. moved' = [moved EXCEPT ![d][x][y] = @ + m.quantity]
  BY DEF Move
<1>5. moved' \in [Calls -> [Variants -> [Warehouses -> Int]]]
  BY <1>1, <1>3, <1>4 DEF Accounted, Tracked
<1>6. ASSUME NEW v \in Variants, NEW w \in Warehouses
      PROVE  vtw'[v][w] = Opening[v][w] + SumTo([e \in Calls |-> moved'[e][v][w]], NCalls)
  <2> DEFINE f == [e \in 1..NCalls |-> moved[e][v][w]]
             h == [e \in 1..NCalls |-> moved'[e][v][w]]
             q == IF x = v /\ y = w THEN m.quantity ELSE 0
  <2>1. NCalls \in Nat /\ Calls = 1..NCalls
    BY AdjustmentsAssumption DEF Calls
  <2>2. f \in [1..NCalls -> Int] /\ h \in [1..NCalls -> Int]
    BY <1>5, <2>1 DEF Accounted, Tracked
  <2>3. \A e \in 1..NCalls : e # d => h[e] = f[e]
    BY <1>3, <1>4, <2>1 DEF Accounted, Tracked
  <2>4. moved[d][v][w] \in Int
    BY <1>3 DEF Accounted, Tracked
  <2>5. moved'[d][v][w] = moved[d][v][w] + q
    BY <1>1, <1>3, <1>4, <2>4 DEF Accounted, Tracked
  <2>6. h[d] - f[d] = q
    BY <1>1, <1>3, <2>1, <2>4, <2>5
  <2>7. Moved(lines, v, w) = q
    <3>1. Len(lines) = 1 /\ lines[1] = [variant |-> x, warehouse |-> y, quantity |-> m.quantity]
      BY <1>2
    <3>2. lines[1].variant = x /\ lines[1].warehouse = y /\ lines[1].quantity = m.quantity
      BY <3>1
    <3> QED
      BY <3>1, <3>2, MovedByOne
  <2>8. vtw'[v][w] = vtw[v][w] + q
    BY <1>2, <2>7 DEF Apply
  <2>9. q \in Int /\ Opening[v][w] \in Int
    BY <1>1, StockAssumption
  <2>10. vtw[v][w] = Opening[v][w] + SumTo(f, NCalls)
    BY <2>1 DEF Accounted, Tracked, CallsAccount
  <2>11. SumTo([e \in Calls |-> moved'[e][v][w]], NCalls) = SumTo(h, NCalls)
    BY <2>1
  <2> HIDE DEF f, h, q
  <2>12. SumTo(h, NCalls) = SumTo(f, NCalls) + (h[d] - f[d])
    BY <1>3, <2>1, <2>2, <2>3, SumChange
  <2>13. SumTo(f, NCalls) \in Int
    BY <2>1, <2>2, SumType
  <2> QED
    BY ONLY <2>6, <2>8, <2>9, <2>10, <2>11, <2>12, <2>13
<1> QED
  BY <1>5, <1>6 DEF CallsAccount, Tracked

(* What the calls have moved is known at any time.                         *)
LEMMA TrackedHolds == Spec => []Tracked
<1>1. Init => Tracked
  <2> SUFFICES ASSUME Init PROVE Tracked
    OBVIOUS
  <2>1. moved = [d \in Calls |-> [v \in Variants |-> [w \in Warehouses |-> 0]]]
    BY DEF Init
  <2>2. ASSUME NEW v \in Variants, NEW w \in Warehouses
        PROVE  vtw[v][w] = Opening[v][w] + SumTo([d \in Calls |-> moved[d][v][w]], NCalls)
    <3> DEFINE f == [d \in 1..NCalls |-> moved[d][v][w]]
    <3>1. NCalls \in Nat /\ Calls = 1..NCalls
      BY AdjustmentsAssumption DEF Calls
    <3>2. f \in [1..NCalls -> Int] /\ \A d \in 1..NCalls : f[d] = 0
      BY <2>1, <3>1
    <3>3. SumTo([d \in Calls |-> moved[d][v][w]], NCalls) = SumTo(f, NCalls)
      BY <3>1
    <3> HIDE DEF f
    <3>4. SumTo(f, NCalls) = 0
      BY <3>1, <3>2, SumZero
    <3>5. vtw[v][w] = Opening[v][w] /\ Opening[v][w] \in Int
      BY StockAssumption DEF Init, LevelsInit
    <3> QED
      BY <3>3, <3>4, <3>5
  <2> QED
    BY <2>1, <2>2 DEF CallsAccount, Tracked
<1>2. Inv /\ Accounted /\ [Next]_vars => Tracked'
  <2> SUFFICES ASSUME Inv, Accounted, [Next]_vars
               PROVE  Tracked'
    OBVIOUS
  <2>1. CASE UNCHANGED <<stock, moved>>
    BY <2>1 DEF Accounted, Tracked, CallsAccount, stock
  <2> QED
    BY <2>1, MoveOrStay, MoveAccounts
<1> QED
  BY <1>1, <1>2, InvHolds, AdjustmentsTotalsAgree, PTL DEF Spec, Accounted
(* CallsAccount, of DocumentsAccountForStock: what the calls on the        *)
(* documents have moved, the failed and the overlapping ones included, is  *)
(* the whole difference between the stock and what there was to begin.     *)
THEOREM AdjustmentsAccountForStock == Spec => []CallsAccount
<1>1. Tracked => CallsAccount
  BY DEF Tracked
<1> QED
  BY <1>1, TrackedHolds, PTL

-----------------------------------------------------------------------------
(* The documents. *)

(* The rows of lines differ; what lines say of a row in which at most one  *)
(* of them is, and what a client is shown of them.                         *)
Distinct(lines) == \A l, m \in lines : Row(l) = Row(m) => l = m
Said(here) == IF here = {} THEN 0 ELSE (CHOOSE l \in here : TRUE).quantity
Quantity(lines, v, w) == Said(OldAt(lines, <<v, w>>))
Shown(lines) ==
  {[variant |-> l.variant, warehouse |-> l.warehouse, quantity |-> l.quantity] : l \in lines}

(* What document d says of a row: nothing while it is not there, or        *)
(* archived.                                                               *)
Counted(d) == d \in DOMAIN adjustments /\ ~ adjustments[d].isArchived
Says(d, v, w) == IF Counted(d) THEN Quantity(adjustments[d].lines, v, w) ELSE 0

(* What has been moved in a row, with what is still being moved, when a    *)
(* call with request r is at that place of its handler.                    *)
Aim(c, label, r, v, w) ==
  CASE label \in {"find", "header"} -> Says(r.doc, v, w)
    [] label = "move" /\ r.op = "create" -> Quantity(Lines(c, DOMAIN r.items), v, w)
    [] label = "moveNew" \/ (label = "move" /\ r.op = "restore") ->
         Quantity(adjustments[r.doc].lines, v, w)
    [] OTHER -> 0

(* What the handlers know of the document.                                 *)
Knows(c, label, r) ==
  LET here == r.doc \in DOMAIN adjustments
      lines == adjustments[r.doc].lines
      archived == adjustments[r.doc].isArchived
  IN  CASE r.op = "create" ->
             /\ label = "move" /\ ~ Twice(r.items)
             /\ r.header <=> ~ here
             /\ here => lines = Lines(c, DOMAIN r.items) /\ ~ archived
        [] r.op = "archive" -> label \in {"find", "move"} /\ ~ r.header /\ ~ archived
        [] r.op = "restore" ->
             /\ label \in {"find", "move"} /\ (archived <=> label = "find" \/ r.header)
             /\ r.header => label = "move"
        [] r.op = "update" ->
             /\ r.items = None <=> label = "header"
             /\ r.items # None => ~ archived /\ ~ Twice(r.items)
             /\ label \in {"find", "move", "lines"} => r.old = lines
             /\ label \in {"findNew", "moveNew"} => Shown(lines) = ToSet(r.items)

(* A call at work on a document that is not disturbed.                     *)
Works(c, label, r) ==
  /\ r.ok /\ Distinct(r.moves)
  /\ label \notin {"move", "moveNew"} => r.moves = {}
  /\ Knows(c, label, r)
  /\ \A v \in Variants, w \in Warehouses :
       moved[r.doc][v][w] + Quantity(r.moves, v, w) = Aim(c, label, r, v, w)

At(c, d) == pc[c] \in Stages /\ call[c].doc = d
Resting(d) == \A v \in Variants, w \in Warehouses : moved[d][v][w] = Says(d, v, w)

(* The book of a document: one call is at work on it, or it says what has  *)
(* been moved.                                                             *)
BookOf(d) ==
  /\ \A b, c \in Calls : At(b, d) /\ At(c, d) => b = c
  /\ (\A c \in Calls : ~ At(c, d)) => Resting(d)
  /\ d \in DOMAIN adjustments => Distinct(adjustments[d].lines)
  /\ \A c \in Calls : At(c, d) => Works(c, pc[c], call[c])

(* The invariant of the documents.                                         *)
Books ==
  /\ \A c \in Calls : call[c].op = "removeReason" => call[c].doc = None
  /\ \A c \in Calls : pc[c] \in {"idle", "check"} => c \notin DOMAIN adjustments /\ call[c].ok
  /\ \A d \in Calls \ disturbed : BookOf(d)

(* Steps that leave document d alone, and those that move one call.        *)
Same(d) ==
  /\ moved'[d] = moved[d]
  /\ d \in DOMAIN adjustments' <=> d \in DOMAIN adjustments
  /\ d \in DOMAIN adjustments => /\ adjustments'[d].lines = adjustments[d].lines
                                 /\ adjustments'[d].isArchived = adjustments[d].isArchived
Only(c) == \A b \in Calls \ {c} : pc'[b] = pc[b] /\ call'[b] = call[b]
-----------------------------------------------------------------------------
(* Lines. *)

(* Of lines of different rows one at most is in a row.                     *)
LEMMA QuantityAt ==
  ASSUME NEW lines, Distinct(lines), NEW l \in lines
  PROVE  Quantity(lines, l.variant, l.warehouse) = l.quantity
<1> DEFINE here == OldAt(lines, <<l.variant, l.warehouse>>)
<1>1. here = {l}
  BY DEF OldAt, Distinct, Row
<1>2. (CHOOSE x \in here : TRUE) = l
  BY <1>1
<1> QED
  BY <1>1, <1>2 DEF Quantity, Said

(* Where no line is, nothing is said.                                      *)
LEMMA QuantityNowhere ==
  ASSUME NEW lines, NEW v, NEW w, \A l \in lines : ~ (l.variant = v /\ l.warehouse = w)
  PROVE  Quantity(lines, v, w) = 0
<1>1. OldAt(lines, <<v, w>>) = {}
  BY DEF OldAt, Row
<1> QED
  BY <1>1 DEF Quantity, Said

(* What lines say is a number.                                             *)
LEMMA QuantityType ==
  ASSUME NEW lines \in SUBSET LineRow, NEW v, NEW w
  PROVE  Quantity(lines, v, w) \in Int
<1> DEFINE here == OldAt(lines, <<v, w>>)
<1>1. CASE here = {}
  BY <1>1 DEF Quantity, Said
<1>2. CASE here # {}
  <2>1. (CHOOSE l \in here : TRUE) \in here
    BY <1>2
  <2>2. (CHOOSE l \in here : TRUE) \in LineRow
    BY <2>1 DEF OldAt
  <2>3. (CHOOSE l \in here : TRUE).quantity \in Int
    BY <2>2 DEF LineRow
  <2> QED
    BY <1>2, <2>3 DEF Quantity, Said
<1> QED
  BY <1>1, <1>2

(* A line less, and what the rest says.                                    *)
LEMMA QuantityLess ==
  ASSUME NEW lines \in SUBSET LineRow, Distinct(lines), NEW m \in lines, NEW v, NEW w,
         NEW rest, rest = lines \ {m}
  PROVE  Quantity(lines, v, w) =
           Quantity(rest, v, w) + (IF m.variant = v /\ m.warehouse = w THEN m.quantity ELSE 0)
<1>0. Distinct(rest) /\ rest \in SUBSET LineRow
  BY DEF Distinct
<1>1. CASE m.variant = v /\ m.warehouse = w
  <2>1. Quantity(lines, v, w) = m.quantity
    BY <1>1, QuantityAt
  <2>2. \A l \in rest : ~ (l.variant = v /\ l.warehouse = w)
    BY <1>1 DEF Distinct, Row
  <2>3. Quantity(rest, v, w) = 0
    BY <2>2, QuantityNowhere
  <2>4. m.quantity \in Int
    BY DEF LineRow
  <2> QED
    BY <1>1, <2>1, <2>3, <2>4
<1>2. CASE ~ (m.variant = v /\ m.warehouse = w)
  <2>1. OldAt(lines, <<v, w>>) = OldAt(rest, <<v, w>>)
    <3>1. \A l : Row(l) = <<v, w>> => l # m
      BY <1>2 DEF Row
    <3> QED
      BY <3>1 DEF OldAt
  <2>2. Quantity(lines, v, w) = Quantity(rest, v, w)
    BY <2>1 DEF Quantity
  <2>3. Quantity(rest, v, w) \in Int
    BY <1>0, QuantityType
  <2> QED
    BY <1>2, <2>2, <2>3
<1> QED
  BY <1>1, <1>2

(* Lines taken back.                                                       *)
LEMMA QuantityNegated ==
  ASSUME NEW lines \in SUBSET LineRow, Distinct(lines)
  PROVE  /\ Distinct(Negated(lines))
         /\ \A v, w : Quantity(Negated(lines), v, w) = 0 - Quantity(lines, v, w)
<1> DEFINE Back(l) == [l EXCEPT !.quantity = -@]
<1>1. \A l \in lines : /\ Back(l).variant = l.variant /\ Back(l).warehouse = l.warehouse
                       /\ Back(l).quantity = 0 - l.quantity
  BY DEF LineRow
<1>2. Negated(lines) = {Back(l) : l \in lines}
  BY DEF Negated
<1> HIDE DEF Back
<1>3. Distinct(Negated(lines))
  BY <1>1, <1>2 DEF Distinct, Row
<1>4. ASSUME NEW v, NEW w PROVE Quantity(Negated(lines), v, w) = 0 - Quantity(lines, v, w)
  <2>1. CASE \E l \in lines : l.variant = v /\ l.warehouse = w
    <3>1. PICK l \in lines : l.variant = v /\ l.warehouse = w
      BY <2>1
    <3>2. PICK b : b = Back(l) /\ b \in Negated(lines)
      BY <1>2
    <3>3. b.variant = v /\ b.warehouse = w /\ b.quantity = 0 - l.quantity
      BY <1>1, <3>1, <3>2
    <3>4. Quantity(lines, v, w) = l.quantity
      BY <3>1, QuantityAt
    <3>5. Quantity(Negated(lines), v, w) = b.quantity
      BY <1>3, <3>2, <3>3, QuantityAt
    <3> QED
      BY <3>3, <3>4, <3>5
  <2>2. CASE \A l \in lines : ~ (l.variant = v /\ l.warehouse = w)
    <3>1. Quantity(lines, v, w) = 0
      BY <2>2, QuantityNowhere
    <3>2. \A b \in Negated(lines) : ~ (b.variant = v /\ b.warehouse = w)
      BY <1>1, <1>2, <2>2
    <3>3. Quantity(Negated(lines), v, w) = 0
      BY <3>2, QuantityNowhere
    <3> QED
      BY <3>1, <3>3
  <2> QED
    BY <2>1, <2>2
<1> QED
  BY <1>3, <1>4

(* Of lines of different rows, one per row are all of them.                *)
LEMMA ChosenAll ==
  ASSUME NEW lines, Distinct(lines), NEW P \in OnePerRow(lines)
  PROVE  P = lines
<1>1. P \subseteq lines /\ \A l \in lines : Cardinality(OldAt(P, Row(l))) = 1
  BY DEF OnePerRow
<1>2. ASSUME NEW l \in lines PROVE l \in P
  <2>1. OldAt(P, Row(l)) # {}
    BY <1>1, FS_EmptySet
  <2>2. PICK p \in P : Row(p) = Row(l)
    BY <2>1 DEF OldAt
  <2> QED
    BY <1>1, <2>2 DEF Distinct
<1> QED
  BY <1>1, <1>2

(* The lines of a call that names no row twice.                            *)
LEMMA LinesDistinct ==
  ASSUME NEW c \in Calls, call[c].items \in Items, ~ Twice(call[c].items),
         NEW K \in SUBSET DOMAIN call[c].items
  PROVE  Distinct(Lines(c, K))
<1> DEFINE items == call[c].items
           Line_(k) == [id |-> <<c, k>>, variant |-> items[k].variant,
                        warehouse |-> items[k].warehouse, quantity |-> items[k].quantity]
<1>1. Lines(c, K) = {Line_(k) : k \in K}
  BY DEF Lines
<1>2. \A k \in K : Row(Line_(k)) = Row(items[k])
  BY DEF Row
<1> HIDE DEF Line_
<1>3. \A j, k \in K : Row(items[j]) = Row(items[k]) => j = k
  BY DEF Twice
<1> QED
  BY <1>1, <1>2, <1>3 DEF Distinct

(* What lines show of a call's items is these items.                       *)
LEMMA ItemShown ==
  ASSUME NEW items \in Items, NEW k \in DOMAIN items
  PROVE  items[k] = [variant |-> items[k].variant, warehouse |-> items[k].warehouse,
                     quantity |-> items[k].quantity]
<1>1. PICK m \in 0..MaxItems : items \in [1..m -> Item]
  BY DEF Items, SeqOf
<1>2. items[k] \in Item
  BY <1>1
<1> QED
  BY <1>2 DEF Item

(* What an update writes of the lines, when there is none to delete: the   *)
(* rows differ as before, and the lines show the items.                    *)
LEMMA WrittenLines ==
  ASSUME Inv, NEW c \in Calls, NEW D, D = call[c].doc, NEW items, items = call[c].items, NEW old,
         D \in DOMAIN adjustments, old = adjustments[D].lines, call[c].old = old,
         items \in Items, ~ Twice(items), Distinct(old), WriteLines(c)
  PROVE  /\ Distinct(adjustments'[D].lines) /\ Shown(adjustments'[D].lines) = ToSet(items)
         /\ DOMAIN adjustments' = DOMAIN adjustments
         /\ adjustments'[D].isArchived = adjustments[D].isArchived
         /\ \A d \in DOMAIN adjustments \ {D} : adjustments'[d] = adjustments[d]
<1> DEFINE New == NewItems(old, items)
           Changes(l) == {k \in Updated(old, items) : Row(items[k]) = Row(l)}
           Written(l) == IF Changes(l) = {} THEN l
                         ELSE [l EXCEPT !.quantity = items[CHOOSE k \in Changes(l) : TRUE].quantity]
           lines == {Written(l) : l \in old \cup Lines(c, New)}
           Added(k) == [id |-> <<c, k>>, variant |-> items[k].variant,
                        warehouse |-> items[k].warehouse, quantity |-> items[k].quantity]
<1>1. /\ Deleted(old, items) = {}
      /\ adjustments' = [adjustments EXCEPT ![D].lines = lines]
  BY DEF WriteLines
<1>2. adjustments[D] \in Adjustment /\ old \in SUBSET LineRow
  BY DocumentTyped DEF Inv, TablesTyped
<1>3. /\ adjustments'[D].lines = lines /\ DOMAIN adjustments' = DOMAIN adjustments
      /\ adjustments'[D].isArchived = adjustments[D].isArchived
      /\ \A d \in DOMAIN adjustments \ {D} : adjustments'[d] = adjustments[d]
  BY <1>1, <1>2 DEF Adjustment
<1>4. \A j, k \in DOMAIN items : Row(items[j]) = Row(items[k]) => j = k
  BY DEF Twice
<1>5. New = {k \in DOMAIN items : OldAt(old, Row(items[k])) = {}}
  <2>1. ASSUME NEW k \in DOMAIN items, NEW j \in 1..(k - 1), Row(items[j]) = Row(items[k])
        PROVE  FALSE
    <3>1. PICK m \in 0..MaxItems : items \in [1..m -> Item]
      BY DEF Items, SeqOf
    <3>2. DOMAIN items = 1..m /\ m \in Nat
      BY <3>1, AdjustmentsAssumption
    <3>3. j \in DOMAIN items /\ j # k
      BY <3>2
    <3> QED
      BY <1>4, <2>1, <3>3
  <2> QED
    BY <2>1 DEF NewItems
<1>6. Updated(old, items) = {k \in DOMAIN items : \E l \in OldAt(old, Row(items[k])) : l.quantity # items[k].quantity}
  BY <1>5 DEF Updated
<1>7. Lines(c, New) = {Added(k) : k \in New}
  BY DEF Lines
<1> HIDE DEF New
(* A line that is new stays as it is.                                      *)
<1>8. ASSUME NEW k \in New
      PROVE  /\ Written(Added(k)) = Added(k) /\ Row(Added(k)) = Row(items[k])
             /\ Added(k).variant = items[k].variant /\ Added(k).warehouse = items[k].warehouse
             /\ Added(k).quantity = items[k].quantity
  <2>1. Row(Added(k)) = Row(items[k])
    BY DEF Row
  <2>2. Changes(Added(k)) = {}
    BY <1>4, <1>5, <1>6, <2>1
  <2> QED
    BY <2>1, <2>2
(* A line of the document has the quantity of its item now.                *)
<1>9. ASSUME NEW l \in old
      PROVE  \E k \in DOMAIN items :
               /\ Row(items[k]) = Row(l) /\ Written(l).variant = l.variant
               /\ Written(l).warehouse = l.warehouse /\ Written(l).quantity = items[k].quantity
  <2>1. l \in LineRow /\ Row(l) \in RowsIn(items)
    BY <1>1, <1>2 DEF Deleted
  <2>2. PICK k \in DOMAIN items : Row(items[k]) = Row(l)
    BY <2>1 DEF RowsIn
  <2>3. OldAt(old, Row(items[k])) = {l}
    BY <2>2 DEF OldAt, Distinct
  <2>4. CASE l.quantity = items[k].quantity
    <3>1. Changes(l) = {}
      BY <1>4, <1>6, <2>2, <2>3, <2>4
    <3> QED
      BY <2>2, <2>4, <3>1
  <2>5. CASE l.quantity # items[k].quantity
    <3>1. Changes(l) = {k}
      BY <1>4, <1>6, <2>2, <2>3, <2>5
    <3>2. (CHOOSE j \in Changes(l) : TRUE) = k
      BY <3>1
    <3>3. Written(l) = [l EXCEPT !.quantity = items[k].quantity]
      BY <3>1, <3>2
    <3> HIDE DEF Written
    <3> QED
      BY <2>1, <2>2, <3>3 DEF LineRow
  <2> QED
    BY <2>4, <2>5
<1> HIDE DEF Written, Added, Changes
<1>10. \A l \in old : Row(Written(l)) = Row(l)
  BY <1>9 DEF Row
<1>0. \A x \in lines : (\E l \in old : x = Written(l)) \/ (\E k \in New : x = Added(k))
  BY <1>7, <1>8
<1>11. Distinct(lines)
  <2>1. ASSUME NEW l \in old, NEW k \in New PROVE Row(Written(l)) # Row(Added(k))
    BY <1>5, <1>8, <1>10 DEF OldAt
  <2>2. \A l, m \in old : Row(Written(l)) = Row(Written(m)) => Written(l) = Written(m)
    BY <1>10 DEF Distinct
  <2>3. \A j, k \in New : Row(Added(j)) = Row(Added(k)) => Added(j) = Added(k)
    BY <1>4, <1>5, <1>8
  <2> HIDE DEF lines
  <2> QED
    BY <1>0, <2>1, <2>2, <2>3 DEF Distinct
<1>12. Shown(lines) = ToSet(items)
  <2> DEFINE Show(x) == [variant |-> x.variant, warehouse |-> x.warehouse, quantity |-> x.quantity]
  <2>1. \A k \in DOMAIN items : items[k] = Show(items[k])
    BY ItemShown
  <2>2. \A x, y : x.variant = y.variant /\ x.warehouse = y.warehouse /\ x.quantity = y.quantity => Show(x) = Show(y)
    OBVIOUS
  <2>3. Shown(lines) = {Show(x) : x \in lines} /\ ToSet(items) = {items[k] : k \in DOMAIN items}
    BY DEF Shown, ToSet
  <2> HIDE DEF Show
  <2>4. ASSUME NEW l \in old PROVE \E k \in DOMAIN items : Row(items[k]) = Row(l) /\ Show(Written(l)) = items[k]
    <3>1. PICK k \in DOMAIN items :
            /\ Row(items[k]) = Row(l) /\ Written(l).variant = l.variant
            /\ Written(l).warehouse = l.warehouse /\ Written(l).quantity = items[k].quantity
      BY <1>9
    <3>2. l.variant = items[k].variant /\ l.warehouse = items[k].warehouse
      BY <3>1 DEF Row
    <3> QED
      BY <2>1, <2>2, <3>1, <3>2
  <2>5. \A k \in New : Show(Added(k)) = items[k]
    BY <1>5, <1>8, <2>1, <2>2
  <2>6. \A k \in DOMAIN items : k \in New \/ \E l \in old : Row(l) = Row(items[k])
    BY <1>5 DEF OldAt
  <2>7. \A k \in DOMAIN items : \E x \in lines : Show(x) = items[k]
    <3> SUFFICES ASSUME NEW k \in DOMAIN items PROVE \E x \in lines : Show(x) = items[k]
      OBVIOUS
    <3>1. CASE k \in New
      BY <1>7, <1>8, <2>5, <3>1
    <3>2. CASE k \notin New
      <4>1. PICK l \in old : Row(l) = Row(items[k])
        BY <2>6, <3>2
      <4>2. Show(Written(l)) = items[k]
        BY <1>4, <2>4, <4>1
      <4> QED
        BY <4>2
    <3> QED
      BY <3>1, <3>2
  <2> HIDE DEF lines
  <2>8. \A x \in lines : \E k \in DOMAIN items : Show(x) = items[k]
    <3>1. \A k \in New : k \in DOMAIN items
      BY <1>5
    <3> QED
      BY <1>0, <2>4, <2>5, <3>1
  <2> QED
    BY <2>3, <2>7, <2>8
<1> QED
  BY <1>3, <1>11, <1>12
-----------------------------------------------------------------------------
(* Books. *)

(* A call works on as before while nobody changes its document.            *)
LEMMA WorksOn ==
  ASSUME NEW c \in Calls, NEW label, NEW r, NEW d, d = r.doc, Works(c, label, r), Same(d),
         r.op # "create" => d \in DOMAIN adjustments, call'[c].items = call[c].items,
         r.op \in {"create", "update", "archive", "restore"}
  PROVE  Works(c, label, r)'
<1>1. \A K : Lines(c, K)' = Lines(c, K)
  BY DEF Lines
<1>2. \A v, w : Says(d, v, w)' = Says(d, v, w)
  BY DEF Says, Counted, Same
<1>3. Knows(c, label, r)'
  <2>1. Knows(c, label, r)
    BY DEF Works
  <2> QED
    BY <1>1, <2>1 DEF Knows, Same
<1>4. ASSUME NEW v \in Variants, NEW w \in Warehouses PROVE Aim(c, label, r, v, w)' = Aim(c, label, r, v, w)
  <2>1. r.op = "create" => label = "move"
    BY DEF Works, Knows
  <2>2. CASE r.op = "create"
    BY <1>1, <2>1, <2>2 DEF Aim
  <2>3. CASE r.op # "create"
    BY <1>2, <2>3 DEF Aim, Same
  <2> QED
    BY <2>2, <2>3
<1> QED
  BY <1>3, <1>4 DEF Works, Same

(* What is known of a call at work on a document.                          *)
LEMMA AtFacts ==
  ASSUME Inv, NEW d \in Calls, NEW c \in Calls, At(c, d)
  PROVE  /\ pc[c] \in Stages /\ call[c].doc = d
         /\ call[c].op \in {"create", "update", "archive", "restore"}
         /\ call[c].op # "create" => d \in DOMAIN adjustments
         /\ call[c].op = "create" => d = c /\ call[c].items \in Items
         /\ call[c].op = "update" /\ pc[c] \in {"find", "move", "lines"} => call[c].items \in Items
BY CallFacts DEF Inv, At, Placed, Stages

(* A document that nobody at work on it, or else, changes in this step.    *)
LEMMA OtherBook ==
  ASSUME Inv, NEW d \in Calls, BookOf(d), Same(d), \A b \in Calls : At(b, d)' <=> At(b, d),
         \A b \in Calls : At(b, d) => pc'[b] = pc[b] /\ call'[b] = call[b]
  PROVE  BookOf(d)'
<1>1. ASSUME NEW c \in Calls, At(c, d) PROVE Works(c, pc[c], call[c])'
  <2>1. PICK label, r : label = pc[c] /\ r = call[c] /\ r = call'[c] /\ label = pc'[c]
    BY <1>1
  <2>2. Works(c, label, r) /\ d = r.doc
    BY <1>1, <2>1 DEF BookOf, At
  <2>3. /\ r.op # "create" => d \in DOMAIN adjustments
        /\ call'[c].items = call[c].items /\ r.op \in {"create", "update", "archive", "restore"}
    BY <1>1, <2>1, AtFacts
  <2>4. Works(c, label, r)'
    BY <2>2, <2>3, WorksOn
  <2> QED
    BY <2>1, <2>4
<1>2. Resting(d) => Resting(d)'
  BY DEF Resting, Says, Counted, Same
<1> QED
  BY <1>1, <1>2 DEF BookOf, Same

(* The document of the one call that takes this step.                      *)
LEMMA OwnBook ==
  ASSUME NEW d \in Calls, BookOf(d), NEW c \in Calls, Only(c), At(c, d) \/ \A b \in Calls : ~ At(b, d),
         d \in DOMAIN adjustments' => Distinct(adjustments'[d].lines),
         At(c, d)' => Works(c, pc[c], call[c])', ~ At(c, d)' => Resting(d)'
  PROVE  BookOf(d)'
<1>1. \A b \in Calls \ {c} : ~ At(b, d)'
  BY DEF BookOf, Only, At
<1> QED
  BY <1>1 DEF BookOf

(* A step of one call: the document of another call stays as it is, and    *)
(* its own is looked at.                                                   *)
LEMMA StepBooks ==
  ASSUME Inv, Books, NEW c \in Calls, Only(c), NEW D, D = call[c].doc,
         disturbed \subseteq disturbed', \A d \in Calls \ {D} : Same(d),
         ~ At(c, D) => pc[c] \notin Stages,
         call'[c].doc = D \/ pc'[c] \notin Stages,
         DOMAIN adjustments' \subseteq DOMAIN adjustments \cup {c},
         pc'[c] \notin {"idle", "check"}, call'[c].op = "removeReason" => call'[c].doc = None,
         D \in Calls \ disturbed' => BookOf(D)'
  PROVE  Books'
<1>1. ASSUME NEW d \in Calls \ disturbed' PROVE BookOf(d)'
  <2>1. CASE d # D
    <3>1. BookOf(d) /\ Same(d) /\ ~ At(c, d) /\ ~ At(c, d)'
      BY <2>1 DEF Books, At
    <3>2. \A b \in Calls : At(b, d)' <=> At(b, d)
      BY <3>1 DEF Only, At
    <3>3. \A b \in Calls : At(b, d) => pc'[b] = pc[b] /\ call'[b] = call[b]
      BY <3>1 DEF Only
    <3> QED
      BY <3>1, <3>2, <3>3, OtherBook
  <2> QED
    BY <2>1
<1> QED
  BY <1>1 DEF Books, Only

(* A call that works on no document goes on, and changes none.             *)
LEMMA AsideBooks ==
  ASSUME Inv, Books, NEW c \in Calls, Only(c), disturbed \subseteq disturbed', \A d \in Calls : Same(d),
         pc[c] \notin Stages, pc'[c] \notin Stages, DOMAIN adjustments' = DOMAIN adjustments,
         call'[c].op = "removeReason" => call'[c].doc = None,
         pc'[c] \in {"idle", "check"} => pc[c] \in {"idle", "check"} /\ call'[c].ok
  PROVE  Books'
<1>1. ASSUME NEW d \in Calls \ disturbed' PROVE BookOf(d)'
  <2>1. BookOf(d) /\ Same(d) /\ ~ At(c, d) /\ ~ At(c, d)'
    BY DEF Books, At
  <2>2. \A b \in Calls : At(b, d)' <=> At(b, d)
    BY <2>1 DEF Only, At
  <2>3. \A b \in Calls : At(b, d) => pc'[b] = pc[b] /\ call'[b] = call[b]
    BY <2>1 DEF Only
  <2> QED
    BY <2>1, <2>2, <2>3, OtherBook
<1> QED
  BY <1>1 DEF Books, Only

(* A call at work goes on with its document, and one that ends.            *)
LEMMA WorkBooks ==
  ASSUME Inv, Books, NEW c \in Calls, pc[c] \in Stages, NEW D, D = call[c].doc, NEW label, NEW next,
         pc' = [pc EXCEPT ![c] = label], call' = [call EXCEPT ![c] = next],
         label \in Stages, next.doc = D, next.op = call[c].op,
         disturbed \subseteq disturbed', \A d \in Calls \ {D} : Same(d),
         DOMAIN adjustments' \subseteq DOMAIN adjustments \cup {c},
         D \in Calls \ disturbed' /\ BookOf(D) /\ Works(c, pc[c], call[c]) =>
           /\ D \in DOMAIN adjustments' => Distinct(adjustments'[D].lines)
           /\ Works(c, label, next)'
  PROVE  Books'
<1>1. pc'[c] = label /\ call'[c] = next /\ Only(c)
  BY DEF Inv, CallsPlaced, Only
<1>2. label \notin {"idle", "check"}
  BY DEF Stages
<1>3. next.op = "removeReason" => next.doc = None
  BY DEF Books
<1>4. ASSUME D \in Calls \ disturbed' PROVE BookOf(D)'
  <2>1. At(c, D) /\ At(c, D)' /\ BookOf(D)
    BY <1>1, <1>4 DEF At, Books
  <2>2. Works(c, pc[c], call[c])
    BY <2>1 DEF BookOf
  <2>3. Works(c, pc[c], call[c])'
    BY <1>1, <1>4, <2>1, <2>2
  <2> QED
    BY <1>1, <1>4, <2>1, <2>2, <2>3, OwnBook
<1> QED
  BY <1>1, <1>2, <1>3, <1>4, StepBooks DEF At

(* A call at work ends, and leaves its document at rest.                   *)
LEMMA EndBooks ==
  ASSUME Inv, Books, NEW c \in Calls, pc[c] \in Stages, NEW D, D = call[c].doc, NEW label \in Ended,
         End(c, label), disturbed \subseteq disturbed', \A d \in Calls \ {D} : Same(d),
         DOMAIN adjustments' = DOMAIN adjustments,
         D \in Calls \ disturbed' /\ BookOf(D) /\ Works(c, pc[c], call[c]) =>
           /\ D \in DOMAIN adjustments' => Distinct(adjustments'[D].lines)
           /\ Resting(D)'
  PROVE  Books'
<1>1. pc'[c] = label /\ call'[c] = Blank /\ Only(c)
  BY DEF Inv, CallsPlaced, Only, End, Goto
<1>2. label \notin {"idle", "check"} /\ label \notin Stages
  BY DEF Stages, Ended
<1>3. Blank.op # "removeReason"
  BY DEF Blank, Request
<1>4. ASSUME D \in Calls \ disturbed' PROVE BookOf(D)'
  <2>1. At(c, D) /\ ~ At(c, D)' /\ BookOf(D)
    BY <1>1, <1>2, <1>4 DEF At, Books
  <2>2. Works(c, pc[c], call[c])
    BY <2>1 DEF BookOf
  <2> QED
    BY <1>1, <1>4, <2>1, <2>2, OwnBook
<1> QED
  BY <1>1, <1>2, <1>3, <1>4, StepBooks DEF At
-----------------------------------------------------------------------------
(* The books at each step. *)

(* A step that writes no document and moves nothing.                       *)
LEMMA UnchangedSame == UNCHANGED <<adjustments, moved>> => \A d : Same(d)
BY DEF Same

(* A call arrives, and is at work on no document yet.                      *)
LEMMA ReceiveBooks ==
  ASSUME Inv, Books, NEW c \in Calls, Arrive(c)
  PROVE  Books'
<1>1. PICK op, d, r, items :
        /\ Receive(c, Request(op, d, r, items))
        /\ op = "removeReason" => d = None
  <2>1. CASE ReceiveCreate(c)
    BY <2>1 DEF ReceiveCreate
  <2>2. CASE ReceiveUpdate(c)
    BY <2>2 DEF ReceiveUpdate
  <2>3. CASE ReceiveArchive(c)
    BY <2>3 DEF ReceiveArchive
  <2>4. CASE ReceiveRemoveReason(c)
    BY <2>4 DEF ReceiveRemoveReason
  <2> QED
    BY <2>1, <2>2, <2>3, <2>4 DEF Arrive
<1> DEFINE next == Request(op, d, r, items)
<1>2. next.op = op /\ next.doc = d /\ next.ok = TRUE
  BY DEF Request
<1> HIDE DEF next
<1>3. /\ pc[c] = "idle" /\ pc'[c] = "check" /\ call'[c] = next /\ Only(c)
      /\ UNCHANGED <<adjustments, moved, disturbed>>
  BY <1>1 DEF Receive, Goto, tables, Inv, CallsPlaced, Only, next
<1>4. pc[c] \notin Stages /\ pc'[c] \notin Stages
  BY <1>3 DEF Stages
<1> QED
  BY <1>1, <1>2, <1>3, <1>4, UnchangedSame, AsideBooks

(* The end of a call that was at work on no document.                      *)
LEMMA AsideEnd ==
  ASSUME Inv, Books, NEW c \in Calls, NEW label \in Ended, End(c, label), pc[c] \notin Stages,
         disturbed \subseteq disturbed', \A d \in Calls : Same(d), DOMAIN adjustments' = DOMAIN adjustments
  PROVE  Books'
<1>1. pc'[c] = label /\ call'[c] = Blank /\ Only(c)
  BY DEF Inv, CallsPlaced, Only, End, Goto
<1>2. label \notin {"idle", "check"} /\ label \notin Stages
  BY DEF Stages, Ended
<1>3. Blank.op # "removeReason"
  BY DEF Blank, Request
<1> QED
  BY <1>1, <1>2, <1>3, AsideBooks

(* A call is refused, and was at work on no document.                      *)
LEMMA RefuseBooks ==
  ASSUME Inv, Books, NEW c \in Calls, Refuse(c)
  PROVE  Books'
<1>1. /\ End(c, "failed") /\ pc[c] = "check" /\ UNCHANGED <<adjustments, moved, disturbed>>
  BY DEF Refuse, tables
<1>2. "failed" \in Ended /\ pc[c] \notin Stages
  BY <1>1 DEF Ended, Stages
<1> QED
  BY <1>1, <1>2, UnchangedSame, AsideEnd

(* A call of which a statement failed has disturbed its document.          *)
LEMMA RejectBooks ==
  ASSUME Inv, Books, NEW c \in Calls, RejectFailed(c)
  PROVE  Books'
<1>1. /\ End(c, "failed") /\ ~ call[c].ok /\ UNCHANGED <<adjustments, moved, disturbed>>
  BY DEF RejectFailed, tables
<1>2. "failed" \in Ended
  BY DEF Ended
<1>3. CASE pc[c] \notin Stages
  BY <1>1, <1>2, <1>3, UnchangedSame, AsideEnd
<1>4. CASE pc[c] \in Stages
  <2>1. ~ Works(c, pc[c], call[c])
    BY <1>1 DEF Works
  <2> QED
    BY <1>1, <1>2, <1>4, <2>1, UnchangedSame, EndBooks
<1> QED
  BY <1>3, <1>4

(* removeReason: the adjustments of the reason lose it, and nothing else.  *)
LEMMA RemoveReasonBooks ==
  ASSUME Inv, Books, NEW c \in Calls, BeginRemoveReason(c) \/ CountAdjustments(c) \/ DeleteReason(c)
  PROVE  Books'
<1>1. CASE BeginRemoveReason(c)
  <2>1. /\ pc[c] = "check" /\ pc'[c] = "count" /\ call'[c] = call[c] /\ Only(c)
        /\ disturbed \subseteq disturbed' /\ UNCHANGED <<adjustments, moved>>
    BY <1>1 DEF BeginRemoveReason, Begin, Goto, Disturb, tables, Inv, CallsPlaced, Only
  <2>2. pc[c] \notin Stages /\ pc'[c] \notin Stages
    BY <2>1 DEF Stages
  <2>3. call[c].op = "removeReason" => call[c].doc = None
    BY DEF Books
  <2> QED
    BY <2>1, <2>2, <2>3, UnchangedSame, AsideBooks
<1>2. CASE CountAdjustments(c)
  <2>1. pc[c] = "count" /\ pc[c] \notin Stages /\ UNCHANGED <<adjustments, moved, disturbed>>
    BY <1>2 DEF CountAdjustments, tables, Stages
  <2>2. CASE End(c, "failed")
    BY <2>1, <2>2, UnchangedSame, AsideEnd DEF Ended
  <2>3. CASE Goto(c, "delete") /\ UNCHANGED call
    <3>1. pc'[c] = "delete" /\ pc'[c] \notin Stages /\ call'[c] = call[c] /\ Only(c)
      BY <2>3 DEF Goto, Inv, CallsPlaced, Only, Stages
    <3>2. call[c].op = "removeReason" => call[c].doc = None
      BY DEF Books
    <3> QED
      BY <2>1, <3>1, <3>2, UnchangedSame, AsideBooks
  <2> QED
    BY <1>2, <2>2, <2>3 DEF CountAdjustments
<1>3. CASE DeleteReason(c)
  <2>1. pc[c] = "delete" /\ pc[c] \notin Stages /\ UNCHANGED <<moved, disturbed>>
    BY <1>3 DEF DeleteReason, Stages
  <2>2. PICK label \in Ended : End(c, label)
    BY <1>3 DEF DeleteReason, Ended
  <2>3. adjustments' = [d \in DOMAIN adjustments |->
          [adjustments[d] EXCEPT !.reason = IF @ = call[c].reason THEN None ELSE @]]
    BY <1>3 DEF DeleteReason
  <2>4. DOMAIN adjustments' = DOMAIN adjustments
    BY <2>3
  <2>5. ASSUME NEW d \in DOMAIN adjustments
        PROVE  adjustments'[d].lines = adjustments[d].lines /\ adjustments'[d].isArchived = adjustments[d].isArchived
    <3>1. adjustments[d] \in Adjustment
      BY DEF Inv, TablesTyped
    <3> QED
      BY <2>3, <3>1 DEF Adjustment
  <2>6. \A d \in Calls : Same(d)
    BY <2>1, <2>4, <2>5 DEF Same
  <2> QED
    BY <2>1, <2>2, <2>4, <2>6, AsideEnd
<1> QED
  BY <1>1, <1>2, <1>3

(* A call begins: unless it disturbs its document, that one is at rest.    *)
LEMMA BeginBooks ==
  ASSUME Inv, Books, NEW c \in Calls, NEW D, D = call[c].doc, NEW label \in Stages, NEW next,
         Begin(c, label, next), next.doc = D, next.op = call[c].op, next.items = call[c].items,
         call[c].op \in {"create", "update", "archive", "restore"},
         D \in Calls \ disturbed /\ ~ Irregular(c) /\ Resting(D)
         /\ (D \in DOMAIN adjustments => Distinct(adjustments[D].lines)) => Works(c, label, next)
  PROVE  Books'
<1>1. /\ pc[c] = "check" /\ Admitted(c) /\ UNCHANGED <<adjustments, moved>>
      /\ pc' = [pc EXCEPT ![c] = label] /\ call' = [call EXCEPT ![c] = next]
      /\ disturbed' = disturbed \cup (IF Irregular(c) THEN {D} ELSE {})
  BY DEF Begin, Goto, Disturb, tables
<1>2. pc'[c] = label /\ call'[c] = next /\ Only(c)
  BY <1>1 DEF Inv, CallsPlaced, Only
<1>3. pc[c] \notin Stages /\ label \notin {"idle", "check"} /\ disturbed \subseteq disturbed'
  BY <1>1 DEF Stages
<1>4. \A d : Same(d)
  BY <1>1, UnchangedSame
<1>5. call[c].op # "create" => D \in DOMAIN adjustments
  BY <1>1 DEF Admitted
<1>6. ASSUME D \in Calls \ disturbed' PROVE BookOf(D)'
  <2>1. D \in Calls \ disturbed /\ ~ Irregular(c) /\ BookOf(D)
    BY <1>1, <1>6 DEF Books
  <2>2. ASSUME NEW b \in Calls PROVE ~ At(b, D)
    <3>1. ~ (pc[b] \in Running \ {"check"} /\ call[b].doc = D)
      BY <2>1 DEF Irregular, BusyWith
    <3>2. Stages \subseteq Running \ {"check"}
      BY DEF Stages, Running
    <3> QED
      BY <3>1, <3>2 DEF At
  <2>3. Resting(D) /\ (D \in DOMAIN adjustments => Distinct(adjustments[D].lines))
    BY <2>1, <2>2 DEF BookOf
  <2>4. Works(c, label, next)
    BY <2>1, <2>3
  <2>5. Works(c, label, next)'
    BY <1>2, <1>4, <1>5, <2>4, WorksOn
  <2>6. Works(c, pc[c], call[c])' /\ At(c, D)'
    BY <1>2, <2>5 DEF At
  <2> QED
    BY <1>1, <1>2, <2>1, <2>2, <2>3, <2>6, OwnBook
<1> QED
  BY <1>1, <1>2, <1>3, <1>4, <1>6, StepBooks

(* A call at work goes on and writes nothing.                              *)
LEMMA QuietBooks ==
  ASSUME Inv, Books, NEW c \in Calls, pc[c] \in Stages, NEW D, D = call[c].doc, NEW label \in Stages,
         NEW next, pc' = [pc EXCEPT ![c] = label], call' = [call EXCEPT ![c] = next],
         next.doc = D, next.op = call[c].op, next.items = call[c].items,
         UNCHANGED <<adjustments, moved, disturbed>>,
         D \in Calls \ disturbed /\ BookOf(D) /\ Works(c, pc[c], call[c]) => Works(c, label, next)
  PROVE  Books'
<1>1. call'[c] = next /\ \A d : Same(d)
  BY UnchangedSame DEF Inv, CallsPlaced
<1>2. ASSUME D \in Calls \ disturbed', BookOf(D), Works(c, pc[c], call[c])
      PROVE  /\ D \in DOMAIN adjustments' => Distinct(adjustments'[D].lines)
             /\ Works(c, label, next)'
  <2>1. At(c, D)
    BY DEF At
  <2>2. /\ call[c].op # "create" => D \in DOMAIN adjustments
        /\ call[c].op \in {"create", "update", "archive", "restore"}
    BY <1>2, <2>1, AtFacts
  <2>3. Works(c, label, next)
    BY <1>2
  <2>4. Works(c, label, next)'
    BY <1>1, <2>2, <2>3, WorksOn
  <2> QED
    BY <1>2, <2>4 DEF BookOf
<1> QED
  BY <1>1, <1>2, WorkBooks

(* Where nothing is still being moved.                                     *)
LEMMA QuantityNone == \A v, w : Quantity({}, v, w) = 0
BY QuantityNowhere

(* What has been moved is a number.                                        *)
LEMMA RestingTyped ==
  ASSUME Inv, NEW d \in Calls, NEW v, NEW w
  PROVE  /\ Says(d, v, w) \in Int
         /\ d \in DOMAIN adjustments => Quantity(adjustments[d].lines, v, w) \in Int
<1>1. d \in DOMAIN adjustments => Quantity(adjustments[d].lines, v, w) \in Int
  BY DocumentTyped, QuantityType DEF Inv
<1> QED
  BY <1>1 DEF Says, Counted

(* create: nothing was moved for a document that is not there.             *)
LEMMA BeginCreateBooks ==
  ASSUME Inv, Books, NEW c \in Calls, BeginCreate(c)
  PROVE  Books'
<1> DEFINE r == call[c]
<1>1. PICK moves : moves = Lines(c, DOMAIN r.items)
  OBVIOUS
<1>2. PICK next : next = [r EXCEPT !.moves = moves, !.header = TRUE]
  OBVIOUS
<1>3. r.op = "create" /\ Begin(c, "move", next) /\ pc[c] = "check"
  BY <1>1, <1>2 DEF BeginCreate, Begin
<1>4. r \in CallRow /\ r.doc = c /\ r.items \in Items /\ r.items # None
  BY <1>3, CallFacts, ItemsAssumption DEF Inv, Placed, Items
<1>5. /\ next.doc = c /\ next.op = "create" /\ next.items = r.items /\ next.moves = moves
      /\ next.header = TRUE /\ next.ok = r.ok
  BY <1>2, <1>3, <1>4 DEF CallRow
<1>6. "move" \in Stages
  BY DEF Stages
<1>7. c \notin DOMAIN adjustments /\ r.ok
  BY <1>3 DEF Books
<1>8. ASSUME ~ Irregular(c), Resting(c)
      PROVE  Works(c, "move", next)
  <2>1. ~ Twice(r.items)
    BY <1>4, <1>8 DEF Irregular
  <2>2. Distinct(moves) /\ moves \in SUBSET LineRow
    BY <1>1, <1>4, <2>1, LinesDistinct, LinesTyped
  <2>3. Knows(c, "move", next)
    BY <1>5, <1>7, <2>1 DEF Knows
  <2>4. ASSUME NEW v \in Variants, NEW w \in Warehouses
        PROVE  moved[next.doc][v][w] + Quantity(next.moves, v, w) = Aim(c, "move", next, v, w)
    <3>1. moved[c][v][w] = 0
      BY <1>7, <1>8 DEF Resting, Says, Counted
    <3>2. Quantity(moves, v, w) \in Int
      BY <2>2, QuantityType
    <3>3. Aim(c, "move", next, v, w) = Quantity(moves, v, w)
      BY <1>1, <1>5 DEF Aim
    <3> QED
      BY <1>5, <3>1, <3>2, <3>3
  <2> QED
    BY <1>5, <1>7, <2>2, <2>3, <2>4 DEF Works
<1> QED
  BY <1>3, <1>4, <1>5, <1>6, <1>8, BeginBooks

(* update: the old lines are those of the document.                        *)
LEMMA BeginUpdateBooks ==
  ASSUME Inv, Books, NEW c \in Calls, BeginUpdate(c)
  PROVE  Books'
<1> DEFINE r == call[c]
<1>1. PICK D : D = r.doc
  OBVIOUS
<1>2. PICK label : label = IF r.items = None THEN "header" ELSE "find"
  OBVIOUS
<1>3. PICK old \in OnePerRow(adjustments[D].lines) : Begin(c, label, [r EXCEPT !.old = old, !.header = TRUE])
  BY <1>1, <1>2 DEF BeginUpdate
<1>4. PICK next : next = [r EXCEPT !.old = old, !.header = TRUE]
  OBVIOUS
<1>5. r.op = "update" /\ D \in DOMAIN adjustments /\ Begin(c, label, next) /\ pc[c] = "check"
  BY <1>1, <1>3, <1>4 DEF BeginUpdate, Begin, Admitted
<1>6. r \in CallRow /\ r.moves = {}
  BY <1>5, CallFacts DEF Inv, Placed, Stages
<1>7. /\ next.doc = D /\ next.op = "update" /\ next.items = r.items /\ next.moves = {}
      /\ next.ok = r.ok /\ next.old = old
  BY <1>1, <1>4, <1>5, <1>6 DEF CallRow
<1>8. label \in Stages
  BY <1>2 DEF Stages
<1>9. r.ok
  BY <1>5 DEF Books
<1>10. ASSUME D \in Calls \ disturbed, ~ Irregular(c), Resting(D), Distinct(adjustments[D].lines)
       PROVE  Works(c, label, next)
  <2>1. r.items # None => ~ Twice(r.items) /\ ~ adjustments[D].isArchived
    BY <1>1, <1>5, <1>10 DEF Irregular
  <2>2. old = adjustments[D].lines
    BY <1>10, ChosenAll
  <2>3. Knows(c, label, next)
    BY <1>2, <1>7, <2>1, <2>2 DEF Knows
  <2>4. ASSUME NEW v \in Variants, NEW w \in Warehouses
        PROVE  moved[next.doc][v][w] + Quantity(next.moves, v, w) = Aim(c, label, next, v, w)
    <3>1. moved[D][v][w] = Says(D, v, w) /\ Says(D, v, w) \in Int
      BY <1>10, RestingTyped DEF Resting
    <3>2. Aim(c, label, next, v, w) = Says(D, v, w)
      BY <1>2, <1>7 DEF Aim
    <3>3. Quantity(next.moves, v, w) = 0
      BY <1>7, QuantityNone
    <3> QED
      BY <1>7, <3>1, <3>2, <3>3
  <2>5. Distinct(next.moves)
    BY <1>7 DEF Distinct
  <2> QED
    BY <1>7, <1>9, <2>3, <2>4, <2>5 DEF Works
<1> QED
  BY <1>1, <1>5, <1>7, <1>8, <1>10, BeginBooks

(* archive and restore: nothing is being moved yet.                        *)
LEMMA BeginArchiveBooks ==
  ASSUME Inv, Books, NEW c \in Calls, BeginArchive(c)
  PROVE  Books'
<1> DEFINE r == call[c]
<1>1. PICK D : D = r.doc
  OBVIOUS
<1>2. /\ r.op \in {"archive", "restore"} /\ D \in DOMAIN adjustments
      /\ Begin(c, "find", r) /\ pc[c] = "check"
  BY <1>1 DEF BeginArchive, Begin, Admitted
<1>3. r \in CallRow /\ r.moves = {} /\ r.header = FALSE
  BY <1>2, CallFacts DEF Inv, Placed, Stages
<1>4. r.ok
  BY <1>2 DEF Books
<1>5. "find" \in Stages
  BY DEF Stages
<1>6. ASSUME D \in Calls \ disturbed, ~ Irregular(c), Resting(D)
      PROVE  Works(c, "find", r)
  <2>1. r.op = "archive" => ~ adjustments[D].isArchived
    BY <1>1, <1>6 DEF Irregular
  <2>2. r.op = "restore" => adjustments[D].isArchived
    BY <1>1, <1>6 DEF Irregular
  <2>3. Knows(c, "find", r)
    BY <1>1, <1>2, <1>3, <2>1, <2>2 DEF Knows
  <2>4. ASSUME NEW v \in Variants, NEW w \in Warehouses
        PROVE  moved[r.doc][v][w] + Quantity(r.moves, v, w) = Aim(c, "find", r, v, w)
    <3>1. moved[D][v][w] = Says(D, v, w) /\ Says(D, v, w) \in Int
      BY <1>6, RestingTyped DEF Resting
    <3>2. Aim(c, "find", r, v, w) = Says(D, v, w)
      BY <1>1 DEF Aim
    <3>3. Quantity(r.moves, v, w) = 0
      BY <1>3, QuantityNone
    <3> QED
      BY <1>1, <3>1, <3>2, <3>3
  <2>5. Distinct(r.moves)
    BY <1>3 DEF Distinct
  <2> QED
    BY <1>3, <1>4, <2>3, <2>4, <2>5 DEF Works
<1> QED
  BY <1>1, <1>2, <1>5, <1>6, BeginBooks
-----------------------------------------------------------------------------
(* The books while a handler works. *)

(* What has been moved of an undisturbed document.                         *)
LEMMA MovedTyped ==
  ASSUME Tracked, NEW d \in Calls, NEW v \in Variants, NEW w \in Warehouses
  PROVE  moved[d][v][w] \in Int
BY DEF Tracked

(* The lines are read, to be taken back or to be brought again.            *)
LEMMA FindLinesBooks ==
  ASSUME Inv, Books, Tracked, NEW c \in Calls, FindLines(c)
  PROVE  Books'
<1>1. PICK r, D : r = call[c] /\ D = r.doc
  OBVIOUS
<1>2. PICK lines \in OnePerRow(adjustments[D].lines) :
        call' = [call EXCEPT ![c].moves = IF r.op = "restore" THEN lines ELSE Negated(lines),
                             ![c].header = @ \/ r.op = "restore"]
  BY <1>1 DEF FindLines
<1>3. PICK moves : moves = IF r.op = "restore" THEN lines ELSE Negated(lines)
  OBVIOUS
<1>4. PICK h : h = (r.header \/ r.op = "restore")
  OBVIOUS
<1>5. PICK next : next = [r EXCEPT !.moves = moves, !.header = h]
  OBVIOUS
<1>6. r \in CallRow /\ r.header \in BOOLEAN
  BY <1>1, CallFacts DEF Inv
<1>7. /\ pc[c] = "find" /\ pc' = [pc EXCEPT ![c] = "move"] /\ call' = [call EXCEPT ![c] = next]
      /\ UNCHANGED <<adjustments, moved, disturbed>>
  BY <1>1, <1>2, <1>3, <1>4, <1>5, <1>6 DEF FindLines, Goto, tables, Inv, CallsPlaced, CallRow
<1>8. /\ next.op = r.op /\ next.doc = D /\ next.items = r.items /\ next.header = h
      /\ next.moves = moves /\ next.ok = r.ok /\ next.old = r.old
  BY <1>1, <1>5, <1>6 DEF CallRow
<1>9. "move" \in Stages /\ pc[c] \in Stages
  BY <1>7 DEF Stages
<1>10. ASSUME D \in Calls \ disturbed, BookOf(D), Works(c, pc[c], r)
       PROVE  Works(c, "move", next)
  <2>1. At(c, D)
    BY <1>1, <1>9 DEF At
  <2>2. /\ r.op \in {"create", "update", "archive", "restore"}
        /\ r.op # "create" => D \in DOMAIN adjustments
    BY <1>1, <1>10, <2>1, AtFacts
  <2>3. r.op # "create" /\ D \in DOMAIN adjustments
    BY <1>7, <1>10, <2>2 DEF Works, Knows
  <2>4. Distinct(adjustments[D].lines) /\ adjustments[D].lines \in SUBSET LineRow
    BY <1>10, <2>3, DocumentTyped DEF BookOf, Inv
  <2>5. lines = adjustments[D].lines
    BY <2>4, ChosenAll
  <2>6. Distinct(moves)
    BY <1>3, <2>4, <2>5, QuantityNegated
  <2>7. Knows(c, "find", r)
    BY <1>7, <1>10 DEF Works
  <2>8. Knows(c, "move", next)
    BY <1>1, <1>4, <1>8, <2>2, <2>3, <2>7 DEF Knows
  <2>9. adjustments[D].isArchived <=> r.op = "restore"
    BY <1>1, <2>2, <2>3, <2>7 DEF Knows
  <2>10. ASSUME NEW v \in Variants, NEW w \in Warehouses
         PROVE  moved[D][v][w] + Quantity(moves, v, w) = Aim(c, "move", next, v, w)
    <3>1. moved[D][v][w] \in Int /\ Quantity(lines, v, w) \in Int
      BY <1>10, <2>4, <2>5, MovedTyped, QuantityType
    <3>2. moved[D][v][w] + Quantity(r.moves, v, w) = Says(D, v, w) /\ r.moves = {}
      BY <1>1, <1>7, <1>10 DEF Works, Aim
    <3>3. moved[D][v][w] = Says(D, v, w)
      BY <3>1, <3>2, QuantityNone
    <3>4. CASE r.op = "restore"
      <4>1. Says(D, v, w) = 0 /\ moves = lines
        BY <1>3, <2>9, <3>4 DEF Says, Counted
      <4>2. Aim(c, "move", next, v, w) = Quantity(lines, v, w)
        BY <1>8, <2>5, <3>4 DEF Aim
      <4> QED
        BY <3>1, <3>3, <4>1, <4>2
    <3>5. CASE r.op # "restore"
      <4>1. Says(D, v, w) = Quantity(lines, v, w)
        BY <2>3, <2>5, <2>9, <3>5 DEF Says, Counted
      <4>2. Quantity(moves, v, w) = 0 - Quantity(lines, v, w)
        BY <1>3, <2>4, <2>5, <3>5, QuantityNegated
      <4>3. Aim(c, "move", next, v, w) = 0
        BY <1>8, <2>3, <3>5 DEF Aim
      <4> QED
        BY <3>1, <3>3, <4>1, <4>2, <4>3
    <3> QED
      BY <3>4, <3>5
  <2> QED
    BY <1>8, <1>10, <2>6, <2>8, <2>10 DEF Works
<1> QED
  BY <1>1, <1>7, <1>8, <1>9, <1>10, QuietBooks

(* The lines are read again, to be brought as they are now.                *)
LEMMA FindNewLinesBooks ==
  ASSUME Inv, Books, Tracked, NEW c \in Calls, FindNewLines(c)
  PROVE  Books'
<1>1. PICK r, D : r = call[c] /\ D = r.doc
  OBVIOUS
<1>2. PICK lines \in OnePerRow(adjustments[D].lines) : call' = [call EXCEPT ![c].moves = lines]
  BY <1>1 DEF FindNewLines
<1>3. PICK next : next = [r EXCEPT !.moves = lines]
  OBVIOUS
<1>4. r \in CallRow
  BY <1>1, CallFacts DEF Inv
<1>5. /\ pc[c] = "findNew" /\ pc' = [pc EXCEPT ![c] = "moveNew"] /\ call' = [call EXCEPT ![c] = next]
      /\ UNCHANGED <<adjustments, moved, disturbed>>
  BY <1>1, <1>2, <1>3 DEF FindNewLines, Goto, tables
<1>6. /\ next.op = r.op /\ next.doc = D /\ next.items = r.items
      /\ next.moves = lines /\ next.ok = r.ok /\ next.old = r.old
  BY <1>1, <1>3, <1>4 DEF CallRow
<1>7. "moveNew" \in Stages /\ pc[c] \in Stages
  BY <1>5 DEF Stages
<1>8. ASSUME D \in Calls \ disturbed, BookOf(D), Works(c, pc[c], r)
      PROVE  Works(c, "moveNew", next)
  <2>1. r.op = "update" /\ D \in DOMAIN adjustments
    BY <1>1, <1>5, <1>7, CallFacts DEF Inv, Placed
  <2>2. Distinct(adjustments[D].lines) /\ adjustments[D].lines \in SUBSET LineRow
    BY <1>8, <2>1, DocumentTyped DEF BookOf, Inv
  <2>3. lines = adjustments[D].lines
    BY <2>2, ChosenAll
  <2>4. Knows(c, "findNew", r)
    BY <1>5, <1>8 DEF Works
  <2>5. Knows(c, "moveNew", next)
    BY <1>1, <1>6, <2>1, <2>4 DEF Knows
  <2>6. ASSUME NEW v \in Variants, NEW w \in Warehouses
        PROVE  moved[D][v][w] + Quantity(lines, v, w) = Aim(c, "moveNew", next, v, w)
    <3>1. moved[D][v][w] \in Int /\ Quantity(lines, v, w) \in Int
      BY <1>8, <2>2, <2>3, MovedTyped, QuantityType
    <3>2. moved[D][v][w] + Quantity(r.moves, v, w) = 0 /\ r.moves = {}
      BY <1>1, <1>5, <1>8, <2>1 DEF Works, Aim
    <3>3. moved[D][v][w] = 0
      BY <3>1, <3>2, QuantityNone
    <3>4. Aim(c, "moveNew", next, v, w) = Quantity(lines, v, w)
      BY <1>6, <2>3 DEF Aim
    <3> QED
      BY <3>1, <3>3, <3>4
  <2> QED
    BY <1>6, <1>8, <2>2, <2>3, <2>5, <2>6 DEF Works
<1> QED
  BY <1>1, <1>5, <1>6, <1>7, <1>8, QuietBooks

(* update: what the document brought has been taken back.                  *)
LEMMA ContinueBooks ==
  ASSUME Inv, Books, NEW c \in Calls, ContinueUpdate(c)
  PROVE  Books'
<1>1. PICK r, D : r = call[c] /\ D = r.doc
  OBVIOUS
<1>2. /\ pc[c] = "move" /\ r.op = "update" /\ r.moves = {} /\ UNCHANGED <<adjustments, moved, disturbed>>
      /\ pc' = [pc EXCEPT ![c] = "lines"] /\ call' = [call EXCEPT ![c] = r]
  BY <1>1 DEF ContinueUpdate, AllMoved, Goto, tables, Inv, CallsPlaced
<1>3. "lines" \in Stages /\ pc[c] \in Stages
  BY <1>2 DEF Stages
<1>4. ASSUME Works(c, pc[c], r)
      PROVE  Works(c, "lines", r)
  <2>1. Knows(c, "lines", r)
    BY <1>2, <1>4 DEF Works, Knows
  <2>2. \A v, w : Aim(c, "lines", r, v, w) = Aim(c, "move", r, v, w)
    BY <1>2 DEF Aim
  <2> QED
    BY <1>2, <1>4, <2>1, <2>2 DEF Works
<1> QED
  BY <1>1, <1>2, <1>3, <1>4, QuietBooks

(* An update of a quantity moves what was to be moved.                     *)
LEMMA UpdateQuantityBooks ==
  ASSUME Inv, Books, Tracked, NEW c \in Calls, UpdateQuantity(c)
  PROVE  Books'
<1>1. PICK r, D, label : r = call[c] /\ D = r.doc /\ label = pc[c]
  OBVIOUS
<1>2. PICK m \in r.moves : Move(c, m)
  BY <1>1 DEF UpdateQuantity
<1>3. PICK rest : rest = r.moves \ {m}
  OBVIOUS
<1>4. PICK next : next = [r EXCEPT !.moves = rest]
  OBVIOUS
<1>5. r \in CallRow /\ Placed(c, label, r) /\ r.moves \in SUBSET LineRow
  BY <1>1, CallFacts DEF Inv
<1>6. /\ pc' = [pc EXCEPT ![c] = label] /\ call' = [call EXCEPT ![c] = next]
      /\ UNCHANGED <<adjustments, disturbed>>
      /\ moved' = [moved EXCEPT ![D][m.variant][m.warehouse] = @ + m.quantity]
  BY <1>1, <1>2, <1>3, <1>4 DEF Move, Inv, CallsPlaced
<1>7. /\ next.op = r.op /\ next.doc = D /\ next.items = r.items /\ next.header = r.header
      /\ next.moves = rest /\ next.ok = r.ok /\ next.old = r.old
  BY <1>1, <1>4, <1>5 DEF CallRow
<1>8. label \in Stages
  BY <1>2, <1>5 DEF Placed
<1>9. \A d \in Calls \ {D} : Same(d)
  BY <1>6 DEF Same, Tracked
<1>10. ASSUME D \in Calls \ disturbed', BookOf(D), Works(c, label, r)
       PROVE  /\ D \in DOMAIN adjustments' => Distinct(adjustments'[D].lines)
              /\ Works(c, label, next)'
  <2>1. D \in DOMAIN adjustments' => Distinct(adjustments'[D].lines)
    BY <1>6, <1>10 DEF BookOf
  <2>2. \A K : Lines(c, K)' = Lines(c, K)
    BY <1>1, <1>6, <1>7 DEF Lines, Inv, CallsPlaced
  <2>3. Knows(c, label, r)
    BY <1>10 DEF Works
  <2>4. Knows(c, label, next)'
    BY <1>1, <1>6, <1>7, <2>2, <2>3 DEF Knows
  <2>5. label \in {"move", "moveNew"}
    BY <1>2, <1>10 DEF Works
  <2>6. Distinct(rest)
    BY <1>3, <1>10 DEF Works, Distinct
  <2>7. ASSUME NEW v \in Variants, NEW w \in Warehouses
        PROVE  moved'[D][v][w] + Quantity(rest, v, w) = Aim(c, label, next, v, w)'
    <3>1. Aim(c, label, next, v, w)' = Aim(c, label, r, v, w)
      BY <1>1, <1>6, <1>7, <2>2, <2>5 DEF Aim
    <3>2. moved[D][v][w] + Quantity(r.moves, v, w) = Aim(c, label, r, v, w)
      BY <1>1, <1>10 DEF Works
    <3>3. PICK q : q = IF m.variant = v /\ m.warehouse = w THEN m.quantity ELSE 0
      OBVIOUS
    <3>4. Quantity(r.moves, v, w) = Quantity(rest, v, w) + q
      BY <1>3, <1>5, <1>10, <3>3, QuantityLess DEF Works
    <3>5. m.variant \in Variants /\ m.warehouse \in Warehouses /\ m.quantity \in Int
      BY <1>5 DEF LineRow
    <3>6. moved[D][v][w] \in Int
      BY <1>10, MovedTyped
    <3>7. moved'[D][v][w] = moved[D][v][w] + q
      BY <1>6, <1>10, <3>3, <3>5, <3>6 DEF Tracked
    <3>8. Quantity(rest, v, w) \in Int /\ q \in Int
      BY <1>3, <1>5, <3>3, <3>5, QuantityType
    <3> QED
      BY <3>1, <3>2, <3>4, <3>6, <3>7, <3>8
  <2>8. Works(c, label, next)'
    BY <1>7, <1>10, <2>4, <2>5, <2>6, <2>7 DEF Works
  <2> QED
    BY <2>1, <2>8
<1> QED
  BY <1>1, <1>6, <1>7, <1>8, <1>9, <1>10, WorkBooks

(* A call that still has to write the document itself.                     *)
LEMMA PlacedHeader ==
  ASSUME Inv, NEW c \in Calls, call[c].header
  PROVE  /\ pc[c] \in Stages /\ call[c].op \in {"create", "update", "restore"}
         /\ call[c].op = "create" => call[c].doc = c /\ call[c].items \in Items
         /\ call[c].op # "create" => call[c].doc \in DOMAIN adjustments
BY CallFacts DEF Inv, Placed

(* create: the document appears, with the lines that are being moved.      *)
LEMMA InsertBooks ==
  ASSUME Inv, Books, NEW c \in Calls, WriteHeader(c), call[c].op = "create"
  PROVE  Books'
<1>1. PICK r, label, next : r = call[c] /\ label = pc[c] /\ next = [r EXCEPT !.header = FALSE]
  OBVIOUS
<1>2. PICK lines : lines = Lines(c, DOMAIN r.items)
  OBVIOUS
<1>3. /\ label \in Stages /\ r.op = "create" /\ r.doc = c /\ r.items \in Items /\ r.header
  BY <1>1, PlacedHeader DEF WriteHeader
<1>4. /\ pc' = [pc EXCEPT ![c] = label] /\ call' = [call EXCEPT ![c] = next] /\ UNCHANGED <<moved, disturbed>>
      /\ adjustments' = Put(adjustments, c, [reason |-> r.reason, isArchived |-> FALSE, lines |-> lines])
  BY <1>1, <1>2, <1>3 DEF WriteHeader, Inv, CallsPlaced
<1>5. r \in CallRow
  BY <1>1, CallFacts DEF Inv
<1>6. /\ next.op = "create" /\ next.doc = c /\ next.items = r.items /\ next.header = FALSE
      /\ next.moves = r.moves /\ next.ok = r.ok
  BY <1>1, <1>3, <1>5 DEF CallRow
<1>7. /\ DOMAIN adjustments' = DOMAIN adjustments \cup {c}
      /\ adjustments'[c].lines = lines /\ adjustments'[c].isArchived = FALSE
      /\ \A d \in DOMAIN adjustments \ {c} : adjustments'[d] = adjustments[d]
  BY <1>4 DEF Put
<1>8. \A d \in Calls \ {c} : Same(d)
  BY <1>4, <1>7 DEF Same
<1>9. Lines(c, DOMAIN r.items)' = lines
  BY <1>1, <1>2, <1>4, <1>6 DEF Lines, Inv, CallsPlaced
<1>10. ASSUME c \in Calls \ disturbed', BookOf(c), Works(c, label, r)
       PROVE  /\ c \in DOMAIN adjustments' => Distinct(adjustments'[c].lines)
              /\ Works(c, label, next)'
  <2>1. Knows(c, label, r)
    BY <1>10 DEF Works
  <2>2. label = "move" /\ ~ Twice(r.items)
    BY <1>3, <2>1 DEF Knows
  <2>3. Distinct(lines)
    BY <1>1, <1>2, <1>3, <2>2, LinesDistinct
  <2>4. Knows(c, label, next)'
    BY <1>6, <1>7, <1>9, <2>2 DEF Knows
  <2>5. ASSUME NEW v, NEW w PROVE Aim(c, label, next, v, w)' = Aim(c, label, r, v, w)
    BY <1>2, <1>3, <1>6, <1>9, <2>2 DEF Aim
  <2>6. Works(c, label, next)'
    BY <1>3, <1>4, <1>6, <1>10, <2>4, <2>5 DEF Works
  <2> QED
    BY <1>7, <2>3, <2>6
<1>11. /\ pc[c] \in Stages /\ c = call[c].doc /\ next.doc = c /\ next.op = call[c].op
       /\ DOMAIN adjustments' \subseteq DOMAIN adjustments \cup {c} /\ disturbed \subseteq disturbed'
       /\ pc' = [pc EXCEPT ![c] = label] /\ call' = [call EXCEPT ![c] = next]
  BY <1>1, <1>3, <1>4, <1>6, <1>7
<1> QED
  BY <1>1, <1>3, <1>8, <1>10, <1>11, WorkBooks

(* update: the reason is written.                                          *)
LEMMA RewriteBooks ==
  ASSUME Inv, Books, NEW c \in Calls, WriteHeader(c), call[c].op = "update"
  PROVE  Books'
<1>1. PICK r, label, next, D : r = call[c] /\ label = pc[c] /\ next = [r EXCEPT !.header = FALSE] /\ D = r.doc
  OBVIOUS
<1>2. label \in Stages /\ r.op = "update" /\ D \in DOMAIN adjustments
  BY <1>1, PlacedHeader DEF WriteHeader
<1>3. /\ pc' = [pc EXCEPT ![c] = label] /\ call' = [call EXCEPT ![c] = next] /\ UNCHANGED <<moved, disturbed>>
      /\ adjustments' = [adjustments EXCEPT ![D].reason = IF r.reason = None THEN @ ELSE r.reason]
  BY <1>1, <1>2 DEF WriteHeader, Inv, CallsPlaced
<1>4. r \in CallRow /\ adjustments[D] \in Adjustment
  BY <1>1, <1>2, CallFacts DEF Inv, TablesTyped
<1>5. /\ next.op = "update" /\ next.doc = D /\ next.items = r.items /\ next.old = r.old
      /\ next.moves = r.moves /\ next.ok = r.ok
  BY <1>1, <1>2, <1>4 DEF CallRow
<1>6. \A d \in Calls : Same(d)
  BY <1>2, <1>3, <1>4 DEF Same, Adjustment
<1>7. DOMAIN adjustments' = DOMAIN adjustments /\ call'[c] = next
  BY <1>1, <1>3 DEF Inv, CallsPlaced
<1>8. ASSUME D \in Calls \ disturbed', BookOf(D), Works(c, label, r)
      PROVE  /\ D \in DOMAIN adjustments' => Distinct(adjustments'[D].lines)
             /\ Works(c, label, next)'
  <2>0. Knows(c, label, r)
    BY <1>8 DEF Works
  <2>1. Knows(c, label, next)
    BY <1>1, <1>2, <1>5, <2>0 DEF Knows
  <2>2. \A v, w : Aim(c, label, next, v, w) = Aim(c, label, r, v, w)
    BY <1>1, <1>2, <1>5 DEF Aim
  <2>3. Works(c, label, next)
    <3>1. next.moves = r.moves /\ next.ok = r.ok /\ next.doc = r.doc /\ Works(c, label, r)
      BY <1>1, <1>5, <1>8
    <3> QED
      BY <2>1, <2>2, <3>1 DEF Works
  <2>4. /\ D = next.doc /\ Same(D) /\ D \in DOMAIN adjustments /\ call'[c].items = call[c].items
        /\ next.op \in {"create", "update", "archive", "restore"}
    BY <1>1, <1>2, <1>5, <1>6, <1>7, <1>8
  <2>5. Works(c, label, next)'
    BY <2>3, <2>4, WorksOn
  <2>6. D \in DOMAIN adjustments' => Distinct(adjustments'[D].lines)
    BY <1>6, <1>8 DEF BookOf, Same
  <2> QED
    BY <2>5, <2>6
<1>9. /\ pc[c] \in Stages /\ D = call[c].doc /\ next.doc = D /\ next.op = call[c].op
      /\ DOMAIN adjustments' \subseteq DOMAIN adjustments \cup {c} /\ disturbed \subseteq disturbed'
      /\ pc' = [pc EXCEPT ![c] = label] /\ call' = [call EXCEPT ![c] = next]
  BY <1>1, <1>2, <1>3, <1>5, <1>7
<1> QED
  BY <1>1, <1>2, <1>6, <1>8, <1>9, WorkBooks

(* restore: the document is no longer archived.                            *)
LEMMA RestoreBooks ==
  ASSUME Inv, Books, NEW c \in Calls, WriteHeader(c), call[c].op = "restore"
  PROVE  Books'
<1>1. PICK r, label, next, D : r = call[c] /\ label = pc[c] /\ next = [r EXCEPT !.header = FALSE] /\ D = r.doc
  OBVIOUS
<1>2. label \in Stages /\ r.op = "restore" /\ D \in DOMAIN adjustments /\ r.header
  BY <1>1, PlacedHeader DEF WriteHeader
<1>3. /\ pc' = [pc EXCEPT ![c] = label] /\ call' = [call EXCEPT ![c] = next] /\ UNCHANGED <<moved, disturbed>>
      /\ adjustments' = [adjustments EXCEPT ![D].isArchived = FALSE]
  BY <1>1, <1>2 DEF WriteHeader, Inv, CallsPlaced
<1>4. r \in CallRow /\ adjustments[D] \in Adjustment
  BY <1>1, <1>2, CallFacts DEF Inv, TablesTyped
<1>5. /\ next.op = "restore" /\ next.doc = D /\ next.items = r.items /\ next.header = FALSE
      /\ next.moves = r.moves /\ next.ok = r.ok
  BY <1>1, <1>2, <1>4 DEF CallRow
<1>6. /\ DOMAIN adjustments' = DOMAIN adjustments
      /\ adjustments'[D].lines = adjustments[D].lines /\ adjustments'[D].isArchived = FALSE
      /\ \A d \in DOMAIN adjustments \ {D} : adjustments'[d] = adjustments[d]
  BY <1>2, <1>3, <1>4 DEF Adjustment
<1>7. \A d \in Calls \ {D} : Same(d)
  BY <1>3, <1>6 DEF Same
<1>8. ASSUME D \in Calls \ disturbed', BookOf(D), Works(c, label, r)
      PROVE  /\ D \in DOMAIN adjustments' => Distinct(adjustments'[D].lines)
             /\ Works(c, label, next)'
  <2>1. label = "move"
    BY <1>2, <1>8 DEF Works, Knows
  <2>2. Knows(c, label, next)'
    BY <1>5, <1>6, <2>1 DEF Knows
  <2>3. ASSUME NEW v, NEW w PROVE Aim(c, label, next, v, w)' = Aim(c, label, r, v, w)
    BY <1>1, <1>2, <1>5, <1>6, <2>1 DEF Aim
  <2>4. Works(c, label, next)'
    BY <1>1, <1>3, <1>5, <1>8, <2>1, <2>2, <2>3 DEF Works
  <2> QED
    BY <1>6, <1>8, <2>4 DEF BookOf
<1>9. /\ pc[c] \in Stages /\ D = call[c].doc /\ next.doc = D /\ next.op = call[c].op
      /\ DOMAIN adjustments' \subseteq DOMAIN adjustments \cup {c} /\ disturbed \subseteq disturbed'
      /\ pc' = [pc EXCEPT ![c] = label] /\ call' = [call EXCEPT ![c] = next]
  BY <1>1, <1>2, <1>3, <1>5, <1>6
<1> QED
  BY <1>1, <1>2, <1>7, <1>8, <1>9, WorkBooks

(* The statement of the document, of whichever handler.                    *)
LEMMA WriteHeaderBooks ==
  ASSUME Inv, Books, NEW c \in Calls, WriteHeader(c)
  PROVE  Books'
<1>1. call[c].op \in {"create", "update", "restore"}
  BY PlacedHeader DEF WriteHeader
<1> QED
  BY <1>1, InsertBooks, RewriteBooks, RestoreBooks

(* update: the lines are written, and say what the client sent.            *)
LEMMA WriteLinesBooks ==
  ASSUME Inv, Books, NEW c \in Calls, WriteLines(c)
  PROVE  Books'
<1>1. PICK r, D, items : r = call[c] /\ D = r.doc /\ items = r.items
  OBVIOUS
<1>2. /\ pc[c] = "lines" /\ pc' = [pc EXCEPT ![c] = "findNew"] /\ call' = [call EXCEPT ![c] = r]
      /\ UNCHANGED <<moved, disturbed>>
  BY <1>1 DEF WriteLines, Goto, Inv, CallsPlaced
<1>3. "findNew" \in Stages /\ pc[c] \in Stages
  BY <1>2 DEF Stages
<1>4. r.op = "update" /\ D \in DOMAIN adjustments /\ items \in Items
  BY <1>1, <1>2, <1>3, CallFacts DEF Inv, Placed
<1>5. PICK written : adjustments' = [adjustments EXCEPT ![D].lines = written]
  BY <1>1 DEF WriteLines
<1>6. /\ DOMAIN adjustments' = DOMAIN adjustments
      /\ \A d \in DOMAIN adjustments \ {D} : adjustments'[d] = adjustments[d]
  BY <1>5
<1>7. \A d \in Calls \ {D} : Same(d)
  BY <1>2, <1>6 DEF Same
<1>8. ASSUME D \in Calls \ disturbed', BookOf(D), Works(c, "lines", r)
      PROVE  /\ D \in DOMAIN adjustments' => Distinct(adjustments'[D].lines)
             /\ Works(c, "findNew", r)'
  <2>1. Knows(c, "lines", r)
    BY <1>8 DEF Works
  <2>2. items # None
    BY <1>1, <1>4, <2>1 DEF Knows
  <2>3. /\ r.old = adjustments[D].lines /\ ~ adjustments[D].isArchived /\ ~ Twice(items)
    BY <1>1, <1>4, <2>1, <2>2 DEF Knows
  <2>4. Distinct(adjustments[D].lines)
    BY <1>4, <1>8 DEF BookOf
  <2>5. /\ Distinct(adjustments'[D].lines) /\ Shown(adjustments'[D].lines) = ToSet(items)
        /\ adjustments'[D].isArchived = adjustments[D].isArchived
    BY <1>1, <1>4, <2>3, <2>4, WrittenLines
  <2>6. Shown(adjustments[D].lines)' = ToSet(items)
    BY <1>1, <2>5 DEF Shown
  <2>7. Knows(c, "findNew", r)'
    BY <1>1, <1>4, <2>2, <2>3, <2>5, <2>6 DEF Knows
  <2>8. ASSUME NEW v, NEW w PROVE Aim(c, "findNew", r, v, w)' = Aim(c, "lines", r, v, w)
    BY <1>4 DEF Aim
  <2>9. r.moves = {}
    BY <1>8 DEF Works
  <2>10. Works(c, "findNew", r)'
    BY <1>2, <1>8, <2>7, <2>8, <2>9 DEF Works
  <2> QED
    BY <2>5, <2>10
<1> QED
  BY <1>1, <1>2, <1>3, <1>6, <1>7, <1>8, WorkBooks

(* A statement that fails disturbs its document.                           *)
LEMMA FailBooks ==
  ASSUME Inv, Books, NEW c \in Calls, pc[c] \in Stages, NEW next, Fail(c, next),
         next \in CallRow, next.doc = call[c].doc, next.op = call[c].op
  PROVE  Books'
<1>1. PICK label, failed, D : label = pc[c] /\ failed = [next EXCEPT !.ok = FALSE] /\ D = call[c].doc
  OBVIOUS
<1>2. /\ pc' = [pc EXCEPT ![c] = label] /\ call' = [call EXCEPT ![c] = failed]
      /\ UNCHANGED <<adjustments, moved>> /\ disturbed' = disturbed \cup {D}
  BY <1>1 DEF Fail, Disturb, tables, Inv, CallsPlaced
<1>3. failed.doc = D /\ failed.op = call[c].op
  BY <1>1 DEF CallRow
<1> QED
  BY <1>1, <1>2, <1>3, UnchangedSame, WorkBooks

(* Each statement that may fail.                                           *)
LEMMA LoseBooks ==
  ASSUME Inv, Books, NEW c \in Calls, Lose(c)
  PROVE  Books'
<1>1. call[c] \in CallRow /\ Placed(c, pc[c], call[c]) /\ call[c].moves \in SUBSET LineRow
  BY CallFacts DEF Inv
<1>2. CASE LoseMove(c)
  <2>1. PICK m \in call[c].moves : Fail(c, [call[c] EXCEPT !.moves = @ \ {m}])
    BY <1>2 DEF LoseMove
  <2>2. PICK rest, next : rest = call[c].moves \ {m} /\ next = [call[c] EXCEPT !.moves = rest]
    OBVIOUS
  <2>3. Fail(c, next) /\ next \in CallRow /\ next.doc = call[c].doc /\ next.op = call[c].op
    BY <1>1, <2>1, <2>2 DEF CallRow
  <2>4. pc[c] \in Stages
    BY <1>1, <2>1 DEF Placed
  <2> QED
    BY <2>3, <2>4, FailBooks
<1>3. CASE LoseHeader(c)
  <2>1. PICK next : next = [call[c] EXCEPT !.header = FALSE]
    OBVIOUS
  <2>2. Fail(c, next) /\ next \in CallRow /\ next.doc = call[c].doc /\ next.op = call[c].op
    BY <1>1, <1>3, <2>1 DEF LoseHeader, CallRow
  <2>3. pc[c] \in Stages
    BY <1>1, <1>3 DEF LoseHeader, Placed
  <2> QED
    BY <2>2, <2>3, FailBooks
<1>4. CASE LoseLines(c) \/ LoseArchive(c)
  <2>1. pc[c] \in Stages /\ Fail(c, call[c])
    BY <1>4 DEF LoseLines, LoseArchive, AllMoved, Stages
  <2> QED
    BY <1>1, <2>1, FailBooks
<1> QED
  BY <1>2, <1>3, <1>4 DEF Lose
-----------------------------------------------------------------------------
(* The books when a handler ends. *)

(* archive: all is taken back, and the document says nothing any more.     *)
LEMMA CommitBooks ==
  ASSUME Inv, Books, Tracked, NEW c \in Calls, CommitArchive(c)
  PROVE  Books'
<1>1. PICK r, D : r = call[c] /\ D = r.doc
  OBVIOUS
<1>2. /\ pc[c] = "move" /\ r.op = "archive" /\ r.moves = {} /\ End(c, "done") /\ UNCHANGED <<moved, disturbed>>
      /\ adjustments' = [adjustments EXCEPT ![D].isArchived = TRUE]
  BY <1>1 DEF CommitArchive, AllMoved
<1>3. "done" \in Ended /\ pc[c] \in Stages
  BY <1>2 DEF Ended, Stages
<1>4. D \in DOMAIN adjustments /\ adjustments[D] \in Adjustment
  BY <1>1, <1>2, <1>3, CallFacts DEF Inv, Placed, TablesTyped
<1>5. /\ DOMAIN adjustments' = DOMAIN adjustments
      /\ adjustments'[D].lines = adjustments[D].lines /\ adjustments'[D].isArchived = TRUE
      /\ \A d \in DOMAIN adjustments \ {D} : adjustments'[d] = adjustments[d]
  BY <1>2, <1>4 DEF Adjustment
<1>6. \A d \in Calls \ {D} : Same(d)
  BY <1>2, <1>5 DEF Same
<1>7. ASSUME D \in Calls \ disturbed', BookOf(D), Works(c, pc[c], r)
      PROVE  /\ D \in DOMAIN adjustments' => Distinct(adjustments'[D].lines)
             /\ Resting(D)'
  <2>1. ASSUME NEW v \in Variants, NEW w \in Warehouses PROVE moved[D][v][w] = 0
    <3>1. Aim(c, "move", r, v, w) = 0
      BY <1>2 DEF Aim
    <3>2. moved[D][v][w] + Quantity(r.moves, v, w) = Aim(c, "move", r, v, w)
      BY <1>1, <1>2, <1>7 DEF Works
    <3>3. Quantity(r.moves, v, w) = 0
      BY <1>2, QuantityNone
    <3>4. moved[D][v][w] \in Int
      BY <1>7, MovedTyped
    <3> QED
      BY <3>1, <3>2, <3>3, <3>4
  <2>2. ASSUME NEW v, NEW w PROVE Says(D, v, w)' = 0
    BY <1>5 DEF Says, Counted
  <2>3. Resting(D)'
    BY <1>2, <2>1, <2>2 DEF Resting
  <2> QED
    BY <1>4, <1>5, <1>7, <2>3 DEF BookOf
<1> QED
  BY <1>1, <1>2, <1>3, <1>5, <1>6, <1>7, EndBooks

(* Where a handler that returns is, and what it did.                       *)
LEMMA ReturnFacts ==
  ASSUME Inv, NEW c \in Calls, Return(c), NEW r, r = call[c]
  PROVE  /\ pc[c] \in Stages /\ pc[c] = LastStage(c) /\ r.op \in {"create", "update", "restore"}
         /\ r.moves = {} /\ r.header = FALSE /\ End(c, "done")
         /\ UNCHANGED <<adjustments, moved, disturbed>>
<1>1. r.header \in BOOLEAN
  BY CallFacts DEF Inv
<1>2. LastStage(c) \in Stages
  BY DEF LastStage, Stages
<1> QED
  BY <1>1, <1>2 DEF Return, AllMoved, tables

(* The other handlers return: what they were to move has been moved.       *)
LEMMA ReturnBooks ==
  ASSUME Inv, Books, Tracked, NEW c \in Calls, Return(c)
  PROVE  Books'
<1>1. PICK r, D : r = call[c] /\ D = r.doc
  OBVIOUS
<1>2. /\ pc[c] \in Stages /\ pc[c] = LastStage(c) /\ r.op \in {"create", "update", "restore"}
      /\ r.moves = {} /\ r.header = FALSE /\ End(c, "done")
      /\ UNCHANGED <<adjustments, moved, disturbed>>
  BY <1>1, ReturnFacts
<1>3. ASSUME D \in Calls \ disturbed', BookOf(D), Works(c, pc[c], r)
      PROVE  /\ D \in DOMAIN adjustments' => Distinct(adjustments'[D].lines)
             /\ Resting(D)'
  <2>1. Knows(c, pc[c], r)
    BY <1>3 DEF Works
  <2>2. ASSUME NEW v \in Variants, NEW w \in Warehouses PROVE moved[D][v][w] = Says(D, v, w)
    <3>1. moved[D][v][w] = Aim(c, pc[c], r, v, w)
      <4>1. moved[D][v][w] + Quantity(r.moves, v, w) = Aim(c, pc[c], r, v, w)
        BY <1>1, <1>3 DEF Works
      <4>2. Quantity(r.moves, v, w) = 0
        BY <1>2, QuantityNone
      <4>3. moved[D][v][w] \in Int
        BY <1>3, MovedTyped
      <4> QED
        BY <4>1, <4>2, <4>3
    <3>2. CASE r.op = "create"
      <4>1. /\ pc[c] = "move" /\ D \in DOMAIN adjustments /\ ~ adjustments[D].isArchived
            /\ adjustments[D].lines = Lines(c, DOMAIN r.items)
        BY <1>1, <1>2, <2>1, <3>2 DEF Knows
      <4> QED
        BY <1>1, <3>1, <3>2, <4>1 DEF Aim, Says, Counted
    <3>3. CASE r.op = "restore"
      <4>1. pc[c] = "move" /\ D \in DOMAIN adjustments
        BY <1>1, <1>2, <3>3, CallFacts DEF LastStage, Inv, Placed
      <4>2. ~ adjustments[D].isArchived
        BY <1>1, <1>2, <2>1, <3>3, <4>1 DEF Knows
      <4> QED
        BY <1>1, <3>1, <3>3, <4>1, <4>2 DEF Aim, Says, Counted
    <3>4. CASE r.op = "update" /\ r.items = None
      <4>1. pc[c] = "header"
        BY <1>1, <1>2, <3>4 DEF LastStage
      <4> QED
        BY <1>1, <3>1, <4>1 DEF Aim
    <3>5. CASE r.op = "update" /\ r.items # None
      <4>1. pc[c] = "moveNew" /\ D \in DOMAIN adjustments
        BY <1>1, <1>2, <3>5, CallFacts DEF LastStage, Inv, Placed
      <4>2. ~ adjustments[D].isArchived
        BY <1>1, <2>1, <3>5 DEF Knows
      <4> QED
        BY <1>1, <3>1, <4>1, <4>2 DEF Aim, Says, Counted
    <3> QED
      BY <1>2, <3>2, <3>3, <3>4, <3>5
  <2>3. Resting(D)
    BY <2>2 DEF Resting
  <2>4. Resting(D)'
    BY <1>2, <2>3 DEF Resting, Says, Counted
  <2> QED
    BY <1>2, <1>3, <2>4 DEF BookOf
<1>4. "done" \in Ended /\ \A d \in Calls \ {D} : Same(d)
  BY <1>2, UnchangedSame DEF Ended
<1> QED
  BY <1>1, <1>2, <1>3, <1>4, EndBooks

(* Steps of no call.                                                       *)
LEMMA StillBooks ==
  ASSUME Inv, Books, UNCHANGED <<adjustments, moved, disturbed, pc, call>>
  PROVE  Books'
<1>1. ASSUME NEW d \in Calls \ disturbed' PROVE BookOf(d)'
  <2>1. BookOf(d) /\ Same(d)
    BY UnchangedSame DEF Books
  <2>2. \A b \in Calls : At(b, d)' <=> At(b, d)
    BY DEF At
  <2> QED
    BY <2>1, <2>2, OtherBook
<1> QED
  BY <1>1 DEF Books

(* The server stops: the documents that were being worked on are disturbed.*)
LEMMA RestartBooks ==
  ASSUME Inv, Books, Restart
  PROVE  Books'
<1>1. /\ UNCHANGED <<adjustments, moved>>
      /\ pc' = [c \in Calls |-> IF pc[c] \in Running THEN "aborted" ELSE pc[c]]
      /\ call' = [c \in Calls |-> IF pc[c] \in Running THEN Blank ELSE call[c]]
  BY DEF Restart, tables
<1>2. \A b \in Calls : pc[b] \in Running /\ pc[b] # "check" => call[b].doc \in disturbed'
  BY DEF Restart, Disturb
<1>3. disturbed \subseteq disturbed'
  BY DEF Restart, Disturb
<1>4. Stages \subseteq Running /\ "check" \notin Stages /\ "check" \in Running /\ "aborted" \notin Running
  BY DEF Stages, Running
<1>5. ASSUME NEW d \in Calls \ disturbed' PROVE BookOf(d)'
  <2>1. BookOf(d) /\ Same(d)
    BY <1>1, <1>3, <1>5, UnchangedSame DEF Books
  <2>2. \A b \in Calls : ~ At(b, d)
    BY <1>2, <1>4, <1>5 DEF At
  <2>3. \A b \in Calls : ~ At(b, d)'
    BY <1>1, <1>4 DEF At
  <2> QED
    BY <2>1, <2>2, <2>3, OtherBook
<1>6. Blank.op # "removeReason"
  BY DEF Blank, Request
<1>7. \A c \in Calls : call'[c].op = "removeReason" => call'[c].doc = None
  BY <1>1, <1>6 DEF Books
<1>8. ASSUME NEW c \in Calls, pc'[c] \in {"idle", "check"}
      PROVE  c \notin DOMAIN adjustments' /\ call'[c].ok
  <2>1. pc[c] \notin Running
    BY <1>1, <1>4, <1>8
  <2>2. pc'[c] = pc[c] /\ call'[c] = call[c]
    BY <1>1, <2>1
  <2> QED
    BY <1>1, <1>8, <2>2 DEF Books
<1> QED
  BY <1>5, <1>7, <1>8 DEF Books

(* There is no document to begin with.                                     *)
LEMMA BooksBegin == Init => Books
<1> SUFFICES ASSUME Init PROVE Books
  OBVIOUS
<1>1. /\ DOMAIN adjustments = {} /\ pc = [c \in Calls |-> "idle"] /\ call = [c \in Calls |-> Blank]
      /\ moved = [d \in Calls |-> [v \in Variants |-> [w \in Warehouses |-> 0]]]
  BY DEF Init
<1>2. Blank.op # "removeReason" /\ Blank.ok = TRUE
  BY DEF Blank, Request
<1>3. "idle" \notin Stages
  BY DEF Stages
<1>4. ASSUME NEW d \in Calls PROVE BookOf(d)
  <2>1. Resting(d)
    BY <1>1 DEF Resting, Says, Counted
  <2>2. \A c \in Calls : ~ At(c, d)
    BY <1>1, <1>3 DEF At
  <2> QED
    BY <1>1, <2>1, <2>2 DEF BookOf
<1> QED
  BY <1>1, <1>2, <1>4 DEF Books

(* Every step keeps the books.                                             *)
LEMMA NextKeepsBooks == Inv /\ Tracked /\ Books /\ [Next]_vars => Books'
<1> SUFFICES ASSUME Inv, Tracked, Books, [Next]_vars PROVE Books'
  OBVIOUS
<1>1. ASSUME NEW c \in Calls, Serve(c) PROVE Books'
  <2>1. CASE Refuse(c) \/ RejectFailed(c) \/ CommitArchive(c) \/ Return(c)
    BY <2>1, RefuseBooks, RejectBooks, CommitBooks, ReturnBooks
  <2>2. CASE BeginCreate(c) \/ BeginUpdate(c) \/ BeginArchive(c) \/ BeginRemoveReason(c)
    BY <2>2, BeginCreateBooks, BeginUpdateBooks, BeginArchiveBooks, RemoveReasonBooks
  <2>3. CASE FindLines(c) \/ UpdateQuantity(c) \/ WriteHeader(c) \/ ContinueUpdate(c)
    BY <2>3, FindLinesBooks, UpdateQuantityBooks, WriteHeaderBooks, ContinueBooks
  <2>4. CASE WriteLines(c) \/ FindNewLines(c) \/ CountAdjustments(c) \/ DeleteReason(c)
    BY <2>4, WriteLinesBooks, FindNewLinesBooks, RemoveReasonBooks
  <2> QED
    BY <1>1, <2>1, <2>2, <2>3, <2>4 DEF Serve
<1>2. ASSUME NEW r \in Reasons, CreateReason(r) PROVE Books'
  BY <1>2, StillBooks DEF CreateReason
<1>3. CASE UNCHANGED vars
  BY <1>3, StillBooks DEF vars
<1> QED
  BY <1>1, <1>2, <1>3, ReceiveBooks, LoseBooks, RestartBooks DEF Next

(* So they hold at any time.                                               *)
LEMMA BooksHold == Spec => []Books
BY BooksBegin, NextKeepsBooks, InvHolds, TrackedHolds, PTL DEF Spec

(* A document at rest records what was moved.                              *)
LEMMA BooksAccount == Inv /\ Books => DocumentsAccount
<1> SUFFICES ASSUME Inv, Books, NEW d \in DOMAIN adjustments \ disturbed, AtRest(d),
                    NEW v \in Variants, NEW w \in Warehouses
             PROVE  Recorded(d, v, w) = {moved[d][v][w]}
  BY DEF DocumentsAccount
<1>1. d \in Calls /\ BookOf(d)
  BY DEF Books, Inv, TablesTyped
<1>2. Stages \subseteq Running \ {"check"}
  BY DEF Stages, Running
<1>3. \A c \in Calls : ~ At(c, d)
  BY <1>2 DEF At, AtRest
<1>4. Distinct(adjustments[d].lines) /\ moved[d][v][w] = Says(d, v, w)
  BY <1>1, <1>3 DEF BookOf, Resting
<1>5. PICK here : here = OldAt(adjustments[d].lines, <<v, w>>)
  OBVIOUS
<1>6. CASE adjustments[d].isArchived
  BY <1>4, <1>6 DEF Says, Counted, Recorded
<1>7. CASE ~ adjustments[d].isArchived /\ here = {}
  BY <1>4, <1>5, <1>7 DEF Says, Counted, Quantity, Said, Recorded
<1>8. CASE ~ adjustments[d].isArchived /\ here # {}
  <2>1. PICK l : l \in here
    BY <1>8
  <2>2. l \in adjustments[d].lines /\ l.variant = v /\ l.warehouse = w
    BY <1>5, <2>1 DEF OldAt, Row
  <2>3. here = {l}
    BY <1>4, <1>5, <2>1 DEF OldAt, Distinct
  <2>4. Says(d, v, w) = l.quantity
    BY <1>4, <1>8, <2>2, QuantityAt DEF Says, Counted
  <2>5. Recorded(d, v, w) = {x.quantity : x \in here}
    BY <1>5, <1>8 DEF Recorded
  <2> QED
    BY <1>4, <2>3, <2>4, <2>5
<1> QED
  BY <1>6, <1>7, <1>8

(* DocumentsAccountForStock: a document whose calls came one at a time,    *)
(* were regular and did not fail records what they moved, whatever other   *)
(* calls, failures and restarts did to the other documents meanwhile; and  *)
(* what all calls moved is the whole change of the stock.                  *)
THEOREM AdjustmentDocumentsAccount == Spec => []DocumentsAccountForStock
<1>1. Inv /\ Books /\ Tracked => DocumentsAccountForStock
  BY BooksAccount DEF DocumentsAccountForStock, Tracked
<1> QED
  BY <1>1, InvHolds, BooksHold, TrackedHolds, PTL

(* A call that asks to update is only ended by Return.                     *)
LEMMA UpdateReturns ==
  ASSUME Inv, [Next]_vars, NEW c \in Calls, call[c].op = "update", pc'[c] = "done"
  PROVE  Return(c)
<1>1. pc[c] \in Running /\ call[c] # Blank
  <2>1. call[c] # Blank
    BY DEF Blank, Request
  <2> QED
    BY <2>1, CallFacts DEF Inv, Placed
<1>2. pc[c] # "done"
  BY <1>1 DEF Running
<1>3. ASSUME NEW b \in Calls, NEW label, Goto(b, label) PROVE b = c /\ label = "done"
  BY <1>2, <1>3 DEF Goto, Inv, CallsPlaced
<1>4. ~ UNCHANGED pc
  BY <1>2
<1>5. ASSUME NEW b \in Calls, Arrive(b) PROVE FALSE
  <2>1. Goto(b, "check")
    BY <1>5 DEF Arrive, ReceiveCreate, ReceiveUpdate, ReceiveArchive, ReceiveRemoveReason, Receive
  <2> QED
    BY <1>3, <2>1
<1>6. ASSUME NEW b \in Calls, Lose(b) PROVE FALSE
  BY <1>4, <1>6 DEF Lose, LoseMove, LoseHeader, LoseLines, LoseArchive, Fail
<1>7. ASSUME NEW b \in Calls, Serve(b) PROVE Return(c)
  <2>1. CASE Refuse(b) \/ RejectFailed(b)
    BY <1>3, <2>1 DEF Refuse, RejectFailed, End
  <2>2. CASE BeginCreate(b) \/ BeginUpdate(b) \/ BeginArchive(b) \/ BeginRemoveReason(b)
    <3>1. BeginUpdate(b) => \E label : Goto(b, label) /\ label \in {"header", "find"}
      BY DEF BeginUpdate, Begin
    <3>2. ~ BeginUpdate(b) => \E label : Goto(b, label) /\ label \in {"move", "find", "count"}
      BY <2>2 DEF BeginCreate, BeginArchive, BeginRemoveReason, Begin
    <3> QED
      BY <1>3, <3>1, <3>2
  <2>3. CASE FindLines(b) \/ ContinueUpdate(b) \/ WriteLines(b) \/ FindNewLines(b)
    BY <1>3, <2>3 DEF FindLines, ContinueUpdate, WriteLines, FindNewLines
  <2>4. CASE UpdateQuantity(b) \/ WriteHeader(b)
    BY <1>4, <2>4 DEF UpdateQuantity, Move, WriteHeader
  <2>5. CASE CommitArchive(b)
    BY <1>3, <2>5 DEF CommitArchive, End
  <2>6. CASE CountAdjustments(b)
    BY <1>3, <2>6 DEF CountAdjustments, End
  <2>7. CASE DeleteReason(b)
    <3>1. pc[b] = "delete" /\ b = c
      BY <1>3, <2>7 DEF DeleteReason, End
    <3> QED
      BY <3>1, CallFacts DEF Inv, Placed
  <2>8. CASE Return(b)
    BY <1>3, <2>8 DEF Return, End
  <2> QED
    BY <1>7, <2>1, <2>2, <2>3, <2>4, <2>5, <2>6, <2>7, <2>8 DEF Serve
<1>8. ~ \E r \in Reasons : CreateReason(r)
  BY <1>4 DEF CreateReason
<1>9. ~ Restart
  BY <1>1 DEF Restart
<1> QED
  BY <1>4, <1>5, <1>6, <1>7, <1>8, <1>9 DEF Next, vars

(* UpdateTakesEffect: an update that returns has left its items as the     *)
(* lines of the document, if no other call, failure or irregular order     *)
(* disturbed it, although compareArrays and three batches of statements    *)
(* lie between.                                                            *)
THEOREM UpdatesTakeEffect == Spec => UpdateTakesEffect
<1> DEFINE Effect(c) ==
      (/\ call[c].op = "update" /\ call[c].items # None /\ pc'[c] = "done"
       /\ call[c].doc \notin disturbed) =>
        Shown(adjustments[call[c].doc].lines) = ToSet(call[c].items)
<1>1. ASSUME Inv, Books, [Next]_vars, NEW c \in Calls PROVE Effect(c)
  <2> SUFFICES ASSUME call[c].op = "update", call[c].items # None, pc'[c] = "done",
                      call[c].doc \notin disturbed
               PROVE  Shown(adjustments[call[c].doc].lines) = ToSet(call[c].items)
    OBVIOUS
  <2>1. Return(c)
    BY <1>1, UpdateReturns
  <2>2. pc[c] = "moveNew" /\ pc[c] \in Stages
    BY <1>1, <2>1, ReturnFacts DEF LastStage
  <2>3. call[c].doc \in Calls
    BY <1>1, <2>2, CallFacts DEF Inv, Placed, TablesTyped
  <2>4. Works(c, pc[c], call[c])
    BY <1>1, <2>2, <2>3 DEF Books, BookOf, At
  <2>5. Knows(c, "moveNew", call[c])
    BY <2>2, <2>4 DEF Works
  <2> QED
    BY <2>5 DEF Knows
<1>2. Inv /\ Books /\ [Next]_vars => \A c \in Calls : Effect(c)
  BY <1>1
<1>3. (\A c \in Calls : Effect(c)) =>
        \A c \in Calls :
          (/\ call[c].op = "update" /\ call[c].items # None /\ pc'[c] = "done"
           /\ call[c].doc \notin disturbed) =>
            {[variant |-> l.variant, warehouse |-> l.warehouse, quantity |-> l.quantity] :
               l \in adjustments[call[c].doc].lines} = ToSet(call[c].items)
  BY DEF Shown
<1> QED
  BY <1>2, <1>3, InvHolds, BooksHold, PTL DEF Spec, UpdateTakesEffect
=============================================================================
