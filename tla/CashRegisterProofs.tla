------------------------- MODULE CashRegisterProofs -------------------------
(***************************************************************************)
(* Proofs about CashRegister, for any points of sale, users, amounts and   *)
(* number of calls.                                                        *)
(***************************************************************************)
EXTENDS CashRegister, DataProofs, FiniteSetTheorems

CashOps == {"create", "deposit", "withdrawal"}
Labels == {"idle"} \cup Running \cup Ended
NoStmt == [w \in Writes |-> "none"]

(* What the call r has established about its shift in the table T. *)
OnShift(r, T) == r.shift \in DOMAIN T /\ T[r.shift].pos = r.pos

(* What call c knows at label l, when it is described by r.                *)
Coherent(c, l, r, T) ==
  /\ l \in {"idle", "count", "insert"} => c \notin DOMAIN T
  /\ l \in {"count", "insert"} => r.op = "create"
  /\ l = "insert" => r.count < NCalls
  /\ r.op = "create" => r.pos \in Pos
  /\ r.op \in CashOps => r.user \in Users
  /\ r.op \in CashOps \cup {"update"} => r.amount \in Amounts
  /\ l = "getShift" => r.op \in CashOps \cup {"close", "update"}
  /\ l \in {"getPos", "pay"} => r.op \in CashOps /\ OnShift(r, T)
  /\ l \in {"close", "update"} => r.shift \in DOMAIN T
  /\ l = "update" => r.op = "update"
  /\ l \in {"idle"} \cup (Running \ {"pay"}) => r.stmt = NoStmt
  /\ r.stmt # NoStmt => r.op \in CashOps /\ OnShift(r, T)

AllCoherent == \A c \in Calls : Coherent(c, pc[c], call[c], shifts)

Inv == TypeOK /\ AllCoherent

(* The table of shifts only grows, and a shift keeps its point of sale.    *)
Grows(T, U) == \A s \in DOMAIN T : s \in DOMAIN U /\ U[s].pos = T[s].pos

TablesOK ==
  /\ balance \in [Pos -> Int]
  /\ DOMAIN shifts \subseteq Calls
  /\ \A s \in DOMAIN shifts : shifts[s] \in Shift
  /\ DOMAIN ledger \subseteq Calls
  /\ \A t \in DOMAIN ledger : ledger[t] \in Row

(* A call that has not arrived is a call.                                  *)
LEMMA BlankType == Blank \in Call /\ Blank.stmt = NoStmt /\ Blank.op = "none"
BY CashAssumption DEF Blank, Call, Ops, Flags, WriteStates, Writes, NoStmt, Calls

(* The invariant holds at the start.                                       *)
LEMMA InitInv == Init => Inv
<1> SUFFICES ASSUME Init PROVE Inv
  OBVIOUS
<1>1. TypeOK
  BY BlankType DEF Init, TypeOK
<1>2. AllCoherent
  BY BlankType DEF Init, AllCoherent, Coherent, Running, CashOps
<1> QED
  BY <1>1, <1>2 DEF Inv

(* What a call has established stays so while the table grows.             *)
LEMMA CoherentStable ==
  ASSUME NEW c, NEW l, NEW r, NEW T, NEW U, Coherent(c, l, r, T), Grows(T, U),
         c \in DOMAIN U => c \in DOMAIN T
  PROVE  Coherent(c, l, r, U)
BY DEF Coherent, Grows, OnShift

(* A step of call c that leaves the other calls alone.                     *)
LEMMA LocalStep ==
  ASSUME Inv, NEW c \in Calls, NEW l \in Labels, NEW r \in Call,
         pc' = [pc EXCEPT ![c] = l], call' = [call EXCEPT ![c] = r],
         TablesOK', Grows(shifts, shifts'),
         DOMAIN shifts' \subseteq DOMAIN shifts \cup {c},
         Coherent(c, l, r, shifts')
  PROVE  Inv'
<1>1. pc' \in [Calls -> Labels] /\ call' \in [Calls -> Call]
  BY DEF Inv, TypeOK, Labels
<1>2. TypeOK'
  BY <1>1 DEF TypeOK, TablesOK, Labels
<1>3. ASSUME NEW d \in Calls PROVE Coherent(d, pc'[d], call'[d], shifts')
  <2>1. CASE d = c
    BY <2>1 DEF Inv, TypeOK
  <2>2. CASE d # c
    <3>1. pc'[d] = pc[d] /\ call'[d] = call[d]
      BY <2>2 DEF Inv, TypeOK
    <3>2. Coherent(d, pc[d], call[d], shifts)
      BY DEF Inv, AllCoherent
    <3> QED
      BY <2>2, <3>1, <3>2, CoherentStable
  <2> QED
    BY <2>1, <2>2
<1> QED
  BY <1>2, <1>3 DEF Inv, AllCoherent

(* What the invariant says of one call and of the tables.                  *)
LEMMA InvFacts ==
  ASSUME Inv, NEW c \in Calls
  PROVE  /\ TablesOK
         /\ call[c] \in Call /\ pc[c] \in Labels
         /\ Coherent(c, pc[c], call[c], shifts)
         /\ Grows(shifts, shifts)
BY DEF Inv, TypeOK, AllCoherent, TablesOK, Labels, Grows

(* A call arrives with parameters of the right type.                       *)
LEMMA ArriveInv ==
  ASSUME Inv, NEW c \in Calls, Arrive(c)
  PROVE  Inv'
<1>1. ASSUME NEW r \in Call, NEW l \in Labels, Receive(c, r, l),
             c \notin DOMAIN shifts => Coherent(c, l, r, shifts)
      PROVE  Inv'
  <2>1. c \notin DOMAIN shifts
    BY <1>1, InvFacts DEF Receive, Coherent
  <2>2. TablesOK' /\ shifts' = shifts /\ Grows(shifts, shifts)
    BY <1>1, InvFacts DEF Receive, tables, TablesOK
  <2> QED
    BY <1>1, <2>1, <2>2, LocalStep DEF Receive, Goto
<1>2. CASE ReceiveCreate(c)
  <2>1. PICK u \in Users, p \in Pos, a \in Amounts :
          Receive(c, [Blank EXCEPT !.op = "create", !.user = u, !.pos = p,
                                   !.amount = a], "count")
    BY <1>2 DEF ReceiveCreate
  <2> DEFINE r == [Blank EXCEPT !.op = "create", !.user = u, !.pos = p, !.amount = a]
  <2>2. /\ r \in Call /\ r.stmt = NoStmt /\ r.op = "create"
        /\ r.pos = p /\ r.user = u /\ r.amount = a
    BY BlankType DEF Call, Blank, Ops
  <2> HIDE DEF r
  <2>3. c \notin DOMAIN shifts => Coherent(c, "count", r, shifts)
    BY <2>2 DEF Coherent, CashOps
  <2> QED
    BY <1>1, <2>1, <2>2, <2>3 DEF r, Labels, Running
<1>3. CASE ReceiveCash(c)
  <2>1. PICK u \in Users, s \in KnownIds, a \in Amounts, op \in {"deposit", "withdrawal"} :
          Receive(c, [Blank EXCEPT !.op = op, !.user = u, !.shift = s, !.amount = a],
                  "getShift")
    BY <1>3 DEF ReceiveCash
  <2> DEFINE r == [Blank EXCEPT !.op = op, !.user = u, !.shift = s, !.amount = a]
  <2>2. /\ r \in Call /\ r.stmt = NoStmt /\ r.op = op
        /\ r.user = u /\ r.amount = a
    BY BlankType, InvFacts DEF Call, Blank, Ops, KnownIds, TablesOK
  <2> HIDE DEF r
  <2>3. Coherent(c, "getShift", r, shifts)
    BY <2>2 DEF Coherent, CashOps
  <2> QED
    BY <1>1, <2>1, <2>2, <2>3 DEF r, Labels, Running
<1>4. CASE ReceiveClose(c)
  <2>1. PICK u \in Users, s \in KnownIds :
          Receive(c, [Blank EXCEPT !.op = "close", !.user = u, !.shift = s], "getShift")
    BY <1>4 DEF ReceiveClose
  <2> DEFINE r == [Blank EXCEPT !.op = "close", !.user = u, !.shift = s]
  <2>2. r \in Call /\ r.stmt = NoStmt /\ r.op = "close"
    BY BlankType, InvFacts DEF Call, Blank, Ops, KnownIds, TablesOK
  <2> HIDE DEF r
  <2>3. Coherent(c, "getShift", r, shifts)
    BY <2>2 DEF Coherent, CashOps
  <2> QED
    BY <1>1, <2>1, <2>2, <2>3 DEF r, Labels, Running
<1>5. CASE ReceiveUpdate(c)
  <2>1. PICK u \in Admins, s \in KnownIds, a \in Amounts, flag \in Flags :
          Receive(c, [Blank EXCEPT !.op = "update", !.user = u, !.shift = s,
                                   !.amount = a, !.isOpened = flag], "getShift")
    BY <1>5 DEF ReceiveUpdate
  <2> DEFINE r == [Blank EXCEPT !.op = "update", !.user = u, !.shift = s, !.amount = a,
                                 !.isOpened = flag]
  <2>2. r \in Call /\ r.stmt = NoStmt /\ r.op = "update" /\ r.amount = a
    BY BlankType, InvFacts, CashAssumption DEF Call, Blank, Ops, KnownIds, TablesOK
  <2> HIDE DEF r
  <2>3. Coherent(c, "getShift", r, shifts)
    BY <2>2 DEF Coherent, CashOps
  <2> QED
    BY <1>1, <2>1, <2>2, <2>3 DEF r, Labels, Running
<1> QED
  BY <1>2, <1>3, <1>4, <1>5 DEF Arrive

-----------------------------------------------------------------------------
(* The steps of a handler, one lemma per group of statements.              *)

(* A step that leaves the tables alone.                                    *)
LEMMA ReadStep ==
  ASSUME Inv, NEW c \in Calls, NEW l \in Labels, NEW r \in Call,
         pc' = [pc EXCEPT ![c] = l], call' = [call EXCEPT ![c] = r],
         UNCHANGED tables, Coherent(c, l, r, shifts)
  PROVE  Inv'
<1>1. TablesOK' /\ shifts' = shifts /\ Grows(shifts, shifts)
  BY InvFacts DEF tables, TablesOK
<1> QED
  BY <1>1, LocalStep

(* A call that is refused leaves the tables alone.                         *)
LEMMA RejectInv ==
  ASSUME Inv, NEW c \in Calls, Reject(c), UNCHANGED tables
  PROVE  Inv'
<1>1. Coherent(c, "failed", Blank, shifts)
  BY BlankType DEF Coherent, CashOps, Running
<1> QED
  BY <1>1, BlankType, ReadStep DEF Reject, End, Goto, Labels, Ended

(* create counts fewer shifts than there are calls.                        *)
LEMMA CountShiftsInv ==
  ASSUME Inv, NEW c \in Calls, CountShifts(c)
  PROVE  Inv'
<1> DEFINE n == Cardinality(ShiftsOf(call[c].pos))
           r == [call[c] EXCEPT !.count = n]
<1>1. n \in Nat /\ n < NCalls
  <2>1. ShiftsOf(call[c].pos) \subseteq Calls \ {c}
    BY InvFacts DEF CountShifts, ShiftsOf, Coherent, TablesOK
  <2>2. /\ IsFiniteSet(Calls) /\ Cardinality(Calls) = NCalls
        /\ c \in Calls
    BY FS_Interval, CashAssumption DEF Calls
  <2>3. /\ IsFiniteSet(Calls \ {c})
        /\ Cardinality(Calls \ {c}) = NCalls - 1
    BY <2>2, FS_RemoveElement
  <2>4. n <= NCalls - 1
    BY <2>1, <2>3, FS_Subset
  <2>5. n \in Nat
    BY <2>1, <2>3, FS_Subset, FS_CardinalityType
  <2> QED
    BY <2>4, <2>5, CashAssumption
<1>2. /\ call[c] \in Call /\ Coherent(c, "count", call[c], shifts)
      /\ pc[c] = "count"
  BY InvFacts DEF CountShifts
<1> HIDE DEF n
<1>3. r \in Call
  BY <1>1, <1>2, CashAssumption DEF Call
<1>4. Coherent(c, "insert", r, shifts)
  BY <1>1, <1>2 DEF Coherent, OnShift, Running, CashOps, Call
<1>5. call' = [call EXCEPT ![c] = r]
  BY InvFacts DEF CountShifts, n, Call
<1> QED
  BY <1>3, <1>4, <1>5, ReadStep DEF CountShifts, Goto, Labels, Running

(* create inserts a shift under an id of its own.                          *)
LEMMA InsertShiftInv ==
  ASSUME Inv, NEW c \in Calls, InsertShift(c)
  PROVE  Inv'
<1> DEFINE row == [pos |-> call[c].pos, cashier |-> call[c].user, isOpened |-> TRUE,
                   number |-> call[c].count + 1,
                   startingCashBalance |-> call[c].amount]
           r == [call[c] EXCEPT !.shift = c, !.count = 0]
<1>1. /\ call[c] \in Call /\ Coherent(c, "insert", call[c], shifts)
      /\ TablesOK /\ c \notin DOMAIN shifts
  BY InvFacts DEF InsertShift, Coherent
<1>2. row \in Shift
  BY <1>1, CashAssumption DEF Coherent, CashOps, Shift, Call, Calls
<1>3. r \in Call
  <2>1. 0 \in 0..NCalls
    BY CashAssumption
  <2>2. [call[c] EXCEPT !.shift = c] \in Call
    BY <1>1 DEF Call
  <2> QED
    BY <2>1, <2>2 DEF Call
<1>4. /\ DOMAIN shifts' = DOMAIN shifts \cup {c}
      /\ shifts'[c] = row
      /\ \A s \in DOMAIN shifts : shifts'[s] = shifts[s]
  BY <1>1 DEF InsertShift, Put
<1>5. call' = [call EXCEPT ![c] = r]
  BY DEF InsertShift
<1> HIDE DEF row
<1>6. TablesOK' /\ Grows(shifts, shifts')
  BY <1>1, <1>2, <1>4 DEF InsertShift, TablesOK, Grows
<1>7. Coherent(c, "getShift", r, shifts')
  <2>1. r.op = "create" /\ r.stmt = NoStmt /\ r.pos \in Pos
        /\ r.user \in Users /\ r.amount \in Amounts
    BY <1>1 DEF Coherent, CashOps, Running, Call
  <2> QED
    BY <2>1 DEF Coherent, CashOps
<1> QED
  BY <1>3, <1>4, <1>5, <1>6, <1>7, LocalStep DEF InsertShift, Goto, Labels, Running

(* A handler has read a shift that exists, and its till.                   *)
LEMMA GetShiftInv ==
  ASSUME Inv, NEW c \in Calls, GetShift(c)
  PROVE  Inv'
<1> DEFINE l == CASE call[c].op = "close" -> "close"
                  [] call[c].op = "update" -> "update"
                  [] OTHER -> "getPos"
           r == [call[c] EXCEPT !.pos = shifts[call[c].shift].pos]
<1>1. /\ call[c] \in Call /\ Coherent(c, "getShift", call[c], shifts)
      /\ call[c].shift \in DOMAIN shifts /\ TablesOK
  BY InvFacts DEF GetShift, Exists
<1>2. shifts[call[c].shift].pos \in Pos
  BY <1>1 DEF TablesOK, Shift
<1>3. r \in Call
  BY <1>1, <1>2 DEF Call
<1>4. /\ r.op = call[c].op /\ r.stmt = call[c].stmt /\ r.user = call[c].user
      /\ r.amount = call[c].amount /\ r.shift = call[c].shift
      /\ r.pos = shifts[call[c].shift].pos
  BY <1>1 DEF Call
<1> HIDE DEF r
<1>5. Coherent(c, l, r, shifts)
  BY <1>1, <1>2, <1>4 DEF Coherent, OnShift, Running, CashOps
<1>6. l \in Labels
  BY DEF Labels, Running
<1>7. call' = [call EXCEPT ![c] = r] /\ pc' = [pc EXCEPT ![c] = l]
  BY DEF GetShift, Goto, r
<1> HIDE DEF l
<1> QED
  BY <1>3, <1>5, <1>6, <1>7, ReadStep DEF GetShift

(* The two writes are sent for a shift that was read.                      *)
LEMMA PayInv ==
  ASSUME Inv, NEW c \in Calls, pc[c] = "getPos", Pay(c), UNCHANGED tables
  PROVE  Inv'
<1> DEFINE r == [call[c] EXCEPT !.stmt = [w \in Writes |-> "todo"]]
<1>1. call[c] \in Call /\ Coherent(c, "getPos", call[c], shifts)
  BY InvFacts
<1>2. r \in Call
  BY <1>1 DEF Call, WriteStates
<1>3. Coherent(c, "pay", r, shifts)
  BY <1>1 DEF Coherent, OnShift, Running, CashOps, Call
<1>4. call' = [call EXCEPT ![c] = r]
  BY DEF Pay
<1> QED
  BY <1>2, <1>3, <1>4, ReadStep DEF Pay, Goto, Labels, Running
(* A promise that settles.                                                 *)
LEMMA SettleInv ==
  ASSUME Inv, NEW c \in Calls, NEW w \in Writes, NEW v \in {"done", "lost"},
         pc[c] = "pay", Settle(c, w, v), TablesOK', shifts' = shifts
  PROVE  Inv'
<1> DEFINE r == [call[c] EXCEPT !.stmt = [call[c].stmt EXCEPT ![w] = v]]
<1>1. /\ call[c] \in Call /\ Coherent(c, "pay", call[c], shifts)
      /\ Grows(shifts, shifts)
  BY InvFacts
<1>2. r \in Call
  BY <1>1 DEF Call, WriteStates
<1>3. /\ r.op = call[c].op /\ r.user = call[c].user /\ r.amount = call[c].amount
      /\ r.shift = call[c].shift /\ r.pos = call[c].pos
  BY <1>1 DEF Call
<1>4. PICK l \in {"pay", "done", "failed"} :
        pc' = [pc EXCEPT ![c] = l] /\ call' = [call EXCEPT ![c] = r]
  BY DEF Settle
<1> HIDE DEF r
<1>5. Coherent(c, l, r, shifts)
  BY <1>1, <1>3 DEF Coherent, OnShift, Running, CashOps
<1> QED
  BY <1>1, <1>2, <1>4, <1>5, LocalStep DEF Labels, Running, Ended

(* The row of a cash movement names a shift that exists.                   *)
LEMMA CreateTransactionInv ==
  ASSUME Inv, NEW c \in Calls, CreateTransaction(c)
  PROVE  Inv'
<1>1. /\ call[c] \in Call /\ Coherent(c, "pay", call[c], shifts) /\ TablesOK
  BY InvFacts DEF CreateTransaction
<1>2. [shift |-> call[c].shift, amount |-> call[c].amount,
       direction |-> DirectionOf(call[c].op)] \in Row
  BY <1>1 DEF Coherent, OnShift, CashOps, TablesOK, Row, DirectionOf, Directions
<1>3. TablesOK'
  BY <1>1, <1>2 DEF CreateTransaction, Put, TablesOK
<1> QED
  BY <1>3, SettleInv DEF CreateTransaction, Writes

(* What a call adds to a balance is an integer.                            *)
LEMMA DeltaType ==
  ASSUME Inv, NEW c \in Calls, call[c].op \in CashOps
  PROVE  Delta(c) \in Int
<1>1. call[c].amount \in Int
  BY InvFacts, CashAssumption DEF Coherent
<1>2. -call[c].amount \in Int
  BY <1>1
<1> QED
  BY <1>1, <1>2 DEF Delta, Signed

(* The balance stays an integer.                                           *)
LEMMA UpdateBalanceInv ==
  ASSUME Inv, NEW c \in Calls, UpdateBalance(c)
  PROVE  Inv'
<1>1. /\ call[c] \in Call /\ Coherent(c, "pay", call[c], shifts) /\ TablesOK
  BY InvFacts DEF UpdateBalance
<1>2. Delta(c) \in Int
  BY <1>1, DeltaType DEF Coherent
<1>3. balance' \in [Pos -> Int]
  <2>1. \A p \in Pos : balance[p] + Delta(c) \in Int
    BY <1>1, <1>2 DEF TablesOK
  <2> QED
    BY <1>1, <2>1 DEF UpdateBalance, TablesOK
<1>4. TablesOK'
  BY <1>1, <1>3 DEF UpdateBalance, TablesOK
<1> QED
  BY <1>4, SettleInv DEF UpdateBalance, Writes

(* A write that fails is only marked as lost.                              *)
LEMMA LoseWriteInv ==
  ASSUME Inv, NEW c \in Calls, LoseWrite(c)
  PROVE  Inv'
<1>1. TablesOK' /\ shifts' = shifts
  BY InvFacts DEF LoseWrite, tables, TablesOK
<1> QED
  BY <1>1, SettleInv DEF LoseWrite

(* close and update rewrite a field of a shift that no call relies on.     *)
LEMMA RewriteInv ==
  ASSUME Inv, NEW c \in Calls, pc[c] \in {"close", "update"}, End(c, "done"),
         NEW row \in Shift, shifts' = [shifts EXCEPT ![call[c].shift] = row],
         row.pos = shifts[call[c].shift].pos, UNCHANGED <<balance, ledger>>
  PROVE  Inv'
<1>1. TablesOK /\ call[c].shift \in DOMAIN shifts
  BY InvFacts DEF Coherent
<1>2. TablesOK' /\ Grows(shifts, shifts') /\ DOMAIN shifts' = DOMAIN shifts
  BY <1>1 DEF TablesOK, Grows
<1>3. Coherent(c, "done", Blank, shifts')
  BY BlankType DEF Coherent, CashOps, Running
<1> QED
  BY <1>2, <1>3, BlankType, LocalStep DEF End, Goto, Labels, Ended

(* Closing keeps the shift where it is.                                    *)
LEMMA CloseShiftInv ==
  ASSUME Inv, NEW c \in Calls, CloseShift(c)
  PROVE  Inv'
<1> DEFINE row == [shifts[call[c].shift] EXCEPT !.isOpened = FALSE]
<1>1. TablesOK /\ call[c].shift \in DOMAIN shifts
  BY InvFacts DEF Coherent, CloseShift
<1>2. row \in Shift /\ row.pos = shifts[call[c].shift].pos
  BY <1>1 DEF TablesOK, Shift
<1>3. shifts' = [shifts EXCEPT ![call[c].shift] = row]
  BY DEF CloseShift
<1> HIDE DEF row
<1> QED
  BY <1>2, <1>3, RewriteInv DEF CloseShift

(* A corrected shift is one of the same name and point of sale.            *)
LEMMA CorrectedType ==
  ASSUME NEW s \in Shift, NEW r, r.amount \in Amounts
  PROVE  /\ Corrected(s, r) \in Shift
         /\ Corrected(s, r).pos = s.pos /\ Corrected(s, r).number = s.number
<1> DEFINE open == IF r.isOpened = "absent" THEN s.isOpened ELSE r.isOpened = "true"
<1>1. open \in BOOLEAN
  BY DEF Shift
<1>2. Corrected(s, r) = [s EXCEPT !.startingCashBalance = r.amount, !.isOpened = open]
  BY DEF Corrected
<1> HIDE DEF open
<1> QED
  BY <1>1, <1>2 DEF Shift

(* A correction keeps the shift where it is.                               *)
LEMMA UpdateShiftInv ==
  ASSUME Inv, NEW c \in Calls, UpdateShift(c)
  PROVE  Inv'
<1> DEFINE row == Corrected(shifts[call[c].shift], call[c])
<1>1. TablesOK /\ call[c].shift \in DOMAIN shifts /\ call[c].amount \in Amounts
  BY InvFacts DEF Coherent, UpdateShift
<1>2. row \in Shift /\ row.pos = shifts[call[c].shift].pos
  BY <1>1, CorrectedType DEF TablesOK
<1>3. shifts' = [shifts EXCEPT ![call[c].shift] = row]
  BY DEF UpdateShift
<1> HIDE DEF row
<1> QED
  BY <1>2, <1>3, RewriteInv DEF UpdateShift

(* Every step of a handler keeps the invariant.                            *)
LEMMA ServeInv ==
  ASSUME Inv, NEW c \in Calls, Serve(c)
  PROVE  Inv'
<1>1. CASE CountShifts(c) BY <1>1, CountShiftsInv
<1>2. CASE InsertShift(c) BY <1>2, InsertShiftInv
<1>3. CASE ShiftMissing(c) BY <1>3, RejectInv DEF ShiftMissing
<1>4. CASE ShiftForbidden(c) BY <1>4, RejectInv DEF ShiftForbidden
<1>5. CASE GetShift(c) BY <1>5, GetShiftInv
<1>6. CASE GetPosForDeposit(c) BY <1>6, PayInv DEF GetPosForDeposit
<1>7. CASE GetPosForWithdrawal(c)
  BY <1>7, PayInv, RejectInv DEF GetPosForWithdrawal
<1>8. CASE CreateTransaction(c) BY <1>8, CreateTransactionInv
<1>9. CASE UpdateBalance(c) BY <1>9, UpdateBalanceInv
<1>10. CASE CloseShift(c) BY <1>10, CloseShiftInv
<1>11. CASE UpdateShift(c) BY <1>11, UpdateShiftInv
<1> QED
  BY <1>1, <1>2, <1>3, <1>4, <1>5, <1>6, <1>7, <1>8, <1>9, <1>10, <1>11 DEF Serve

(* So does the nightly job.                                                *)
LEMMA CloseAllInv ==
  ASSUME Inv, CloseAllShifts
  PROVE  Inv'
<1>1. /\ DOMAIN shifts' = DOMAIN shifts
      /\ \A s \in DOMAIN shifts : shifts'[s] = [shifts[s] EXCEPT !.isOpened = FALSE]
      /\ UNCHANGED <<balance, ledger, pc, call>>
  BY DEF CloseAllShifts
<1>2. TypeOK' /\ Grows(shifts, shifts')
  BY <1>1 DEF Inv, TypeOK, Shift, Grows
<1>3. AllCoherent'
  BY <1>1, <1>2, CoherentStable DEF Inv, AllCoherent
<1> QED
  BY <1>2, <1>3 DEF Inv

(* So does a restart.                                                      *)
LEMMA RestartInv ==
  ASSUME Inv, Restart
  PROVE  Inv'
<1>1. TypeOK'
  BY BlankType DEF Inv, TypeOK, Restart, tables, Ended
<1>2. ASSUME NEW c \in Calls PROVE Coherent(c, pc'[c], call'[c], shifts)
  <2>1. Coherent(c, pc[c], call[c], shifts) /\ call[c] \in Call
    BY InvFacts
  <2>2. CASE pc[c] \in Running \ {"pay"}
    <3>1. pc'[c] = "aborted" /\ call'[c] = Blank
      BY <2>2 DEF Restart
    <3> QED
      BY <3>1, BlankType DEF Coherent, CashOps, Running
  <2>3. CASE pc[c] = "pay"
    <3>1. pc'[c] = "aborted" /\ call'[c] = call[c]
      BY <2>3 DEF Restart, Running
    <3> QED
      BY <2>1, <2>3, <3>1 DEF Coherent, Running
  <2>4. CASE pc[c] \notin Running
    <3>1. pc'[c] = pc[c] /\ call'[c] = call[c]
      BY <2>4 DEF Restart
    <3> QED
      BY <2>1, <3>1
  <2> QED
    BY <2>2, <2>3, <2>4
<1> QED
  BY <1>1, <1>2 DEF Inv, AllCoherent, Restart, tables

(* The invariant is inductive.                                             *)
LEMMA NextInv == Inv /\ [Next]_vars => Inv'
<1> SUFFICES ASSUME Inv, [Next]_vars PROVE Inv'
  OBVIOUS
<1>1. CASE Next
  BY <1>1, ArriveInv, ServeInv, LoseWriteInv, CloseAllInv, RestartInv DEF Next
<1>2. CASE UNCHANGED vars
  BY <1>2 DEF vars, Inv, TypeOK, AllCoherent
<1> QED
  BY <1>1, <1>2

(* The tables and the handlers keep their types, and shifts are numbered   *)
(* from 1 to at most the number of calls.                                  *)
THEOREM TypeCorrect == Spec => []TypeOK
<1>1. Spec => []Inv
  BY InitInv, NextInv, PTL DEF Spec
<1>2. Inv => TypeOK
  BY DEF Inv
<1> QED
  BY <1>1, <1>2, PTL

-----------------------------------------------------------------------------
(* The till and the ledger.                                                *)

(* A call has a row in the ledger exactly if its insertion is done.        *)
Posted(c) ==
  /\ c \in DOMAIN ledger <=> Done(c, "row")
  /\ c \in DOMAIN ledger =>
       ledger[c] = [shift |-> call[c].shift, amount |-> call[c].amount,
                    direction |-> DirectionOf(call[c].op)]

(* What the call has added to the till of p so far.                        *)
Applied(c, p) == IF call[c].pos = p /\ Done(c, "balance") THEN Delta(c) ELSE 0
Booked(p) == SumTo([c \in Calls |-> Applied(c, p)], NCalls)

LedgerInv ==
  /\ \A c \in Calls : Posted(c)
  /\ \A p \in Pos : balance[p] = Booked(p)

(* Only cash movements have a delta that counts.                           *)
LEMMA CashDelta ==
  ASSUME Inv, NEW c \in Calls, NEW w \in Writes, Done(c, w)
  PROVE  Delta(c) \in Int /\ call[c].op \in CashOps /\ OnShift(call[c], shifts)
<1>1. call[c].stmt # NoStmt
  BY DEF Done, NoStmt
<1>2. call[c].op \in CashOps /\ OnShift(call[c], shifts)
  BY <1>1, InvFacts DEF Coherent
<1> QED
  BY <1>2, DeltaType

(* The applied movements are integers.                                     *)
LEMMA AppliedType ==
  ASSUME Inv, NEW p
  PROVE  [c \in Calls |-> Applied(c, p)] \in [1..NCalls -> Int]
BY CashDelta DEF Applied, Calls, Writes

(* At the start nothing was applied.                                       *)
LEMMA InitLedger == Init => LedgerInv
<1> SUFFICES ASSUME Init PROVE LedgerInv
  OBVIOUS
<1>1. Inv
  BY InitInv
<1>2. \A c \in Calls, w \in Writes : ~ Done(c, w)
  BY DEF Init, Done, Blank
<1>3. \A c \in Calls : Posted(c)
  BY <1>2 DEF Init, Posted, Writes
<1>4. ASSUME NEW p \in Pos PROVE balance[p] = Booked(p)
  <2>1. \A c \in Calls : Applied(c, p) = 0
    BY <1>2 DEF Applied, Writes
  <2>2. Booked(p) = 0
    BY <1>1, <2>1, AppliedType, SumZero, CashAssumption DEF Booked, Calls
  <2> QED
    BY <2>2 DEF Init
<1> QED
  BY <1>3, <1>4 DEF LedgerInv

(* r and q have done the same cash movement.                               *)
SameDone(r, q) ==
  /\ \A w \in Writes : q.stmt[w] = "done" <=> r.stmt[w] = "done"
  /\ (\E w \in Writes : r.stmt[w] = "done") =>
       q.op = r.op /\ q.shift = r.shift /\ q.pos = r.pos /\ q.amount = r.amount

(* A step without a write leaves the ledger's invariant alone.             *)
LEMMA QuietLedger ==
  ASSUME LedgerInv, UNCHANGED <<balance, ledger>>,
         \A c \in Calls : SameDone(call[c], call'[c])
  PROVE  LedgerInv'
<1>1. \A c \in Calls : Posted(c)'
  BY DEF LedgerInv, Posted, SameDone, Done, Writes
<1>2. ASSUME NEW p \in Pos PROVE Booked(p)' = Booked(p)
  <2>1. \A c \in Calls : Applied(c, p)' = Applied(c, p)
    BY DEF Applied, SameDone, Done, Writes, Delta
  <2> QED
    BY <2>1 DEF Booked
<1> QED
  BY <1>1, <1>2 DEF LedgerInv

(* A call that is not paying before or after a step moves no cash in it.   *)
LEMMA NotPaying ==
  ASSUME Inv, Inv', NEW c \in Calls,
         \A d \in Calls : d # c => call'[d] = call[d],
         pc[c] \in {"idle"} \cup (Running \ {"pay"}),
         \/ pc'[c] \in {"idle"} \cup (Running \ {"pay"})
         \/ call'[c] = Blank
         \/ \A w \in Writes : call'[c].stmt[w] # "done"
  PROVE  \A d \in Calls : SameDone(call[d], call'[d])
<1>1. call[c].stmt = NoStmt
  BY InvFacts DEF Coherent
<1>2. \A w \in Writes : call'[c].stmt[w] # "done"
  <2>1. CASE pc'[c] \in {"idle"} \cup (Running \ {"pay"})
    <3>1. call'[c].stmt = NoStmt
      BY <2>1 DEF Inv, AllCoherent, Coherent
    <3> QED
      BY <3>1 DEF NoStmt
  <2> QED
    BY <2>1 DEF Blank
<1> QED
  BY <1>1, <1>2 DEF SameDone, NoStmt

(* The row of a movement is posted with its amount.                        *)
LEMMA CreateTransactionLedger ==
  ASSUME Inv, LedgerInv, NEW c \in Calls, CreateTransaction(c)
  PROVE  LedgerInv'
<1>1. /\ call[c] \in Call /\ Coherent(c, "pay", call[c], shifts)
      /\ \A d \in Calls : d # c => call'[d] = call[d]
      /\ call'[c] = [call[c] EXCEPT !.stmt = [call[c].stmt EXCEPT !["row"] = "done"]]
  BY InvFacts DEF CreateTransaction, Settle, Inv, TypeOK
<1>2. /\ call'[c].stmt["row"] = "done"
      /\ call'[c].stmt["balance"] = call[c].stmt["balance"]
      /\ call'[c].op = call[c].op /\ call'[c].shift = call[c].shift
      /\ call'[c].amount = call[c].amount /\ call'[c].pos = call[c].pos
  BY <1>1 DEF Call, Writes
<1>3. /\ DOMAIN ledger' = DOMAIN ledger \cup {c}
      /\ \A t \in DOMAIN ledger : t # c => ledger'[t] = ledger[t]
      /\ ledger'[c] = [shift |-> call[c].shift, amount |-> call[c].amount,
                       direction |-> DirectionOf(call[c].op)]
  BY DEF CreateTransaction, Put
<1>4. \A d \in Calls : Posted(d)'
  BY <1>1, <1>2, <1>3 DEF LedgerInv, Posted, Done
<1>5. \A p \in Pos, d \in Calls : Applied(d, p)' = Applied(d, p)
  BY <1>1, <1>2 DEF Applied, Done, Delta
<1>6. \A p \in Pos : Booked(p)' = Booked(p)
  BY <1>5 DEF Booked
<1> QED
  BY <1>4, <1>6 DEF LedgerInv, CreateTransaction

(* The balance changes by what the call has applied.                       *)
LEMMA UpdateBalanceLedger ==
  ASSUME Inv, Inv', LedgerInv, NEW c \in Calls, UpdateBalance(c)
  PROVE  LedgerInv'
<1>1. /\ call[c] \in Call /\ Coherent(c, "pay", call[c], shifts) /\ TablesOK
      /\ \A d \in Calls : d # c => call'[d] = call[d]
      /\ call'[c] = [call[c] EXCEPT !.stmt = [call[c].stmt EXCEPT !["balance"] = "done"]]
  BY InvFacts DEF UpdateBalance, Settle, Inv, TypeOK
<1>2. /\ call'[c].stmt["balance"] = "done"
      /\ call'[c].stmt["row"] = call[c].stmt["row"]
      /\ call'[c].op = call[c].op /\ call'[c].shift = call[c].shift
      /\ call'[c].amount = call[c].amount /\ call'[c].pos = call[c].pos
  BY <1>1 DEF Call, Writes
<1>3. \A d \in Calls : Posted(d)'
  <2>1. ledger' = ledger
    BY DEF UpdateBalance
  <2>2. \A d \in Calls : /\ call'[d].stmt["row"] = call[d].stmt["row"]
                         /\ call'[d].op = call[d].op
                         /\ call'[d].shift = call[d].shift
                         /\ call'[d].amount = call[d].amount
    BY <1>1, <1>2
  <2> QED
    BY <2>1, <2>2 DEF LedgerInv, Posted, Done
<1>4. Delta(c) \in Int /\ call[c].pos \in Pos
  BY <1>1, DeltaType DEF Coherent, OnShift, TablesOK, Shift
<1>5. ASSUME NEW p \in Pos PROVE balance'[p] = Booked(p)'
  <2> DEFINE f == [d \in Calls |-> Applied(d, p)]
             h == [d \in Calls |-> Applied(d, p)']
             x == IF call[c].pos = p THEN Delta(c) ELSE 0
  <2>1. f \in [1..NCalls -> Int]
    BY AppliedType
  <2>2. f[c] = 0
    BY DEF UpdateBalance, Applied, Done
  <2>3. h[c] = x /\ x \in Int
    BY <1>2, <1>4 DEF Applied, Done, Delta
  <2>4. \A d \in Calls : d # c => h[d] = f[d]
    BY <1>1 DEF Applied, Done, Delta
  <2>5. balance'[p] = balance[p] + x
    BY <1>1, <1>4 DEF UpdateBalance, TablesOK
  <2>6. Booked(p) = SumTo(f, NCalls) /\ Booked(p)' = SumTo(h, NCalls)
    BY DEF Booked
  <2> HIDE DEF f, x
  <2>7. h \in [1..NCalls -> Int]
    <3>1. \A d \in Calls : h[d] \in Int
      <4> HIDE DEF h
      <4> QED
        BY <2>1, <2>3, <2>4 DEF Calls
    <3> QED
      BY <3>1 DEF Calls
  <2> HIDE DEF h
  <2>8. SumTo(h, NCalls) = SumTo(f, NCalls) + (h[c] - f[c])
    <3>1. /\ NCalls \in Nat /\ c \in 1..NCalls
          /\ \A i \in 1..NCalls : i # c => h[i] = f[i]
      BY <2>4, CashAssumption DEF Calls
    <3> QED
      BY ONLY <2>1, <2>7, <3>1, SumChange
  <2>9. SumTo(f, NCalls) \in Int
    BY <2>1, SumType, CashAssumption
  <2> QED
    BY <2>2, <2>3, <2>5, <2>6, <2>8, <2>9 DEF LedgerInv
<1> QED
  BY <1>3, <1>5 DEF LedgerInv

(* The ledger's invariant is inductive.                                    *)
LEMMA NextLedger == Inv /\ Inv' /\ LedgerInv /\ [Next]_vars => LedgerInv'
<1> SUFFICES ASSUME Inv, Inv', LedgerInv, [Next]_vars PROVE LedgerInv'
  OBVIOUS
<1>1. ASSUME NEW c \in Calls, UNCHANGED <<balance, ledger>>,
             \A d \in Calls : d # c => call'[d] = call[d],
             pc[c] \in {"idle"} \cup (Running \ {"pay"}),
             \/ pc'[c] \in {"idle"} \cup (Running \ {"pay"})
             \/ call'[c] = Blank
             \/ \A w \in Writes : call'[c].stmt[w] # "done"
      PROVE  LedgerInv'
  BY <1>1, NotPaying, QuietLedger
<1>2. ASSUME NEW c \in Calls, Arrive(c) PROVE LedgerInv'
  <2>1. \E r, l : Receive(c, r, l) /\ l \in {"count", "getShift"}
    BY <1>2 DEF Arrive, ReceiveCreate, ReceiveCash, ReceiveClose, ReceiveUpdate
  <2>2. PICK r, l : Receive(c, r, l) /\ l \in {"count", "getShift"}
    BY <2>1
  <2>3. /\ UNCHANGED <<balance, ledger>>
        /\ \A d \in Calls : d # c => call'[d] = call[d]
        /\ pc[c] = "idle" /\ pc'[c] = l
    BY <2>2 DEF Receive, Goto, tables, Inv, TypeOK
  <2> QED
    BY <1>1, <2>2, <2>3 DEF Running
<1>3. ASSUME NEW c \in Calls, Serve(c) PROVE LedgerInv'
  <2> USE DEF Inv, TypeOK, Goto, tables, Running
  <2>1. CASE CountShifts(c)
    BY <1>1, <2>1 DEF CountShifts
  <2>2. CASE InsertShift(c)
    BY <1>1, <2>2 DEF InsertShift
  <2>3. CASE ShiftMissing(c)
    BY <1>1, <2>3 DEF ShiftMissing, Reject, End
  <2>4. CASE ShiftForbidden(c)
    BY <1>1, <2>4 DEF ShiftForbidden, Reject, End
  <2>5. CASE GetShift(c)
    BY <1>1, <2>5 DEF GetShift
  <2>6. CASE GetPosForDeposit(c)
    BY <1>1, <2>6 DEF GetPosForDeposit, Pay, Call
  <2>7. CASE GetPosForWithdrawal(c)
    BY <1>1, <2>7 DEF GetPosForWithdrawal, Pay, Reject, End, Call
  <2>8. CASE CreateTransaction(c)
    BY <2>8, CreateTransactionLedger
  <2>9. CASE UpdateBalance(c)
    BY <2>9, UpdateBalanceLedger
  <2>10. CASE CloseShift(c)
    BY <1>1, <2>10 DEF CloseShift, End
  <2>11. CASE UpdateShift(c)
    BY <1>1, <2>11 DEF UpdateShift, End
  <2> QED
    BY <1>3, <2>1, <2>2, <2>3, <2>4, <2>5, <2>6, <2>7, <2>8, <2>9, <2>10, <2>11
       DEF Serve
<1>4. ASSUME NEW c \in Calls, LoseWrite(c) PROVE LedgerInv'
  <2>1. PICK w \in Writes : call[c].stmt[w] = "todo" /\ Settle(c, w, "lost")
    BY <1>4 DEF LoseWrite
  <2>2. /\ call[c] \in Call
        /\ call' = [call EXCEPT ![c].stmt = [call[c].stmt EXCEPT ![w] = "lost"]]
    BY <2>1, InvFacts DEF Settle
  <2>3. \A d \in Calls : SameDone(call[d], call'[d])
    BY <2>1, <2>2 DEF SameDone, Call, Inv, TypeOK
  <2> QED
    BY <1>4, <2>3, QuietLedger DEF LoseWrite, tables
<1>5. CASE CloseAllShifts
  BY <1>5, QuietLedger DEF CloseAllShifts, SameDone
<1>6. CASE Restart
  <2>1. ASSUME NEW c \in Calls PROVE SameDone(call[c], call'[c])
    <3>1. CASE pc[c] \in Running \ {"pay"}
      <4>1. call[c].stmt = NoStmt /\ call'[c] = Blank
        BY <1>6, <3>1, InvFacts DEF Coherent, Restart
      <4> QED
        BY <4>1, BlankType DEF SameDone, NoStmt
    <3>2. CASE pc[c] \notin Running \ {"pay"}
      BY <1>6, <3>2 DEF Restart, SameDone
    <3> QED
      BY <3>1, <3>2
  <2> QED
    BY <1>6, <2>1, QuietLedger DEF Restart, tables
<1>7. CASE UNCHANGED vars
  BY <1>7, QuietLedger DEF vars, SameDone
<1> QED
  BY <1>2, <1>3, <1>4, <1>5, <1>6, <1>7 DEF Next

(* The ledger's invariant accounts for the drift.                          *)
LEMMA LedgerExplainsDrift == Inv /\ LedgerInv => DriftExplained
<1> SUFFICES ASSUME Inv, LedgerInv, NEW p \in Pos
             PROVE  balance[p] - LedgerBalance(p)
                      = SumTo([c \in Calls |-> Half(c, p)], NCalls)
  BY DEF DriftExplained
<1> DEFINE f == [c \in Calls |-> Applied(c, p)]
           h == [c \in Calls |-> RowOf(c, p)]
           d == [c \in Calls |-> Half(c, p)]
<1>1. f \in [1..NCalls -> Int]
  BY AppliedType
<1>2. ASSUME NEW c \in Calls
      PROVE  /\ h[c] = IF call[c].pos = p /\ Done(c, "row") THEN Delta(c) ELSE 0
             /\ h[c] \in Int
  <2>1. Posted(c)
    BY DEF LedgerInv
  <2>2. CASE Done(c, "row")
    <3>1. Delta(c) \in Int /\ OnShift(call[c], shifts)
      BY <2>2, CashDelta DEF Writes
    <3> QED
      BY <2>1, <2>2, <3>1 DEF Posted, RowOf, OnShift, Delta
  <2>3. CASE ~ Done(c, "row")
    BY <2>1, <2>3 DEF Posted, RowOf
  <2> QED
    BY <2>2, <2>3
<1>3. \A c \in Calls : d[c] = f[c] - h[c]
  BY <1>2, CashDelta DEF Half, Applied, Writes
<1>4. Booked(p) = SumTo(f, NCalls) /\ LedgerBalance(p) = SumTo(h, NCalls)
  BY DEF Booked, LedgerBalance
<1>5. h \in [1..NCalls -> Int]
  BY <1>2 DEF Calls
<1> HIDE DEF f, h
<1>6. d \in [1..NCalls -> Int]
  BY <1>1, <1>3, <1>5 DEF Calls
<1> HIDE DEF d
<1>7. SumTo(d, NCalls) = SumTo(f, NCalls) - SumTo(h, NCalls)
  BY <1>1, <1>3, <1>5, <1>6, SumDifference, CashAssumption DEF Calls
<1> QED
  BY <1>4, <1>7 DEF LedgerInv, d

(* The till and the sum of its ledger rows differ exactly by the half-done *)
(* cash movements, for any number of concurrent calls, lost statements and *)
(* restarts.                                                               *)
THEOREM DriftIsExplained == Spec => []DriftExplained
<1>1. Init => Inv /\ LedgerInv
  BY InitInv, InitLedger
<1>2. (Inv /\ LedgerInv) /\ [Next]_vars => (Inv /\ LedgerInv)'
  BY NextInv, NextLedger
<1>3. Inv /\ LedgerInv => DriftExplained
  BY LedgerExplainsDrift
<1> QED
  BY <1>1, <1>2, <1>3, PTL DEF Spec

-----------------------------------------------------------------------------
(* How far a till can be overdrawn.                                        *)

(* The amount of a granted withdrawal that is not taken yet.               *)
Pending(c, p) ==
  IF Granted(c, p) /\ call[c].stmt["balance"] = "todo" THEN call[c].amount ELSE 0
Out(p) == SumTo([c \in Calls |-> Pending(c, p)], NCalls)

(* What will be left in the till when the granted withdrawals are taken.   *)
Free(p) == balance[p] - Out(p)

Beside(c, d, p) == IF d # c /\ Granted(d, p) THEN call[d].amount ELSE 0

(* Free(p) is negative only within the bound: unlike the balance, it is    *)
(* decreased only at the check that grants a withdrawal.                   *)
Covered(p) ==
  \/ Free(p) >= 0
  \/ \E c \in Calls : Granted(c, p) /\ Free(p) >= - GrantedBeside(c, p)

SafeInv == \A p \in Pos : Covered(p)

(* What a granted withdrawal asks for is a natural number.                 *)
LEMMA GrantedAmount ==
  ASSUME Inv, NEW c \in Calls, NEW p, Granted(c, p)
  PROVE  call[c].amount \in Nat
BY InvFacts, AmountsAssumption DEF Granted, Coherent, CashOps

(* What is still to be taken out is an integer.                            *)
LEMMA OutType ==
  ASSUME Inv, NEW p
  PROVE  /\ [c \in Calls |-> Pending(c, p)] \in [1..NCalls -> Int]
         /\ \A c \in Calls : Pending(c, p) \in Nat
         /\ Out(p) \in Int
         /\ 0 <= Out(p)
<1> DEFINE f == [c \in Calls |-> Pending(c, p)]
           z == [c \in 1..NCalls |-> 0]
<1>1. \A c \in Calls : Pending(c, p) \in Nat
  BY GrantedAmount DEF Pending
<1>2. f \in [1..NCalls -> Int] /\ \A i \in 1..NCalls : z[i] <= f[i]
  BY <1>1 DEF Calls
<1>3. z \in [1..NCalls -> Int] /\ \A i \in 1..NCalls : z[i] = 0
  OBVIOUS
<1>4. Out(p) = SumTo(f, NCalls)
  BY DEF Out
<1> HIDE DEF f, z
<1>5. SumTo(z, NCalls) = 0 /\ SumTo(f, NCalls) \in Int
  BY <1>2, <1>3, SumZero, SumType, CashAssumption
<1>6. SumTo(z, NCalls) <= SumTo(f, NCalls)
  BY <1>2, <1>3, SumMonotone, CashAssumption
<1> QED
  BY <1>1, <1>2, <1>4, <1>5, <1>6 DEF f

(* So is what the other granted withdrawals ask for.                       *)
LEMMA BesideType ==
  ASSUME Inv, NEW p, NEW c
  PROVE  /\ [d \in Calls |-> Beside(c, d, p)] \in [1..NCalls -> Int]
         /\ GrantedBeside(c, p) = SumTo([d \in Calls |-> Beside(c, d, p)], NCalls)
         /\ GrantedBeside(c, p) \in Int
<1>1. \A d \in Calls : Beside(c, d, p) \in Int
  BY GrantedAmount DEF Beside
<1>2. [d \in Calls |-> Beside(c, d, p)] \in [1..NCalls -> Int]
  BY <1>1 DEF Calls
<1>3. GrantedBeside(c, p) = SumTo([d \in Calls |-> Beside(c, d, p)], NCalls)
  BY DEF GrantedBeside, Beside
<1> QED
  BY <1>2, <1>3, SumType, CashAssumption

(* At the start no withdrawal is granted.                                  *)
LEMMA InitSafe == Init => SafeInv
<1> SUFFICES ASSUME Init, NEW p \in Pos PROVE Free(p) >= 0
  BY DEF SafeInv, Covered
<1>1. Inv
  BY InitInv
<1>2. \A c \in Calls : Pending(c, p) = 0
  BY DEF Init, Pending, Granted, Blank
<1>3. Out(p) = 0
  BY <1>1, <1>2, OutType, SumZero, CashAssumption DEF Out, Calls
<1> QED
  BY <1>3 DEF Init, Free

(* The same types, as one state formula that also holds after a step.      *)
GrantTypes ==
  /\ \A p \in Pos : Out(p) \in Int
  /\ \A p \in Pos, c \in Calls : Granted(c, p) => call[c].amount \in Nat
  /\ \A p \in Pos, c \in Calls :
       /\ [d \in Calls |-> Beside(c, d, p)] \in [1..NCalls -> Int]
       /\ GrantedBeside(c, p) = SumTo([d \in Calls |-> Beside(c, d, p)], NCalls)
       /\ GrantedBeside(c, p) \in Int

(* The invariant gives the types of the granted withdrawals.               *)
LEMMA InvGrantTypes == Inv => GrantTypes
BY OutType, GrantedAmount, BesideType DEF GrantTypes

(* A step that takes nothing from Free(p) and revokes no grant.            *)
LEMMA FreeStep ==
  ASSUME Inv, Inv', GrantTypes, GrantTypes', NEW p \in Pos, Covered(p), Free(p)' >= Free(p),
         \A c \in Calls : Granted(c, p) =>
           Granted(c, p)' /\ call'[c].amount = call[c].amount
  PROVE  Covered(p)'
<1>1. Free(p) \in Int /\ Free(p)' \in Int
  <2>1. Out(p) \in Int
    BY DEF GrantTypes
  <2>2. Out(p)' \in Int
    BY DEF GrantTypes
  <2> QED
    BY <2>1, <2>2 DEF Free, Inv, TypeOK
<1>2. CASE Free(p) >= 0
  BY <1>1, <1>2 DEF Covered
<1>3. ASSUME NEW c \in Calls, Granted(c, p), Free(p) >= - GrantedBeside(c, p)
      PROVE  Covered(p)'
  <2> DEFINE f == [d \in Calls |-> Beside(c, d, p)]
             h == [d \in Calls |-> Beside(c, d, p)']
  <2>1. f \in [1..NCalls -> Int] /\ SumTo(f, NCalls) = GrantedBeside(c, p)
        /\ GrantedBeside(c, p) \in Int
    BY BesideType
  <2>2. h \in [1..NCalls -> Int] /\ SumTo(h, NCalls) = GrantedBeside(c, p)'
        /\ GrantedBeside(c, p)' \in Int
    BY DEF GrantTypes
  <2>3. \A d \in 1..NCalls : f[d] <= h[d]
    <3> SUFFICES ASSUME NEW d \in Calls PROVE Beside(c, d, p) <= Beside(c, d, p)'
      BY DEF Calls
    <3>1. Granted(d, p) => call[d].amount \in Nat
      BY GrantedAmount
    <3>2. Granted(d, p)' => call'[d].amount \in Nat
      BY DEF GrantTypes
    <3> QED
      BY <3>1, <3>2 DEF Beside
  <2> HIDE DEF f, h
  <2>4. SumTo(f, NCalls) <= SumTo(h, NCalls)
    BY ONLY <2>1, <2>2, <2>3, SumMonotone, CashAssumption
  <2>5. Free(p)' >= - GrantedBeside(c, p)'
    BY <1>1, <1>3, <2>1, <2>2, <2>4
  <2> QED
    BY <1>3, <2>5 DEF Covered
<1> QED
  BY <1>2, <1>3 DEF Covered

(* r and q are the same granted withdrawal, or neither is one.             *)
Grant(r) == r.op = "withdrawal" /\ r.stmt["balance"] # "none"
SameGrant(r, q) ==
  /\ Grant(r) <=> Grant(q)
  /\ Grant(r) => /\ q.pos = r.pos /\ q.amount = r.amount
                 /\ q.stmt["balance"] = r.stmt["balance"]

(* A step that grants nothing leaves the free balance alone.               *)
LEMMA SameGrantFree ==
  ASSUME NEW p, \A c \in Calls : SameGrant(call[c], call'[c])
  PROVE  /\ Out(p)' = Out(p)
         /\ \A c \in Calls : Granted(c, p) =>
              Granted(c, p)' /\ call'[c].amount = call[c].amount
<1>1. \A c \in Calls : Pending(c, p)' = Pending(c, p)
  BY DEF SameGrant, Grant, Pending, Granted
<1>2. Out(p)' = Out(p)
  BY <1>1 DEF Out
<1> QED
  BY <1>2 DEF SameGrant, Grant, Granted

(* A step without a write or a grant keeps every till covered.             *)
LEMMA QuietSafe ==
  ASSUME Inv, Inv', GrantTypes, GrantTypes', SafeInv, balance' = balance,
         \A c \in Calls : SameGrant(call[c], call'[c])
  PROVE  SafeInv'
<1> SUFFICES ASSUME NEW p \in Pos PROVE Covered(p)'
  BY DEF SafeInv
<1>1. Free(p)' = Free(p) /\ Free(p) \in Int
  BY SameGrantFree DEF Free, GrantTypes, Inv, TypeOK
<1> QED
  <2>1. \A c \in Calls : Granted(c, p) =>
          Granted(c, p)' /\ call'[c].amount = call[c].amount
    BY SameGrantFree
  <2>2. Free(p)' >= Free(p)
    BY <1>1
  <2> QED
    BY <2>1, <2>2, FreeStep DEF SafeInv

(* A call that grants nothing before or after a step.                      *)
LEMMA NotGranting ==
  ASSUME Inv, Inv', GrantTypes, GrantTypes', SafeInv, balance' = balance,
         NEW c \in Calls, \A d \in Calls : d # c => call'[d] = call[d],
         ~ Grant(call[c]), ~ Grant(call'[c])
  PROVE  SafeInv'
BY QuietSafe DEF SameGrant

(* A withdrawal is granted only on a balance that covers it.               *)
LEMMA GrantSafe ==
  ASSUME Inv, Inv', GrantTypes, GrantTypes', SafeInv,
         NEW c \in Calls, GetPosForWithdrawal(c), Pay(c)
  PROVE  SafeInv'
<1> SUFFICES ASSUME NEW p \in Pos PROVE Covered(p)'
  BY DEF SafeInv
<1>1. /\ call[c] \in Call /\ Coherent(c, "getPos", call[c], shifts)
      /\ pc[c] = "getPos" /\ call[c].op = "withdrawal"
      /\ balance' = balance
  BY InvFacts DEF GetPosForWithdrawal, tables
<1>2. /\ \A d \in Calls : d # c => call'[d] = call[d]
      /\ call'[c] = [call[c] EXCEPT !.stmt = [w \in Writes |-> "todo"]]
  BY DEF Pay, Inv, TypeOK
<1>3. /\ call'[c].op = "withdrawal" /\ call'[c].pos = call[c].pos
      /\ call'[c].amount = call[c].amount /\ call'[c].stmt["balance"] = "todo"
  BY <1>1, <1>2 DEF Call, Writes
<1>4. call[c].stmt["balance"] = "none"
  BY <1>1 DEF Coherent, Running, NoStmt, Writes
<1>5. CASE call[c].pos # p
  <2>1. \A d \in Calls : Pending(d, p)' = Pending(d, p)
    BY <1>2, <1>3, <1>4, <1>5 DEF Pending, Granted
  <2>2. Out(p)' = Out(p)
    BY <2>1 DEF Out
  <2>3. Free(p)' = Free(p) /\ Free(p) \in Int
    BY <1>1, <2>2 DEF Free, GrantTypes, Inv, TypeOK
  <2>4. \A d \in Calls : Granted(d, p) =>
          Granted(d, p)' /\ call'[d].amount = call[d].amount
    BY <1>2, <1>4 DEF Granted
  <2> QED
    BY <2>3, <2>4, FreeStep DEF SafeInv
<1>6. CASE call[c].pos = p
  <2> DEFINE a == call[c].amount
             f == [d \in Calls |-> Pending(d, p)]
             h == [d \in Calls |-> Pending(d, p)']
             b == [d \in Calls |-> Beside(c, d, p)']
  <2>1. a \in Nat /\ a <= balance[p] /\ balance[p] \in Int
    <3>1. a \in Nat
      BY <1>1, AmountsAssumption DEF Coherent, CashOps
    <3>2. ~ (a > balance[p])
      BY <1>6, <1>1, <1>2, <1>3, <1>4 DEF GetPosForWithdrawal, Reject, End, Goto, Pay, Inv, TypeOK
    <3> QED
      BY <3>1, <3>2 DEF Inv, TypeOK
  <2>2. f \in [1..NCalls -> Int] /\ \A d \in Calls : f[d] \in Nat
    BY OutType
  <2>3. f[c] = 0 /\ h[c] = a
    BY <1>3, <1>4, <1>6 DEF Pending, Granted
  <2>4. \A d \in Calls : d # c => h[d] = f[d]
    BY <1>2 DEF Pending, Granted
  <2>5. b \in [1..NCalls -> Int] /\ GrantedBeside(c, p)' = SumTo(b, NCalls)
        /\ GrantedBeside(c, p)' \in Int
    BY DEF GrantTypes
  <2>6. \A d \in Calls : f[d] <= b[d]
    <3> SUFFICES ASSUME NEW d \in Calls PROVE Pending(d, p) <= Beside(c, d, p)'
      OBVIOUS
    <3>1. CASE d = c
      BY <2>3, <3>1 DEF Beside
    <3>2. CASE d # c
      <4>1. Granted(d, p) => call[d].amount \in Nat
        BY GrantedAmount
      <4> QED
        BY <1>2, <3>2, <4>1 DEF Beside, Pending, Granted
    <3> QED
      BY <3>1, <3>2
  <2>7. Out(p) = SumTo(f, NCalls) /\ Out(p)' = SumTo(h, NCalls)
    BY DEF Out
  <2>8. Granted(c, p)'
    BY <1>3, <1>6 DEF Granted
  <2>9. Free(p)' = balance[p] - Out(p)'
    BY <1>1 DEF Free
  <2> HIDE DEF f, a, b
  <2>10. h \in [1..NCalls -> Int]
    <3>1. \A d \in Calls : h[d] \in Int
      <4> HIDE DEF h
      <4> QED
        BY <2>1, <2>2, <2>3, <2>4
    <3> QED
      BY <3>1 DEF Calls
  <2> HIDE DEF h
  <2>11. SumTo(h, NCalls) = SumTo(f, NCalls) + (h[c] - f[c])
    <3>1. /\ NCalls \in Nat /\ c \in 1..NCalls
          /\ \A i \in 1..NCalls : i # c => h[i] = f[i]
      BY <2>4, CashAssumption DEF Calls
    <3> QED
      BY ONLY <2>2, <2>10, <3>1, SumChange
  <2>12. SumTo(f, NCalls) <= SumTo(b, NCalls)
    <3>1. NCalls \in Nat /\ \A i \in 1..NCalls : f[i] <= b[i]
      BY <2>6, CashAssumption DEF Calls
    <3> QED
      BY ONLY <2>2, <2>5, <3>1, SumMonotone
  <2>13. SumTo(f, NCalls) \in Int /\ SumTo(b, NCalls) \in Int
    BY <2>2, <2>5, SumType, CashAssumption
  <2>14. Free(p)' >= - GrantedBeside(c, p)'
    BY ONLY <2>1, <2>3, <2>5, <2>7, <2>9, <2>11, <2>12, <2>13
  <2> QED
    BY <2>8, <2>14 DEF Covered
<1> QED
  BY <1>5, <1>6

(* An applied movement keeps every till covered.                           *)
LEMMA UpdateBalanceSafe ==
  ASSUME Inv, Inv', GrantTypes, GrantTypes', SafeInv,
         NEW c \in Calls, UpdateBalance(c)
  PROVE  SafeInv'
<1> SUFFICES ASSUME NEW p \in Pos PROVE Covered(p)'
  BY DEF SafeInv
<1>1. /\ call[c] \in Call /\ Coherent(c, "pay", call[c], shifts)
      /\ call[c].stmt["balance"] = "todo"
      /\ \A d \in Calls : d # c => call'[d] = call[d]
      /\ call'[c] = [call[c] EXCEPT !.stmt = [call[c].stmt EXCEPT !["balance"] = "done"]]
  BY InvFacts DEF UpdateBalance, Settle, Inv, TypeOK
<1>2. /\ call'[c].stmt["balance"] = "done" /\ call'[c].op = call[c].op
      /\ call'[c].amount = call[c].amount /\ call'[c].pos = call[c].pos
  BY <1>1 DEF Call, Writes
<1>3. \A d \in Calls : Granted(d, p) =>
        Granted(d, p)' /\ call'[d].amount = call[d].amount
  BY <1>1, <1>2 DEF Granted
<1> DEFINE f == [d \in Calls |-> Pending(d, p)]
           h == [d \in Calls |-> Pending(d, p)']
           x == IF call[c].pos = p THEN Delta(c) ELSE 0
<1>4. /\ balance'[p] = balance[p] + x
      /\ balance[p] \in Int /\ x \in Int
  BY <1>1, DeltaType DEF UpdateBalance, Inv, TypeOK, Coherent
<1>5. f \in [1..NCalls -> Int] /\ \A d \in Calls : f[d] \in Nat
  BY OutType
<1>6. h[c] = 0
  BY <1>2 DEF Pending
<1>7. x >= - f[c]
  <2>1. call[c].amount \in Nat
    BY <1>1, AmountsAssumption DEF Coherent
  <2>2. CASE call[c].op = "withdrawal" /\ call[c].pos = p
    BY <1>1, <2>1, <2>2 DEF Pending, Granted, Delta, Signed, DirectionOf
  <2>3. CASE call[c].op # "withdrawal"
    BY <1>1, <2>1, <2>3 DEF Pending, Granted, Delta, Signed, DirectionOf
  <2>4. CASE call[c].pos # p
    BY <2>4 DEF Pending, Granted
  <2> QED
    BY <2>2, <2>3, <2>4
<1>8. \A d \in Calls : d # c => h[d] = f[d]
  BY <1>1 DEF Pending, Granted
<1>9. Out(p) = SumTo(f, NCalls) /\ Out(p)' = SumTo(h, NCalls)
  BY DEF Out
<1> HIDE DEF f, x
<1>10. h \in [1..NCalls -> Int]
  <2>1. \A d \in Calls : h[d] \in Int
    <3> HIDE DEF h
    <3> QED
      BY <1>5, <1>6, <1>8
  <2> QED
    BY <2>1 DEF Calls
<1> HIDE DEF h
<1>11. SumTo(h, NCalls) = SumTo(f, NCalls) + (h[c] - f[c])
  <2>1. /\ NCalls \in Nat /\ c \in 1..NCalls
        /\ \A i \in 1..NCalls : i # c => h[i] = f[i]
    BY <1>8, CashAssumption DEF Calls
  <2> QED
    BY ONLY <1>5, <1>10, <2>1, SumChange
<1>12. SumTo(f, NCalls) \in Int /\ f[c] \in Int
  BY <1>5, SumType, CashAssumption
<1>13. Free(p)' >= Free(p)
  <2>1. /\ Free(p) = balance[p] - SumTo(f, NCalls)
        /\ Free(p)' = (balance[p] + x) - (SumTo(f, NCalls) + (0 - f[c]))
    BY <1>4, <1>6, <1>9, <1>11 DEF Free
  <2> QED
    BY ONLY <1>4, <1>7, <1>12, <2>1
<1> QED
  BY <1>3, <1>13, FreeStep DEF SafeInv

(* A lost write keeps every till covered.                                  *)
LEMMA LoseWriteSafe ==
  ASSUME Inv, Inv', GrantTypes, GrantTypes', SafeInv,
         NEW c \in Calls, LoseWrite(c)
  PROVE  SafeInv'
<1> SUFFICES ASSUME NEW p \in Pos PROVE Covered(p)'
  BY DEF SafeInv
<1>1. PICK w \in Writes : call[c].stmt[w] = "todo" /\ Settle(c, w, "lost")
  BY DEF LoseWrite
<1>2. /\ call[c] \in Call
      /\ \A d \in Calls : d # c => call'[d] = call[d]
      /\ call'[c] = [call[c] EXCEPT !.stmt = [call[c].stmt EXCEPT ![w] = "lost"]]
      /\ balance' = balance
  BY <1>1, InvFacts DEF LoseWrite, Settle, Inv, TypeOK, tables
<1>3. /\ call'[c].op = call[c].op /\ call'[c].amount = call[c].amount
      /\ call'[c].pos = call[c].pos
      /\ \/ call'[c].stmt["balance"] = call[c].stmt["balance"]
         \/ call'[c].stmt["balance"] = "lost" /\ call[c].stmt["balance"] = "todo"
  BY <1>1, <1>2 DEF Call, Writes
<1>4. \A d \in Calls : Granted(d, p) =>
        Granted(d, p)' /\ call'[d].amount = call[d].amount
  BY <1>2, <1>3 DEF Granted
<1> DEFINE f == [d \in Calls |-> Pending(d, p)]
           h == [d \in Calls |-> Pending(d, p)']
<1>5. f \in [1..NCalls -> Int] /\ \A d \in Calls : f[d] \in Nat
  BY OutType
<1>6. \A d \in Calls : h[d] = f[d] \/ h[d] = 0
  BY <1>2, <1>3 DEF Pending, Granted
<1>7. Out(p) = SumTo(f, NCalls) /\ Out(p)' = SumTo(h, NCalls)
  BY DEF Out
<1> HIDE DEF f
<1>8. h \in [1..NCalls -> Int] /\ \A i \in 1..NCalls : h[i] <= f[i]
  <2>1. \A d \in Calls : h[d] \in Int /\ h[d] <= f[d]
    <3> HIDE DEF h
    <3> QED
      BY <1>5, <1>6
  <2> QED
    BY <2>1 DEF Calls
<1> HIDE DEF h
<1>9. SumTo(h, NCalls) <= SumTo(f, NCalls)
  BY <1>5, <1>8, SumMonotone, CashAssumption
<1>10. SumTo(h, NCalls) \in Int /\ SumTo(f, NCalls) \in Int
  BY <1>5, <1>8, SumType, CashAssumption
<1>11. Free(p)' >= Free(p)
  <2>1. /\ balance[p] \in Int
        /\ Free(p) = balance[p] - SumTo(f, NCalls)
        /\ Free(p)' = balance[p] - SumTo(h, NCalls)
    BY <1>2, <1>7 DEF Free, Inv, TypeOK
  <2> QED
    BY ONLY <1>9, <1>10, <2>1
<1> QED
  BY <1>4, <1>11, FreeStep DEF SafeInv

(* That every till is covered is inductive.                                *)
LEMMA NextSafe ==
  Inv /\ Inv' /\ GrantTypes /\ GrantTypes' /\ SafeInv /\ [Next]_vars => SafeInv'
<1> SUFFICES ASSUME Inv, Inv', GrantTypes, GrantTypes', SafeInv, [Next]_vars
             PROVE  SafeInv'
  OBVIOUS
<1>1. ASSUME NEW c \in Calls, balance' = balance,
             \A d \in Calls : d # c => call'[d] = call[d],
             pc[c] \in {"idle"} \cup (Running \ {"pay"}),
             \/ pc'[c] \in {"idle"} \cup (Running \ {"pay"})
             \/ call'[c] = Blank
             \/ call'[c].op # "withdrawal"
      PROVE  SafeInv'
  <2>1. call[c].stmt = NoStmt
    BY <1>1, InvFacts DEF Coherent
  <2>2. ~ Grant(call[c])
    BY <2>1 DEF Grant, NoStmt, Writes
  <2>3. ~ Grant(call'[c])
    <3>1. CASE pc'[c] \in {"idle"} \cup (Running \ {"pay"})
      <4>1. call'[c].stmt = NoStmt
        BY <3>1 DEF Inv, AllCoherent, Coherent
      <4> QED
        BY <4>1 DEF Grant, NoStmt, Writes
    <3>2. CASE call'[c] = Blank \/ call'[c].op # "withdrawal"
      BY <3>2 DEF Grant, Blank
    <3> QED
      BY <1>1, <3>1, <3>2
  <2> QED
    BY <1>1, <2>2, <2>3, NotGranting
<1>2. ASSUME NEW c \in Calls, Arrive(c) PROVE SafeInv'
  <2>1. PICK r, l : Receive(c, r, l) /\ l \in {"count", "getShift"}
    BY <1>2 DEF Arrive, ReceiveCreate, ReceiveCash, ReceiveClose, ReceiveUpdate
  <2>2. /\ balance' = balance
        /\ \A d \in Calls : d # c => call'[d] = call[d]
        /\ pc[c] = "idle" /\ pc'[c] = l
    BY <2>1 DEF Receive, Goto, tables, Inv, TypeOK
  <2> QED
    BY <1>1, <2>1, <2>2 DEF Running
<1>3. ASSUME NEW c \in Calls, Serve(c) PROVE SafeInv'
  <2> USE DEF Inv, TypeOK, Goto, tables, Running
  <2>1. CASE CountShifts(c)
    BY <1>1, <2>1 DEF CountShifts
  <2>2. CASE InsertShift(c)
    BY <1>1, <2>2 DEF InsertShift
  <2>3. CASE ShiftMissing(c)
    BY <1>1, <2>3 DEF ShiftMissing, Reject, End
  <2>4. CASE ShiftForbidden(c)
    BY <1>1, <2>4 DEF ShiftForbidden, Reject, End
  <2>5. CASE GetShift(c)
    BY <1>1, <2>5 DEF GetShift
  <2>6. CASE GetPosForDeposit(c)
    BY <1>1, <2>6 DEF GetPosForDeposit, Pay, Call
  <2>7. CASE GetPosForWithdrawal(c)
    <3>1. CASE Pay(c)
      BY <2>7, <3>1, GrantSafe
    <3>2. CASE Reject(c)
      BY <1>1, <2>7, <3>2 DEF GetPosForWithdrawal, Reject, End
    <3> QED
      BY <2>7, <3>1, <3>2 DEF GetPosForWithdrawal
  <2>8. CASE CreateTransaction(c)
    <3>1. \A d \in Calls : SameGrant(call[d], call'[d])
      <4>1. call[c] \in Call /\ call' = [call EXCEPT ![c].stmt =
                                           [call[c].stmt EXCEPT !["row"] = "done"]]
        BY <2>8 DEF CreateTransaction, Settle
      <4> QED
        BY <4>1 DEF SameGrant, Grant, Call, Writes
    <3> QED
      BY <2>8, <3>1, QuietSafe DEF CreateTransaction
  <2>9. CASE UpdateBalance(c)
    BY <2>9, UpdateBalanceSafe
  <2>10. CASE CloseShift(c)
    BY <1>1, <2>10 DEF CloseShift, End
  <2>11. CASE UpdateShift(c)
    BY <1>1, <2>11 DEF UpdateShift, End
  <2> QED
    BY <1>3, <2>1, <2>2, <2>3, <2>4, <2>5, <2>6, <2>7, <2>8, <2>9, <2>10, <2>11
       DEF Serve
<1>4. ASSUME NEW c \in Calls, LoseWrite(c) PROVE SafeInv'
  BY <1>4, LoseWriteSafe
<1>5. CASE CloseAllShifts
  BY <1>5, QuietSafe DEF CloseAllShifts, SameGrant
<1>6. CASE Restart
  <2>1. ASSUME NEW c \in Calls PROVE SameGrant(call[c], call'[c])
    <3>1. CASE pc[c] \in Running \ {"pay"}
      <4>1. call[c].stmt = NoStmt /\ call'[c] = Blank
        BY <1>6, <3>1, InvFacts DEF Coherent, Restart
      <4> QED
        BY <4>1, BlankType DEF SameGrant, Grant, NoStmt, Writes
    <3>2. CASE pc[c] \notin Running \ {"pay"}
      BY <1>6, <3>2 DEF Restart, SameGrant
    <3> QED
      BY <3>1, <3>2
  <2> QED
    BY <1>6, <2>1, QuietSafe DEF Restart, tables
<1>7. CASE UNCHANGED vars
  BY <1>7, QuietSafe DEF vars, SameGrant
<1> QED
  BY <1>2, <1>3, <1>4, <1>5, <1>6, <1>7 DEF Next

(* A till that is covered is overdrawn within the bound.                   *)
LEMMA SafeBoundsOverdraft == Inv /\ SafeInv => OverdraftBounded
<1> SUFFICES ASSUME Inv, NEW p \in Pos, Covered(p)
             PROVE  \/ balance[p] >= 0
                    \/ \E c \in Calls : Granted(c, p) /\ balance[p] >= - GrantedBeside(c, p)
  BY DEF SafeInv, OverdraftBounded
<1>1. Out(p) \in Int /\ 0 <= Out(p) /\ balance[p] \in Int
  BY OutType DEF Inv, TypeOK
<1>2. Free(p) \in Int /\ Free(p) <= balance[p]
  BY <1>1 DEF Free
<1>3. \A c \in Calls : GrantedBeside(c, p) \in Int
  BY BesideType
<1> QED
  BY <1>1, <1>2, <1>3 DEF Covered

(* The race of two withdrawals cannot overdraw a till by more than the     *)
(* granted withdrawals but one, whatever else interleaves with them.       *)
THEOREM OverdraftIsBounded == Spec => []OverdraftBounded
<1>1. Init => Inv /\ SafeInv
  BY InitInv, InitSafe
<1>2. Inv /\ SafeInv /\ [Next]_vars => Inv' /\ SafeInv'
  <2>1. Inv => GrantTypes
    BY InvGrantTypes
  <2>2. Inv' => GrantTypes'
    BY InvGrantTypes, PTL
  <2> QED
    BY <2>1, <2>2, NextInv, NextSafe
<1>3. Inv /\ SafeInv => OverdraftBounded
  BY SafeBoundsOverdraft
<1> QED
  BY <1>1, <1>2, <1>3, PTL DEF Spec

-----------------------------------------------------------------------------
(* The names of the shifts.                                                *)

(* Every shift of the table keeps what its name is made of.                *)
KeepsNames ==
  \A s \in DOMAIN shifts :
    /\ s \in DOMAIN shifts'
    /\ shifts'[s].pos = shifts[s].pos /\ shifts'[s].number = shifts[s].number

(* What a step of the system does to the table and to the calls that are   *)
(* about to insert.                                                        *)
NameStep ==
  /\ KeepsNames
  /\ \A s \in DOMAIN shifts' : s \in DOMAIN shifts \/ (s \in Calls /\ InsertShift(s))
  /\ \A c \in Calls : pc'[c] = "insert" =>
       CountShifts(c) \/ (pc[c] = "insert" /\ call'[c] = call[c])

(* A step that leaves the tables alone and brings no call but c anywhere.  *)
LEMMA ReadingStep ==
  ASSUME Inv, NEW c \in Calls, shifts' = shifts,
         \A d \in Calls : d # c => pc'[d] = pc[d] /\ call'[d] = call[d],
         pc'[c] # "insert" \/ CountShifts(c)
  PROVE  NameStep
BY DEF NameStep, KeepsNames

(* Rewriting a field that is not part of the name keeps the names.         *)
LEMMA RewritingStep ==
  ASSUME Inv, NEW c \in Calls, pc[c] \in {"close", "update"}, End(c, "done"),
         NEW row \in Shift, shifts' = [shifts EXCEPT ![call[c].shift] = row],
         row.pos = shifts[call[c].shift].pos,
         row.number = shifts[call[c].shift].number
  PROVE  NameStep
<1>1. DOMAIN shifts' = DOMAIN shifts /\ KeepsNames
  BY DEF KeepsNames
<1>2. \A d \in Calls : pc'[d] = "insert" => pc[d] = "insert" /\ call'[d] = call[d]
  BY DEF End, Goto, Inv, TypeOK
<1> QED
  BY <1>1, <1>2 DEF NameStep

(* The steps of the handlers, seen from the names.                         *)
LEMMA ServeNameStep ==
  ASSUME Inv, NEW c \in Calls, Serve(c)
  PROVE  NameStep
<1>1. CASE InsertShift(c)
  <2>1. /\ DOMAIN shifts' = DOMAIN shifts \cup {c} /\ c \notin DOMAIN shifts
        /\ \A s \in DOMAIN shifts : shifts'[s] = shifts[s]
    BY <1>1, InvFacts DEF InsertShift, Put, Coherent
  <2>2. \A d \in Calls : pc'[d] = "insert" => pc[d] = "insert" /\ call'[d] = call[d]
    BY <1>1 DEF InsertShift, Goto, Inv, TypeOK
  <2> QED
    BY <1>1, <2>1, <2>2 DEF NameStep, KeepsNames
<1>2. CASE CloseShift(c)
  <2> DEFINE row == [shifts[call[c].shift] EXCEPT !.isOpened = FALSE]
  <2>1. TablesOK /\ call[c].shift \in DOMAIN shifts
    BY <1>2, InvFacts DEF Coherent, CloseShift
  <2>2. /\ row \in Shift /\ row.pos = shifts[call[c].shift].pos
        /\ row.number = shifts[call[c].shift].number
    BY <2>1 DEF TablesOK, Shift
  <2>3. shifts' = [shifts EXCEPT ![call[c].shift] = row]
    BY <1>2 DEF CloseShift
  <2> HIDE DEF row
  <2> QED
    BY <1>2, <2>2, <2>3, RewritingStep DEF CloseShift
<1>3. CASE UpdateShift(c)
  <2> DEFINE row == Corrected(shifts[call[c].shift], call[c])
  <2>1. TablesOK /\ call[c].shift \in DOMAIN shifts /\ call[c].amount \in Amounts
    BY <1>3, InvFacts DEF Coherent, UpdateShift
  <2>2. /\ row \in Shift /\ row.pos = shifts[call[c].shift].pos
        /\ row.number = shifts[call[c].shift].number
    BY <2>1, CorrectedType DEF TablesOK
  <2>3. shifts' = [shifts EXCEPT ![call[c].shift] = row]
    BY <1>3 DEF UpdateShift
  <2> HIDE DEF row
  <2> QED
    BY <1>3, <2>2, <2>3, RewritingStep DEF UpdateShift
<1>4. CASE CountShifts(c)
  <2>1. /\ shifts' = shifts
        /\ \A d \in Calls : d # c => pc'[d] = pc[d] /\ call'[d] = call[d]
    BY <1>4 DEF CountShifts, Goto, tables, Inv, TypeOK
  <2> QED
    BY <1>4, <2>1, ReadingStep
<1>5. CASE ShiftMissing(c) \/ ShiftForbidden(c)
  BY <1>5, ReadingStep DEF ShiftMissing, ShiftForbidden, Reject, End, Goto, tables, Inv, TypeOK
<1>6. CASE GetShift(c)
  BY <1>6, ReadingStep DEF GetShift, Goto, tables, Inv, TypeOK
<1>7. CASE GetPosForDeposit(c) \/ GetPosForWithdrawal(c)
  BY <1>7, ReadingStep DEF GetPosForDeposit, GetPosForWithdrawal, Pay, Reject, End, Goto,
     tables, Inv, TypeOK
<1>8. CASE CreateTransaction(c) \/ UpdateBalance(c)
  BY <1>8, ReadingStep DEF CreateTransaction, UpdateBalance, Settle, Inv, TypeOK
<1> QED
  BY <1>1, <1>2, <1>3, <1>4, <1>5, <1>6, <1>7, <1>8 DEF Serve

(* Every step, seen from the names.                                        *)
LEMMA NextNameStep == Inv /\ [Next]_vars => NameStep
<1> SUFFICES ASSUME Inv, [Next]_vars PROVE NameStep
  OBVIOUS
<1>1. ASSUME NEW c \in Calls, Arrive(c) PROVE NameStep
  <2>1. PICK r, l : Receive(c, r, l) /\ l \in {"count", "getShift"}
    BY <1>1 DEF Arrive, ReceiveCreate, ReceiveCash, ReceiveClose, ReceiveUpdate
  <2> QED
    BY <2>1, ReadingStep DEF Receive, Goto, tables, Inv, TypeOK
<1>2. ASSUME NEW c \in Calls, LoseWrite(c) PROVE NameStep
  BY <1>2, ReadingStep DEF LoseWrite, Settle, tables, Inv, TypeOK
<1>3. CASE CloseAllShifts
  <2>1. /\ DOMAIN shifts' = DOMAIN shifts
        /\ \A s \in DOMAIN shifts : shifts'[s] = [shifts[s] EXCEPT !.isOpened = FALSE]
        /\ UNCHANGED <<pc, call>>
    BY <1>3 DEF CloseAllShifts
  <2>2. KeepsNames
    BY <2>1 DEF KeepsNames, Inv, TypeOK, Shift
  <2> QED
    BY <2>1, <2>2 DEF NameStep
<1>4. CASE Restart
  <2>1. \A c \in Calls : pc'[c] # "insert"
    BY <1>4 DEF Restart, Running
  <2> QED
    BY <1>4, <2>1 DEF NameStep, KeepsNames, Restart, tables
<1>5. CASE UNCHANGED vars
  BY <1>5 DEF vars, NameStep, KeepsNames
<1> QED
  BY <1>1, <1>2, <1>3, <1>4, <1>5, ServeNameStep DEF Next

(* The point of sale has enough shifts for every number in use, and for    *)
(* every number a create is about to use.                                  *)
Numbered(n, p) == n <= Cardinality(ShiftsOf(p))
NumbersInv ==
  /\ \A s \in DOMAIN shifts : Numbered(shifts[s].number, shifts[s].pos)
  /\ \A c \in Calls : pc[c] = "insert" => Numbered(call[c].count, call[c].pos)

(* The shifts of a point of sale can be counted.                           *)
LEMMA ShiftCount ==
  ASSUME Inv, NEW p
  PROVE  IsFiniteSet(ShiftsOf(p)) /\ Cardinality(ShiftsOf(p)) \in Nat
<1>1. ShiftsOf(p) \subseteq Calls /\ IsFiniteSet(Calls)
  BY FS_Interval, CashAssumption DEF Calls, Inv, TypeOK, ShiftsOf
<1> QED
  BY <1>1, FS_Subset, FS_CardinalityType

(* And in the next state.                                                  *)
LEMMA ShiftCountAfter ==
  ASSUME Inv', NEW p
  PROVE  IsFiniteSet(ShiftsOf(p)') /\ Cardinality(ShiftsOf(p)') \in Nat
<1>1. ShiftsOf(p)' \subseteq Calls /\ IsFiniteSet(Calls)
  BY FS_Interval, CashAssumption DEF Calls, Inv, TypeOK, ShiftsOf
<1> QED
  BY <1>1, FS_Subset, FS_CardinalityType

(* A step only adds shifts to a point of sale, and an inserted shift adds  *)
(* one.                                                                    *)
LEMMA ShiftCountGrows ==
  ASSUME Inv, Inv', NameStep, NEW p
  PROVE  /\ Cardinality(ShiftsOf(p)) <= Cardinality(ShiftsOf(p)')
         /\ \A s \in DOMAIN shifts' \ DOMAIN shifts : shifts'[s].pos = p =>
              Cardinality(ShiftsOf(p)) + 1 <= Cardinality(ShiftsOf(p)')
<1>1. ShiftsOf(p) \subseteq ShiftsOf(p)'
  BY DEF NameStep, KeepsNames, ShiftsOf
<1>2. /\ IsFiniteSet(ShiftsOf(p)) /\ Cardinality(ShiftsOf(p)) \in Nat
      /\ IsFiniteSet(ShiftsOf(p)') /\ Cardinality(ShiftsOf(p)') \in Nat
  BY ShiftCount, ShiftCountAfter
<1>3. Cardinality(ShiftsOf(p)) <= Cardinality(ShiftsOf(p)')
  BY <1>1, <1>2, FS_Subset
<1>4. ASSUME NEW s \in DOMAIN shifts' \ DOMAIN shifts, shifts'[s].pos = p
      PROVE  Cardinality(ShiftsOf(p)) + 1 <= Cardinality(ShiftsOf(p)')
  <2>1. s \notin ShiftsOf(p) /\ ShiftsOf(p) \cup {s} \subseteq ShiftsOf(p)'
    BY <1>1, <1>4 DEF ShiftsOf
  <2>2. Cardinality(ShiftsOf(p) \cup {s}) = Cardinality(ShiftsOf(p)) + 1
    BY <1>2, <2>1, FS_AddElement
  <2>3. Cardinality(ShiftsOf(p) \cup {s}) <= Cardinality(ShiftsOf(p)')
    BY <1>2, <2>1, FS_Subset
  <2> QED
    BY <2>2, <2>3
<1> QED
  BY <1>3, <1>4

(* What InsertShift writes.                                                *)
LEMMA Inserted ==
  ASSUME Inv, NEW c \in Calls, InsertShift(c)
  PROVE  /\ c \notin DOMAIN shifts /\ c \in DOMAIN shifts' /\ pc[c] = "insert"
         /\ shifts'[c].pos = call[c].pos /\ shifts'[c].number = call[c].count + 1
         /\ call[c].count \in Nat
<1>1. c \notin DOMAIN shifts /\ pc[c] = "insert" /\ call[c] \in Call
  BY InvFacts DEF InsertShift, Coherent
<1> QED
  BY <1>1, CashAssumption DEF InsertShift, Put, Call

(* What CountShifts reads.                                                 *)
LEMMA Counted ==
  ASSUME Inv, NEW c \in Calls, CountShifts(c)
  PROVE  /\ shifts' = shifts /\ call'[c].pos = call[c].pos
         /\ call'[c].count = Cardinality(ShiftsOf(call[c].pos))
BY InvFacts DEF CountShifts, tables, Inv, TypeOK, Call

(* The numbers stay within the number of shifts.                           *)
LEMMA NextNumbers == Inv /\ Inv' /\ NumbersInv /\ [Next]_vars => NumbersInv'
<1> SUFFICES ASSUME Inv, Inv', NumbersInv, [Next]_vars PROVE NumbersInv'
  OBVIOUS
<1>1. NameStep
  BY NextNameStep
<1>2. ASSUME NEW s \in DOMAIN shifts', NEW p \in Pos, shifts'[s].pos = p
      PROVE  shifts'[s].number <= Cardinality(ShiftsOf(p)')
  <2>1. /\ Cardinality(ShiftsOf(p)) \in Nat /\ Cardinality(ShiftsOf(p)') \in Nat
        /\ Cardinality(ShiftsOf(p)) <= Cardinality(ShiftsOf(p)')
    BY <1>1, ShiftCount, ShiftCountAfter, ShiftCountGrows
  <2>2. CASE s \in DOMAIN shifts
    <3>1. shifts[s].number \in Nat /\ shifts[s].pos = p /\ shifts'[s].number = shifts[s].number
      BY <1>1, <1>2, <2>2, CashAssumption DEF NameStep, KeepsNames, Inv, TypeOK, Shift
    <3>2. shifts[s].number <= Cardinality(ShiftsOf(p))
      BY <2>2, <3>1 DEF NumbersInv, Numbered
    <3> QED
      BY <2>1, <3>1, <3>2
  <2>3. CASE s \notin DOMAIN shifts
    <3>1. s \in Calls /\ InsertShift(s)
      BY <1>1, <2>3 DEF NameStep
    <3>2. Cardinality(ShiftsOf(p)) + 1 <= Cardinality(ShiftsOf(p)')
      BY <1>1, <1>2, <2>3, ShiftCountGrows
    <3>3. /\ call[s].pos = p /\ pc[s] = "insert" /\ call[s].count \in Nat
          /\ shifts'[s].number = call[s].count + 1
      BY <1>2, <3>1, Inserted
    <3>4. call[s].count <= Cardinality(ShiftsOf(p))
      BY <3>1, <3>3 DEF NumbersInv, Numbered
    <3> QED
      BY <2>1, <3>2, <3>3, <3>4
  <2> QED
    BY <2>2, <2>3
<1>3. ASSUME NEW c \in Calls, pc'[c] = "insert", NEW p, call'[c].pos = p
      PROVE  call'[c].count <= Cardinality(ShiftsOf(p)')
  <2>1. /\ Cardinality(ShiftsOf(p)) \in Nat /\ Cardinality(ShiftsOf(p)') \in Nat
        /\ Cardinality(ShiftsOf(p)) <= Cardinality(ShiftsOf(p)')
    BY <1>1, ShiftCount, ShiftCountAfter, ShiftCountGrows
  <2>2. CASE CountShifts(c)
    <3>1. call'[c].count = Cardinality(ShiftsOf(p))
      BY <1>3, <2>2, Counted
    <3> QED
      BY <2>1, <3>1
  <2>3. CASE pc[c] = "insert" /\ call'[c] = call[c]
    <3>1. call[c].count \in Nat /\ call[c].count <= Cardinality(ShiftsOf(p))
      BY <1>3, <2>3, CashAssumption DEF NumbersInv, Numbered, Inv, TypeOK, Call
    <3> QED
      BY <2>1, <2>3, <3>1
  <2> QED
    BY <1>1, <1>3, <2>2, <2>3 DEF NameStep
<1>4. \A s \in DOMAIN shifts' : Numbered(shifts[s].number, shifts[s].pos)'
  <2> SUFFICES ASSUME NEW s \in DOMAIN shifts'
               PROVE  shifts'[s].number <= Cardinality(ShiftsOf(shifts[s].pos)')
    BY DEF Numbered
  <2>1. PICK p \in Pos : shifts'[s].pos = p
    BY DEF Inv, TypeOK, Shift
  <2>2. shifts'[s].number <= Cardinality(ShiftsOf(p)')
    BY <1>2, <2>1
  <2>3. ShiftsOf(p)' = ShiftsOf(shifts[s].pos)'
    BY <2>1 DEF ShiftsOf
  <2> QED
    BY <2>2, <2>3
<1>5. \A c \in Calls : pc'[c] = "insert" => Numbered(call[c].count, call[c].pos)'
  <2> SUFFICES ASSUME NEW c \in Calls, pc'[c] = "insert"
               PROVE  call'[c].count <= Cardinality(ShiftsOf(call[c].pos)')
    BY DEF Numbered
  <2>1. PICK p : call'[c].pos = p
    OBVIOUS
  <2>2. call'[c].count <= Cardinality(ShiftsOf(p)')
    BY <1>3, <2>1
  <2>3. ShiftsOf(p)' = ShiftsOf(call[c].pos)'
    BY <2>1 DEF ShiftsOf
  <2> QED
    BY <2>2, <2>3
<1> QED
  BY <1>4, <1>5 DEF NumbersInv

(* From the moment a create c finds the shift s in the table, c cannot     *)
(* take the name of s.                                                     *)
Older(s, c) ==
  /\ Exists(s) /\ s # c
  /\ pc[c] = "insert" /\ call[c].pos = shifts[s].pos =>
       shifts[s].number <= call[c].count
  /\ Exists(c) => ~ SameName(s, c)

(* A call that is younger than the shift s stays so.                       *)
LEMMA NextOlder ==
  ASSUME NEW s \in Calls, NEW c \in Calls
  PROVE  Inv /\ NumbersInv /\ Older(s, c) /\ [Next]_vars => Older(s, c)'
<1> SUFFICES ASSUME Inv, NumbersInv, Older(s, c), [Next]_vars PROVE Older(s, c)'
  OBVIOUS
<1>1. NameStep
  BY NextNameStep
<1>2. /\ s \in DOMAIN shifts' /\ shifts'[s].pos = shifts[s].pos
      /\ shifts'[s].number = shifts[s].number /\ s # c
      /\ shifts[s].number \in Nat
  BY <1>1, CashAssumption DEF NameStep, KeepsNames, Older, Exists, Inv, TypeOK, Shift
<1>3. ASSUME pc'[c] = "insert", call'[c].pos = shifts'[s].pos
      PROVE  shifts'[s].number <= call'[c].count
  <2>1. CASE CountShifts(c)
    <3>1. /\ call[c].pos = shifts[s].pos
          /\ call'[c].count = Cardinality(ShiftsOf(call[c].pos))
      BY <1>2, <1>3, <2>1, Counted
    <3>2. shifts[s].number <= Cardinality(ShiftsOf(shifts[s].pos))
      BY DEF NumbersInv, Numbered, Older, Exists
    <3> QED
      BY <1>2, <3>1, <3>2
  <2>2. CASE pc[c] = "insert" /\ call'[c] = call[c]
    BY <1>2, <1>3, <2>2 DEF Older
  <2> QED
    BY <1>1, <1>3, <2>1, <2>2 DEF NameStep
<1>4. ASSUME c \in DOMAIN shifts' PROVE ~ SameName(s, c)'
  <2>1. CASE c \in DOMAIN shifts
    <3>1. shifts'[c].pos = shifts[c].pos /\ shifts'[c].number = shifts[c].number
      BY <1>1, <2>1 DEF NameStep, KeepsNames
    <3> QED
      BY <1>2, <2>1, <3>1 DEF Older, Exists, SameName
  <2>2. CASE c \notin DOMAIN shifts
    <3>1. InsertShift(c)
      BY <1>1, <1>4, <2>2 DEF NameStep
    <3>2. /\ pc[c] = "insert" /\ shifts'[c].pos = call[c].pos
          /\ shifts'[c].number = call[c].count + 1 /\ call[c].count \in Nat
      BY <3>1, Inserted
    <3>3. call[c].pos = shifts[s].pos => shifts[s].number <= call[c].count
      BY <3>2 DEF Older
    <3> QED
      BY <1>2, <3>2, <3>3 DEF SameName
  <2> QED
    BY <2>1, <2>2
<1> QED
  BY <1>2, <1>3, <1>4 DEF Older, Exists

(* OldNamesNotReused, for every number of points of sale and of calls.     *)
THEOREM ShiftsKeepOldNames == Spec => OldNamesNotReused
<1>1. ASSUME NEW s \in Calls, NEW c \in Calls
      PROVE  Spec => [](Exists(s) /\ pc[c] \in {"idle", "count"} =>
                          [](Exists(s) /\ Exists(c) => ~ SameName(s, c)))
  <2>1. Inv /\ Exists(s) /\ pc[c] \in {"idle", "count"} => Older(s, c)
    BY InvFacts DEF Coherent, Exists, Older
  <2>2. Inv /\ NumbersInv /\ Older(s, c) /\ [Next]_vars => Older(s, c)'
    BY NextOlder
  <2>3. Older(s, c) => (Exists(s) /\ Exists(c) => ~ SameName(s, c))
    BY DEF Older
  <2>4. Spec => [](Inv /\ NumbersInv)
    <3>1. Init => NumbersInv
      BY DEF Init, NumbersInv
    <3> QED
      BY <3>1, InitInv, NextInv, NextNumbers, PTL DEF Spec
  <2> QED
    BY <2>1, <2>2, <2>3, <2>4, PTL DEF Spec
<1> QED
  BY <1>1 DEF OldNamesNotReused
-----------------------------------------------------------------------------
(* What an opening of a shift leaves behind.                               *)

Before == {"idle", "count", "insert"}

(* A create that has inserted its shift pays into that shift's till, and   *)
(* does not end as done with a write undone.                               *)
Funding(c) ==
  call[c].op = "create" =>
    /\ pc[c] \notin Before =>
         call[c].shift = c /\ c \in DOMAIN shifts /\ shifts[c].pos = call[c].pos
    /\ pc[c] = "done" => \A w \in Writes : Done(c, w)

FundingInv == \A c \in Calls : Funding(c)

(* A call that stays where it was, or goes on with its parameters.         *)
Continues(c) ==
  /\ call'[c].op = call[c].op /\ call'[c].shift = call[c].shift
  /\ call'[c].pos = call[c].pos
  /\ pc'[c] \notin Before => pc[c] \notin Before
  /\ pc'[c] = "done" => \/ pc[c] = "done" /\ call'[c] = call[c]
                        \/ \A w \in Writes : call'[c].stmt[w] = "done"

(* What a step means for a create: it counts, inserts its shift, reads it  *)
(* again, goes on, or it is not one any more.                              *)
FundStep(c) ==
  \/ call'[c].op # "create" \/ (pc'[c] \in Before)
  \/ InsertShift(c) \/ GetShift(c)
  \/ Continues(c)

(* The other calls leave c where it was.                                   *)
LEMMA StaysFundStep ==
  ASSUME NEW c \in Calls, pc'[c] = pc[c], call'[c] = call[c]
  PROVE  FundStep(c)
BY DEF FundStep, Continues

(* A promise that settles: the call returns only with both writes done.    *)
LEMMA SettleFundStep ==
  ASSUME Inv, NEW c \in Calls, NEW w \in Writes, NEW v \in {"done", "lost"},
         pc[c] = "pay", Settle(c, w, v)
  PROVE  FundStep(c)
<1> DEFINE stmt == [call[c].stmt EXCEPT ![w] = v]
<1>1. call[c] \in Call
  BY InvFacts
<1>2. /\ call'[c] = [call[c] EXCEPT !.stmt = stmt]
      /\ pc'[c] \in {"pay", "done", "failed"}
      /\ pc'[c] = "done" => \A u \in Writes : stmt[u] = "done"
  BY DEF Settle, Inv, TypeOK
<1> HIDE DEF stmt
<1>3. /\ call'[c].op = call[c].op /\ call'[c].shift = call[c].shift
      /\ call'[c].pos = call[c].pos /\ call'[c].stmt = stmt
  BY <1>1, <1>2 DEF Call
<1> QED
  BY <1>2, <1>3 DEF FundStep, Continues, Before

(* The steps of the handler of c.                                          *)
LEMMA ServeFundStep ==
  ASSUME Inv, NEW c \in Calls, Serve(c)
  PROVE  FundStep(c)
<1>1. CASE CountShifts(c)
  BY <1>1 DEF CountShifts, Goto, FundStep, Before, Inv, TypeOK
<1>2. CASE InsertShift(c) \/ GetShift(c)
  BY <1>2 DEF FundStep
<1>3. CASE ShiftMissing(c) \/ ShiftForbidden(c) \/ CloseShift(c) \/ UpdateShift(c)
  <2>1. call'[c] = Blank
    BY <1>3 DEF ShiftMissing, ShiftForbidden, Reject, CloseShift, UpdateShift, End, Inv, TypeOK
  <2> QED
    BY <2>1, BlankType DEF FundStep
<1>4. CASE GetPosForDeposit(c) \/ GetPosForWithdrawal(c)
  <2>1. CASE Reject(c)
    <3>1. call'[c] = Blank
      BY <2>1 DEF Reject, End, Inv, TypeOK
    <3> QED
      BY <3>1, BlankType DEF FundStep
  <2>2. CASE Pay(c)
    <3>1. call[c] \in Call /\ pc[c] = "getPos"
      BY <1>4, InvFacts DEF GetPosForDeposit, GetPosForWithdrawal
    <3>2. pc'[c] = "pay"
      BY <2>2 DEF Pay, Goto, Inv, TypeOK
    <3>3. /\ call'[c].op = call[c].op /\ call'[c].shift = call[c].shift
          /\ call'[c].pos = call[c].pos
      BY <2>2, <3>1 DEF Pay, Inv, TypeOK, Call
    <3> QED
      BY <3>1, <3>2, <3>3 DEF FundStep, Continues, Before
  <2> QED
    BY <1>4, <2>1, <2>2 DEF GetPosForDeposit, GetPosForWithdrawal
<1>5. CASE CreateTransaction(c) \/ UpdateBalance(c)
  BY <1>5, SettleFundStep DEF CreateTransaction, UpdateBalance, Writes
<1> QED
  BY <1>1, <1>2, <1>3, <1>4, <1>5 DEF Serve

(* Every step.                                                             *)
LEMMA NextFundStep ==
  ASSUME Inv, [Next]_vars, NEW c \in Calls
  PROVE  FundStep(c)
<1>1. CASE Arrive(c)
  <2>1. CASE ReceiveCreate(c)
    <3>1. pc'[c] = "count"
      BY <2>1 DEF ReceiveCreate, Receive, Goto, Inv, TypeOK
    <3> QED
      BY <3>1 DEF FundStep, Before
  <2>2. CASE ReceiveCash(c)
    <3>1. PICK u \in Users, s \in KnownIds, a \in Amounts, op \in {"deposit", "withdrawal"} :
            call' = [call EXCEPT ![c] =
                       [Blank EXCEPT !.op = op, !.user = u, !.shift = s, !.amount = a]]
      BY ZenonT(40), <2>2 DEF ReceiveCash, Receive
    <3>2. [Blank EXCEPT !.op = op, !.user = u, !.shift = s, !.amount = a].op = op
      BY DEF Blank
    <3>3. call'[c].op = op
      BY <3>1, <3>2 DEF Inv, TypeOK
    <3> QED
      BY <3>3 DEF FundStep
  <2>3. CASE ReceiveClose(c)
    <3>1. PICK u \in Users, s \in KnownIds :
            call' = [call EXCEPT ![c] = [Blank EXCEPT !.op = "close", !.user = u, !.shift = s]]
      BY <2>3 DEF ReceiveClose, Receive
    <3>2. [Blank EXCEPT !.op = "close", !.user = u, !.shift = s].op = "close"
      BY DEF Blank
    <3>3. call'[c].op = "close"
      BY <3>1, <3>2 DEF Inv, TypeOK
    <3> QED
      BY <3>3 DEF FundStep
  <2>4. CASE ReceiveUpdate(c)
    <3>1. PICK u \in Admins, s \in KnownIds, a \in Amounts, flag \in Flags :
            call' = [call EXCEPT ![c] =
                       [Blank EXCEPT !.op = "update", !.user = u, !.shift = s,
                                      !.amount = a, !.isOpened = flag]]
      BY <2>4 DEF ReceiveUpdate, Receive
    <3>2. [Blank EXCEPT !.op = "update", !.user = u, !.shift = s,
                                      !.amount = a, !.isOpened = flag].op = "update"
      BY DEF Blank
    <3>3. call'[c].op = "update"
      BY <3>1, <3>2 DEF Inv, TypeOK
    <3> QED
      BY <3>3 DEF FundStep
  <2> QED
    BY <1>1, <2>1, <2>2, <2>3, <2>4 DEF Arrive
<1>2. CASE Serve(c)
  BY <1>2, ServeFundStep
<1>3. CASE LoseWrite(c)
  BY <1>3, SettleFundStep DEF LoseWrite
<1>4. ASSUME NEW d \in Calls, d # c, Arrive(d) \/ Serve(d) \/ LoseWrite(d)
      PROVE  pc'[c] = pc[c] /\ call'[c] = call[c]
  <2>1. CASE Arrive(d)
    BY <1>4, <2>1 DEF Arrive, ReceiveCreate, ReceiveCash, ReceiveClose, ReceiveUpdate,
       Receive, Goto, Inv, TypeOK
  <2>2. CASE \/ CountShifts(d) \/ InsertShift(d) \/ ShiftMissing(d) \/ ShiftForbidden(d)
             \/ GetShift(d) \/ GetPosForDeposit(d) \/ GetPosForWithdrawal(d)
    BY <1>4, <2>2 DEF CountShifts, InsertShift, ShiftMissing, ShiftForbidden, GetShift,
       GetPosForDeposit, GetPosForWithdrawal, Pay, Reject, End, Goto, Inv, TypeOK
  <2>3. CASE \/ CreateTransaction(d) \/ UpdateBalance(d) \/ LoseWrite(d)
             \/ CloseShift(d) \/ UpdateShift(d)
    BY <1>4, <2>3 DEF CreateTransaction, UpdateBalance, LoseWrite, Settle,
       CloseShift, UpdateShift, End, Goto, Inv, TypeOK
  <2> QED
    BY <1>4, <2>1, <2>2, <2>3 DEF Serve
<1>5. CASE Restart
  <2>1. CASE pc[c] \in Running
    <3>1. /\ pc'[c] = "aborted"
          /\ call'[c] = Blank \/ (call'[c] = call[c] /\ pc[c] = "pay")
      BY <1>5, <2>1 DEF Restart
    <3> QED
      BY <3>1, BlankType DEF FundStep, Continues, Before
  <2>2. CASE pc[c] \notin Running
    BY <1>5, <2>2, StaysFundStep DEF Restart
  <2> QED
    BY <2>1, <2>2
<1>6. CASE CloseAllShifts \/ UNCHANGED vars
  BY <1>6, StaysFundStep DEF CloseAllShifts, vars
<1> QED
  BY <1>1, <1>2, <1>3, <1>4, <1>5, <1>6, StaysFundStep DEF Next

(* What a create has left behind stays.                                    *)
LEMMA NextFunding == Inv /\ FundingInv /\ [Next]_vars => FundingInv'
<1> SUFFICES ASSUME Inv, FundingInv, [Next]_vars, NEW c \in Calls, call'[c].op = "create"
             PROVE  /\ pc'[c] \notin Before =>
                         /\ call'[c].shift = c /\ c \in DOMAIN shifts'
                         /\ shifts'[c].pos = call'[c].pos
                    /\ pc'[c] = "done" => \A w \in Writes : call'[c].stmt[w] = "done"
  BY DEF FundingInv, Funding, Done
<1>1. NameStep /\ FundStep(c) /\ Funding(c)
  BY NextNameStep, NextFundStep DEF FundingInv
<1>2. CASE pc'[c] \in Before
  BY <1>2 DEF Before
<1>3. CASE InsertShift(c)
  <2>1. call'[c].shift = c /\ call'[c].pos = call[c].pos /\ pc'[c] = "getShift"
    BY <1>3 DEF InsertShift, Goto, Inv, TypeOK, Call
  <2> QED
    BY <1>3, <2>1, Inserted
<1>4. CASE GetShift(c)
  <2>1. /\ call[c] \in Call /\ pc[c] = "getShift"
        /\ call'[c] = [call[c] EXCEPT !.pos = shifts[call[c].shift].pos]
    BY <1>4, InvFacts DEF GetShift, Inv, TypeOK
  <2>2. /\ call'[c].op = call[c].op /\ call'[c].shift = call[c].shift
        /\ call'[c].pos = shifts[call[c].shift].pos
    BY <2>1 DEF Call
  <2>3. pc'[c] = "getPos" /\ shifts' = shifts
    BY <1>4, <2>2 DEF GetShift, Goto, tables, Inv, TypeOK
  <2> QED
    BY <1>1, <2>1, <2>2, <2>3 DEF Funding, Before
<1>5. CASE Continues(c)
  <2>1. call[c].op = "create"
    BY <1>5 DEF Continues
  <2>2. ASSUME pc'[c] \notin Before
        PROVE  /\ call'[c].shift = c /\ c \in DOMAIN shifts'
               /\ shifts'[c].pos = call'[c].pos
    BY <1>1, <1>5, <2>1, <2>2 DEF Continues, Funding, NameStep, KeepsNames
  <2>3. ASSUME pc'[c] = "done" PROVE \A w \in Writes : call'[c].stmt[w] = "done"
    BY <1>1, <1>5, <2>1, <2>3 DEF Continues, Funding, Done
  <2> QED
    BY <2>2, <2>3
<1> QED
  BY <1>1, <1>2, <1>3, <1>4, <1>5 DEF FundStep

(* CreatedShiftIsFunded, for every number of calls: a create that returns  *)
(* has left its shift and its starting cash, in the ledger and the till.   *)
THEOREM CreatedShiftsAreFunded == Spec => []CreatedShiftIsFunded
<1>1. Init => Inv /\ LedgerInv /\ FundingInv
  BY InitInv, InitLedger, BlankType DEF Init, FundingInv, Funding
<1>2. (Inv /\ LedgerInv /\ FundingInv) /\ [Next]_vars => (Inv /\ LedgerInv /\ FundingInv)'
  BY NextInv, NextLedger, NextFunding
<1>3. Inv /\ LedgerInv /\ FundingInv => CreatedShiftIsFunded
  <2> SUFFICES ASSUME LedgerInv, FundingInv, NEW c \in Calls,
                      call[c].op = "create", pc[c] = "done"
               PROVE  /\ Exists(c) /\ shifts[c].pos = call[c].pos /\ c \in DOMAIN ledger
                      /\ ledger[c] = [shift |-> c, amount |-> call[c].amount,
                                      direction |-> "DEBIT"]
                      /\ Done(c, "balance")
    BY DEF CreatedShiftIsFunded
  <2>1. /\ call[c].shift = c /\ c \in DOMAIN shifts /\ shifts[c].pos = call[c].pos
        /\ Done(c, "row") /\ Done(c, "balance")
    BY DEF FundingInv, Funding, Before, Writes
  <2>2. /\ c \in DOMAIN ledger
        /\ ledger[c] = [shift |-> call[c].shift, amount |-> call[c].amount,
                        direction |-> DirectionOf(call[c].op)]
    BY <2>1 DEF LedgerInv, Posted
  <2> QED
    BY <2>1, <2>2 DEF Exists, DirectionOf
<1> QED
  BY <1>1, <1>2, <1>3, PTL DEF Spec
=============================================================================
