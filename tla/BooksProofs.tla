---------------------------- MODULE BooksProofs ----------------------------
(***************************************************************************)
(* Receipts, transfers and payments account for the stock and for what is  *)
(* owed to the suppliers: what the calls on a document have changed, and   *)
(* what the call at work has still to change, is what the document says.   *)
(***************************************************************************)
EXTENDS WarehousingProofs
-----------------------------------------------------------------------------
(* The books of the documents.                                             *)

(* A call that has read what it asks about and is at work.                 *)
Late(c) == Running(c) /\ call[c].stages # Reading

(* What is accounted for: what is owed to a supplier, the total of a       *)
(* variant, and its quantity in a place; with the place where goods that   *)
(* are changed everywhere should be.                                       *)
Keys ==
  {<<"debt", x, 0, 0>> : x \in Suppliers} \cup {<<"total", v, 0, 0>> : v \in Variants}
    \cup {<<"goods", v, w, h>> : v \in Variants, w \in Places, h \in Places}

(* What a statement adds to an account.                                    *)
Brings(s, key) ==
  CASE key[1] = "debt" -> IF s.op = "balance" /\ s.supplier = key[2] THEN s.amount ELSE 0
    [] key[1] = "total" ->
         IF s.op \in {"total", "everywhere"} /\ s.variant = key[2] THEN s.quantity ELSE 0
    [] key[1] = "goods" ->
         IF \/ s.op = "rows" /\ s.variant = key[2] /\ s.warehouse = key[3]
            \/ s.op = "everywhere" /\ s.variant = key[2] /\ key[3] = key[4]
           THEN s.quantity ELSE 0

(* What the statements of a stage, of which at most one brings something,  *)
(* and of the stages add.                                                  *)
Bearers(A, key) == {s \in A : Brings(s, key) # 0}
Worth(B, key) == IF B = {} THEN 0 ELSE Brings(CHOOSE s \in B : TRUE, key)
DueIn(A, key) == Worth(Bearers(A, key), key)
At(st, k) == IF k <= Len(st) THEN st[Len(st) + 1 - k] ELSE {}
Most == 8  \* no call has more stages
Dues(st, key) == [k \in 1..Most |-> DueIn(At(st, k), key)]
Due(st, key) == SumTo(Dues(st, key), Most)

(* What document d has changed, and what it says.                          *)
Entry(d, key) ==
  CASE key[1] = "debt" -> effect[d].debts[key[2]]
    [] key[1] = "total" -> effect[d].totals[key[2]]
    [] key[1] = "goods" -> effect[d].goods[key[2]][key[3]]
OfReceipt(x, key) ==
  IF x.isArchived THEN 0
  ELSE CASE key[1] = "debt" -> IF x.supplier = key[2] THEN x.outstanding ELSE 0
         [] key[1] = "total" -> IF key[2] \in DOMAIN x.lines THEN x.lines[key[2]].quantity ELSE 0
         [] key[1] = "goods" ->
              IF key[3] = x.warehouse /\ key[2] \in DOMAIN x.lines THEN x.lines[key[2]].quantity ELSE 0
OfPayment(x, key) ==
  IF key[1] = "debt"
    THEN (IF x.accounted.supplier = key[2] THEN x.accounted.amount ELSE 0)
         - (IF x.type = "SUPPLIER_PAYMENT" /\ x.supplier = key[2] THEN x.amount ELSE 0)
    ELSE 0
OfTransfer(x, key) ==
  IF key[1] = "goods"
    THEN LET q == IF x.isArchived \/ key[2] \notin DOMAIN x.items THEN 0 ELSE Recorded(x)[key[2]]
         IN  (IF key[3] = x.destination THEN q ELSE 0) - (IF key[3] = x.source THEN q ELSE 0)
    ELSE 0
Says(d, key) ==
  CASE d[1] = "receipt" /\ d[2] \in DOMAIN receipts -> OfReceipt(receipts[d[2]], key)
    [] d[1] = "payment" /\ d[2] \in DOMAIN payments -> OfPayment(payments[d[2]], key)
    [] d[1] = "transfer" /\ d[2] \in DOMAIN transfers -> OfTransfer(transfers[d[2]], key)
    [] OTHER -> 0

(* The receipt that a request describes.                                   *)
Described(r, w) ==
  [supplier |-> r.supplier, warehouse |-> w, isArchived |-> FALSE, lines |-> r.lines,
   paid |-> r.paid, outstanding |-> Amount(r.lines) - r.paid]

(* The statements that write the document of their call, and what it says  *)
(* then (before the lines are read again, without those that are deleted); *)
(* r is the request of the call, and st what it has ahead.                 *)
Writes(r, s) ==
  \/ s.op \in {"recordReceipt", "rewriteReceipt", "markReceipt"}
  \/ s.op = "payment" /\ r.op \in PaymentOps
Undeleted(x, deleted) == [x EXCEPT !.lines = [v \in DOMAIN @ \ DOMAIN deleted |-> @[v]]]
Coming(st, op) == \E s \in All(st) : s.op = op
Aim(r, st, s, key) ==
  LET x == receipts[r.doc[2]]
  IN  CASE s.op = "recordReceipt" -> OfReceipt(Described(r, r.warehouse), key)
        [] s.op = "rewriteReceipt" ->
             IF key[1] # "debt" /\ Coming(st, "reread") THEN OfReceipt(Undeleted(x, s.deleted), key)
             ELSE OfReceipt(Described(r, x.warehouse), key)
        [] s.op = "markReceipt" -> OfReceipt([x EXCEPT !.isArchived = r.op = "archiveReceipt"], key)
        [] s.op = "payment" -> OfPayment(s.row, key)

(* What a call has done and what it is about to do is what its document    *)
(* will say.                                                               *)
Owes(r, st, key) ==
  LET f == Entry(r.doc, key) + Due(st, key)
  IN  /\ \A s \in All(st) : Writes(r, s) => f = Aim(r, st, s, key)
      /\ (\A s \in All(st) : ~ Writes(r, s)) => f = Says(r.doc, key)
AtHome(r, key) ==
  key[1] = "goods" /\ r.op \in {"archiveReceipt", "restoreReceipt"} => key[4] = receipts[r.doc[2]].warehouse

(* The lines of a receipt while an update writes them.                     *)
Tracks(r, st, s) ==
  LET x == receipts[r.doc[2]]
  IN  /\ ~ x.isArchived /\ r.lines \in Deliveries /\ r.paid \notin {None, 0}
      /\ r.supplier \in Suppliers /\ Else(r.warehouse, x.warehouse) = x.warehouse
      /\ s.deleted = [v \in DOMAIN s.deleted |-> s.deleted[v]]
      /\ DOMAIN s.deleted \cap DOMAIN r.lines = {}
      /\ DOMAIN x.lines = DOMAIN s.deleted \cup DOMAIN r.lines
      /\ \A v \in DOMAIN s.deleted : x.lines[v] = s.deleted[v]
      /\ \A v \in DOMAIN r.lines :
           \/ x.lines[v] = r.lines[v]
           \/ \E t \in All(st) : t.op = "line" /\ t.variant = v
      /\ \A t \in All(st) : t.op = "reread" => t.kept = DOMAIN r.lines /\ t.warehouse = x.warehouse

(* The movements of a request, before their rows are found.                *)
Planned(r) ==
  LET old == transfers[r.doc[2]]
  IN  CASE r.op = "createTransfer" -> Moves("ship", r.items, r.source, r.destination)
        [] r.op = "updateTransfer" -> MovesOfUpdate(old, r)
        [] r.op = "archiveTransfer" -> Moves("return", Recorded(old), old.destination, old.source)
        [] r.op = "restoreTransfer" -> Moves("resend", Recorded(old), old.source, old.destination)
Unfound(m) ==
  [how |-> m.how, variant |-> m.variant, from |-> m.from, to |-> m.to, quantity |-> m.quantity]
Prepared(r, s) ==
  /\ {Unfound(m) : m \in s.moves} = Planned(r)
  /\ r.op = "updateTransfer" => AccountedTransferUpdate(transfers[r.doc[2]], r)
  /\ r.op \in {"archiveTransfer", "restoreTransfer"} =>
       transfers[r.doc[2]].isArchived # (r.op = "archiveTransfer")
Found(s) ==
  s.op = "commit" => \A m \in s.moves : /\ m.toRow \in 0..Len(rows[m.variant][m.to])
                                        /\ m.fromRow \in 0..Len(rows[m.variant][m.from])
(* The ids of calls are new until they insert something; what a call asks  *)
(* about is there.                                                         *)
Tracked == {"receipt", "payment", "transfer"}
Begun(c) == call[c].at # "idle" /\ (Running(c) => Late(c))
Unborn(c) == c \notin DOMAIN receipts /\ c \notin DOMAIN payments /\ c \notin DOMAIN transfers
Inserting(c, r, s) ==
  /\ s.op = "recordReceipt" => c \notin DOMAIN receipts /\ c \notin DOMAIN payments
  /\ s.op = "payment" =>
       IF r.op = "updatePayment" THEN s.id = r.doc[2] ELSE s.id = c /\ c \notin DOMAIN payments
  /\ s.op = "payment" /\ r.op = "updateReceipt" => \A key \in Keys : OfPayment(s.row, key) = 0
  /\ s.op \in {"lookup", "commit"} /\ r.op = "createTransfer" => c \notin DOMAIN transfers
There(r) ==
  /\ r.op = "updatePayment" => r.doc[2] \in DOMAIN payments
  /\ r.op \in {"updateReceipt", "archiveReceipt", "restoreReceipt"} => r.doc[2] \in DOMAIN receipts
  /\ r.op \in {"updateTransfer", "archiveTransfer", "restoreTransfer"} => r.doc[2] \in DOMAIN transfers
Placed(c, r, st) ==
  There(r) /\ Len(st) <= Most /\ \A s \in All(st) : Inserting(c, r, s) /\ Found(s)

(* A call at work on a document that is not disturbed.                     *)
Working(r, st) ==
  /\ r.doc[1] \in {"receipt", "payment"} /\ ~ Coming(st, "refused") =>
       /\ \A key \in Keys : AtHome(r, key) => Owes(r, st, key)
       /\ \A s \in All(st) : s.op = "rewriteReceipt" => Tracks(r, st, s)
       /\ \A s \in All(st) : s.op \in {"reread", "line"} => Coming(st, "rewriteReceipt")
  /\ \A s \in All(st) : s.op \in {"lookup", "commit"} => Prepared(r, s)

(* A document that is not disturbed: at rest it says what was changed, and *)
(* a receipt that is not being rewritten owes what is not paid.            *)
Does(c, r, st) == Late(c) /\ r = Request(c) /\ st = call[c].stages
Resting(d) == \A key \in Keys : Entry(d, key) = Says(d, key)
Balanced(d) ==
  d[1] = "receipt" /\ d[2] \in DOMAIN receipts =>
    receipts[d[2]].outstanding = Amount(receipts[d[2]].lines) - receipts[d[2]].paid
InHand(d) == d[1] \in {"receipt", "payment"} /\ \E c \in Calls : Late(c) /\ Request(c).doc = d
Rewritten(d) ==
  \E c \in Calls : /\ Late(c) /\ Request(c).doc = d
                   /\ Coming(call[c].stages, "rewriteReceipt") \/ Coming(call[c].stages, "refused")
Once(d) ==
  d[1] = "transfer" /\ d[2] \in DOMAIN transfers =>
    \A v \in DOMAIN transfers[d[2]].items : Len(transfers[d[2]].items[v]) = 1
Kept(d) == (~ InHand(d) => Resting(d)) /\ (~ Rewritten(d) => Balanced(d)) /\ Once(d)

(* The invariant of the books.                                             *)
Booked ==
  effect \in [Docs -> [goods : [Variants -> [Places -> Int]], totals : [Variants -> Int],
                      debts : [Suppliers -> Int]]]
Sole ==
  \A b, c \in Calls :
    /\ Late(b) /\ Late(c) /\ Request(b).doc = Request(c).doc
    /\ Request(c).doc[1] \in Tracked /\ Request(c).doc \notin disturbed
    => b = c
Books ==
  /\ Booked /\ Sole
  /\ \A c \in Calls : ~ Begun(c) => Unborn(c)
  /\ \A c \in Calls : \A r, st : Does(c, r, st) => Placed(c, r, st)
  /\ \A c \in Calls : \A r, st : Does(c, r, st) /\ r.doc \notin disturbed => Working(r, st)
  /\ \A d \in Docs \ disturbed : Kept(d)
-----------------------------------------------------------------------------
(* What stages bring.                                                      *)

(* A proper statement brings an integer.                                   *)
LEMMA BringsType ==
  ASSUME NEW c, NEW s, Proper(c, s), NEW key \in Keys
  PROVE  Brings(s, key) \in Int
<1>1. s.op = "balance" => s.amount \in Int
  BY DEF Proper
<1>2. s.op \in {"total", "rows", "everywhere"} => s.quantity \in Int
  BY DEF Proper
<1>3. key[1] \in {"debt", "total", "goods"}
  BY DEF Keys
<1> QED
  BY <1>1, <1>2, <1>3 DEF Brings

(* At most one statement of a stage, alike no other, brings something to   *)
(* an account.                                                             *)
Single(A, key) == /\ \A s, t \in Bearers(A, key) : s = t
                  /\ \A s \in A : Brings(s, key) \in Int
(* The statements of a stage, each proper and no two alike, bring          *)
(* something to an account at most once.                                   *)
LEMMA StageSingle ==
  ASSUME NEW c, NEW A, \A s \in A : Proper(c, s), \A s, t \in A : Alike(s, t) => s = t,
         NEW key \in Keys
  PROVE  Single(A, key)
<1>1. \A s \in A : Brings(s, key) \in Int
  BY BringsType
<1>2. ASSUME NEW s \in Bearers(A, key), NEW t \in Bearers(A, key) PROVE s = t
  <2>1. s \in A /\ t \in A /\ Brings(s, key) # 0 /\ Brings(t, key) # 0
    BY <1>2 DEF Bearers
  <2>2. /\ s.op = "everywhere" => Request(c).op \in {"archiveReceipt", "restoreReceipt"}
        /\ s.op \in {"total", "rows"} => Request(c).op \in {"createReceipt", "updateReceipt"}
        /\ t.op = "everywhere" => Request(c).op \in {"archiveReceipt", "restoreReceipt"}
        /\ t.op \in {"total", "rows"} => Request(c).op \in {"createReceipt", "updateReceipt"}
    BY <2>1 DEF Proper
  <2>3. CASE key[1] = "debt"
    BY <2>1, <2>3 DEF Brings, Alike, PerVariant
  <2>4. CASE key[1] = "total"
    BY <2>1, <2>2, <2>4 DEF Brings, Alike, PerVariant
  <2>5. CASE key[1] = "goods"
    BY <2>1, <2>2, <2>5 DEF Brings, Alike, PerVariant
  <2>6. key[1] \in {"debt", "total", "goods"}
    BY DEF Keys
  <2> QED
    BY <2>3, <2>4, <2>5, <2>6
<1> QED
  BY <1>1, <1>2 DEF Single

(* What a stage brings is an integer; without a statement, it brings what  *)
(* the statement does not.                                                 *)
LEMMA StageBut ==
  ASSUME NEW key, NEW A, Single(A, key), NEW s \in A
  PROVE  DueIn(A \ {s}, key) = DueIn(A, key) - Brings(s, key)
<1>1. Brings(s, key) \in Int
  BY DEF Single
<1>2. CASE Brings(s, key) # 0
  <2>1. Bearers(A, key) = {s} /\ Bearers(A \ {s}, key) = {}
    BY <1>2 DEF Bearers, Single
  <2>2. DueIn(A, key) = Brings(s, key) /\ DueIn(A \ {s}, key) = 0
    BY <2>1 DEF DueIn, Worth
  <2> QED
    BY <1>1, <2>2
<1>3. CASE Brings(s, key) = 0
  <2>1. Bearers(A \ {s}, key) = Bearers(A, key)
    BY <1>3 DEF Bearers
  <2>2. DueIn(A \ {s}, key) = DueIn(A, key)
    BY <2>1 DEF DueIn
  <2>3. DueIn(A, key) \in Int
    BY DEF DueIn, Worth, Single, Bearers
  <2> QED
    BY <1>3, <2>2, <2>3
<1> QED
  BY <1>2, <1>3

(* What a stage of which at most one statement brings something adds is an *)
(* integer.                                                                *)
LEMMA DueInType == \A A, key : Single(A, key) => DueIn(A, key) \in Int
BY DEF DueIn, Worth, Single, Bearers

(* A stage of which only s may bring something, and one that brings        *)
(* nothing.                                                                *)
LEMMA StageOf ==
  ASSUME NEW key, NEW A, NEW s \in A, \A t \in A \ {s} : Brings(t, key) = 0
  PROVE  DueIn(A, key) = Brings(s, key)
<1>1. CASE Brings(s, key) # 0
  <2>1. Bearers(A, key) = {s}
    BY <1>1 DEF Bearers
  <2> QED
    BY <2>1 DEF DueIn, Worth
<1>2. CASE Brings(s, key) = 0
  <2>1. Bearers(A, key) = {}
    BY <1>2 DEF Bearers
  <2> QED
    BY <1>2, <2>1 DEF DueIn, Worth
<1> QED
  BY <1>1, <1>2

(* A stage of which no statement brings something adds nothing.            *)
LEMMA StageOfNothing == \A A, key : (\A t \in A : Brings(t, key) = 0) => DueIn(A, key) = 0
BY DEF DueIn, Worth, Bearers

(* What stages bring does not depend on the empty ones at their head.      *)
LEMMA DueStaged ==
  ASSUME NEW T, NEW st \in Seq(T), NEW key
  PROVE  Due(Staged(st), key) = Due(st, key) /\ Len(Staged(st)) <= Len(st)
<1> DEFINE new == Staged(st)
<1>1. /\ new \in Seq(T)
      /\ \E o \in 0..Len(st) :
           /\ Len(new) = Len(st) - o
           /\ \A i \in 1..o : st[i] = {}
           /\ \A i \in 1..Len(new) : new[i] = st[i + o]
  <2>1. \A new2 : new2 = Staged(st) =>
          /\ new2 \in Seq(T)
          /\ \E o \in 0..Len(st) :
               /\ Len(new2) = Len(st) - o
               /\ \A i \in 1..o : st[i] = {}
               /\ \A i \in 1..Len(new2) : new2[i] = st[i + o]
    BY SMTT(30), StagedLeaves
  <2> QED
    BY <2>1
<1> HIDE DEF new
<1>2. PICK o \in 0..Len(st) : /\ Len(new) = Len(st) - o
                              /\ \A i \in 1..o : st[i] = {}
                              /\ \A i \in 1..Len(new) : new[i] = st[i + o]
  BY <1>1
<1>3. Len(st) \in Nat /\ Len(new) \in Nat /\ o \in Nat
  BY <1>1
<1>4. ASSUME NEW k \in 1..8 PROVE At(new, k) = At(st, k)
  <2>1. CASE k <= Len(new)
    <3>1. /\ Len(new) + 1 - k \in 1..Len(new) /\ (Len(new) + 1 - k) + o = Len(st) + 1 - k
          /\ k <= Len(st)
      BY <1>2, <1>3, <2>1
    <3>2. new[Len(new) + 1 - k] = st[(Len(new) + 1 - k) + o]
      BY <1>2, <3>1
    <3> QED
      BY <2>1, <3>1, <3>2 DEF At
  <2>2. CASE ~ (k <= Len(new)) /\ k <= Len(st)
    <3>1. Len(st) + 1 - k \in 1..o
      BY <1>2, <1>3, <2>2
    <3> QED
      BY <1>2, <2>2, <3>1 DEF At
  <2>3. CASE ~ (k <= Len(st))
    <3>1. ~ (k <= Len(new))
      BY <1>2, <1>3, <2>3
    <3> QED
      BY <2>3, <3>1 DEF At
  <2> QED
    BY <2>1, <2>2, <2>3
<1>5. Due(new, key) = Due(st, key)
  <2>1. Dues(new, key) = Dues(st, key)
    BY <1>4 DEF Dues, Most
  <2> QED
    BY <2>1 DEF Due
<1>6. Len(new) <= Len(st)
  BY <1>2, <1>3
<1> QED
  BY <1>5, <1>6 DEF new

(* With another first stage, stages bring that much more.                  *)
LEMMA DueReplaced ==
  ASSUME NEW T, NEW st \in Seq(T), st # <<>>, Len(st) <= Most, NEW key,
         \A A \in T : DueIn(A, key) \in Int, NEW A \in T, NEW new, new = <<A>> \o Tail(st)
  PROVE  /\ Due(st, key) \in Int /\ Len(new) = Len(st)
         /\ Due(new, key) = Due(st, key) + (DueIn(A, key) - DueIn(st[1], key))
<1> DEFINE n == Len(st)
<1>1. /\ new \in Seq(T) /\ Len(new) = n /\ new[1] = A
      /\ \A i \in 2..n : new[i] = st[i]
  BY FirstReplaced
<1>2. /\ n \in Nat /\ n > 0 /\ \A i \in 1..n : st[i] \in T /\ new[i] \in T
  BY <1>1
<1>11. n <= Most /\ n \in Nat /\ n > 0
  BY <1>2
<1> HIDE DEF n
<1>3. n \in 1..Most /\ Most \in Nat
  BY <1>11 DEF Most
<1>4. ASSUME NEW k \in 1..Most, k # n PROVE At(new, k) = At(st, k)
  <2>1. CASE k <= n
    <3>1. n + 1 - k \in 2..n
      BY <1>3, <1>4, <2>1
    <3> QED
      BY <1>1, <2>1, <3>1 DEF At, n
  <2>2. CASE ~ (k <= n)
    BY <1>1, <2>2 DEF At, n
  <2> QED
    BY <2>1, <2>2
<1>5. At(new, n) = A /\ At(st, n) = st[1]
  BY <1>1, <1>2 DEF At, n
<1>6. DueIn({}, key) = 0
  BY StageOfNothing
<1>7. ASSUME NEW k \in 1..Most PROVE DueIn(At(st, k), key) \in Int /\ DueIn(At(new, k), key) \in Int
  <2>1. CASE k <= n
    <3>1. n + 1 - k \in 1..n
      BY <1>3, <2>1
    <3>2. At(st, k) \in T /\ At(new, k) \in T
      BY <1>1, <1>2, <2>1, <3>1 DEF At, n
    <3> QED
      BY <3>2
  <2>2. CASE ~ (k <= n)
    BY <1>1, <1>6, <2>2 DEF At, n
  <2> QED
    BY <2>1, <2>2
<1>8. /\ Dues(st, key) \in [1..Most -> Int] /\ Dues(new, key) \in [1..Most -> Int]
      /\ \A k \in 1..Most : k # n => Dues(new, key)[k] = Dues(st, key)[k]
      /\ Dues(st, key)[n] = DueIn(st[1], key) /\ Dues(new, key)[n] = DueIn(A, key)
  BY <1>3, <1>4, <1>5, <1>7 DEF Dues
<1>9. Due(new, key) = Due(st, key) + (DueIn(A, key) - DueIn(st[1], key))
  <2>1. Due(new, key) = Due(st, key) + (Dues(new, key)[n] - Dues(st, key)[n])
    BY <1>3, <1>8, SumChange DEF Due
  <2> QED
    BY <1>8, <2>1
<1>10. Due(st, key) \in Int
  BY <1>3, <1>8, SumType DEF Due
<1> QED
  BY <1>1, <1>9, <1>10 DEF n

(* The first stages that a read sends, put together.                       *)
LEMMA DueTogether ==
  ASSUME NEW T, NEW p \in Seq(T), NEW q \in Seq(T), NEW k \in Nat \ {0}
  PROVE  At(p \o q, k) = IF k <= Len(q) THEN At(q, k) ELSE At(p, k - Len(q))
<1> DEFINE n == Len(p)
           m == Len(q)
           new == p \o q
<1>1. n \in Nat /\ m \in Nat /\ Len(new) = n + m
      /\ \A i \in 1..(n + m) : new[i] = IF i <= n THEN p[i] ELSE q[i - n]
  OBVIOUS
<1> HIDE DEF n, m, new
<1>2. CASE k <= m
  <2>1. /\ n + m + 1 - k \in 1..(n + m) /\ ~ (n + m + 1 - k <= n) /\ (n + m + 1 - k) - n = m + 1 - k
        /\ k <= n + m
    BY <1>1, <1>2
  <2>2. new[n + m + 1 - k] = q[(n + m + 1 - k) - n]
    BY <1>1, <2>1
  <2> QED
    BY <1>1, <1>2, <2>1, <2>2 DEF At, n, m, new
<1>3. CASE ~ (k <= m) /\ k <= n + m
  <2>1. /\ n + m + 1 - k \in 1..(n + m) /\ n + m + 1 - k <= n /\ n + m + 1 - k = n + 1 - (k - m)
        /\ k - m <= n
    BY <1>1, <1>3
  <2> QED
    BY <1>1, <1>3, <2>1 DEF At, n, m, new
<1>4. CASE ~ (k <= n + m)
  <2>1. ~ (k - m <= n) /\ ~ (k <= m)
    BY <1>1, <1>4
  <2> QED
    BY <1>1, <1>4, <2>1 DEF At, n, m, new
<1> QED
  BY <1>2, <1>3, <1>4

(* What a few stages bring.                                                *)
LEMMA EightDues ==
  ASSUME NEW st, NEW key, NEW f, f = Dues(st, key), f \in [1..Most -> Int]
  PROVE  Due(st, key) = f[1] + f[2] + f[3] + f[4] + f[5] + f[6] + f[7] + f[8]
<1> DEFINE g == PartialSums(f, Most)
<1>1. Most \in Nat /\ Most = 8
  BY DEF Most
<1>2. /\ g \in [0..Most -> Int] /\ g[0] = 0
      /\ \A i \in 1..Most : g[i] = g[i - 1] + f[i]
  BY <1>1, PartialSumsDef
<1>3. Due(st, key) = g[8]
  BY <1>1 DEF Due, SumTo
<1> HIDE DEF g
<1>4. /\ g[1] = g[0] + f[1] /\ g[2] = g[1] + f[2] /\ g[3] = g[2] + f[3] /\ g[4] = g[3] + f[4]
      /\ g[5] = g[4] + f[5] /\ g[6] = g[5] + f[6] /\ g[7] = g[6] + f[7] /\ g[8] = g[7] + f[8]
  BY <1>1, <1>2
<1>5. \A i \in 1..8 : f[i] \in Int
  BY <1>1
<1> QED
  BY <1>2, <1>3, <1>4, <1>5
-----------------------------------------------------------------------------
(* What the steps of a call leave of what it is to bring.                  *)

(* The stages of a call bring at most one amount each to an account.       *)
LEMMA StagesSingle ==
  ASSUME NEW c, CallOK(c), NEW key \in Keys
  PROVE  \A A \in Own(call[c].stages) : Single(A, key)
<1> SUFFICES ASSUME NEW i \in DOMAIN call[c].stages PROVE Single(call[c].stages[i], key)
  BY DEF Own
<1>1. /\ \A s \in call[c].stages[i] : Proper(c, s)
      /\ \A s, t \in call[c].stages[i] : Alike(s, t) => s = t
  BY DEF CallOK, Pending, All, Orderly
<1> QED
  BY <1>1, StageSingle

(* A statement has succeeded: what it brings is not due any more.          *)
LEMMA DueExecuted ==
  ASSUME Shaped, CallsOK, NEW c \in Calls, NEW s \in Sent(c), Executed(c, s),
         Len(call[c].stages) <= Most, NEW key \in Keys
  PROVE  /\ Due(call[c].stages, key) \in Int /\ Brings(s, key) \in Int
         /\ Due(call[c].stages, key)' = Due(call[c].stages, key) - Brings(s, key)
         /\ Len(call'[c].stages) <= Most
<1> DEFINE st == call[c].stages
           A == Sent(c) \ {s}
           T == Own(st) \cup {A}
           new == <<A>> \o Tail(st)
<1>1. Running(c) /\ CallOK(c)
  BY SentFacts
<1>2. st # <<>> /\ Orderly(st) /\ Sent(c) = st[1] /\ \A t, u \in Sent(c) : Alike(t, u) => t = u
  BY <1>1, SentFirst
<1>3. st \in Seq(T) /\ st \in Seq(Own(st)) /\ st[1] \in Own(st)
  BY <1>2 DEF Orderly, Own
<1>4. \A B \in Own(st) : Single(B, key)
  BY <1>1, StagesSingle
<1>5. Single(Sent(c), key) /\ Single(A, key)
  BY <1>2, <1>3, <1>4 DEF Single, Bearers
<1>6. \A B \in T : DueIn(B, key) \in Int
  BY <1>4, <1>5, DueInType
<1>7. DueIn(A, key) = DueIn(Sent(c), key) - Brings(s, key)
  BY <1>5, StageBut
<1>8. DueIn(Sent(c), key) \in Int /\ Brings(s, key) \in Int
  BY <1>5, DueInType DEF Single
<1>9. Resumes(c, new)
  BY <1>1, HandlersLeave
<1>10. call'[c].stages = Staged(new)
  BY <1>9 DEF Resumes
<1>11. A \in T /\ Len(st) <= Most
  OBVIOUS
<1> HIDE DEF st, A, T, new
<1>12. new = <<A>> \o Tail(st)
  BY DEF new
<1>13. /\ Due(st, key) \in Int /\ Len(new) = Len(st)
       /\ Due(new, key) = Due(st, key) + (DueIn(A, key) - DueIn(st[1], key))
  BY <1>2, <1>3, <1>6, <1>11, <1>12, DueReplaced
<1>14. new \in Seq(T)
  BY <1>2, <1>3, <1>11, <1>12, FirstReplaced
<1>15. Due(Staged(new), key) = Due(new, key) /\ Len(Staged(new)) <= Len(new)
  BY <1>14, DueStaged
<1>16. Due(new, key) = Due(st, key) - Brings(s, key)
  BY <1>2, <1>7, <1>8, <1>13
<1>17. Len(Staged(new)) <= Most
  <2>1. Len(Staged(new)) \in Nat /\ Len(new) \in Nat
    BY <1>14, StagedLeaves
  <2> QED
    BY <1>11, <1>13, <1>15, <2>1 DEF Most
<1> QED
  BY <1>8, <1>10, <1>13, <1>15, <1>16, <1>17 DEF st

(* A later read adds what it sends.                                        *)
LEMMA DueNext ==
  ASSUME Shaped, CallsOK, NEW c \in Calls, NEW s \in Sent(c), s.op \in Solo, NEW A, GoOn(c, <<A>>),
         Len(call[c].stages) <= Most, NEW key \in Keys, Single(A, key), Brings(s, key) = 0
  PROVE  /\ Due(call[c].stages, key) \in Int /\ DueIn(A, key) \in Int
         /\ Due(call[c].stages, key)' = Due(call[c].stages, key) + DueIn(A, key)
         /\ Len(call'[c].stages) <= Most
<1> DEFINE st == call[c].stages
           T == Own(st) \cup {A}
           new == <<A>> \o Tail(st)
<1>1. Running(c) /\ CallOK(c)
  BY SentFacts
<1>2. st # <<>> /\ Orderly(st) /\ Sent(c) = st[1] /\ Sent(c) = {s}
  BY <1>1, SentFirst
<1>3. st \in Seq(T) /\ st \in Seq(Own(st)) /\ st[1] \in Own(st)
  <2>1. st \in Seq(Own(st))
    BY <1>2 DEF Orderly
  <2>2. st[1] \in Own(st)
    <3> HIDE DEF st
    <3>1. 1 \in DOMAIN st
      BY <1>2, <2>1
    <3> QED
      BY <3>1 DEF Own
  <2> HIDE DEF st
  <2> QED
    BY <2>1, <2>2
<1>4. \A B \in Own(st) : Single(B, key)
  BY <1>1, StagesSingle
<1>6. \A B \in T : DueIn(B, key) \in Int
  BY <1>4, DueInType
<1>7. DueIn(st[1], key) = 0
  BY <1>2, StageOfNothing
<1>9. Resumes(c, new)
  BY <1>1, HandlersLeave
<1>10. call'[c].stages = Staged(new)
  BY <1>9 DEF Resumes
<1>11. A \in T /\ Len(st) <= Most
  OBVIOUS
<1> HIDE DEF st, T, new
<1>12. new = <<A>> \o Tail(st)
  BY DEF new
<1>13. /\ Due(st, key) \in Int /\ Len(new) = Len(st)
       /\ Due(new, key) = Due(st, key) + (DueIn(A, key) - DueIn(st[1], key))
  BY ZenonT(40), <1>2, <1>3, <1>6, <1>11, <1>12, DueReplaced
<1>14. new \in Seq(T)
  BY <1>2, <1>3, <1>11, <1>12, FirstReplaced
<1>15. Due(Staged(new), key) = Due(new, key) /\ Len(Staged(new)) <= Len(new)
  BY <1>14, DueStaged
<1>16. Due(new, key) = Due(st, key) + DueIn(A, key) /\ DueIn(A, key) \in Int
  BY <1>6, <1>7, <1>11, <1>13
<1>17. Len(Staged(new)) <= Most
  <2>1. Len(Staged(new)) \in Nat /\ Len(new) \in Nat
    BY <1>14, StagedLeaves
  <2> QED
    BY <1>11, <1>13, <1>15, <2>1 DEF Most
<1> QED
  BY <1>10, <1>13, <1>15, <1>16, <1>17 DEF st

(* After the first read, all that it sends is due.                         *)
LEMMA DueRead ==
  ASSUME Shaped, CallsOK, NEW c \in Calls, NEW s \in Sent(c), s.op = "read",
         NEW T, NEW more \in Seq(T), GoOn(c, more), Len(more) <= Most
  PROVE  /\ \A key : Due(call'[c].stages, key) = Due(more, key)
         /\ Len(call'[c].stages) <= Most
         /\ call'[c].stages = Staged(more)
<1>1. Running(c) /\ CallOK(c) /\ s \in Pending(c)
  BY SentFacts
<1>2. call[c].stages = <<{[op |-> "read"]}>>
  BY <1>1 DEF CallOK
<1>3. more \o Tail(call[c].stages) = more
  BY <1>2
<1>4. call'[c].stages = Staged(more)
  BY <1>1, <1>3, HandlersLeave DEF Resumes
<1>5. \A key : Due(Staged(more), key) = Due(more, key) /\ Len(Staged(more)) <= Len(more)
  BY DueStaged
<1>6. Len(Staged(more)) \in Nat /\ Len(more) \in Nat
  BY StagedLeaves
<1>7. Len(Staged(more)) <= Len(more)
  BY <1>5
<1>8. Len(Staged(more)) <= Most
  BY <1>6, <1>7 DEF Most
<1> QED
  BY <1>4, <1>5, <1>8

(* A call at work is late unless it has its first read ahead.              *)
LEMMA LateReads ==
  ASSUME NEW c \in Calls, CallOK(c), Running(c)
  PROVE  Late(c) <=> \A s \in Pending(c) : s.op # "read"
<1>1. CASE call[c].stages = Reading
  <2>1. [op |-> "read"] \in Pending(c)
    <3>1. 1 \in DOMAIN Reading /\ Reading[1] = {[op |-> "read"]}
      BY DEF Reading
    <3> QED
      BY <1>1, <3>1 DEF Pending, All
  <2> QED
    BY <1>1, <2>1 DEF Late
<1>2. CASE call[c].stages # Reading
  BY <1>2 DEF Late, CallOK, Reading
<1> QED
  BY <1>1, <1>2

(* It stays late as long as it has statements to send.                     *)
LEMMA LateStays ==
  ASSUME CallsOK, CallsOK', NEW c \in Calls, Late(c), Pending(c)' \subseteq Pending(c), Running(c)'
  PROVE  Late(c)'
<1>1. CallOK(c) /\ CallOK(c)' /\ Running(c)
  BY DEF CallsOK, Late
<1>2. \A s \in Pending(c)' : s.op # "read"
  BY <1>1, LateReads
<1>3. call'[c].stages # Reading
  <2>1. SUFFICES ASSUME call'[c].stages = Reading PROVE FALSE
    OBVIOUS
  <2>2. 1 \in DOMAIN Reading /\ Reading[1] = {[op |-> "read"]}
    BY DEF Reading
  <2>3. [op |-> "read"] \in Pending(c)'
    BY <2>1, <2>2 DEF Pending, All
  <2> QED
    BY <1>2, <2>3
<1> QED
  BY <1>3 DEF Late

(* Without stages nothing is due.                                          *)
LEMMA NothingDue == \A key : Due(<<>>, key) = 0
<1> SUFFICES ASSUME NEW key PROVE Due(<<>>, key) = 0
  OBVIOUS
<1>1. \A k \in 1..Most : At(<<>>, k) = {}
  BY DEF At
<1>2. DueIn({}, key) = 0
  BY StageOfNothing
<1>4. \A k \in 1..Most : DueIn(At(<<>>, k), key) = 0
  BY <1>1, <1>2
<1>3. Dues(<<>>, key) \in [1..Most -> Int] /\ \A k \in 1..Most : Dues(<<>>, key)[k] = 0
  BY <1>4 DEF Dues
<1> QED
  BY <1>3, SumZero DEF Due, Most
-----------------------------------------------------------------------------
(* The accounts of the documents.                                          *)

(* What a step changes goes to the account of the document of its call.    *)
Change(key) ==
  CASE key[1] = "debt" -> balance'[key[2]] - balance[key[2]]
    [] key[1] = "total" -> total'[key[2]] - total[key[2]]
    [] key[1] = "goods" -> InPlace(rows', key[2], key[3]) - InPlace(rows, key[2], key[3])

(* The rows of a variant in a place hold an integer number of goods.       *)
LEMMA PlacesCount ==
  ASSUME NEW r, r \in [Variants -> [Places -> Seq(Int)]]
  PROVE  \A v \in Variants, w \in Places : InPlace(r, v, w) \in Int
<1> SUFFICES ASSUME NEW v \in Variants, NEW w \in Places PROVE InPlace(r, v, w) \in Int
  OBVIOUS
<1> DEFINE q == r[v][w]
<1>1. q \in Seq(Int)
  OBVIOUS
<1> HIDE DEF q
<1>2. Len(q) \in Nat /\ q \in [1..Len(q) -> Int]
  BY <1>1
<1> QED
  BY <1>2, SumType DEF InPlace, q

(* The three kinds of account.                                             *)
LEMMA KeyCases ==
  ASSUME NEW key \in Keys
  PROVE  \/ key[1] = "debt" /\ key[2] \in Suppliers
         \/ key[1] = "total" /\ key[2] \in Variants
         \/ key[1] = "goods" /\ key[2] \in Variants /\ key[3] \in Places /\ key[4] \in Places
BY DEF Keys

(* What is booked of a document is an integer.                             *)
LEMMA EntryType ==
  ASSUME Booked, NEW d \in Docs, NEW key \in Keys
  PROVE  Entry(d, key) \in Int
BY KeyCases DEF Entry, Booked

(* A step of a call books what it changes of an account on the document of *)
(* the call, and on no other.                                              *)
LEMMA AccountStep ==
  ASSUME Inv, Inv', Booked, NEW c \in Calls, Running(c), Account(c), NEW D \in Docs, D = Request(c).doc
  PROVE  /\ Booked'
         /\ \A d \in Docs \ {D} : \A key \in Keys : Entry(d, key)' = Entry(d, key)
         /\ \A key \in Keys : /\ Change(key) \in Int
                              /\ Entry(D, key)' = Entry(D, key) + Change(key)
<1> DEFINE e == effect[D]
           row == [goods |-> [v \in Variants |-> [w \in Places |->
                                e.goods[v][w] + InPlace(rows', v, w) - InPlace(rows, v, w)]],
                   totals |-> [v \in Variants |-> e.totals[v] + total'[v] - total[v]],
                   debts |-> [s \in Suppliers |-> e.debts[s] + balance'[s] - balance[s]]]
           Rec == [goods : [Variants -> [Places -> Int]], totals : [Variants -> Int], debts : [Suppliers -> Int]]
<1>2. effect \in [Docs -> Rec] /\ e \in Rec
  BY DEF Booked
<1>3. /\ rows \in [Variants -> [Places -> Seq(Int)]] /\ rows' \in [Variants -> [Places -> Seq(Int)]]
      /\ total \in [Variants -> Int] /\ total' \in [Variants -> Int]
      /\ balance \in [Suppliers -> Int] /\ balance' \in [Suppliers -> Int]
  BY DEF Inv, Typed, RowsTypeOK
<1>4. \A v \in Variants, w \in Places : InPlace(rows, v, w) \in Int /\ InPlace(rows', v, w) \in Int
  BY <1>3, PlacesCount
<1>5. row \in Rec
  BY <1>2, <1>3, <1>4
<1>6. effect' = [effect EXCEPT ![D] = row]
  BY DEF Account
<1>7. \A v \in Variants, w \in Places :
        row.goods[v][w] = e.goods[v][w] + (InPlace(rows', v, w) - InPlace(rows, v, w))
  BY <1>2, <1>4
<1>8. /\ \A v \in Variants : row.totals[v] = e.totals[v] + (total'[v] - total[v])
      /\ \A s \in Suppliers : row.debts[s] = e.debts[s] + (balance'[s] - balance[s])
  BY <1>2, <1>3
<1> HIDE DEF row
<1>9. /\ effect' \in [Docs -> Rec] /\ effect'[D] = row
      /\ \A d \in Docs \ {D} : effect'[d] = effect[d]
  BY <1>2, <1>5, <1>6
<1>10. ASSUME NEW d \in Docs \ {D}, NEW key \in Keys PROVE Entry(d, key)' = Entry(d, key)
  BY <1>9, KeyCases DEF Entry
<1>11. ASSUME NEW key \in Keys
       PROVE  Change(key) \in Int /\ Entry(D, key)' = Entry(D, key) + Change(key)
  <2>1. CASE key[1] = "debt"
    <3>1. key[2] \in Suppliers
      BY <2>1, KeyCases
    <3> QED
      BY <2>1, <3>1, <1>3, <1>8, <1>9 DEF Entry, Change
  <2>2. CASE key[1] = "total"
    <3>1. key[2] \in Variants
      BY <2>2, KeyCases
    <3> QED
      BY <2>2, <3>1, <1>3, <1>8, <1>9 DEF Entry, Change
  <2>3. CASE key[1] = "goods"
    <3>1. key[2] \in Variants /\ key[3] \in Places
      BY <2>3, KeyCases
    <3> QED
      BY <2>3, <3>1, <1>4, <1>7, <1>9 DEF Entry, Change
  <2> QED
    BY <2>1, <2>2, <2>3, KeyCases
<1>12. Booked'
  BY <1>9 DEF Booked
<1> QED
  BY <1>10, <1>11, <1>12

(* A step that leaves the stock, the totals and the balances leaves the    *)
(* accounts.                                                               *)
LEMMA AccountsStay ==
  ASSUME Inv, Inv', Booked, NEW c \in Calls, Running(c), Account(c), UNCHANGED <<rows, total, balance>>
  PROVE  Booked' /\ \A d \in Docs : \A key \in Keys : Entry(d, key)' = Entry(d, key)
<1>1. ASSUME NEW key \in Keys PROVE Change(key) = 0
  <2>1. /\ rows \in [Variants -> [Places -> Seq(Int)]]
        /\ total \in [Variants -> Int] /\ balance \in [Suppliers -> Int]
    BY DEF Inv, Typed, RowsTypeOK
  <2>2. \A v \in Variants, w \in Places : InPlace(rows, v, w) \in Int
    BY <2>1, PlacesCount
  <2> QED
    BY <2>1, <2>2, KeyCases DEF Change
<1>2. PICK D \in Docs : D = Request(c).doc
  BY DocsKnown DEF Inv
<1>3. \A key \in Keys : Entry(D, key)' = Entry(D, key)
  BY <1>1, <1>2, AccountStep, EntryType
<1>4. Booked' /\ \A d \in Docs \ {D} : \A key \in Keys : Entry(d, key)' = Entry(d, key)
  BY <1>2, AccountStep
<1> QED
  BY <1>3, <1>4
-----------------------------------------------------------------------------
(* What a step leaves alone.                                               *)

(* The kind of the document of a request, and the requests that send each  *)
(* statement.                                                              *)
Apt(c, r, st) ==
  /\ r.op \in ReceiptOps => r.doc[1] = "receipt"
  /\ r.op \in PaymentOps => r.doc[1] = "payment"
  /\ r.op \in TransferOps => r.doc[1] = "transfer"
  /\ r.op \in {"createReceipt", "createPayment", "createTransfer"} => r.doc[2] = c
  /\ r.doc[1] \in {"receipt", "payment"} => r.op \in ReceiptOps \cup PaymentOps
  /\ r.doc[1] = "transfer" => r.op \in TransferOps
  /\ r.doc = <<r.doc[1], r.doc[2]>>
  /\ \A s \in All(st) :
       /\ s.op \in {"rewriteReceipt", "reread", "line", "refused"} => r.op = "updateReceipt"
       /\ s.op \in {"markReceipt", "everywhere"} => r.op \in {"archiveReceipt", "restoreReceipt"}
       /\ s.op = "recordReceipt" => r.op = "createReceipt"
       /\ s.op \in {"total", "rows"} => r.op \in {"createReceipt", "updateReceipt"}
       /\ s.op = "payment" => r.op \in {"createPayment", "updatePayment", "updateReceipt"}
       /\ s.op = "balance" => r.op \in ReceiptOps \cup PaymentOps
       /\ s.op \in {"lookup", "commit"} =>
            r.op \in TransferOps /\ \A m \in s.moves : m.variant \in Variants /\ m.from \in Places /\ m.to \in Places

(* The statements of a running call fit its request.                       *)
LEMMA CallsApt ==
  ASSUME NEW c, CallOK(c), Running(c), NEW r, r = Request(c), NEW st, st = call[c].stages
  PROVE  Apt(c, r, st)
<1>1. Understood(c, r)
  BY DEF CallOK
<1>2. /\ r.op \in ReceiptOps => r.doc = <<"receipt", r.doc[2]>>
      /\ r.op \in PaymentOps => r.doc = <<"payment", r.doc[2]>>
      /\ r.op \in TransferOps => r.doc = <<"transfer", r.doc[2]>>
      /\ r.op \in {"createReceipt", "createPayment", "createTransfer"} => r.doc[2] = c
      /\ r.op \in ReceiptOps \cup PaymentOps \cup TransferOps
         \/ r.doc = <<"reason", r.doc[2]>> \/ r.doc = <<"warehouse", r.doc[2]>>
  BY <1>1 DEF Understood, ReceiptOps, PaymentOps, TransferOps
<1>3. ASSUME NEW s \in All(st)
      PROVE  /\ s.op \in {"rewriteReceipt", "reread", "line", "refused"} => r.op = "updateReceipt"
             /\ s.op \in {"markReceipt", "everywhere"} => r.op \in {"archiveReceipt", "restoreReceipt"}
             /\ s.op = "recordReceipt" => r.op = "createReceipt"
             /\ s.op \in {"total", "rows"} => r.op \in {"createReceipt", "updateReceipt"}
             /\ s.op = "payment" => r.op \in {"createPayment", "updatePayment", "updateReceipt"}
             /\ s.op = "balance" => r.op \in ReceiptOps \cup PaymentOps
             /\ s.op \in {"lookup", "commit"} => r.op \in TransferOps /\ \A m \in s.moves : IsMove(m)
  <2>1. Proper(c, s)
    BY <1>3 DEF CallOK, Pending
  <2> QED
    BY <2>1 DEF Proper, IsFound, PaymentOps
<1>4. \A m : IsMove(m) => m.variant \in Variants /\ m.from \in Places /\ m.to \in Places
  BY DEF IsMove, Places
<1>5. {"receipt", "payment", "transfer", "reason", "warehouse"} = Kinds
  BY DEF Kinds
<1>6. /\ r.op \in ReceiptOps => r.doc[1] = "receipt"
      /\ r.op \in PaymentOps => r.doc[1] = "payment"
      /\ r.op \in TransferOps => r.doc[1] = "transfer"
      /\ r.doc[1] \in {"receipt", "payment"} => r.op \in ReceiptOps \cup PaymentOps
      /\ r.doc[1] = "transfer" => r.op \in TransferOps
      /\ r.doc = <<r.doc[1], r.doc[2]>>
  BY <1>2
<1> QED
  BY <1>2, <1>3, <1>4, <1>6 DEF Apt

(* The same after a step.                                                  *)
LEMMA CallsAptNext ==
  ASSUME NEW c, CallOK(c)', Running(c)', NEW r, r = Request(c)', NEW st, st = call'[c].stages
  PROVE  Apt(c, r, st)
<1>1. Understood(c, r)
  BY DEF CallOK
<1>2. /\ r.op \in ReceiptOps => r.doc = <<"receipt", r.doc[2]>>
      /\ r.op \in PaymentOps => r.doc = <<"payment", r.doc[2]>>
      /\ r.op \in TransferOps => r.doc = <<"transfer", r.doc[2]>>
      /\ r.op \in {"createReceipt", "createPayment", "createTransfer"} => r.doc[2] = c
      /\ r.op \in ReceiptOps \cup PaymentOps \cup TransferOps
         \/ r.doc = <<"reason", r.doc[2]>> \/ r.doc = <<"warehouse", r.doc[2]>>
  BY <1>1 DEF Understood, ReceiptOps, PaymentOps, TransferOps
<1>3. ASSUME NEW s \in All(st)
      PROVE  /\ s.op \in {"rewriteReceipt", "reread", "line", "refused"} => r.op = "updateReceipt"
             /\ s.op \in {"markReceipt", "everywhere"} => r.op \in {"archiveReceipt", "restoreReceipt"}
             /\ s.op = "recordReceipt" => r.op = "createReceipt"
             /\ s.op \in {"total", "rows"} => r.op \in {"createReceipt", "updateReceipt"}
             /\ s.op = "payment" => r.op \in {"createPayment", "updatePayment", "updateReceipt"}
             /\ s.op = "balance" => r.op \in ReceiptOps \cup PaymentOps
             /\ s.op \in {"lookup", "commit"} => r.op \in TransferOps /\ \A m \in s.moves : IsMove(m)
  <2>1. Proper(c, s)'
    BY <1>3 DEF CallOK, Pending
  <2> QED
    BY <2>1 DEF Proper, IsFound, PaymentOps
<1>4. \A m : IsMove(m) => m.variant \in Variants /\ m.from \in Places /\ m.to \in Places
  BY DEF IsMove, Places
<1>5. {"receipt", "payment", "transfer", "reason", "warehouse"} = Kinds
  BY DEF Kinds
<1>6. /\ r.op \in ReceiptOps => r.doc[1] = "receipt"
      /\ r.op \in PaymentOps => r.doc[1] = "payment"
      /\ r.op \in TransferOps => r.doc[1] = "transfer"
      /\ r.doc[1] \in {"receipt", "payment"} => r.op \in ReceiptOps \cup PaymentOps
      /\ r.doc[1] = "transfer" => r.op \in TransferOps
      /\ r.doc = <<r.doc[1], r.doc[2]>>
  BY <1>2
<1> QED
  BY <1>2, <1>3, <1>4, <1>6 DEF Apt

(* Documents and rows that are there stay; the ids of the other calls are  *)
(* as new as they were.                                                    *)
Grown(c) ==
  /\ DOMAIN receipts \subseteq DOMAIN receipts' /\ DOMAIN payments \subseteq DOMAIN payments'
  /\ DOMAIN transfers \subseteq DOMAIN transfers'
  /\ \A b \in Calls \ {c} : /\ b \in DOMAIN receipts' => b \in DOMAIN receipts
                            /\ b \in DOMAIN payments' => b \in DOMAIN payments
                            /\ b \in DOMAIN transfers' => b \in DOMAIN transfers
  /\ \A v \in Variants, w \in Places : Len(rows[v][w]) <= Len(rows'[v][w])

(* What a call needs to find in the tables for its inserts and its locks   *)
(* stays as another call takes a step.                                     *)
LEMMA OtherPlaced ==
  ASSUME Inv, Inv', NEW c \in Calls, NEW b \in Calls \ {c}, NEW r, NEW st, Apt(b, r, st), Placed(b, r, st), Grown(c)
  PROVE  Placed(b, r, st)'
<1>1. There(r)'
  BY DEF Placed, There, Grown
<1>2. ASSUME NEW s \in All(st) PROVE Inserting(b, r, s)' /\ Found(s)'
  <2>1. Inserting(b, r, s) /\ Found(s)
    BY DEF Placed
  <2>2. Inserting(b, r, s)'
    BY <2>1 DEF Inserting, Grown
  <2>3. ASSUME s.op = "commit", NEW m \in s.moves
        PROVE  m.toRow \in 0..Len(rows'[m.variant][m.to]) /\ m.fromRow \in 0..Len(rows'[m.variant][m.from])
    <3>1. m.variant \in Variants /\ m.from \in Places /\ m.to \in Places
      BY <2>3 DEF Apt
    <3>2. rows \in [Variants -> [Places -> Seq(Int)]] /\ rows' \in [Variants -> [Places -> Seq(Int)]]
      BY DEF Inv, Typed, RowsTypeOK
    <3>3. \A w \in Places : Len(rows[m.variant][w]) \in Nat /\ Len(rows'[m.variant][w]) \in Nat
      BY <3>1, <3>2
    <3>4. /\ Len(rows[m.variant][m.to]) <= Len(rows'[m.variant][m.to])
          /\ Len(rows[m.variant][m.from]) <= Len(rows'[m.variant][m.from])
      BY <3>1 DEF Grown
    <3>5. m.toRow \in 0..Len(rows[m.variant][m.to]) /\ m.fromRow \in 0..Len(rows[m.variant][m.from])
      BY <2>1, <2>3 DEF Found
    <3> QED
      BY SMTT(30), <3>1, <3>3, <3>4, <3>5
  <2> QED
    BY <2>2, <2>3 DEF Found
<1> QED
  BY <1>1, <1>2 DEF Placed

(* What a document says, but for the reason of a transfer.                 *)
Like(x, y) ==
  x.source = y.source /\ x.destination = y.destination /\ x.isArchived = y.isArchived /\ x.items = y.items
SameBook(d) ==
  /\ \A key \in Keys : Entry(d, key)' = Entry(d, key) /\ Says(d, key)' = Says(d, key)
  /\ d[1] = "receipt" =>
       /\ d[2] \in DOMAIN receipts' <=> d[2] \in DOMAIN receipts
       /\ d[2] \in DOMAIN receipts => receipts'[d[2]] = receipts[d[2]]
  /\ d[1] = "transfer" =>
       /\ d[2] \in DOMAIN transfers' <=> d[2] \in DOMAIN transfers
       /\ d[2] \in DOMAIN transfers => Like(transfers[d[2]], transfers'[d[2]])

(* Transfers that are alike but for the status record the same goods and   *)
(* are updated by the same movements.                                      *)
LEMMA LikeTransfers ==
  ASSUME NEW x, NEW y, Like(x, y)
  PROVE  /\ Recorded(x) = Recorded(y)
         /\ \A key : OfTransfer(x, key) = OfTransfer(y, key)
         /\ \A r : MovesOfUpdate(x, r) = MovesOfUpdate(y, r)
         /\ \A r : AccountedTransferUpdate(x, r) <=> AccountedTransferUpdate(y, r)
<1>1. Recorded(x) = Recorded(y)
  BY DEF Like, Recorded
<1>2. \A key : OfTransfer(x, key) = OfTransfer(y, key)
  BY <1>1 DEF Like, OfTransfer
<1>3. \A r : MovesOfUpdate(x, r) = MovesOfUpdate(y, r)
  BY <1>1 DEF Like, MovesOfUpdate
<1>4. \A r : AccountedTransferUpdate(x, r) <=> AccountedTransferUpdate(y, r)
  BY <1>1 DEF Like, AccountedTransferUpdate
<1> QED
  BY <1>1, <1>2, <1>3, <1>4

(* A call of another document works on as before: what its stages say of   *)
(* the tables does not change.                                             *)
LEMMA OtherWorks ==
  ASSUME NEW b, NEW r, NEW st, Apt(b, r, st), There(r), Working(r, st), NEW d, d = r.doc, SameBook(d)
  PROVE  Working(r, st)'
<1>1. r.op \in {"updateReceipt", "archiveReceipt", "restoreReceipt"} => receipts'[d[2]] = receipts[d[2]]
  BY DEF Apt, There, SameBook, ReceiptOps
<1>2. r.op \in {"updateTransfer", "archiveTransfer", "restoreTransfer"} => Like(transfers[d[2]], transfers'[d[2]])
  BY DEF Apt, There, SameBook, TransferOps
<1>3. ASSUME NEW key \in Keys, Owes(r, st, key) PROVE Owes(r, st, key)'
  <2>1. Entry(d, key)' = Entry(d, key) /\ Says(d, key)' = Says(d, key)
    BY DEF SameBook
  <2>2. \A s \in All(st) : Writes(r, s) => Aim(r, st, s, key)' = Aim(r, st, s, key)
    BY <1>1 DEF Aim, Writes, Apt
  <2> QED
    BY <1>3, <2>1, <2>2 DEF Owes
<1>4. \A key : AtHome(r, key)' <=> AtHome(r, key)
  BY <1>1 DEF AtHome
<1>5. ASSUME NEW s \in All(st), s.op = "rewriteReceipt", Tracks(r, st, s) PROVE Tracks(r, st, s)'
  BY <1>1, <1>5 DEF Tracks, Apt
<1>6. ASSUME NEW s \in All(st), s.op \in {"lookup", "commit"}, Prepared(r, s) PROVE Prepared(r, s)'
  <2>1. r.op \in TransferOps
    BY <1>6 DEF Apt
  <2>2. CASE r.op = "createTransfer"
    BY <1>6, <2>2 DEF Prepared, Planned
  <2>3. CASE r.op # "createTransfer"
    <3>1. Like(transfers[d[2]], transfers'[d[2]])
      BY <1>2, <2>1, <2>3 DEF TransferOps
    <3>2. Planned(r)' = Planned(r)
      <4>1. /\ Recorded(transfers[d[2]]) = Recorded(transfers'[d[2]])
            /\ MovesOfUpdate(transfers[d[2]], r) = MovesOfUpdate(transfers'[d[2]], r)
        BY <3>1, LikeTransfers
      <4> QED
        BY <2>3, <3>1, <4>1 DEF Planned, Like
    <3>3. /\ AccountedTransferUpdate(transfers[d[2]], r) <=> AccountedTransferUpdate(transfers'[d[2]], r)
          /\ transfers[d[2]].isArchived = transfers'[d[2]].isArchived
      BY <3>1, LikeTransfers DEF Like
    <3> QED
      BY <1>6, <3>2, <3>3 DEF Prepared
  <2> QED
    BY <2>2, <2>3
<1>7. ASSUME r.doc[1] \in {"receipt", "payment"}, ~ Coming(st, "refused")
      PROVE  /\ \A key \in Keys : AtHome(r, key)' => Owes(r, st, key)'
             /\ \A s \in All(st) : s.op = "rewriteReceipt" => Tracks(r, st, s)'
             /\ \A s \in All(st) : s.op \in {"reread", "line"} => Coming(st, "rewriteReceipt")
  BY <1>3, <1>4, <1>5, <1>7 DEF Working
<1>8. \A s \in All(st) : s.op \in {"lookup", "commit"} => Prepared(r, s)'
  BY <1>6 DEF Working
<1> QED
  BY <1>7, <1>8 DEF Working
-----------------------------------------------------------------------------
(* What keeps the books in a step of one call.                             *)

(* A step in which no call has to do with the documents, or none that it   *)
(* changes is one that is booked: a request arrives, is refused, or is     *)
(* about a reason or a warehouse.                                          *)
LEMMA QuietStep ==
  ASSUME Inv, Inv', Books, NEW c \in Calls, Alone(c), Running(c) /\ Running(c)' => Request(c)' = Request(c),
         \/ ~ Late(c) /\ ~ Late(c)'
         \/ Running(c) /\ Request(c).doc[1] \notin Tracked,
         disturbed \subseteq disturbed', Booked', Grown(c), \A d \in Docs : SameBook(d),
         ~ Begun(c)' => Unborn(c)',
         \A r, st : Does(c, r, st)' => Len(st) <= Most
  PROVE  Books'
<1>1. \A b \in Calls : CallOK(b) /\ CallOK(b)'
  BY DEF Inv, CallsOK
<1>2. \A b \in Calls \ {c} : /\ call'[b] = call[b] /\ Late(b)' = Late(b) /\ Request(b)' = Request(b)
                             /\ Begun(b)' = Begun(b) /\ \A r, st : Does(b, r, st)' = Does(b, r, st)
  BY DEF Alone, Late, Running, Request, Begun, Does
<1>3. Late(c)' => Running(c)'
  BY DEF Late
<1>4. Late(c)' => Running(c) /\ Request(c)' = Request(c) /\ Request(c).doc[1] \notin Tracked
  BY <1>3
<1>5. ASSUME NEW d \in Docs, d[1] \in Tracked
      PROVE  /\ InHand(d)' => InHand(d)
             /\ InHand(d) => InHand(d)'
             /\ Rewritten(d) => Rewritten(d)'
  <2>1. Late(c) => ~ (Request(c).doc = d)
    <3>1. CASE ~ Late(c) /\ ~ Late(c)'
      BY <3>1
    <3>2. CASE Running(c) /\ Request(c).doc[1] \notin Tracked
      BY <1>5, <3>2
    <3> QED
      BY <3>1, <3>2
  <2>2. Late(c)' => ~ (Request(c)'.doc = d)
    BY <1>4, <1>5
  <2>3. \A b \in Calls : Late(b) /\ Request(b).doc = d => b \in Calls \ {c}
    BY <2>1
  <2>4. \A b \in Calls : Late(b)' /\ Request(b)'.doc = d => b \in Calls \ {c}
    BY <2>2
  <2> QED
    BY <1>2, <2>3, <2>4 DEF InHand, Rewritten
<1>6. Sole'
  <2> SUFFICES ASSUME NEW a \in Calls, NEW b \in Calls, Late(a)', Late(b)', Request(a)'.doc = Request(b)'.doc,
                      Request(b)'.doc[1] \in Tracked, Request(b)'.doc \notin disturbed'
               PROVE  a = b
    BY DEF Sole
  <2>1. a # c /\ b # c
    BY <1>4
  <2> QED
    BY <1>2, <2>1 DEF Books, Sole
<1>7. ASSUME NEW b \in Calls, ~ Begun(b)' PROVE Unborn(b)'
  <2>1. CASE b = c
    BY <1>7, <2>1
  <2>2. CASE b # c
    BY <1>2, <1>7, <2>2 DEF Books, Grown, Unborn
  <2> QED
    BY <2>1, <2>2
<1>8. ASSUME NEW b \in Calls, NEW r, NEW st, Does(b, r, st)'
      PROVE  /\ Placed(b, r, st)'
             /\ r.doc \notin disturbed' => Working(r, st)'
  <2>1. CASE b = c
    <3>1. Running(c)' /\ CallOK(c)' /\ r = Request(c)' /\ st = call'[c].stages /\ r.doc[1] \notin Tracked
      BY <1>1, <1>3, <1>4, <1>8, <2>1 DEF Does
    <3>2. Apt(c, r, st)
      BY <3>1, CallsAptNext
    <3>3. Len(st) <= Most
      BY <1>8, <2>1
    <3>4. /\ r.op \notin ReceiptOps \cup PaymentOps \cup TransferOps
          /\ \A s \in All(st) : s.op \notin {"recordReceipt", "payment", "lookup", "commit"}
      BY <3>1, <3>2 DEF Apt, Tracked, ReceiptOps, PaymentOps, TransferOps
    <3>5. There(r)' /\ \A s \in All(st) : Inserting(c, r, s)' /\ Found(s)'
      BY <3>4 DEF There, Inserting, Found, ReceiptOps, PaymentOps, TransferOps
    <3>6. Working(r, st)'
      BY <3>1, <3>4 DEF Working, Tracked
    <3> QED
      BY <2>1, <3>3, <3>5, <3>6 DEF Placed
  <2>2. CASE b # c
    <3>1. Does(b, r, st)
      BY <1>2, <1>8, <2>2
    <3>2. Placed(b, r, st) /\ (r.doc \notin disturbed => Working(r, st))
      BY <3>1 DEF Books
    <3>3. Running(b) /\ r = Request(b) /\ st = call[b].stages
      BY <3>1 DEF Does, Late
    <3>4. Apt(b, r, st) /\ r.doc \in Docs
      BY <1>1, <3>3, CallsApt, DocsKnown DEF Inv
    <3>5. There(r)
      BY <3>2 DEF Placed
    <3>6. r.doc \notin disturbed' => Working(r, st)'
      BY <3>2, <3>4, <3>5, OtherWorks
    <3>7. Placed(b, r, st)'
      BY <2>2, <3>2, <3>4, OtherPlaced
    <3> QED
      BY <3>6, <3>7
  <2> QED
    BY <2>1, <2>2
<1>9. ASSUME NEW d \in Docs \ disturbed' PROVE Kept(d)'
  <2>1. Kept(d) /\ SameBook(d)
    BY DEF Books
  <2>2. Resting(d) => Resting(d)'
    BY <2>1 DEF Resting, SameBook
  <2>3. Balanced(d) => Balanced(d)'
    BY <2>1 DEF Balanced, SameBook
  <2>4. Once(d)'
    <3>1. CASE d[1] = "transfer" /\ d[2] \in DOMAIN transfers'
      <4>1. transfers'[d[2]].items = transfers[d[2]].items /\ d[2] \in DOMAIN transfers
        BY <2>1, <3>1 DEF SameBook, Like
      <4> QED
        BY <2>1, <3>1, <4>1 DEF Kept, Once
    <3> QED
      BY <3>1 DEF Once
  <2>5. CASE d[1] \in Tracked
    BY <1>5, <2>1, <2>2, <2>3, <2>4, <2>5 DEF Kept
  <2>6. CASE d[1] \notin Tracked
    <3>1. ~ InHand(d) /\ Balanced(d)'
      BY <2>6 DEF InHand, Balanced, Tracked
    <3> QED
      BY <2>1, <2>2, <2>4, <3>1 DEF Kept
  <2> QED
    BY <2>5, <2>6
<1> QED
  BY <1>6, <1>7, <1>8, <1>9 DEF Books

(* A step of a call that is at work on a document that is booked, or       *)
(* starts: what there is to show is about this call and its document.      *)
LEMMA WorkStep ==
  ASSUME Inv, Inv', Books, NEW c \in Calls, Alone(c), Running(c), Running(c)' => Request(c)' = Request(c),
         NEW R, R = Request(c), NEW D \in Docs, D = R.doc, D[1] \in Tracked,
         disturbed \subseteq disturbed', Booked', Grown(c), Begun(c)',
         D \notin disturbed' => \A b \in Calls \ {c} : Late(b) => Request(b).doc # D,
         \A d \in Docs \ {D} : SameBook(d),
         \A st : Late(c)' /\ st = call'[c].stages =>
           Placed(c, R, st)' /\ (D \notin disturbed' => Working(R, st)'),
         D \notin disturbed' => Kept(D)'
  PROVE  Books'
<1>1. \A b \in Calls : CallOK(b) /\ CallOK(b)'
  BY DEF Inv, CallsOK
<1>2. \A b \in Calls \ {c} : /\ call'[b] = call[b] /\ Late(b)' = Late(b) /\ Request(b)' = Request(b)
                             /\ Begun(b)' = Begun(b) /\ \A r, st : Does(b, r, st)' = Does(b, r, st)
  BY DEF Alone, Late, Running, Request, Begun, Does
<1>3. Late(c)' => Running(c)' /\ Request(c)' = R
  BY DEF Late
<1>4. Late(c) => Request(c) = R
  OBVIOUS
<1>5. ASSUME NEW d \in Docs \ {D}
      PROVE  (InHand(d)' <=> InHand(d)) /\ (Rewritten(d)' <=> Rewritten(d))
  <2>1. \A b \in Calls : Late(b) /\ Request(b).doc = d => b \in Calls \ {c}
    BY <1>5
  <2>2. \A b \in Calls : Late(b)' /\ Request(b)'.doc = d => b \in Calls \ {c}
    BY <1>3, <1>5
  <2> QED
    BY <1>2, <2>1, <2>2 DEF InHand, Rewritten
<1>6. Sole'
  <2> SUFFICES ASSUME NEW a \in Calls, NEW b \in Calls, Late(a)', Late(b)', Request(a)'.doc = Request(b)'.doc,
                      Request(b)'.doc[1] \in Tracked, Request(b)'.doc \notin disturbed'
               PROVE  a = b
    BY DEF Sole
  <2>1. CASE a = c /\ b # c
    BY <1>2, <1>3, <2>1
  <2>2. CASE b = c /\ a # c
    BY <1>2, <1>3, <2>2
  <2>3. CASE a # c /\ b # c
    BY <1>2, <2>3 DEF Books, Sole
  <2> QED
    BY <2>1, <2>2, <2>3
<1>7. ASSUME NEW b \in Calls, ~ Begun(b)' PROVE Unborn(b)'
  <2>1. b # c
    BY <1>7
  <2> QED
    BY <1>2, <1>7, <2>1 DEF Books, Grown, Unborn
<1>8. ASSUME NEW b \in Calls, NEW r, NEW st, Does(b, r, st)'
      PROVE  /\ Placed(b, r, st)'
             /\ r.doc \notin disturbed' => Working(r, st)'
  <2>1. CASE b = c
    BY <1>3, <1>8, <2>1 DEF Does
  <2>2. CASE b # c
    <3>1. Does(b, r, st)
      BY <1>2, <1>8, <2>2
    <3>2. Placed(b, r, st) /\ (r.doc \notin disturbed => Working(r, st))
      BY <3>1 DEF Books
    <3>3. Running(b) /\ Late(b) /\ r = Request(b) /\ st = call[b].stages
      BY <3>1 DEF Does, Late
    <3>4. Apt(b, r, st) /\ r.doc \in Docs
      BY <1>1, <3>3, CallsApt, DocsKnown DEF Inv
    <3>5. There(r)
      BY <3>2 DEF Placed
    <3>6. r.doc \notin disturbed' => Working(r, st)'
      <4>1. CASE r.doc = D
        BY <2>2, <3>3, <4>1
      <4>2. CASE r.doc # D
        BY <3>2, <3>4, <3>5, <4>2, OtherWorks
      <4> QED
        BY <4>1, <4>2
    <3>7. Placed(b, r, st)'
      BY <2>2, <3>2, <3>4, OtherPlaced
    <3> QED
      BY <3>6, <3>7
  <2> QED
    BY <2>1, <2>2
<1>9. ASSUME NEW d \in Docs \ disturbed', d # D PROVE Kept(d)'
  <2>1. Kept(d) /\ SameBook(d)
    BY <1>9 DEF Books
  <2>2. Resting(d) => Resting(d)'
    BY <2>1 DEF Resting, SameBook
  <2>3. Balanced(d) => Balanced(d)'
    BY <2>1 DEF Balanced, SameBook
  <2>4. Once(d)'
    <3>1. CASE d[1] = "transfer" /\ d[2] \in DOMAIN transfers'
      <4>1. transfers'[d[2]].items = transfers[d[2]].items /\ d[2] \in DOMAIN transfers
        BY <2>1, <3>1 DEF SameBook, Like
      <4> QED
        BY <2>1, <3>1, <4>1 DEF Kept, Once
    <3> QED
      BY <3>1 DEF Once
  <2> QED
    BY <1>5, <1>9, <2>1, <2>2, <2>3, <2>4 DEF Kept
<1>10. \A d \in Docs \ disturbed' : Kept(d)'
  BY <1>9
<1> QED
  BY <1>6, <1>7, <1>8, <1>10 DEF Books
-----------------------------------------------------------------------------
(* The steps of a call that is at work.                                    *)

(* A step changes no document but D; a payment that comes with a receipt   *)
(* is owed nothing.                                                        *)
Apart(D) ==
  /\ \A x : <<"receipt", x>> # D =>
       /\ x \in DOMAIN receipts' <=> x \in DOMAIN receipts
       /\ x \in DOMAIN receipts => receipts'[x] = receipts[x]
  /\ \A x : <<"payment", x>> # D =>
       /\ x \in DOMAIN payments => x \in DOMAIN payments' /\ payments'[x] = payments[x]
       /\ x \in DOMAIN payments' /\ x \notin DOMAIN payments =>
            \A key \in Keys : OfPayment(payments'[x], key) = 0
  /\ \A x : <<"transfer", x>> # D =>
       /\ x \in DOMAIN transfers' <=> x \in DOMAIN transfers
       /\ x \in DOMAIN transfers => Like(transfers[x], transfers'[x])

(* A step that writes one document leaves the books of the others as they  *)
(* are.                                                                    *)
LEMMA OthersSame ==
  ASSUME NEW D, Apart(D), NEW d \in Docs \ {D}, \A key \in Keys : Entry(d, key)' = Entry(d, key)
  PROVE  SameBook(d)
<1>1. d = <<d[1], d[2]>>
  BY DEF Docs
<1>2. /\ d[1] = "receipt" => <<"receipt", d[2]>> # D
      /\ d[1] = "payment" => <<"payment", d[2]>> # D
      /\ d[1] = "transfer" => <<"transfer", d[2]>> # D
  BY <1>1
<1>3. ASSUME NEW key \in Keys PROVE Says(d, key)' = Says(d, key)
  <2>1. CASE d[1] = "receipt"
    BY <1>2, <2>1 DEF Says, Apart
  <2>2. CASE d[1] = "payment"
    <3>1. CASE d[2] \in DOMAIN payments
      BY <1>2, <2>2, <3>1 DEF Says, Apart
    <3>2. CASE d[2] \notin DOMAIN payments /\ d[2] \in DOMAIN payments'
      <4>1. OfPayment(payments'[d[2]], key) = 0
        BY <1>2, <2>2, <3>2 DEF Apart
      <4> QED
        BY <2>2, <3>2, <4>1 DEF Says
    <3>3. CASE d[2] \notin DOMAIN payments /\ d[2] \notin DOMAIN payments'
      BY <2>2, <3>3 DEF Says
    <3> QED
      BY <3>1, <3>2, <3>3
  <2>3. CASE d[1] = "transfer"
    <3>1. d[2] \in DOMAIN transfers =>
            OfTransfer(transfers[d[2]], key) = OfTransfer(transfers'[d[2]], key)
      <4>1. d[2] \in DOMAIN transfers => Like(transfers[d[2]], transfers'[d[2]])
        BY <1>2, <2>3 DEF Apart
      <4> QED
        BY <4>1, LikeTransfers
    <3> QED
      BY <1>2, <2>3, <3>1 DEF Says, Apart
  <2>4. CASE d[1] \notin {"receipt", "payment", "transfer"}
    BY <2>4 DEF Says
  <2> QED
    BY <2>1, <2>2, <2>3, <2>4
<1> QED
  BY <1>2, <1>3 DEF SameBook, Apart

(* What is known of a call that has something other than a read to send.   *)
LEMMA AtWork ==
  ASSUME Inv, Books, NEW c \in Calls, NEW s \in Sent(c), s.op # "read",
         NEW R, R = Request(c), NEW st, st = call[c].stages
  PROVE  /\ Late(c) /\ Running(c) /\ CallOK(c) /\ R.doc \in Docs /\ Apt(c, R, st) /\ s \in All(st)
         /\ Does(c, R, st) /\ Placed(c, R, st) /\ (R.doc \notin disturbed => Working(R, st))
<1>1. Running(c) /\ CallOK(c) /\ s \in Pending(c)
  BY SentFacts DEF Inv
<1>2. \A t \in Pending(c) : t.op # "read"
  <2>1. SUFFICES ASSUME NEW t \in Pending(c), t.op = "read" PROVE FALSE
    OBVIOUS
  <2>2. call[c].stages = <<{[op |-> "read"]}>>
    BY <1>1, <2>1 DEF CallOK
  <2>3. Sent(c) = {[op |-> "read"]}
    BY <1>1, <2>2 DEF Sent
  <2> QED
    BY <2>3
<1>3. Late(c)
  BY <1>1, <1>2, LateReads
<1>4. Does(c, R, st) /\ R.doc \in Docs
  BY <1>1, <1>3, DocsKnown DEF Does, Inv
<1>5. Apt(c, R, st)
  BY <1>1, CallsApt
<1>6. Placed(c, R, st) /\ (R.doc \notin disturbed => Working(R, st))
  BY <1>4 DEF Books
<1> QED
  BY <1>1, <1>3, <1>4, <1>5, <1>6 DEF Pending

(* A step of a call at work on a receipt or a payment.                     *)
LEMMA ReceiptWork ==
  ASSUME Inv, Inv', Books, NEW c \in Calls, NEW s \in Sent(c), s.op # "read", Account(c),
         NEW R, R = Request(c), NEW D, D = R.doc, D[1] \in {"receipt", "payment"},
         NEW new, new = call'[c].stages,
         Alone(c), Running(c)' => Request(c)' = R, call'[c].at # "idle", \A t \in All(new) : t.op # "read",
         disturbed \subseteq disturbed', Grown(c), Apart(D),
         Placed(c, R, new)',
         D \notin disturbed' /\ ~ Coming(new, "refused") =>
           /\ \A key \in Keys : AtHome(R, key)' => Owes(R, new, key)'
           /\ \A t \in All(new) : t.op = "rewriteReceipt" => Tracks(R, new, t)'
           /\ \A t \in All(new) : t.op \in {"reread", "line"} => Coming(new, "rewriteReceipt")
           /\ Coming(new, "rewriteReceipt") \/ Balanced(D)'
  PROVE  Books'
<1> DEFINE st == call[c].stages
<1>1. /\ Late(c) /\ Running(c) /\ CallOK(c) /\ D \in Docs /\ Apt(c, R, st) /\ Does(c, R, st)
  BY AtWork
<1>2. Booked' /\ \A d \in Docs \ {D} : \A key \in Keys : Entry(d, key)' = Entry(d, key)
  BY <1>1, AccountStep DEF Books
<1>3. \A d \in Docs \ {D} : SameBook(d)
  BY <1>2, OthersSame
<1>4. CallOK(c)' /\ Shaped' /\ Pending(c)' = All(new)
  BY DEF Inv, CallsOK, Pending
<1>5. Running(c)' => Late(c)'
  <2>1. SUFFICES ASSUME Running(c)', call'[c].stages = Reading PROVE FALSE
    BY DEF Late
  <2>2. 1 \in DOMAIN Reading /\ Reading[1] = {[op |-> "read"]}
    BY DEF Reading
  <2>3. [op |-> "read"] \in All(new)
    BY <2>1, <2>2 DEF All
  <2> QED
    BY <2>3
<1>6. Begun(c)'
  BY <1>5 DEF Begun
<1>7. D \notin disturbed' => \A b \in Calls \ {c} : Late(b) => Request(b).doc # D
  BY <1>1 DEF Books, Sole, Tracked
<1>8. Late(c)' => Apt(c, R, new)
  BY <1>4, CallsAptNext DEF Late
<1>9. ~ Running(c)' => new = <<>>
  BY <1>4 DEF CallOK
<1>10. ASSUME D \notin disturbed' PROVE (Late(c)' => Working(R, new)') /\ Kept(D)'
  <2>1. Late(c)' => Working(R, new)'
    <3>1. Late(c)' => \A t \in All(new) : t.op \notin {"lookup", "commit"}
      BY <1>8 DEF Apt, TransferOps
    <3> QED
      BY <1>10, <3>1 DEF Working
  <2>2. ~ InHand(D)' => Resting(D)'
    <3> SUFFICES ASSUME ~ InHand(D)', NEW key \in Keys PROVE Entry(D, key)' = Says(D, key)'
      BY DEF Resting
    <3>1. ~ Late(c)' /\ ~ Running(c)'
      BY <1>5 DEF InHand, Late
    <3>2. new = <<>> /\ All(new) = {}
      BY <1>9, <3>1 DEF All
    <3>3. \A k \in Keys : AtHome(R, k)' => Entry(D, k)' = Says(D, k)'
      <4> TAKE k \in Keys
      <4> HAVE AtHome(R, k)'
      <4>1. Owes(R, new, k)'
        BY <1>10, <3>2 DEF Coming
      <4>2. Entry(D, k)' + Due(new, k) = Says(D, k)'
        BY <3>2, <4>1 DEF Owes
      <4>3. Due(new, k) = 0 /\ Entry(D, k)' \in Int
        <5>1. \A d \in Docs : \A kk \in Keys : Entry(d, kk)' \in Int
          <6> SUFFICES ASSUME NEW d \in Docs, NEW kk \in Keys PROVE Entry(d, kk)' \in Int
            OBVIOUS
          <6> QED
            BY <1>2, KeyCases DEF Entry, Booked
        <5> QED
          BY <1>1, <3>2, <5>1, NothingDue
      <4> QED
        BY <4>2, <4>3
    <3>4. CASE key[1] # "goods"
      BY <3>3, <3>4 DEF AtHome
    <3>5. CASE key[1] = "goods"
      <4>0. PICK home : home = receipts'[D[2]].warehouse
        OBVIOUS
      <4> DEFINE k == <<"goods", key[2], key[3], home>>
      <4>1. CASE home \in Warehouses
        <5>1. k \in Keys
          BY <3>5, <4>1, KeyCases DEF Keys, Places
        <5>2. AtHome(R, k)'
          BY <4>0 DEF AtHome
        <5>3. Entry(D, k)' = Says(D, k)'
          BY <3>3, <5>1, <5>2
        <5>4. Entry(D, key)' = Entry(D, k)'
          BY <3>5 DEF Entry
        <5>5. Says(D, key)' = Says(D, k)'
          BY <3>5 DEF Says, OfReceipt, OfPayment, OfTransfer
        <5> QED
          BY <5>3, <5>4, <5>5
      <4>2. CASE home \notin Warehouses
        <5>1. ~ (R.op \in {"archiveReceipt", "restoreReceipt"})
          <6>1. R.op \in {"archiveReceipt", "restoreReceipt"} => D[2] \in DOMAIN receipts'
            BY DEF Placed, There
          <6>2. D[2] \in DOMAIN receipts' => home \in Warehouses
            BY <4>0 DEF Inv, Tables, IsReceipt
          <6> QED
            BY <4>2, <6>1, <6>2
        <5> QED
          BY <3>3, <5>1 DEF AtHome
      <4> QED
        BY <4>1, <4>2
    <3> QED
      BY <3>4, <3>5
  <2>3. ~ Rewritten(D)' => Balanced(D)'
    <3> SUFFICES ASSUME ~ Rewritten(D)', ~ Balanced(D)' PROVE FALSE
      OBVIOUS
    <3>1. Coming(new, "rewriteReceipt") \/ Coming(new, "refused")
      BY <1>10
    <3>2. new # <<>>
      BY <3>1 DEF Coming, All
    <3>3. Late(c)' /\ Request(c)' = R
      BY <1>5, <1>9, <3>2 DEF Late
    <3> QED
      BY <3>1, <3>3 DEF Rewritten
  <2>4. Once(D)'
    BY DEF Once
  <2> QED
    BY <2>1, <2>2, <2>3, <2>4 DEF Kept
<1> QED
  BY <1>1, <1>2, <1>3, <1>6, <1>7, <1>10, WorkStep DEF Tracked

(* The statements that are left when one has succeeded.                    *)
LEMMA LengthExecuted ==
  ASSUME Shaped, CallsOK, NEW c \in Calls, NEW s \in Sent(c), Executed(c, s), Len(call[c].stages) <= Most
  PROVE  Len(call'[c].stages) <= Most
<1> DEFINE st == call[c].stages
           A == Sent(c) \ {s}
           T == Own(st) \cup {A}
           new == <<A>> \o Tail(st)
<1>1. Running(c) /\ CallOK(c)
  BY SentFacts
<1>2. st # <<>> /\ Orderly(st)
  BY <1>1, SentFirst
<1>3. st \in Seq(T)
  BY <1>2 DEF Orderly
<1>4. Resumes(c, new)
  BY <1>1, HandlersLeave
<1>5. call'[c].stages = Staged(new) /\ A \in T /\ Len(st) <= Most
  BY <1>4 DEF Resumes
<1> HIDE DEF st, A, T, new
<1>6. new = <<A>> \o Tail(st)
  BY DEF new
<1>7. new \in Seq(T) /\ Len(new) = Len(st)
  BY <1>2, <1>3, <1>5, <1>6, FirstReplaced
<1>8. Len(Staged(new)) <= Len(new)
  BY <1>7, DueStaged
<1>9. Len(Staged(new)) \in Nat /\ Len(new) \in Nat
  BY <1>7, StagedLeaves
<1> QED
  BY <1>5, <1>7, <1>8, <1>9 DEF Most

(* A statement executed by a call that is alone at work: what it brings    *)
(* leaves what is due, and the other statements stay.                      *)
LEMMA WorkExecuted ==
  ASSUME Inv, Inv', Books, NEW c \in Calls, NEW s \in Sent(c), s.op # "read", Executed(c, s), Grown(c),
         NEW R, R = Request(c), NEW st, st = call[c].stages, NEW new, new = call'[c].stages
  PROVE  /\ Alone(c) /\ (Running(c)' => Request(c)' = R) /\ call'[c].at # "idle"
         /\ \A t \in All(new) : t.op # "read"
         /\ All(new) \subseteq All(st) /\ \A t \in All(st) : t = s \/ t \in All(new)
         /\ \A t \in All(new) : Alike(s, t) => s.op \in {"balance", "refused"}
         /\ \A key \in Keys : /\ Due(st, key) \in Int /\ Brings(s, key) \in Int
                              /\ Due(new, key) = Due(st, key) - Brings(s, key)
         /\ (\A t \in All(new) : Inserting(c, R, t)') => Placed(c, R, new)'
<1>1. Shaped /\ CallsOK /\ Grows
  BY DEF Inv, Grown, Grows
<1>2. Running(c) /\ Late(c) /\ Placed(c, R, st) /\ Apt(c, R, st)
  BY AtWork
<1>3. /\ Alone(c) /\ All(new) \subseteq All(st) /\ \A t \in All(st) : t = s \/ t \in All(new)
      /\ \A t \in All(new) : Alike(s, t) => s.op \in {"balance", "refused"}
  BY <1>1, ExecutedOnward DEF Pending
<1>4. Resumes(c, <<Sent(c) \ {s}>> \o Tail(call[c].stages))
  BY <1>1, <1>2, HandlersLeave
<1>5. /\ Running(c)' => Request(c)' = R
      /\ call'[c].at # "idle"
  <2>1. CASE Ends(c)
    <3>1. call'[c].at \in {"done", "failed"}
      BY <2>1 DEF Ends
    <3> QED
      BY <3>1 DEF Running
  <2>2. CASE ~ Ends(c)
    BY <1>4, <2>2 DEF Resumes, Stands, Request
  <2> QED
    BY <2>1, <2>2
<1>6. \A t \in All(st) : t.op # "read"
  BY <1>1, <1>2, LateReads DEF CallsOK, Pending
<1>7. Len(st) <= Most
  BY <1>2 DEF Placed
<1>8. ASSUME NEW key \in Keys
      PROVE  /\ Due(st, key) \in Int /\ Brings(s, key) \in Int
             /\ Due(new, key) = Due(st, key) - Brings(s, key)
  <2>1. Due(call[c].stages, key)' = Due(new, key)
    BY DEF Due, Dues, At
  <2> QED
    BY <1>1, <1>7, <2>1, DueExecuted
<1>9. ASSUME \A t \in All(new) : Inserting(c, R, t)' PROVE Placed(c, R, new)'
  <2>1. Len(new) <= Most
    BY <1>1, <1>7, LengthExecuted
  <2>2. There(R)'
    BY <1>2 DEF Placed, There, Grown
  <2>3. \A t \in All(new) : Found(t)'
    <3> SUFFICES ASSUME NEW t \in All(new), t.op = "commit", NEW m \in t.moves
                 PROVE  m.toRow \in 0..Len(rows'[m.variant][m.to]) /\ m.fromRow \in 0..Len(rows'[m.variant][m.from])
      BY DEF Found
    <3>0. t \in All(st)
      BY <1>3
    <3>1. m.variant \in Variants /\ m.from \in Places /\ m.to \in Places
      BY <1>2, <3>0 DEF Apt
    <3>2. rows \in [Variants -> [Places -> Seq(Int)]] /\ rows' \in [Variants -> [Places -> Seq(Int)]]
      BY DEF Inv, Typed, RowsTypeOK
    <3>3. \A w \in Places : Len(rows[m.variant][w]) \in Nat /\ Len(rows'[m.variant][w]) \in Nat
      BY <3>1, <3>2
    <3>4. /\ Len(rows[m.variant][m.to]) <= Len(rows'[m.variant][m.to])
          /\ Len(rows[m.variant][m.from]) <= Len(rows'[m.variant][m.from])
      BY <3>1 DEF Grown
    <3>5. m.toRow \in 0..Len(rows[m.variant][m.to]) /\ m.fromRow \in 0..Len(rows[m.variant][m.from])
      BY <1>2, <3>0 DEF Placed, Found
    <3>6. \A k, n \in Nat : k <= n => 0..k \subseteq 0..n
      OBVIOUS
    <3>7. /\ 0..Len(rows[m.variant][m.to]) \subseteq 0..Len(rows'[m.variant][m.to])
          /\ 0..Len(rows[m.variant][m.from]) \subseteq 0..Len(rows'[m.variant][m.from])
      BY <3>1, <3>3, <3>4, <3>6
    <3> QED
      BY <3>5, <3>7
  <2> QED
    BY <1>9, <2>1, <2>2, <2>3 DEF Placed
<1> QED
  BY <1>3, <1>5, <1>6, <1>8, <1>9

(* What a call is to do after a statement that writes no document, and     *)
(* after one that writes it.                                               *)
LEMMA OwesOn ==
  ASSUME NEW R, NEW st, NEW new, NEW s, NEW key, Owes(R, st, key), ~ Writes(R, s),
         Entry(R.doc, key)' + Due(new, key) = Entry(R.doc, key) + Due(st, key),
         All(new) \subseteq All(st), \A t \in All(st) : t = s \/ t \in All(new),
         Says(R.doc, key)' = Says(R.doc, key) \/ \E t \in All(new) : Writes(R, t),
         \A t \in All(new) : Writes(R, t) => Aim(R, new, t, key)' = Aim(R, st, t, key)
  PROVE  Owes(R, new, key)'
<1>1. \A t : Writes(R, t)' <=> Writes(R, t)
  BY DEF Writes
<1> QED
  BY <1>1 DEF Owes

(* The statement that writes a document makes the document say what the    *)
(* call was aiming at.                                                     *)
LEMMA OwesDone ==
  ASSUME NEW R, NEW st, NEW new, NEW s \in All(st), NEW key, Owes(R, st, key), Writes(R, s),
         Entry(R.doc, key)' + Due(new, key) = Entry(R.doc, key) + Due(st, key),
         \A t \in All(new) : ~ Writes(R, t),
         Says(R.doc, key)' = Aim(R, st, s, key)
  PROVE  Owes(R, new, key)'
<1>1. \A t : Writes(R, t)' <=> Writes(R, t)
  BY DEF Writes
<1> QED
  BY <1>1 DEF Owes

(* A statement that changes the stock, a total or a balance by what it     *)
(* brings, and no document.                                                *)
LEMMA AmountWork ==
  ASSUME Inv, Inv', Books, NEW c \in Calls, NEW s \in Sent(c), Account(c),
         s.op \in {"balance", "total", "rows", "everywhere"}, Executed(c, s),
         UNCHANGED <<payments, receipts, transfers>>, disturbed \subseteq disturbed',
         \A v \in Variants, w \in Places : Len(rows[v][w]) <= Len(rows'[v][w]),
         NEW R, R = Request(c),
         R.doc \notin disturbed' => \A key \in Keys : AtHome(R, key) => Change(key) = Brings(s, key)
  PROVE  Books'
<1>0. PICK st, new, D : st = call[c].stages /\ new = call'[c].stages /\ D = R.doc
  OBVIOUS
<1>1. /\ Late(c) /\ Running(c) /\ D \in Docs /\ Apt(c, R, st) /\ Placed(c, R, st) /\ s \in All(st)
      /\ D \notin disturbed => Working(R, st)
  BY <1>0, AtWork
<1>2. D[1] \in {"receipt", "payment"}
  BY <1>0, <1>1 DEF Apt, ReceiptOps, PaymentOps
<1>3. Grown(c)
  BY DEF Grown
<1>4. /\ Alone(c) /\ (Running(c)' => Request(c)' = R) /\ call'[c].at # "idle"
      /\ \A t \in All(new) : t.op # "read"
      /\ All(new) \subseteq All(st) /\ \A t \in All(st) : t = s \/ t \in All(new)
      /\ \A key \in Keys : /\ Due(st, key) \in Int /\ Brings(s, key) \in Int
                           /\ Due(new, key) = Due(st, key) - Brings(s, key)
      /\ (\A t \in All(new) : Inserting(c, R, t)') => Placed(c, R, new)'
  BY <1>0, <1>3, WorkExecuted
<1>5. Placed(c, R, new)'
  BY <1>1, <1>4 DEF Placed, Inserting
<1>6. Apart(D)
  BY DEF Apart, Like
<1>7. ASSUME D \notin disturbed', ~ Coming(new, "refused")
      PROVE  /\ \A key \in Keys : AtHome(R, key)' => Owes(R, new, key)'
             /\ \A t \in All(new) : t.op = "rewriteReceipt" => Tracks(R, new, t)'
             /\ \A t \in All(new) : t.op \in {"reread", "line"} => Coming(new, "rewriteReceipt")
             /\ Coming(new, "rewriteReceipt") \/ Balanced(D)'
  <2>1. D \notin disturbed /\ Working(R, st)
    BY <1>0, <1>1, <1>7
  <2>2. \A op : op # s.op => (Coming(new, op) <=> Coming(st, op))
    BY <1>1, <1>4 DEF Coming
  <2>3. Coming(new, "rewriteReceipt") <=> Coming(st, "rewriteReceipt")
    BY <2>2
  <2>4. Coming(new, "reread") <=> Coming(st, "reread")
    BY <2>2
  <2>5. ~ Coming(st, "refused")
    BY <1>7, <2>2
  <2>6. ASSUME NEW key \in Keys, AtHome(R, key)' PROVE Owes(R, new, key)'
    <3>1. AtHome(R, key) /\ Owes(R, st, key)
      BY <1>0, <1>2, <2>1, <2>5, <2>6 DEF AtHome, Working
    <3>2. Entry(D, key) \in Int /\ Entry(D, key)' = Entry(D, key) + Brings(s, key)
      <4>1. Entry(D, key) \in Int
        BY <1>0, <1>1, EntryType DEF Books
      <4>2. Entry(D, key)' = Entry(D, key) + Change(key)
        BY <1>0, <1>1, AccountStep DEF Books
      <4> QED
        BY <1>0, <1>7, <3>1, <4>1, <4>2
    <3>3. Entry(D, key)' + Due(new, key) = Entry(D, key) + Due(st, key)
      <4>1. Due(st, key) \in Int /\ Brings(s, key) \in Int /\ Due(new, key) = Due(st, key) - Brings(s, key)
        BY <1>4
      <4> QED
        BY <3>2, <4>1
    <3>4. ~ Writes(R, s)
      BY DEF Writes
    <3>5. Says(D, key)' = Says(D, key)
      BY DEF Says
    <3>6. ASSUME NEW t \in All(new) PROVE Aim(R, new, t, key)' = Aim(R, st, t, key)
      BY <2>4 DEF Aim
    <3> QED
      BY <1>0, <1>4, <3>1, <3>3, <3>4, <3>5, <3>6, OwesOn
  <2>7. ASSUME NEW t \in All(new), t.op = "rewriteReceipt" PROVE Tracks(R, new, t)'
    <3>1. Tracks(R, st, t)
      BY <1>0, <1>2, <1>4, <2>1, <2>5, <2>7 DEF Working
    <3>2. \A v : (\E u \in All(st) : u.op = "line" /\ u.variant = v) => \E u \in All(new) : u.op = "line" /\ u.variant = v
      BY <1>4
    <3>3. receipts'[R.doc[2]] = receipts[R.doc[2]]
      OBVIOUS
    <3> QED
      BY <1>4, <3>1, <3>2, <3>3 DEF Tracks
  <2>8. ASSUME NEW t \in All(new), t.op \in {"reread", "line"} PROVE Coming(new, "rewriteReceipt")
    BY <1>0, <1>2, <1>4, <2>1, <2>3, <2>5, <2>8 DEF Working
  <2>9. Coming(new, "rewriteReceipt") \/ Balanced(D)'
    <3>1. CASE Coming(st, "rewriteReceipt")
      BY <2>3, <3>1
    <3>2. CASE ~ Coming(st, "rewriteReceipt")
      <4>1. ~ Rewritten(D)
        <5>1. \A b \in Calls : Late(b) /\ Request(b).doc = D => b = c
          BY <1>0, <1>1, <1>2, <2>1 DEF Books, Sole, Tracked
        <5> QED
          BY <1>0, <2>5, <3>2, <5>1 DEF Rewritten
      <4>2. Balanced(D)
        BY <1>1, <2>1, <4>1 DEF Books, Kept
      <4> QED
        BY <4>2 DEF Balanced
    <3> QED
      BY <3>1, <3>2
  <2> QED
    BY <2>6, <2>7, <2>8, <2>9
<1>8. s.op # "read" /\ R = Request(c)
  OBVIOUS
<1> QED
  BY <1>0, <1>2, <1>3, <1>4, <1>5, <1>6, <1>7, <1>8, ReceiptWork

(* What one row holds when every row is changed, and when there is none.   *)
LEMMA AddedCount ==
  ASSUME NEW p \in Seq(Int), NEW q \in Int, NEW new, new = AddToEach(p, q)
  PROVE  /\ Len(p) = 1 => SumTo(new, Len(new)) = SumTo(p, Len(p)) + q
         /\ Len(p) = 0 => SumTo(new, Len(new)) = SumTo(p, Len(p))
         /\ new \in Seq(Int) /\ Len(new) = Len(p) /\ SumTo(p, Len(p)) \in Int
<1>1. new \in Seq(Int) /\ Len(new) = Len(p)
  BY AddedType
<1>2. Len(p) \in Nat /\ p \in [1..Len(p) -> Int] /\ new \in [1..Len(p) -> Int]
  BY <1>1
<1>3. SumTo(p, Len(p)) \in Int
  BY <1>2, SumType
<1>4. CASE Len(p) = 1
  <2>1. new[1] = p[1] + q /\ 1 \in 1..1 /\ \A i \in 1..1 : i # 1 => new[i] = p[i]
    BY <1>2, <1>4 DEF AddToEach
  <2>2. 1 \in Nat /\ p \in [1..1 -> Int] /\ new \in [1..1 -> Int]
    BY <1>2, <1>4
  <2>3. SumTo(new, 1) = SumTo(p, 1) + (new[1] - p[1])
    BY <2>1, <2>2, SumChange
  <2>4. p[1] \in Int
    BY <2>2
  <2> QED
    BY <1>1, <1>3, <1>4, <2>1, <2>3, <2>4
<1>5. CASE Len(p) = 0
  <2>1. \A r \in Seq(Int) : Len(r) = 0 => r = <<>>
    OBVIOUS
  <2>2. p = <<>> /\ new = <<>>
    BY <1>1, <1>5, <2>1
  <2> QED
    BY <1>1, <1>3, <1>5, <2>2
<1> QED
  BY <1>1, <1>3, <1>4, <1>5

(* Updating the balance of a supplier keeps the books.                     *)
LEMMA BalanceWork ==
  ASSUME Inv, Inv', Books, NEW c \in Calls, NEW s \in Sent(c), Account(c), UpdateBalance(c, s),
         UNCHANGED <<rows, total, receipts, transfers>>
  PROVE  Books'
<1>1. PICK R : R = Request(c)
  OBVIOUS
<1>2. ASSUME NEW key \in Keys PROVE Change(key) = Brings(s, key)
  <2>1. /\ balance \in [Suppliers -> Int] /\ total \in [Variants -> Int]
        /\ rows \in [Variants -> [Places -> Seq(Int)]]
    BY DEF Inv, Typed, RowsTypeOK
  <2>2. s.op = "balance" /\ s.amount \in Int
    <3>1. Proper(c, s)
      BY SentFacts DEF Inv
    <3> QED
      BY <3>1 DEF UpdateBalance, Proper
  <2>3. CASE key[1] = "debt"
    <3>1. key[2] \in Suppliers /\ balance[key[2]] \in Int
      BY <2>1, <2>3, KeyCases
    <3>2. balance'[key[2]] = IF s.supplier = key[2] THEN balance[key[2]] + s.amount ELSE balance[key[2]]
      BY <2>1, <3>1 DEF UpdateBalance
    <3> QED
      BY <2>2, <2>3, <3>1, <3>2 DEF Change, Brings
  <2>4. CASE key[1] = "total"
    <3>1. key[2] \in Variants /\ total[key[2]] \in Int
      BY <2>1, <2>4, KeyCases
    <3> QED
      BY <2>2, <2>4, <3>1 DEF Change, Brings
  <2>5. CASE key[1] = "goods"
    <3>1. InPlace(rows, key[2], key[3]) \in Int
      BY <2>1, <2>5, KeyCases, PlacesCount
    <3> QED
      BY <2>2, <2>5, <3>1 DEF Change, Brings
  <2> QED
    BY <2>3, <2>4, <2>5, KeyCases
<1>3. /\ \A v \in Variants, w \in Places : Len(rows[v][w]) <= Len(rows'[v][w])
      /\ s.op = "balance" /\ Executed(c, s) /\ UNCHANGED <<payments, receipts, transfers>>
      /\ disturbed \subseteq disturbed'
  <2>1. \A v \in Variants, w \in Places : Len(rows[v][w]) \in Nat
    BY DEF Inv, Typed, RowsTypeOK
  <2> QED
    BY <2>1 DEF UpdateBalance
<1> QED
  BY <1>1, <1>2, <1>3, AmountWork

(* Incrementing the total of a variant keeps the books.                    *)
LEMMA TotalWork ==
  ASSUME Inv, Inv', Books, NEW c \in Calls, NEW s \in Sent(c), Account(c), IncrementTotal(c, s),
         UNCHANGED transfers
  PROVE  Books'
<1>1. PICK R : R = Request(c)
  OBVIOUS
<1>2. ASSUME NEW key \in Keys PROVE Change(key) = Brings(s, key)
  <2>1. /\ balance \in [Suppliers -> Int] /\ total \in [Variants -> Int]
        /\ rows \in [Variants -> [Places -> Seq(Int)]]
    BY DEF Inv, Typed, RowsTypeOK
  <2>2. s.op = "total" /\ s.quantity \in Int
    <3>1. Proper(c, s)
      BY SentFacts DEF Inv
    <3> QED
      BY <3>1 DEF IncrementTotal, Proper
  <2>3. CASE key[1] = "debt"
    <3>1. key[2] \in Suppliers /\ balance[key[2]] \in Int
      BY <2>1, <2>3, KeyCases
    <3> QED
      BY <2>2, <2>3, <3>1 DEF Change, Brings, IncrementTotal
  <2>4. CASE key[1] = "total"
    <3>1. key[2] \in Variants /\ total[key[2]] \in Int
      BY <2>1, <2>4, KeyCases
    <3>2. total'[key[2]] = IF s.variant = key[2] THEN total[key[2]] + s.quantity ELSE total[key[2]]
      BY <2>1, <3>1 DEF IncrementTotal
    <3> QED
      BY <2>2, <2>4, <3>1, <3>2 DEF Change, Brings
  <2>5. CASE key[1] = "goods"
    <3>1. InPlace(rows, key[2], key[3]) \in Int /\ rows' = rows
      BY <2>1, <2>5, KeyCases, PlacesCount DEF IncrementTotal
    <3> QED
      BY <2>2, <2>5, <3>1 DEF Change, Brings
  <2> QED
    BY <2>3, <2>4, <2>5, KeyCases
<1>3. /\ \A v \in Variants, w \in Places : Len(rows[v][w]) <= Len(rows'[v][w])
      /\ s.op = "total" /\ Executed(c, s) /\ UNCHANGED <<payments, receipts, transfers>>
      /\ disturbed \subseteq disturbed'
  <2>1. \A v \in Variants, w \in Places : Len(rows[v][w]) \in Nat
    BY DEF Inv, Typed, RowsTypeOK
  <2> QED
    BY <2>1 DEF IncrementTotal
<1> QED
  BY <1>1, <1>2, <1>3, AmountWork

(* Incrementing the rows of a variant in one warehouse keeps the books.    *)
LEMMA RowsWork ==
  ASSUME Inv, Inv', Books, NEW c \in Calls, NEW s \in Sent(c), Account(c), IncrementRows(c, s),
         UNCHANGED transfers
  PROVE  Books'
<1>1. PICK R : R = Request(c)
  OBVIOUS
<1>2. /\ balance \in [Suppliers -> Int] /\ total \in [Variants -> Int]
      /\ rows \in [Variants -> [Places -> Seq(Int)]]
  BY DEF Inv, Typed, RowsTypeOK
<1>3. s.op = "rows" /\ s.quantity \in Int /\ s.variant \in Variants /\ s.warehouse \in Places
  <2>1. Proper(c, s)
    BY SentFacts DEF Inv
  <2> QED
    BY <2>1 DEF IncrementRows, Proper, Places
<1>4. \A v \in Variants, w \in Places :
        rows'[v][w] = IF v = s.variant /\ w = s.warehouse THEN AddToEach(rows[v][w], s.quantity) ELSE rows[v][w]
  BY <1>2, <1>3 DEF IncrementRows
<1>5. ASSUME R.doc \notin disturbed', NEW key \in Keys PROVE Change(key) = Brings(s, key)
  <2>1. CASE key[1] = "debt"
    <3>1. key[2] \in Suppliers /\ balance[key[2]] \in Int
      BY <1>2, <2>1, KeyCases
    <3> QED
      BY <1>3, <2>1, <3>1 DEF Change, Brings, IncrementRows
  <2>2. CASE key[1] = "total"
    <3>1. key[2] \in Variants /\ total[key[2]] \in Int
      BY <1>2, <2>2, KeyCases
    <3> QED
      BY <1>3, <2>2, <3>1 DEF Change, Brings, IncrementRows
  <2>3. CASE key[1] = "goods"
    <3>0. key[2] \in Variants /\ key[3] \in Places
      BY <2>3, KeyCases
    <3>1. InPlace(rows, key[2], key[3]) \in Int
      BY <1>2, <3>0, PlacesCount
    <3>2. CASE key[2] = s.variant /\ key[3] = s.warehouse
      <4>1. Len(rows[s.variant][s.warehouse]) = 1
        BY <1>1, <1>5 DEF IncrementRows, DisturbIf
      <4>2. PICK p, new : p = rows[key[2]][key[3]] /\ new = AddToEach(p, s.quantity)
        OBVIOUS
      <4>3. p \in Seq(Int) /\ Len(p) = 1 /\ rows'[key[2]][key[3]] = new
        BY <1>2, <1>4, <3>0, <3>2, <4>1, <4>2
      <4>4. SumTo(new, Len(new)) = SumTo(p, Len(p)) + s.quantity
        <5>1. PICK q \in Int : q = s.quantity
          BY <1>3
        <5>2. new = AddToEach(p, q)
          BY <4>2, <5>1
        <5>3. SumTo(new, Len(new)) = SumTo(p, Len(p)) + q
          BY <4>3, <5>2, AddedCount
        <5> QED
          BY <5>1, <5>3
      <4>5. InPlace(rows', key[2], key[3]) = InPlace(rows, key[2], key[3]) + s.quantity
        BY <4>2, <4>3, <4>4 DEF InPlace
      <4> QED
        BY <1>3, <2>3, <3>1, <3>2, <4>5 DEF Change, Brings
    <3>3. CASE ~ (key[2] = s.variant /\ key[3] = s.warehouse)
      <4>1. InPlace(rows', key[2], key[3]) = InPlace(rows, key[2], key[3])
        BY <1>4, <3>0, <3>3 DEF InPlace
      <4> QED
        BY <1>3, <2>3, <3>1, <3>3, <4>1 DEF Change, Brings
    <3> QED
      BY <3>2, <3>3
  <2> QED
    BY <2>1, <2>2, <2>3, KeyCases
<1>6. \A v \in Variants, w \in Places : Len(rows[v][w]) <= Len(rows'[v][w])
  <2> SUFFICES ASSUME NEW v \in Variants, NEW w \in Places PROVE Len(rows[v][w]) <= Len(rows'[v][w])
    OBVIOUS
  <2>1. rows[v][w] \in Seq(Int)
    BY <1>2
  <2>2. Len(rows[v][w]) \in Nat /\ Len(AddToEach(rows[v][w], s.quantity)) = Len(rows[v][w])
    BY <1>3, <2>1, AddedType
  <2> QED
    BY <1>4, <2>2
<1>7. /\ s.op = "rows" /\ Executed(c, s) /\ UNCHANGED <<payments, receipts, transfers>>
      /\ disturbed \subseteq disturbed'
  BY DEF IncrementRows, DisturbIf
<1> QED
  BY <1>1, <1>5, <1>6, <1>7, AmountWork

(* Incrementing the rows of a variant in every warehouse keeps the books.  *)
LEMMA EverywhereWork ==
  ASSUME Inv, Inv', Books, NEW c \in Calls, NEW s \in Sent(c), Account(c), IncrementEverywhere(c, s),
         UNCHANGED transfers
  PROVE  Books'
<1>1. PICK R : R = Request(c)
  OBVIOUS
<1>2. /\ balance \in [Suppliers -> Int] /\ total \in [Variants -> Int]
      /\ rows \in [Variants -> [Places -> Seq(Int)]]
  BY DEF Inv, Typed, RowsTypeOK
<1>3. /\ s.op = "everywhere" /\ s.quantity \in Int /\ s.variant \in Variants
      /\ R.op \in {"archiveReceipt", "restoreReceipt"}
  <2>1. Proper(c, s)
    BY SentFacts DEF Inv
  <2> QED
    BY <1>1, <2>1 DEF IncrementEverywhere, Proper
<1>4. \A v \in Variants, w \in Places :
        rows'[v][w] = IF v = s.variant THEN AddToEach(rows[v][w], s.quantity) ELSE rows[v][w]
  BY <1>2, <1>3 DEF IncrementEverywhere
<1>5. ASSUME R.doc \notin disturbed', NEW key \in Keys, AtHome(R, key) PROVE Change(key) = Brings(s, key)
  <2>1. CASE key[1] = "debt"
    <3>1. key[2] \in Suppliers /\ balance[key[2]] \in Int
      BY <1>2, <2>1, KeyCases
    <3> QED
      BY <1>3, <2>1, <3>1 DEF Change, Brings, IncrementEverywhere
  <2>2. CASE key[1] = "total"
    <3>1. key[2] \in Variants /\ total[key[2]] \in Int
      BY <1>2, <2>2, KeyCases
    <3>2. total'[key[2]] = IF s.variant = key[2] THEN total[key[2]] + s.quantity ELSE total[key[2]]
      BY <1>2, <3>1 DEF IncrementEverywhere
    <3> QED
      BY <1>3, <2>2, <3>1, <3>2 DEF Change, Brings
  <2>3. CASE key[1] = "goods"
    <3>0. /\ key[2] \in Variants /\ key[3] \in Places
          /\ key[4] = receipts[R.doc[2]].warehouse
      BY <1>3, <1>5, <2>3, KeyCases DEF AtHome
    <3>1. InPlace(rows, key[2], key[3]) \in Int
      BY <1>2, <3>0, PlacesCount
    <3>2. CASE key[2] = s.variant
      <4>1. Len(rows[s.variant][key[3]]) = IF key[3] = key[4] THEN 1 ELSE 0
        BY <1>1, <1>5, <3>0 DEF IncrementEverywhere, DisturbIf
      <4>2. PICK p, new : p = rows[key[2]][key[3]] /\ new = AddToEach(p, s.quantity)
        OBVIOUS
      <4>3. p \in Seq(Int) /\ rows'[key[2]][key[3]] = new /\ Len(p) = IF key[3] = key[4] THEN 1 ELSE 0
        BY <1>2, <1>4, <3>0, <3>2, <4>1, <4>2
      <4>4. SumTo(new, Len(new)) = IF key[3] = key[4] THEN SumTo(p, Len(p)) + s.quantity ELSE SumTo(p, Len(p))
        BY <1>3, <4>2, <4>3, AddedCount
      <4>5. InPlace(rows', key[2], key[3])
              = IF key[3] = key[4] THEN InPlace(rows, key[2], key[3]) + s.quantity
                ELSE InPlace(rows, key[2], key[3])
        BY <4>2, <4>3, <4>4 DEF InPlace
      <4> QED
        BY <1>3, <2>3, <3>1, <3>2, <4>5 DEF Change, Brings
    <3>3. CASE key[2] # s.variant
      <4>1. InPlace(rows', key[2], key[3]) = InPlace(rows, key[2], key[3])
        BY <1>4, <3>0, <3>3 DEF InPlace
      <4> QED
        BY <1>3, <2>3, <3>1, <3>3, <4>1 DEF Change, Brings
    <3> QED
      BY <3>2, <3>3
  <2> QED
    BY <2>1, <2>2, <2>3, KeyCases
<1>6. \A v \in Variants, w \in Places : Len(rows[v][w]) <= Len(rows'[v][w])
  <2> SUFFICES ASSUME NEW v \in Variants, NEW w \in Places PROVE Len(rows[v][w]) <= Len(rows'[v][w])
    OBVIOUS
  <2>1. rows[v][w] \in Seq(Int)
    BY <1>2
  <2>2. Len(rows[v][w]) \in Nat /\ Len(AddToEach(rows[v][w], s.quantity)) = Len(rows[v][w])
    BY <1>3, <2>1, AddedType
  <2> QED
    BY <1>4, <2>2
<1>7. /\ s.op = "everywhere" /\ Executed(c, s) /\ UNCHANGED <<payments, receipts, transfers>>
      /\ disturbed \subseteq disturbed'
  BY DEF IncrementEverywhere, DisturbIf
<1> QED
  BY <1>1, <1>5, <1>6, <1>7, AmountWork

(* A receipt that its call is not to rewrite owes what is not paid.        *)
LEMMA WorkBalanced ==
  ASSUME Books, NEW c \in Calls, Late(c), NEW D \in Docs \ disturbed, D = Request(c).doc, D[1] \in Tracked,
         ~ Coming(call[c].stages, "rewriteReceipt"), ~ Coming(call[c].stages, "refused")
  PROVE  Balanced(D)
<1>1. \A b \in Calls : Late(b) /\ Request(b).doc = D => b = c
  BY DEF Books, Sole
<1>2. ~ Rewritten(D)
  BY <1>1 DEF Rewritten
<1> QED
  BY <1>2 DEF Books, Kept

(* A statement that writes documents and changes no account.               *)
Even(d, st, new, key) == Entry(d, key)' + Due(new, key) = Entry(d, key) + Due(st, key)

(* A statement that writes a receipt or a payment and changes no account   *)
(* keeps the books, if the call that executes it still owes the document   *)
(* what it owed.                                                           *)
LEMMA DocWork ==
  ASSUME Inv, Inv', Books, NEW c \in Calls, NEW s \in Sent(c), Account(c), s.op \notin {"read", "refused"},
         Executed(c, s), UNCHANGED <<total, balance, disturbed>>,
         \A v \in Variants, w \in Places : InPlace(rows', v, w) = InPlace(rows, v, w),
         \A key \in Keys : Brings(s, key) = 0,
         NEW R, R = Request(c), NEW D, D = R.doc, D[1] \in {"receipt", "payment"},
         NEW st, st = call[c].stages, NEW new, new = call'[c].stages,
         Grown(c), Apart(D), \A t \in All(new) : Inserting(c, R, t)',
         D \notin disturbed /\ ~ Coming(st, "refused") /\ Working(R, st) =>
           /\ \A key \in Keys :
                AtHome(R, key)' => AtHome(R, key) /\ (Owes(R, st, key) /\ Even(D, st, new, key) => Owes(R, new, key)')
           /\ \A t \in All(new) : t.op = "rewriteReceipt" => Tracks(R, new, t)'
           /\ \A t \in All(new) : t.op \in {"reread", "line"} => Coming(new, "rewriteReceipt")
           /\ Coming(new, "rewriteReceipt") \/ Balanced(D)'
  PROVE  Books'
<1>1. /\ Late(c) /\ Running(c) /\ D \in Docs /\ Apt(c, R, st) /\ s \in All(st)
      /\ D \notin disturbed => Working(R, st)
  <2>1. s.op # "read"
    OBVIOUS
  <2> QED
    BY <2>1, AtWork
<1>2. /\ Alone(c) /\ (Running(c)' => Request(c)' = R) /\ call'[c].at # "idle"
      /\ \A t \in All(new) : t.op # "read"
      /\ All(new) \subseteq All(st) /\ \A t \in All(st) : t = s \/ t \in All(new)
      /\ \A key \in Keys : /\ Due(st, key) \in Int /\ Brings(s, key) \in Int
                           /\ Due(new, key) = Due(st, key) - Brings(s, key)
      /\ Placed(c, R, new)'
  <2>1. s.op # "read"
    OBVIOUS
  <2> QED
    BY <2>1, WorkExecuted
<1>3. ASSUME D \notin disturbed', ~ Coming(new, "refused")
      PROVE  /\ \A key \in Keys : AtHome(R, key)' => Owes(R, new, key)'
             /\ \A t \in All(new) : t.op = "rewriteReceipt" => Tracks(R, new, t)'
             /\ \A t \in All(new) : t.op \in {"reread", "line"} => Coming(new, "rewriteReceipt")
             /\ Coming(new, "rewriteReceipt") \/ Balanced(D)'
  <2>1. D \notin disturbed /\ Working(R, st)
    BY <1>1, <1>3
  <2>2. ~ Coming(st, "refused")
    BY <1>2, <1>3 DEF Coming
  <2>3. ASSUME NEW key \in Keys, AtHome(R, key)' PROVE Owes(R, new, key)'
    <3>1. AtHome(R, key)
      BY <2>1, <2>2, <2>3
    <3>2. Owes(R, st, key)
      BY <2>1, <2>2, <3>1 DEF Working
    <3>3. Entry(D, key)' = Entry(D, key) + Change(key) /\ Entry(D, key) \in Int
      BY <1>1, AccountStep, EntryType DEF Books
    <3>4. Change(key) = 0
      <4>1. /\ balance \in [Suppliers -> Int] /\ total \in [Variants -> Int]
            /\ rows \in [Variants -> [Places -> Seq(Int)]]
        BY DEF Inv, Typed, RowsTypeOK
      <4>2. \A v \in Variants, w \in Places : InPlace(rows, v, w) \in Int
        BY <4>1, PlacesCount
      <4> QED
        BY <4>1, <4>2, KeyCases DEF Change
    <3>5. Due(st, key) \in Int /\ Due(new, key) = Due(st, key) - Brings(s, key) /\ Brings(s, key) = 0
      BY <1>2
    <3>6. Even(D, st, new, key)
      BY <3>3, <3>4, <3>5 DEF Even
    <3> QED
      BY <2>1, <2>2, <2>3, <3>2, <3>6
  <2> QED
    BY <2>1, <2>2, <2>3
<1>4. disturbed \subseteq disturbed'
  OBVIOUS
<1> QED
  BY <1>2, <1>3, <1>4, ReceiptWork

(* A payment is inserted, or is written by its own update.                 *)
LEMMA PaymentWork ==
  ASSUME Inv, Inv', Books, NEW c \in Calls, NEW s \in Sent(c), Account(c), WritePayment(c, s),
         UNCHANGED <<rows, total, receipts, transfers>>
  PROVE  Books'
<1>0. PICK R, st, new, D : R = Request(c) /\ st = call[c].stages /\ new = call'[c].stages /\ D = R.doc
  OBVIOUS
<1>1. /\ Late(c) /\ Running(c) /\ D \in Docs /\ Apt(c, R, st) /\ s \in All(st) /\ Placed(c, R, st)
      /\ s.op = "payment" /\ Executed(c, s)
  BY <1>0, AtWork DEF WritePayment
<1>2. /\ D[1] \in {"receipt", "payment"} /\ D = <<D[1], D[2]>>
      /\ R.op \in {"createPayment", "updatePayment", "updateReceipt"}
  BY <1>0, <1>1 DEF Apt, ReceiptOps, PaymentOps
<1>3. /\ payments' = Put(payments, s.id, s.row) /\ UNCHANGED <<balance, disturbed>>
      /\ DOMAIN payments' = DOMAIN payments \cup {s.id}
      /\ payments'[s.id] = s.row
      /\ \A x \in DOMAIN payments : x # s.id => payments'[x] = payments[x]
  BY DEF WritePayment, Put
<1>4. /\ R.op = "updatePayment" => s.id = R.doc[2] /\ s.id \in DOMAIN payments
      /\ R.op # "updatePayment" => s.id = c /\ c \notin DOMAIN payments
      /\ R.op = "updateReceipt" => \A key \in Keys : OfPayment(s.row, key) = 0
      /\ R.op \in PaymentOps => D = <<"payment", s.id>>
  BY <1>0, <1>1, <1>2 DEF Placed, Inserting, There, Apt, PaymentOps
<1>5. Grown(c)
  <2>1. \A v \in Variants, w \in Places : Len(rows[v][w]) \in Nat
    BY DEF Inv, Typed, RowsTypeOK
  <2> QED
    BY <1>3, <1>4, <2>1 DEF Grown
<1>6. /\ All(new) \subseteq All(st) /\ \A t \in All(st) : t = s \/ t \in All(new)
      /\ \A t \in All(new) : t.op # "payment"
  <2>1. s.op # "read" /\ Executed(c, s)
    BY <1>1
  <2>2. /\ All(new) \subseteq All(st) /\ \A t \in All(st) : t = s \/ t \in All(new)
        /\ \A t \in All(new) : Alike(s, t) => s.op \in {"balance", "refused"}
    BY <1>0, <1>5, <2>1, WorkExecuted
  <2> QED
    BY <1>1, <2>2 DEF Alike, PerVariant
<1>7. Apart(D)
  <2>1. ASSUME NEW x, <<"payment", x>> # D
        PROVE  /\ x \in DOMAIN payments => x \in DOMAIN payments' /\ payments'[x] = payments[x]
               /\ x \in DOMAIN payments' /\ x \notin DOMAIN payments =>
                    \A key \in Keys : OfPayment(payments'[x], key) = 0
    BY <1>2, <1>3, <1>4, <2>1 DEF PaymentOps
  <2> QED
    BY <2>1 DEF Apart, Like
<1>8. \A t \in All(new) : Inserting(c, R, t)'
  <2> SUFFICES ASSUME NEW t \in All(new) PROVE Inserting(c, R, t)'
    OBVIOUS
  <2>1. Inserting(c, R, t) /\ t.op # "payment"
    BY <1>1, <1>6 DEF Placed
  <2>2. t.op # "recordReceipt"
    BY <1>1, <1>2, <1>6 DEF Apt
  <2> QED
    BY <2>1, <2>2 DEF Inserting
<1>9. ASSUME D \notin disturbed, ~ Coming(st, "refused"), Working(R, st)
      PROVE  /\ \A key \in Keys : AtHome(R, key)' =>
                  AtHome(R, key) /\ (Owes(R, st, key) /\ Even(D, st, new, key) => Owes(R, new, key)')
             /\ \A t \in All(new) : t.op = "rewriteReceipt" => Tracks(R, new, t)'
             /\ \A t \in All(new) : t.op \in {"reread", "line"} => Coming(new, "rewriteReceipt")
             /\ Coming(new, "rewriteReceipt") \/ Balanced(D)'
  <2>1. \A key : AtHome(R, key)' <=> AtHome(R, key)
    BY DEF AtHome
  <2>2. CASE R.op \in PaymentOps
    <3>1. \A t \in All(new) : t.op \notin {"rewriteReceipt", "reread", "line", "recordReceipt", "markReceipt"}
      BY <1>1, <1>6, <2>2 DEF Apt, PaymentOps
    <3>2. Balanced(D)'
      BY <1>4, <2>2 DEF Balanced
    <3>3. ASSUME NEW key \in Keys, Owes(R, st, key), Even(D, st, new, key) PROVE Owes(R, new, key)'
      <4>1. Writes(R, s) /\ \A t \in All(new) : ~ Writes(R, t)
        BY <1>1, <1>6, <2>2, <3>1 DEF Writes
      <4>2. Aim(R, st, s, key) = OfPayment(s.row, key)
        BY <1>1 DEF Aim
      <4>3. Says(D, key)' = OfPayment(s.row, key)
        BY <1>3, <1>4, <2>2 DEF Says
      <4> QED
        BY <1>0, <1>1, <3>3, <4>1, <4>2, <4>3, OwesDone DEF Even
    <3> QED
      BY <2>1, <3>1, <3>2, <3>3
  <2>3. CASE R.op = "updateReceipt"
    <3>1. D[1] = "receipt"
      BY <1>0, <1>1, <2>3 DEF Apt, ReceiptOps
    <3>2. \A op : op # "payment" => (Coming(new, op) <=> Coming(st, op))
      BY <1>1, <1>6 DEF Coming
    <3>3. /\ Coming(new, "rewriteReceipt") <=> Coming(st, "rewriteReceipt")
          /\ Coming(new, "reread") <=> Coming(st, "reread")
      BY <3>2
    <3>4. ASSUME NEW key \in Keys, Owes(R, st, key), Even(D, st, new, key) PROVE Owes(R, new, key)'
      <4>1. ~ Writes(R, s)
        BY <1>1, <2>3 DEF Writes, PaymentOps
      <4>2. Says(D, key)' = Says(D, key)
        BY <3>1 DEF Says
      <4>3. \A t \in All(new) : Aim(R, new, t, key)' = Aim(R, st, t, key)
        BY <3>3 DEF Aim
      <4> QED
        BY <1>0, <1>6, <3>4, <4>1, <4>2, <4>3, OwesOn DEF Even
    <3>5. ASSUME NEW t \in All(new), t.op = "rewriteReceipt" PROVE Tracks(R, new, t)'
      <4>1. Tracks(R, st, t)
        BY <1>0, <1>2, <1>6, <1>9, <3>5 DEF Working
      <4>2. \A v : (\E u \in All(st) : u.op = "line" /\ u.variant = v) => \E u \in All(new) : u.op = "line" /\ u.variant = v
        BY <1>1, <1>6
      <4>3. receipts'[R.doc[2]] = receipts[R.doc[2]]
        OBVIOUS
      <4> QED
        BY <1>6, <4>1, <4>2, <4>3 DEF Tracks
    <3>6. \A t \in All(new) : t.op \in {"reread", "line"} => Coming(new, "rewriteReceipt")
      BY <1>0, <1>2, <1>6, <1>9, <3>3 DEF Working
    <3>7. Coming(new, "rewriteReceipt") \/ Balanced(D)'
      <4>1. ~ Coming(st, "rewriteReceipt") => Balanced(D)
        BY <1>0, <1>1, <1>9, <3>1, WorkBalanced DEF Tracked
      <4> QED
        BY <3>3, <4>1 DEF Balanced
    <3> QED
      BY <2>1, <3>4, <3>5, <3>6, <3>7
  <2> QED
    BY <1>2, <2>2, <2>3 DEF PaymentOps
<1>10. /\ \A v \in Variants, w \in Places : InPlace(rows', v, w) = InPlace(rows, v, w)
       /\ \A key \in Keys : Brings(s, key) = 0
       /\ s.op \notin {"read", "refused"} /\ UNCHANGED <<total, balance, disturbed>>
  <2>1. \A key \in Keys : Brings(s, key) = 0
    BY <1>1, KeyCases DEF Brings
  <2> QED
    BY <1>1, <1>3, <2>1
<1> QED
  BY <1>0, <1>1, <1>2, <1>5, <1>7, <1>8, <1>9, <1>10, DocWork

(* A row more.                                                             *)
LEMMA AppendedCount ==
  ASSUME NEW p \in Seq(Int), NEW q \in Int, NEW new, new = Append(p, q)
  PROVE  /\ SumTo(new, Len(new)) = SumTo(p, Len(p)) + q
         /\ new \in Seq(Int) /\ Len(new) = Len(p) + 1 /\ SumTo(p, Len(p)) \in Int
<1> DEFINE n == Len(p)
<1>1. n \in Nat /\ p \in [1..n -> Int]
  OBVIOUS
<1>2. new \in Seq(Int) /\ Len(new) = n + 1 /\ new[n + 1] = q /\ \A i \in 1..n : new[i] = p[i]
  OBVIOUS
<1>3. new \in [1..(n + 1) -> Int]
  <2> HIDE DEF n
  <2>1. new \in [1..Len(new) -> Int]
    <3>1. \A z \in Seq(Int) : z \in [1..Len(z) -> Int]
      OBVIOUS
    <3> QED
      BY <1>2, <3>1
  <2> QED
    BY <1>2, <2>1
<1> HIDE DEF n
<1> DEFINE P == PartialSums(p, n)
           N == PartialSums(new, n + 1)
           Q == [i \in 0..n |-> N[i]]
           A == [i \in 0..n |-> 0]
<1>4. /\ P \in [0..n -> Int] /\ P[0] = 0
      /\ \A i \in 1..n : P[i] = P[i - 1] + p[i]
  BY <1>1, PartialSumsDef
<1>5. /\ N \in [0..(n + 1) -> Int] /\ N[0] = 0
      /\ \A i \in 1..(n + 1) : N[i] = N[i - 1] + new[i]
  <2>1. n + 1 \in Nat
    BY <1>1
  <2> QED
    BY <1>3, <2>1, PartialSumsDef
<1>6. SumTo(new, Len(new)) = N[n + 1] /\ SumTo(p, Len(p)) = P[n]
  BY <1>2 DEF SumTo, n
<1> HIDE DEF P, N
<1>7. Q \in [0..n -> Int] /\ A \in [0..n -> Int] /\ Q[0] = P[0] + A[0]
  BY <1>1, <1>4, <1>5
<1>8. ASSUME NEW i \in 1..n, Q[i - 1] = P[i - 1] + A[i - 1] PROVE Q[i] = P[i] + A[i]
  <2>1. /\ i \in 0..n /\ i - 1 \in 0..n /\ i \in 1..(n + 1) /\ new[i] = p[i] /\ p[i] \in Int
    BY <1>1, <1>2
  <2>2. Q[i] = N[i] /\ Q[i - 1] = N[i - 1] /\ A[i] = 0 /\ A[i - 1] = 0
    BY <2>1
  <2>3. N[i] = N[i - 1] + new[i] /\ P[i] = P[i - 1] + p[i] /\ P[i - 1] \in Int
    BY <1>4, <1>5, <2>1
  <2> QED
    BY <1>8, <2>1, <2>2, <2>3
<1> HIDE DEF Q, A
<1>9. Q[n] = P[n] + A[n]
  BY <1>1, <1>4, <1>7, <1>8, RunningSums
<1>10. Q[n] = N[n] /\ A[n] = 0 /\ P[n] \in Int
  BY <1>1, <1>4 DEF Q, A
<1>11. N[n + 1] = N[n] + q
  <2>1. n + 1 \in 1..(n + 1) /\ (n + 1) - 1 = n
    BY <1>1
  <2> QED
    BY <1>2, <1>5, <2>1
<1> QED
  BY <1>2, <1>6, <1>9, <1>10, <1>11 DEF n

(* The receipt of a call is recorded, with its payment.                    *)
LEMMA RecordWork ==
  ASSUME Inv, Inv', Books, NEW c \in Calls, NEW s \in Sent(c), Account(c), RecordReceipt(c, s),
         UNCHANGED transfers
  PROVE  Books'
<1>0. PICK R, st, new, D : R = Request(c) /\ st = call[c].stages /\ new = call'[c].stages /\ D = R.doc
  OBVIOUS
<1>1. /\ Late(c) /\ Running(c) /\ D \in Docs /\ Apt(c, R, st) /\ s \in All(st) /\ Placed(c, R, st)
      /\ s.op = "recordReceipt" /\ Executed(c, s)
  BY <1>0, AtWork DEF RecordReceipt
<1>2. D = <<"receipt", c>> /\ D[1] \in {"receipt", "payment"} /\ R.op = "createReceipt"
  BY <1>0, <1>1 DEF Apt, ReceiptOps
<1>3. c \notin DOMAIN receipts /\ c \notin DOMAIN payments
  BY <1>1 DEF Placed, Inserting
<1>4. R.warehouse \in Warehouses /\ R.supplier \in Suppliers
  <2>1. Proper(c, s)
    BY SentFacts DEF Inv
  <2> QED
    BY <1>0, <1>1, <2>1 DEF Proper
<1>5. /\ DOMAIN receipts' = DOMAIN receipts \cup {c}
      /\ receipts'[c] = Described(R, R.warehouse)
      /\ \A x \in DOMAIN receipts : x # c => receipts'[x] = receipts[x]
  BY <1>0, <1>2 DEF RecordReceipt, Put, Described
<1>6. /\ DOMAIN payments' = DOMAIN payments \cup {c}
      /\ payments'[c] = Payment("SUPPLIER_PAYMENT", R.paid, R.supplier, [supplier |-> R.supplier, amount |-> R.paid])
      /\ \A x \in DOMAIN payments : x # c => payments'[x] = payments[x]
  BY <1>0 DEF RecordReceipt, Put
<1>7. \A key \in Keys : OfPayment(payments'[c], key) = 0
  <2>1. R.paid \in Int
    <3>1. Understood(c, R) /\ AmountsPaid \subseteq Int
      BY <1>0, <1>1, AmountsAreIntegers DEF Inv, CallsOK, CallOK
    <3> QED
      BY <1>2, <3>1 DEF Understood
  <2> QED
    BY <1>6, <2>1 DEF OfPayment, Payment
<1>8. \A v \in Variants, w \in Places :
        /\ InPlace(rows', v, w) = InPlace(rows, v, w)
        /\ Len(rows[v][w]) <= Len(rows'[v][w])
  <2> SUFFICES ASSUME NEW v \in Variants, NEW w \in Places
               PROVE  InPlace(rows', v, w) = InPlace(rows, v, w) /\ Len(rows[v][w]) <= Len(rows'[v][w])
    OBVIOUS
  <2>1. rows \in [Variants -> [Places -> Seq(Int)]]
    BY DEF Inv, Typed, RowsTypeOK
  <2>2. rows'[v][w] = IF v \in s.missing /\ w = R.warehouse THEN Append(rows[v][w], 0) ELSE rows[v][w]
    BY <1>0, <2>1 DEF RecordReceipt
  <2>3. PICK p : p = rows[v][w]
    OBVIOUS
  <2>4. p \in Seq(Int) /\ Len(p) \in Nat
    BY <2>1, <2>3
  <2>5. CASE rows'[v][w] = Append(p, 0)
    <3>1. PICK q : q = Append(p, 0)
      OBVIOUS
    <3>2. SumTo(q, Len(q)) = SumTo(p, Len(p)) + 0 /\ Len(q) = Len(p) + 1 /\ SumTo(p, Len(p)) \in Int
      <4>1. 0 \in Int
        OBVIOUS
      <4> QED
        BY <2>4, <3>1, <4>1, AppendedCount
    <3> QED
      BY <2>3, <2>4, <2>5, <3>1, <3>2 DEF InPlace
  <2>6. CASE rows'[v][w] = p
    BY <2>3, <2>4, <2>6 DEF InPlace
  <2> QED
    BY <2>2, <2>3, <2>5, <2>6
<1>9. Grown(c)
  BY <1>5, <1>6, <1>8 DEF Grown
<1>10. /\ All(new) \subseteq All(st) /\ \A t \in All(st) : t = s \/ t \in All(new)
       /\ \A t \in All(new) : t.op # "recordReceipt"
  <2>1. s.op # "read" /\ Executed(c, s)
    BY <1>1
  <2>2. /\ All(new) \subseteq All(st) /\ \A t \in All(st) : t = s \/ t \in All(new)
        /\ \A t \in All(new) : Alike(s, t) => s.op \in {"balance", "refused"}
    BY <1>0, <1>9, <2>1, WorkExecuted
  <2> QED
    BY <1>1, <2>2 DEF Alike, PerVariant
<1>11. Apart(D)
  <2>1. \A x : <<"receipt", x>> # D => x # c
    BY <1>2
  <2> QED
    BY <1>3, <1>5, <1>6, <1>7, <2>1 DEF Apart, Like
<1>12. \A t \in All(new) : t.op \notin {"recordReceipt", "payment", "markReceipt", "rewriteReceipt", "reread", "line",
                                        "lookup", "commit"}
  BY <1>1, <1>2, <1>10 DEF Apt, TransferOps
<1>13. \A t \in All(new) : Inserting(c, R, t)'
  BY <1>12 DEF Inserting
<1>14. ASSUME D \notin disturbed, ~ Coming(st, "refused"), Working(R, st)
      PROVE  /\ \A key \in Keys : AtHome(R, key)' =>
                  AtHome(R, key) /\ (Owes(R, st, key) /\ Even(D, st, new, key) => Owes(R, new, key)')
             /\ \A t \in All(new) : t.op = "rewriteReceipt" => Tracks(R, new, t)'
             /\ \A t \in All(new) : t.op \in {"reread", "line"} => Coming(new, "rewriteReceipt")
             /\ Coming(new, "rewriteReceipt") \/ Balanced(D)'
  <2>1. \A key : AtHome(R, key)' <=> AtHome(R, key)
    BY <1>2 DEF AtHome
  <2>2. ASSUME NEW key \in Keys, Owes(R, st, key), Even(D, st, new, key) PROVE Owes(R, new, key)'
    <3>1. Writes(R, s) /\ \A t \in All(new) : ~ Writes(R, t)
      BY <1>1, <1>12 DEF Writes
    <3>2. Aim(R, st, s, key) = OfReceipt(Described(R, R.warehouse), key)
      BY <1>1 DEF Aim
    <3>3. Says(D, key)' = OfReceipt(Described(R, R.warehouse), key)
      BY <1>2, <1>5 DEF Says
    <3> QED
      BY <1>0, <1>1, <2>2, <3>1, <3>2, <3>3, OwesDone DEF Even
  <2>3. Balanced(D)'
    BY <1>2, <1>5 DEF Balanced, Described
  <2> QED
    BY <1>12, <2>1, <2>2, <2>3
<1>15. /\ \A key \in Keys : Brings(s, key) = 0
       /\ s.op \notin {"read", "refused"} /\ UNCHANGED <<total, balance, disturbed>>
  <2>1. \A key \in Keys : Brings(s, key) = 0
    BY <1>1, KeyCases DEF Brings
  <2> QED
    BY <1>1, <2>1 DEF RecordReceipt
<1> QED
  BY <1>0, <1>1, <1>2, <1>8, <1>9, <1>11, <1>13, <1>14, <1>15, DocWork

(* A receipt is marked archived, or not.                                   *)
LEMMA MarkWork ==
  ASSUME Inv, Inv', Books, NEW c \in Calls, NEW s \in Sent(c), Account(c), MarkReceipt(c, s),
         UNCHANGED transfers
  PROVE  Books'
<1>0. PICK R, st, new, D : R = Request(c) /\ st = call[c].stages /\ new = call'[c].stages /\ D = R.doc
  OBVIOUS
<1>1. /\ Late(c) /\ Running(c) /\ D \in Docs /\ Apt(c, R, st) /\ s \in All(st) /\ Placed(c, R, st)
      /\ s.op = "markReceipt" /\ Executed(c, s)
  BY <1>0, AtWork DEF MarkReceipt
<1>2. /\ D = <<"receipt", D[2]>> /\ D[1] = "receipt" /\ R.op \in {"archiveReceipt", "restoreReceipt"}
      /\ D[2] \in DOMAIN receipts
  BY <1>0, <1>1 DEF Apt, ReceiptOps, Placed, There
<1>3. PICK x : x = receipts[D[2]]
  OBVIOUS
<1>4. PICK y : y = [x EXCEPT !.isArchived = R.op = "archiveReceipt"]
  OBVIOUS
<1>5. /\ DOMAIN receipts' = DOMAIN receipts
      /\ receipts'[D[2]] = y
      /\ \A z \in DOMAIN receipts : z # D[2] => receipts'[z] = receipts[z]
  <2>1. receipts = [d \in DOMAIN receipts |-> receipts[d]]
    BY DEF Inv, Tables
  <2>2. receipts' = [receipts EXCEPT ![D[2]] = y]
    BY <1>0, <1>3, <1>4 DEF MarkReceipt
  <2> HIDE DEF Inv
  <2> QED
    BY <1>2, <2>1, <2>2
<1>6. /\ y.warehouse = x.warehouse /\ y.supplier = x.supplier /\ y.lines = x.lines
      /\ y.paid = x.paid /\ y.outstanding = x.outstanding
  <2>1. IsReceipt(x)
    BY <1>2, <1>3 DEF Inv, Tables
  <2> QED
    BY <1>4, <2>1 DEF IsReceipt
<1>8. \A v \in Variants, w \in Places :
        /\ InPlace(rows', v, w) = InPlace(rows, v, w)
        /\ Len(rows[v][w]) <= Len(rows'[v][w])
  <2>1. \A v \in Variants, w \in Places : Len(rows[v][w]) \in Nat
    BY DEF Inv, Typed, RowsTypeOK
  <2> QED
    BY <2>1 DEF MarkReceipt
<1>9. Grown(c)
  BY <1>5, <1>8 DEF Grown, MarkReceipt
<1>10. /\ All(new) \subseteq All(st) /\ \A t \in All(st) : t = s \/ t \in All(new)
       /\ \A t \in All(new) : t.op # "markReceipt"
  <2>1. s.op # "read" /\ Executed(c, s)
    BY <1>1
  <2>2. /\ All(new) \subseteq All(st) /\ \A t \in All(st) : t = s \/ t \in All(new)
        /\ \A t \in All(new) : Alike(s, t) => s.op \in {"balance", "refused"}
    BY <1>0, <1>9, <2>1, WorkExecuted
  <2> QED
    BY <1>1, <2>2 DEF Alike, PerVariant
<1>11. Apart(D)
  <2>1. \A z : <<"receipt", z>> # D => z # D[2]
    BY <1>2
  <2> QED
    BY <1>5, <2>1 DEF Apart, Like, MarkReceipt
<1>12. \A t \in All(new) : t.op \notin {"recordReceipt", "payment", "markReceipt", "rewriteReceipt", "reread", "line",
                                        "lookup", "commit"}
  BY <1>1, <1>2, <1>10 DEF Apt, TransferOps
<1>13. \A t \in All(new) : Inserting(c, R, t)'
  BY <1>12 DEF Inserting
<1>14. ASSUME D \notin disturbed, ~ Coming(st, "refused"), Working(R, st)
      PROVE  /\ \A key \in Keys : AtHome(R, key)' =>
                  AtHome(R, key) /\ (Owes(R, st, key) /\ Even(D, st, new, key) => Owes(R, new, key)')
             /\ \A t \in All(new) : t.op = "rewriteReceipt" => Tracks(R, new, t)'
             /\ \A t \in All(new) : t.op \in {"reread", "line"} => Coming(new, "rewriteReceipt")
             /\ Coming(new, "rewriteReceipt") \/ Balanced(D)'
  <2>1. \A key : AtHome(R, key)' <=> AtHome(R, key)
    BY <1>0, <1>3, <1>5, <1>6 DEF AtHome
  <2>2. ASSUME NEW key \in Keys, Owes(R, st, key), Even(D, st, new, key) PROVE Owes(R, new, key)'
    <3>1. Writes(R, s) /\ \A t \in All(new) : ~ Writes(R, t)
      BY <1>1, <1>12 DEF Writes
    <3>2. Aim(R, st, s, key) = OfReceipt(y, key)
      BY <1>0, <1>1, <1>3, <1>4 DEF Aim
    <3>3. Says(D, key)' = OfReceipt(y, key)
      BY <1>2, <1>5 DEF Says
    <3> QED
      BY <1>0, <1>1, <2>2, <3>1, <3>2, <3>3, OwesDone DEF Even
  <2>3. Balanced(D)'
    <3>1. ~ Coming(st, "rewriteReceipt")
      BY <1>1, <1>2 DEF Apt, Coming
    <3>2. Balanced(D)
      BY <1>0, <1>1, <1>2, <1>14, <3>1, WorkBalanced DEF Tracked
    <3> QED
      BY <1>2, <1>3, <1>5, <1>6, <3>2 DEF Balanced
  <2> QED
    BY <1>12, <2>1, <2>2, <2>3
<1>15. /\ \A key \in Keys : Brings(s, key) = 0
       /\ s.op \notin {"read", "refused"} /\ UNCHANGED <<total, balance, disturbed>>
  <2>1. \A key \in Keys : Brings(s, key) = 0
    BY <1>1, KeyCases DEF Brings
  <2> QED
    BY <1>1, <2>1 DEF MarkReceipt
<1> QED
  BY <1>0, <1>1, <1>2, <1>8, <1>9, <1>11, <1>13, <1>14, <1>15, DocWork

(* What is ahead of a statement, where either is alone in its stage.       *)
LEMMA ComesAfter ==
  ASSUME Inv, NEW c \in Calls, NEW s \in Sent(c), NEW t \in All(call[c].stages), t # s,
         s.op \in Solo \/ t.op \in Solo
  PROVE  Follows(s.op, t.op)
<1>1. Running(c) /\ CallOK(c)
  BY SentFacts DEF Inv
<1>2. PICK st : st = call[c].stages
  OBVIOUS
<1>3. /\ Pending(c) = Sent(c) \cup After(st)
      /\ \A u \in Sent(c) : u.op \in Solo => Sent(c) = {u}
      /\ \A u \in Sent(c), v \in After(st) : Follows(u.op, v.op)
  BY <1>1, <1>2, SentFirst
<1>4. t \in After(st)
  BY <1>2, <1>3 DEF Pending
<1> QED
  BY <1>3, <1>4

(* The table of receipts, with another receipt d.                          *)
LEMMA ReceiptReplaced ==
  ASSUME Inv, NEW d \in DOMAIN receipts, NEW y, receipts' = [receipts EXCEPT ![d] = y]
  PROVE  /\ DOMAIN receipts' = DOMAIN receipts /\ receipts'[d] = y
         /\ \A z \in DOMAIN receipts : z # d => receipts'[z] = receipts[z]
<1>1. receipts = [z \in DOMAIN receipts |-> receipts[z]]
  BY DEF Inv, Tables
<1> QED
  BY <1>1

(* A line of a receipt is written, before the receipt is.                  *)
LEMMA LineWork ==
  ASSUME Inv, Inv', Books, NEW c \in Calls, NEW s \in Sent(c), Account(c), WriteLine(c, s),
         UNCHANGED transfers
  PROVE  Books'
<1>0. PICK R, st, new, D : R = Request(c) /\ st = call[c].stages /\ new = call'[c].stages /\ D = R.doc
  OBVIOUS
<1>1. /\ Late(c) /\ Running(c) /\ D \in Docs /\ Apt(c, R, st) /\ s \in All(st) /\ Placed(c, R, st)
      /\ s.op = "line" /\ Executed(c, s)
  BY <1>0, AtWork DEF WriteLine
<1>2. /\ D = <<"receipt", D[2]>> /\ D[1] = "receipt" /\ R.op = "updateReceipt"
      /\ D[2] \in DOMAIN receipts
  BY <1>0, <1>1 DEF Apt, ReceiptOps, Placed, There
<1>3. PICK x, v : x = receipts[D[2]] /\ v = s.variant
  OBVIOUS
<1>4. IsReceipt(x) /\ x.lines \in [DOMAIN x.lines -> [quantity : Int, price : Int]] /\ DOMAIN x.lines \subseteq Variants
  BY <1>2, <1>3 DEF Inv, Tables, IsReceipt, AreLines
<1>5. PICK y : y = IF v \in DOMAIN x.lines THEN [x EXCEPT !.lines[v] = R.lines[v]] ELSE x
  OBVIOUS
<1>6. /\ y.warehouse = x.warehouse /\ y.supplier = x.supplier /\ y.isArchived = x.isArchived
      /\ y.paid = x.paid /\ y.outstanding = x.outstanding
      /\ DOMAIN y.lines = DOMAIN x.lines
      /\ \A u \in DOMAIN x.lines : y.lines[u] = IF u = v THEN R.lines[u] ELSE x.lines[u]
  <2>1. CASE v \in DOMAIN x.lines
    <3>1. y = [x EXCEPT !.lines = [x.lines EXCEPT ![v] = R.lines[v]]]
      BY <1>5, <2>1
    <3> QED
      BY <1>4, <2>1, <3>1 DEF IsReceipt
  <2>2. CASE v \notin DOMAIN x.lines
    BY <1>5, <2>2
  <2> QED
    BY <2>1, <2>2
<1>7. /\ DOMAIN receipts' = DOMAIN receipts
      /\ receipts'[D[2]] = y
      /\ \A z \in DOMAIN receipts : z # D[2] => receipts'[z] = receipts[z]
  <2>1. CASE v \in DOMAIN x.lines
    <3>1. receipts' = [receipts EXCEPT ![D[2]] = y]
      BY <1>0, <1>3, <1>5, <2>1 DEF WriteLine
    <3> QED
      BY <1>2, <3>1, ReceiptReplaced
  <2>2. CASE v \notin DOMAIN x.lines
    BY <1>0, <1>3, <1>5, <2>2 DEF WriteLine
  <2> QED
    BY <2>1, <2>2
<1>8. \A p \in Variants, w \in Places :
        /\ InPlace(rows', p, w) = InPlace(rows, p, w)
        /\ Len(rows[p][w]) <= Len(rows'[p][w])
  <2>1. \A p \in Variants, w \in Places : Len(rows[p][w]) \in Nat
    BY DEF Inv, Typed, RowsTypeOK
  <2> QED
    BY <2>1 DEF WriteLine
<1>9. Grown(c)
  BY <1>7, <1>8 DEF Grown, WriteLine
<1>10. /\ All(new) \subseteq All(st) /\ \A t \in All(st) : t = s \/ t \in All(new)
  <2>1. s.op # "read" /\ Executed(c, s)
    BY <1>1
  <2> QED
    BY <1>0, <1>9, <2>1, WorkExecuted
<1>11. Apart(D)
  <2>1. \A z : <<"receipt", z>> # D => z # D[2]
    BY <1>2
  <2> QED
    BY <1>7, <2>1 DEF Apart, Like, WriteLine
<1>12. \A t \in All(new) : t.op \notin {"recordReceipt", "markReceipt", "lookup", "commit"}
  BY <1>1, <1>2, <1>10 DEF Apt, TransferOps
<1>13. \A t \in All(new) : Inserting(c, R, t)'
  <2> SUFFICES ASSUME NEW t \in All(new) PROVE Inserting(c, R, t)'
    OBVIOUS
  <2>1. Inserting(c, R, t)
    BY <1>1, <1>10 DEF Placed
  <2> QED
    BY <1>12, <2>1 DEF Inserting, WriteLine
<1>14. ~ Coming(st, "reread") /\ ~ Coming(new, "reread")
  <2>1. ASSUME NEW t \in All(st), t.op = "reread" PROVE FALSE
    <3>1. t # s /\ t.op \in Solo
      BY <1>1, <2>1 DEF Solo
    <3>2. Follows("line", "reread")
      BY <1>0, <1>1, <2>1, <3>1, ComesAfter
    <3> QED
      BY <3>2 DEF Follows, Rank
  <2> QED
    BY <1>10, <2>1 DEF Coming
<1>15. ASSUME D \notin disturbed, ~ Coming(st, "refused"), Working(R, st)
      PROVE  /\ \A key \in Keys : AtHome(R, key)' =>
                  AtHome(R, key) /\ (Owes(R, st, key) /\ Even(D, st, new, key) => Owes(R, new, key)')
             /\ \A t \in All(new) : t.op = "rewriteReceipt" => Tracks(R, new, t)'
             /\ \A t \in All(new) : t.op \in {"reread", "line"} => Coming(new, "rewriteReceipt")
             /\ Coming(new, "rewriteReceipt") \/ Balanced(D)'
  <2>1. \A key : AtHome(R, key)' <=> AtHome(R, key)
    BY <1>2 DEF AtHome
  <2>2. Coming(st, "rewriteReceipt") /\ Coming(new, "rewriteReceipt")
    <3>1. Coming(st, "rewriteReceipt")
      BY <1>0, <1>1, <1>2, <1>15 DEF Working
    <3> QED
      BY <1>1, <1>10, <3>1 DEF Coming
  <2>3. ASSUME NEW key \in Keys, Owes(R, st, key), Even(D, st, new, key) PROVE Owes(R, new, key)'
    <3>1. ~ Writes(R, s)
      BY <1>1, <1>2 DEF Writes
    <3>2. \E t \in All(new) : Writes(R, t)
      BY <2>2 DEF Coming, Writes
    <3>3. ASSUME NEW t \in All(new), Writes(R, t) PROVE Aim(R, new, t, key)' = Aim(R, st, t, key)
      <4>1. t.op = "rewriteReceipt"
        BY <1>2, <1>12, <3>3 DEF Writes, PaymentOps
      <4>2. Aim(R, st, t, key) = OfReceipt(Described(R, x.warehouse), key)
        BY <1>0, <1>3, <1>14, <4>1 DEF Aim
      <4>3. Aim(R, new, t, key)' = OfReceipt(Described(R, y.warehouse), key)
        BY <1>0, <1>7, <1>14, <4>1 DEF Aim
      <4> QED
        BY <1>6, <4>2, <4>3
    <3> QED
      BY <1>0, <1>10, <2>3, <3>1, <3>2, <3>3, OwesOn DEF Even
  <2>4. ASSUME NEW t \in All(new), t.op = "rewriteReceipt" PROVE Tracks(R, new, t)'
    <3>1. Tracks(R, st, t)
      BY <1>0, <1>2, <1>10, <1>15, <2>4 DEF Working
    <3>2. v \in DOMAIN R.lines
      <4>1. Proper(c, s)
        BY SentFacts DEF Inv
      <4> QED
        BY <1>0, <1>1, <1>3, <4>1 DEF Proper
    <3>3. \A u : u # v /\ (\E e \in All(st) : e.op = "line" /\ e.variant = u) => \E e \in All(new) : e.op = "line" /\ e.variant = u
      BY <1>3, <1>10
    <3>4. /\ ~ x.isArchived /\ R.lines \in Deliveries /\ R.paid \notin {None, 0}
          /\ R.supplier \in Suppliers /\ Else(R.warehouse, x.warehouse) = x.warehouse
          /\ t.deleted = [u \in DOMAIN t.deleted |-> t.deleted[u]]
          /\ DOMAIN t.deleted \cap DOMAIN R.lines = {}
          /\ DOMAIN x.lines = DOMAIN t.deleted \cup DOMAIN R.lines
          /\ \A u \in DOMAIN t.deleted : x.lines[u] = t.deleted[u]
          /\ \A u \in DOMAIN R.lines : x.lines[u] = R.lines[u] \/ \E e \in All(st) : e.op = "line" /\ e.variant = u
      BY <1>0, <1>3, <3>1 DEF Tracks
    <3>5. /\ \A u \in DOMAIN t.deleted : y.lines[u] = t.deleted[u]
          /\ \A u \in DOMAIN R.lines : y.lines[u] = R.lines[u] \/ \E e \in All(new) : e.op = "line" /\ e.variant = u
      BY <1>6, <3>2, <3>3, <3>4
    <3>6. \A e \in All(new) : e.op # "reread"
      BY <1>14 DEF Coming
    <3> QED
      BY <1>0, <1>6, <1>7, <3>4, <3>5, <3>6 DEF Tracks
  <2> QED
    BY <2>1, <2>2, <2>3, <2>4
<1>16. /\ \A key \in Keys : Brings(s, key) = 0
       /\ s.op \notin {"read", "refused"} /\ UNCHANGED <<total, balance, disturbed>>
  <2>1. \A key \in Keys : Brings(s, key) = 0
    BY <1>1, KeyCases DEF Brings
  <2> QED
    BY <1>1, <2>1 DEF WriteLine
<1>17. D[1] \in {"receipt", "payment"}
  BY <1>2
<1> QED
  BY <1>0, <1>1, <1>8, <1>9, <1>11, <1>13, <1>15, <1>16, <1>17, DocWork

(* A receipt is rewritten: it says what the request describes.             *)
LEMMA RewriteWork ==
  ASSUME Inv, Inv', Books, NEW c \in Calls, NEW s \in Sent(c), Account(c), RewriteReceipt(c, s),
         UNCHANGED transfers
  PROVE  Books'
<1>0. PICK R, st, new, D : R = Request(c) /\ st = call[c].stages /\ new = call'[c].stages /\ D = R.doc
  OBVIOUS
<1>1. /\ Late(c) /\ Running(c) /\ D \in Docs /\ Apt(c, R, st) /\ s \in All(st) /\ Placed(c, R, st)
      /\ s.op = "rewriteReceipt" /\ Executed(c, s)
  BY <1>0, AtWork DEF RewriteReceipt
<1>2. /\ D = <<"receipt", D[2]>> /\ D[1] = "receipt" /\ R.op = "updateReceipt"
      /\ D[2] \in DOMAIN receipts
  BY <1>0, <1>1 DEF Apt, ReceiptOps, Placed, There
<1>3. PICK x, y : x = receipts[D[2]] /\ y = receipts'[D[2]]
  OBVIOUS
<1>4. /\ IsReceipt(x) /\ x.lines \in [DOMAIN x.lines -> [quantity : Int, price : Int]] /\ DOMAIN x.lines \subseteq Variants
  BY <1>2, <1>3 DEF Inv, Tables, IsReceipt, AreLines
<1>5. /\ y.supplier = Else(R.supplier, x.supplier) /\ y.warehouse = Else(R.warehouse, x.warehouse)
      /\ y.isArchived = x.isArchived
      /\ y.lines = [v \in LinesBut(x.lines, s.deleted) |-> x.lines[v]] /\ y.paid = Else(R.paid, x.paid)
      /\ y.outstanding = IF Else(R.paid, 0) = 0 THEN 0 ELSE Amount(Else(R.lines, NoLines)) - R.paid
  <2>1. receipts = [z \in DOMAIN receipts |-> receipts[z]]
    BY DEF Inv, Tables
  <2> QED
    BY <1>0, <1>2, <1>3, <1>4, <2>1 DEF RewriteReceipt, IsReceipt
<1>7. /\ DOMAIN receipts' = DOMAIN receipts
      /\ \A z \in DOMAIN receipts : z # D[2] => receipts'[z] = receipts[z]
  <2>1. receipts = [z \in DOMAIN receipts |-> receipts[z]]
    BY DEF Inv, Tables
  <2> QED
    BY <1>0, <2>1 DEF RewriteReceipt
<1>8. \A p \in Variants, w \in Places :
        /\ InPlace(rows', p, w) = InPlace(rows, p, w)
        /\ Len(rows[p][w]) <= Len(rows'[p][w])
  <2>1. \A p \in Variants, w \in Places : Len(rows[p][w]) \in Nat
    BY DEF Inv, Typed, RowsTypeOK
  <2>2. rows' = rows
    BY DEF RewriteReceipt
  <2> QED
    BY <2>1, <2>2
<1>9. Grown(c)
  BY <1>7, <1>8 DEF Grown, RewriteReceipt
<1>10. /\ All(new) \subseteq All(st) /\ \A t \in All(st) : t = s \/ t \in All(new)
       /\ \A t \in All(new) : t.op # "rewriteReceipt"
  <2>1. s.op # "read" /\ Executed(c, s)
    BY <1>1
  <2>2. /\ All(new) \subseteq All(st) /\ \A t \in All(st) : t = s \/ t \in All(new)
        /\ \A t \in All(new) : Alike(s, t) => s.op \in {"balance", "refused"}
    BY <1>0, <1>9, <2>1, WorkExecuted
  <2> QED
    BY <1>1, <2>2 DEF Alike, PerVariant
<1>11. Apart(D)
  <2>1. \A z : <<"receipt", z>> # D => z # D[2]
    BY <1>2
  <2> QED
    BY <1>7, <2>1 DEF Apart, Like, RewriteReceipt
<1>12. \A t \in All(new) : t.op \notin {"recordReceipt", "markReceipt", "lookup", "commit"}
  BY <1>1, <1>2, <1>10 DEF Apt, TransferOps
<1>13. \A t \in All(new) : Inserting(c, R, t)'
  <2> SUFFICES ASSUME NEW t \in All(new) PROVE Inserting(c, R, t)'
    OBVIOUS
  <2>1. Inserting(c, R, t)
    BY <1>1, <1>10 DEF Placed
  <2> QED
    BY <1>12, <2>1 DEF Inserting, RewriteReceipt
<1>14. \A t \in All(st) : t.op \notin {"reread", "line"}
  <2> SUFFICES ASSUME NEW t \in All(st), t.op \in {"reread", "line"} PROVE FALSE
    OBVIOUS
  <2>1. t # s /\ s.op \in Solo
    BY <1>1 DEF Solo
  <2>2. Follows("rewriteReceipt", t.op)
    BY <1>0, <1>1, <2>1, ComesAfter
  <2> QED
    BY <2>2 DEF Follows, Rank
<1>15. ASSUME D \notin disturbed, ~ Coming(st, "refused"), Working(R, st)
      PROVE  /\ \A key \in Keys : AtHome(R, key)' =>
                  AtHome(R, key) /\ (Owes(R, st, key) /\ Even(D, st, new, key) => Owes(R, new, key)')
             /\ \A t \in All(new) : t.op = "rewriteReceipt" => Tracks(R, new, t)'
             /\ \A t \in All(new) : t.op \in {"reread", "line"} => Coming(new, "rewriteReceipt")
             /\ Coming(new, "rewriteReceipt") \/ Balanced(D)'
  <2>1. \A key : AtHome(R, key)' <=> AtHome(R, key)
    BY <1>2 DEF AtHome
  <2>2. /\ ~ x.isArchived /\ R.lines \in Deliveries /\ R.paid \notin {None, 0}
        /\ R.supplier \in Suppliers /\ Else(R.warehouse, x.warehouse) = x.warehouse
        /\ DOMAIN s.deleted \cap DOMAIN R.lines = {}
        /\ DOMAIN x.lines = DOMAIN s.deleted \cup DOMAIN R.lines
        /\ \A u \in DOMAIN s.deleted : x.lines[u] = s.deleted[u]
        /\ \A u \in DOMAIN R.lines : x.lines[u] = R.lines[u]
    <3>1. Tracks(R, st, s)
      BY <1>0, <1>1, <1>2, <1>15 DEF Working
    <3> QED
      BY <1>0, <1>3, <1>14, <3>1 DEF Tracks
  <2>3. y = Described(R, x.warehouse)
    <3>1. LinesBut(x.lines, s.deleted) = DOMAIN R.lines
      BY <2>2 DEF LinesBut
    <3>2. R.lines \in [DOMAIN R.lines -> [quantity : Int, price : Int]]
      BY <2>2, ReceiptsAssumption DEF AreLines
    <3>3. y.lines = R.lines
      BY <1>5, <2>2, <3>1, <3>2
    <3>4. None \notin Suppliers /\ None \notin Deliveries
      BY AmountsAreIntegers
    <3>5. /\ y.supplier = R.supplier /\ y.warehouse = x.warehouse /\ y.isArchived = FALSE /\ y.paid = R.paid
          /\ y.outstanding = Amount(R.lines) - R.paid
      BY <1>4, <1>5, <2>2, <3>4 DEF Else, IsReceipt
    <3>6. y = [supplier |-> y.supplier, warehouse |-> y.warehouse, isArchived |-> y.isArchived,
               lines |-> y.lines, paid |-> y.paid, outstanding |-> y.outstanding]
      BY <1>2, <1>3, <1>7 DEF Inv, Tables, IsReceipt
    <3> QED
      BY <3>3, <3>5, <3>6 DEF Described
  <2>4. ASSUME NEW key \in Keys, Owes(R, st, key), Even(D, st, new, key) PROVE Owes(R, new, key)'
    <3>1. Writes(R, s) /\ \A t \in All(new) : ~ Writes(R, t)
      BY <1>1, <1>2, <1>10, <1>12 DEF Writes, PaymentOps
    <3>2. ~ Coming(st, "reread")
      BY <1>14 DEF Coming
    <3>3. Aim(R, st, s, key) = OfReceipt(Described(R, x.warehouse), key)
      BY <1>0, <1>1, <1>3, <3>2 DEF Aim
    <3>4. Says(D, key)' = OfReceipt(y, key)
      BY <1>2, <1>3, <1>7 DEF Says
    <3> QED
      BY <1>0, <1>1, <2>3, <2>4, <3>1, <3>3, <3>4, OwesDone DEF Even
  <2>5. Balanced(D)'
    BY <1>2, <1>3, <1>7, <2>3 DEF Balanced, Described
  <2> QED
    BY <1>10, <1>14, <2>1, <2>4, <2>5
<1>16. /\ \A key \in Keys : Brings(s, key) = 0
       /\ s.op \notin {"read", "refused"} /\ UNCHANGED <<total, balance, disturbed>>
  <2>1. \A key \in Keys : Brings(s, key) = 0
    BY <1>1, KeyCases DEF Brings
  <2> QED
    BY <1>1, <2>1 DEF RewriteReceipt
<1>17. D[1] \in {"receipt", "payment"}
  BY <1>2
<1> QED
  BY <1>0, <1>1, <1>8, <1>9, <1>11, <1>13, <1>15, <1>16, <1>17, DocWork

(* What a stage of increments and at most one change of a balance brings.  *)
LEMMA DueIncrements ==
  ASSUME NEW changes, DOMAIN changes \subseteq Variants, \A v \in DOMAIN changes : changes[v] \in Int,
         NEW w \in Warehouses, NEW B, \A t \in B : t.op = "balance",
         NEW key \in Keys
  PROVE  /\ key[1] = "debt" => DueIn(Increments(changes, w) \cup B, key) = DueIn(B, key)
         /\ key[1] # "debt" /\ key[2] \in DOMAIN changes /\ (key[1] = "goods" => key[3] = w)
              => DueIn(Increments(changes, w) \cup B, key) = changes[key[2]]
         /\ key[1] # "debt" /\ ~ (key[2] \in DOMAIN changes /\ (key[1] = "goods" => key[3] = w))
              => DueIn(Increments(changes, w) \cup B, key) = DueIn({}, key)
<1> DEFINE A == Increments(changes, w) \cup B
<1>1. \A t \in Increments(changes, w) :
        /\ t.op \in {"total", "rows"} /\ t.variant \in DOMAIN changes
        /\ t.quantity = changes[t.variant] /\ (t.op = "rows" => t.warehouse = w)
  BY IncrementsFacts
<1>2. CASE key[1] = "debt"
  <2>1. \A t \in Increments(changes, w) : Brings(t, key) = 0
    BY <1>1, <1>2 DEF Brings
  <2>2. Bearers(A, key) = Bearers(B, key)
    BY <2>1 DEF Bearers
  <2> QED
    BY <1>2, <2>2 DEF DueIn
<1>3. CASE key[1] = "total"
  <2>1. \A t \in B : Brings(t, key) = 0
    BY <1>3 DEF Brings
  <2>2. CASE key[2] \in DOMAIN changes
    <3>1. PICK s : s = [op |-> "total", variant |-> key[2], quantity |-> changes[key[2]]]
      OBVIOUS
    <3>2. s \in Increments(changes, w)
      BY <2>2, <3>1 DEF Increments
    <3>3. \A t \in Increments(changes, w) : t.op = "total" /\ t.variant = key[2] => t = s
      BY <3>1 DEF Increments
    <3>4. \A t \in A \ {s} : Brings(t, key) = 0
      BY <1>1, <1>3, <2>1, <3>3 DEF Brings
    <3>5. DueIn(A, key) = Brings(s, key)
      BY <3>2, <3>4, StageOf
    <3>6. Brings(s, key) = changes[key[2]]
      BY <1>3, <3>1 DEF Brings
    <3> QED
      BY <1>3, <2>2, <3>5, <3>6
  <2>3. CASE key[2] \notin DOMAIN changes
    <3>1. \A t \in A : Brings(t, key) = 0
      BY <1>1, <1>3, <2>1, <2>3 DEF Brings
    <3> QED
      BY <1>3, <2>3, <3>1, StageOfNothing
  <2> QED
    BY <2>2, <2>3
<1>4. CASE key[1] = "goods"
  <2>1. \A t \in B : Brings(t, key) = 0
    BY <1>4 DEF Brings
  <2>2. CASE key[2] \in DOMAIN changes /\ key[3] = w
    <3>1. PICK s : s = [op |-> "rows", variant |-> key[2], warehouse |-> w, quantity |-> changes[key[2]]]
      OBVIOUS
    <3>2. s \in Increments(changes, w)
      BY <2>2, <3>1 DEF Increments
    <3>3. \A t \in Increments(changes, w) : t.op = "rows" /\ t.variant = key[2] => t = s
      BY <3>1 DEF Increments
    <3>4. \A t \in A \ {s} : Brings(t, key) = 0
      BY <1>1, <1>4, <2>1, <3>3 DEF Brings
    <3>5. DueIn(A, key) = Brings(s, key)
      BY <3>2, <3>4, StageOf
    <3>6. Brings(s, key) = changes[key[2]]
      BY <1>4, <2>2, <3>1 DEF Brings
    <3> QED
      BY <1>4, <2>2, <3>5, <3>6
  <2>3. CASE ~ (key[2] \in DOMAIN changes /\ key[3] = w)
    <3>1. \A t \in A : Brings(t, key) = 0
      BY <1>1, <1>4, <2>1, <2>3 DEF Brings
    <3> QED
      BY <1>4, <2>3, <3>1, StageOfNothing
  <2> QED
    BY <2>2, <2>3
<1>5. DueIn({}, key) = 0
  BY StageOfNothing
<1> QED
  BY <1>2, <1>3, <1>4, <1>5, KeyCases

(* A call that replaces its first stage by one other has no more stages    *)
(* than before.                                                            *)
LEMMA LengthNext ==
  ASSUME Shaped, CallsOK, NEW c \in Calls, NEW s \in Sent(c), NEW A, GoOn(c, <<A>>), Len(call[c].stages) <= Most
  PROVE  Len(call'[c].stages) <= Most
<1> DEFINE st == call[c].stages
           T == Own(st) \cup {A}
           new == <<A>> \o Tail(st)
<1>1. Running(c) /\ CallOK(c)
  BY SentFacts
<1>2. st # <<>> /\ Orderly(st)
  BY <1>1, SentFirst
<1>3. st \in Seq(T)
  BY <1>2 DEF Orderly
<1>4. Resumes(c, new)
  BY <1>1, HandlersLeave
<1>5. call'[c].stages = Staged(new) /\ A \in T /\ Len(st) <= Most
  BY <1>4 DEF Resumes
<1> HIDE DEF st, T, new
<1>6. new = <<A>> \o Tail(st)
  BY DEF new
<1>7. new \in Seq(T) /\ Len(new) = Len(st)
  BY <1>2, <1>3, <1>5, <1>6, FirstReplaced
<1>8. Len(Staged(new)) <= Len(new)
  BY <1>7, DueStaged
<1>9. Len(Staged(new)) \in Nat /\ Len(new) \in Nat
  BY <1>7, StagedLeaves
<1> QED
  BY <1>5, <1>7, <1>8, <1>9 DEF Most

(* The lines that stay are read: their corrections are due.                *)
LEMMA RereadWork ==
  ASSUME Inv, Inv', Books, NEW c \in Calls, NEW s \in Sent(c), Account(c), RereadLines(c, s),
         UNCHANGED transfers
  PROVE  Books'
<1>0. PICK R, st, new, D : R = Request(c) /\ st = call[c].stages /\ new = call'[c].stages /\ D = R.doc
  OBVIOUS
<1>01. s.op # "read" /\ s.op = "reread"
  BY DEF RereadLines
<1>1. /\ Late(c) /\ Running(c) /\ D \in Docs /\ Apt(c, R, st) /\ s \in All(st) /\ Placed(c, R, st)
      /\ (D \notin disturbed => Working(R, st))
  BY <1>0, <1>01, AtWork
<1>2. /\ D = <<"receipt", D[2]>> /\ D[1] = "receipt" /\ R.op = "updateReceipt"
      /\ D[2] \in DOMAIN receipts
  BY <1>0, <1>01, <1>1 DEF Apt, ReceiptOps, Placed, There
<1>3. PICK x : x = receipts[D[2]]
  OBVIOUS
<1>4. IsReceipt(x) /\ x.lines \in [DOMAIN x.lines -> [quantity : Int, price : Int]] /\ DOMAIN x.lines \subseteq Variants
  BY <1>2, <1>3 DEF Inv, Tables, IsReceipt, AreLines
<1>5. PICK changes : changes = [v \in s.kept \cap DOMAIN x.lines |-> R.lines[v].quantity - x.lines[v].quantity]
  OBVIOUS
<1>6. PICK A : A = Increments(changes, s.warehouse)
  OBVIOUS
<1>7. GoOn(c, <<A>>) /\ UNCHANGED <<rows, total, balance, payments, receipts, disturbed>>
  BY <1>0, <1>3, <1>5, <1>6 DEF RereadLines
<1>8. /\ s.warehouse \in Warehouses /\ R.lines \in Deliveries /\ s.kept \subseteq DOMAIN R.lines
      /\ \A t \in After(st) : t \in All(st) /\ Follows("reread", t.op) /\ Rank(t.op) \in Nat
  <2>1. Proper(c, s) /\ \A t \in After(st) : t \in Pending(c) /\ Proper(c, t) /\ Follows(s.op, t.op)
    BY <1>0, SentFacts DEF Inv
  <2>2. \A t \in After(st) : Rank(t.op) \in Nat
    BY <2>1, RanksAreNumbers
  <2> QED
    BY <1>0, <1>01, <2>1, <2>2 DEF Proper, Pending
<1>9. DOMAIN changes \subseteq Variants /\ \A v \in DOMAIN changes : changes[v] \in Int
  <2>1. AreLines(R.lines)
    BY <1>8, ReceiptsAssumption
  <2>2. \A v \in s.kept \cap DOMAIN x.lines : /\ v \in Variants /\ R.lines[v].quantity \in Int
                                              /\ x.lines[v].quantity \in Int
    BY <1>4, <1>8, <2>1 DEF AreLines
  <2> QED
    BY <1>5, <2>2
<1>10. Good(A) /\ \A t \in A : t.op \in {"total", "rows"} /\ Proper(c, t)
  BY <1>0, <1>2, <1>6, <1>8, <1>9, IncrementsFacts
<1>11. \A t \in A, u \in After(st) : Follows(t.op, u.op)
  <2> SUFFICES ASSUME NEW t \in A, NEW u \in After(st) PROVE Follows(t.op, u.op)
    OBVIOUS
  <2>1. Follows("reread", u.op) /\ Rank(u.op) \in Nat
    BY <1>8
  <2>2. Rank("reread") = 3 /\ Rank(t.op) = 2
    BY <1>10 DEF Rank
  <2> QED
    BY <2>1, <2>2 DEF Follows
<1>12. Grown(c)
  <2>1. \A p \in Variants, w \in Places : Len(rows[p][w]) \in Nat
    BY DEF Inv, Typed, RowsTypeOK
  <2>2. \A p \in Variants, w \in Places : Len(rows[p][w]) <= Len(rows'[p][w])
    BY <1>7, <2>1
  <2> QED
    BY <1>7, <2>2 DEF Grown
<1>13. Resumes(c, <<A>> \o Tail(st)) /\ All(new) = A \cup After(st)
  <2>1. "reread" \in Solo /\ Grows
    BY <1>12 DEF Solo, Grown, Grows
  <2>2. Resumes(c, <<A>> \o Tail(call[c].stages)) /\ Pending(c)' = A \cup After(call[c].stages)
    BY <1>0, <1>01, <1>7, <1>10, <1>11, <2>1, NextOnward DEF Inv, Good
  <2> QED
    BY <1>0, <2>2 DEF Pending
<1>14. /\ Alone(c) /\ (Running(c)' => Request(c)' = R) /\ call'[c].at # "idle"
  <2>1. CASE Ends(c)
    <3>1. call'[c].at \in {"done", "failed"}
      BY <2>1 DEF Ends
    <3> QED
      BY <1>13, <3>1 DEF Running, Resumes
  <2>2. CASE ~ Ends(c)
    BY <1>0, <1>13, <2>2 DEF Resumes, Stands, Request
  <2> QED
    BY <2>1, <2>2
<1>15. /\ \A t \in All(new) : t.op # "read" /\ t.op # "reread"
       /\ \A t \in All(st) : t = s \/ t \in All(new)
       /\ \A t \in All(new) : t.op \notin {"total", "rows"} => t \in All(st)
  <2>1. \A t \in After(st) : t.op # "read" /\ t.op # "reread"
    BY <1>8 DEF Follows, Rank
  <2>2. All(st) = Sent(c) \cup After(st) /\ Sent(c) = {s}
    <3>1. Pending(c) = Sent(c) \cup After(st) /\ \A t \in Sent(c) : t.op \in Solo => Sent(c) = {t}
      BY <1>0, <1>1, SentFacts, SentFirst DEF Inv
    <3> QED
      BY <1>0, <1>01, <3>1 DEF Pending, Solo
  <2> QED
    BY <1>8, <1>10, <1>13, <2>1, <2>2
<1>16. Apart(D)
  BY <1>7 DEF Apart, Like
<1>17. Placed(c, R, new)'
  <2>1. Len(new) <= Most
    BY <1>0, <1>1, <1>7, LengthNext DEF Inv, Placed
  <2>2. ASSUME NEW t \in All(new) PROVE Inserting(c, R, t)' /\ Found(t)'
    <3>1. CASE t.op \in {"total", "rows"}
      BY <3>1 DEF Inserting, Found
    <3>2. CASE t.op \notin {"total", "rows"}
      <4>1. t \in All(st) /\ Inserting(c, R, t)
        BY <1>1, <1>15, <3>2 DEF Placed
      <4>2. t.op \notin {"lookup", "commit"}
        BY <1>1, <1>2, <4>1 DEF Apt, TransferOps
      <4> QED
        BY <1>7, <4>1, <4>2 DEF Inserting, Found
    <3> QED
      BY <3>1, <3>2
  <2>3. There(R)'
    BY <1>1, <1>7 DEF Placed, There
  <2> QED
    BY <2>1, <2>2, <2>3 DEF Placed
<1>18. ASSUME D \notin disturbed', ~ Coming(new, "refused")
       PROVE  /\ \A key \in Keys : AtHome(R, key)' => Owes(R, new, key)'
              /\ \A t \in All(new) : t.op = "rewriteReceipt" => Tracks(R, new, t)'
              /\ \A t \in All(new) : t.op \in {"reread", "line"} => Coming(new, "rewriteReceipt")
              /\ Coming(new, "rewriteReceipt") \/ Balanced(D)'
  <2>1. Working(R, st) /\ ~ Coming(st, "refused")
    BY <1>01, <1>1, <1>7, <1>15, <1>18 DEF Coming
  <2>2. /\ \A key \in Keys : AtHome(R, key) => Owes(R, st, key)
        /\ \A t \in All(st) : t.op = "rewriteReceipt" => Tracks(R, st, t)
        /\ Coming(st, "rewriteReceipt")
    BY <1>0, <1>01, <1>1, <1>2, <2>1 DEF Working
  <2>3. Coming(new, "rewriteReceipt") /\ Coming(st, "reread") /\ ~ Coming(new, "reread")
    BY <1>01, <1>1, <1>15, <2>2 DEF Coming
  <2>4. \A t \in All(new) : t.op = "rewriteReceipt" =>
          /\ t \in All(st)
          /\ ~ x.isArchived /\ R.lines \in Deliveries /\ R.paid \notin {None, 0}
          /\ R.supplier \in Suppliers /\ Else(R.warehouse, x.warehouse) = x.warehouse
          /\ t.deleted = [u \in DOMAIN t.deleted |-> t.deleted[u]]
          /\ DOMAIN t.deleted \cap DOMAIN R.lines = {}
          /\ DOMAIN x.lines = DOMAIN t.deleted \cup DOMAIN R.lines
          /\ \A u \in DOMAIN t.deleted : x.lines[u] = t.deleted[u]
          /\ \A u \in DOMAIN R.lines : x.lines[u] = R.lines[u] \/ \E e \in All(st) : e.op = "line" /\ e.variant = u
          /\ s.kept = DOMAIN R.lines /\ s.warehouse = x.warehouse
    <3> SUFFICES ASSUME NEW t \in All(new), t.op = "rewriteReceipt" PROVE Tracks(R, st, t) /\ t \in All(st)
      BY <1>0, <1>01, <1>1, <1>3 DEF Tracks
    <3> QED
      BY <1>15, <2>2
  <2>5. ASSUME NEW t \in All(new), t.op = "rewriteReceipt" PROVE Tracks(R, new, t)'
    <3>1. \A u \in DOMAIN R.lines : x.lines[u] = R.lines[u] \/ \E e \in All(new) : e.op = "line" /\ e.variant = u
      <4>1. \A e \in All(st) : e.op = "line" => e \in All(new)
        BY <1>01, <1>15
      <4> QED
        BY <2>4, <2>5, <4>1
    <3>2. receipts' = receipts
      BY <1>7
    <3> QED
      BY <1>0, <1>3, <1>15, <2>4, <2>5, <3>1, <3>2 DEF Tracks
  <2>6. ASSUME NEW key \in Keys, AtHome(R, key)' PROVE Owes(R, new, key)'
    <3>1. AtHome(R, key)
      BY <1>2 DEF AtHome
    <3>2. Owes(R, st, key)
      BY <2>2, <3>1
    <3>3. Entry(D, key)' = Entry(D, key) /\ Entry(D, key) \in Int
      <4>1. Booked
        BY DEF Books
      <4> QED
        BY <1>1, <1>7, <4>1, AccountsStay, EntryType
    <3>4. Due(st, key) \in Int /\ DueIn(A, key) \in Int /\ Due(new, key) = Due(st, key) + DueIn(A, key)
      <4>1. Single(A, key)
        BY <1>10, StageSingle DEF Good
      <4>2. s.op \in Solo /\ Brings(s, key) = 0 /\ Len(call[c].stages) <= Most
        BY <1>0, <1>01, <1>1, KeyCases DEF Brings, Solo, Placed
      <4>3. Due(call[c].stages, key)' = Due(new, key)
        BY <1>0 DEF Due, Dues, At
      <4> QED
        BY <1>0, <1>7, <4>1, <4>2, <4>3, DueNext DEF Inv
    <3>5. DueIn(A, key) =
           IF key[1] = "debt" THEN 0
           ELSE IF key[2] \in DOMAIN changes /\ (key[1] = "goods" => key[3] = s.warehouse) THEN changes[key[2]] ELSE 0
      <4>1. A = Increments(changes, s.warehouse) \cup {} /\ \A t \in {} : t.op = "balance"
        BY <1>6
      <4>2. DueIn({}, key) = 0
        BY StageOfNothing
      <4> QED
        BY <1>8, <1>9, <4>1, <4>2, DueIncrements
    <3>6. ASSUME NEW t \in All(new), t.op = "rewriteReceipt"
          PROVE  Aim(R, new, t, key)' = Aim(R, st, t, key) + DueIn(A, key)
      <4>1. Aim(R, new, t, key)' = OfReceipt(Described(R, x.warehouse), key)
        BY <1>0, <1>3, <1>7, <2>3, <3>6 DEF Aim
      <4>2. CASE key[1] = "debt"
        <5>1. Aim(R, st, t, key) = OfReceipt(Described(R, x.warehouse), key)
          BY <1>0, <1>3, <3>6, <4>2 DEF Aim
        <5>2. OfReceipt(Described(R, x.warehouse), key) \in Int
          <6>1. Aim(R, st, t, key) = Entry(D, key) + Due(st, key)
            <7>1. Writes(R, t) /\ t \in All(st)
              BY <2>4, <3>6 DEF Writes
            <7> QED
              BY <1>0, <3>2, <7>1 DEF Owes
          <6> QED
            BY <3>3, <3>4, <5>1, <6>1
        <5> QED
          BY <3>5, <4>1, <4>2, <5>1, <5>2
      <4>3. CASE key[1] # "debt"
        <5>1. Aim(R, st, t, key) = OfReceipt(Undeleted(x, t.deleted), key)
          BY <1>0, <1>3, <2>3, <3>6, <4>3 DEF Aim
        <5>2. PICK q : q = Undeleted(x, t.deleted)
          OBVIOUS
        <5>3. /\ ~ q.isArchived /\ q.warehouse = x.warehouse /\ DOMAIN q.lines = DOMAIN R.lines
              /\ \A v \in DOMAIN R.lines : q.lines[v] = x.lines[v] /\ v \in DOMAIN x.lines
          BY <1>4, <2>4, <3>6, <5>2 DEF Undeleted, IsReceipt
        <5>4. DOMAIN changes = DOMAIN R.lines /\ \A v \in DOMAIN R.lines : changes[v] = R.lines[v].quantity - x.lines[v].quantity
          BY <1>5, <2>4, <3>6, <5>3
        <5>5. \A v \in DOMAIN R.lines : R.lines[v].quantity \in Int /\ x.lines[v].quantity \in Int
          <6>1. R.lines \in [DOMAIN R.lines -> [quantity : Int, price : Int]]
            BY <1>8, ReceiptsAssumption DEF AreLines
          <6> QED
            BY <1>4, <5>3, <6>1
        <5>6. PICK y : y = Described(R, x.warehouse)
          OBVIOUS
        <5>7. ~ y.isArchived /\ y.warehouse = x.warehouse /\ y.lines = R.lines
          BY <5>6 DEF Described
        <5>8. s.warehouse = x.warehouse
          BY <2>4, <3>6
        <5>9. CASE key[1] = "total"
          <6>1. OfReceipt(q, key) = IF key[2] \in DOMAIN R.lines THEN x.lines[key[2]].quantity ELSE 0
            BY <5>3, <5>9 DEF OfReceipt
          <6>2. OfReceipt(y, key) = IF key[2] \in DOMAIN R.lines THEN R.lines[key[2]].quantity ELSE 0
            BY <5>7, <5>9 DEF OfReceipt
          <6>3. DueIn(A, key) = IF key[2] \in DOMAIN R.lines THEN R.lines[key[2]].quantity - x.lines[key[2]].quantity ELSE 0
            BY <3>5, <5>4, <5>9
          <6> QED
            BY <4>1, <5>1, <5>2, <5>5, <5>6, <6>1, <6>2, <6>3
        <5>10. CASE key[1] = "goods"
          <6>1. OfReceipt(q, key) = IF key[3] = x.warehouse /\ key[2] \in DOMAIN R.lines THEN x.lines[key[2]].quantity ELSE 0
            BY <5>3, <5>10 DEF OfReceipt
          <6>2. OfReceipt(y, key) = IF key[3] = x.warehouse /\ key[2] \in DOMAIN R.lines THEN R.lines[key[2]].quantity ELSE 0
            BY <5>7, <5>10 DEF OfReceipt
          <6>3. DueIn(A, key) = IF key[3] = x.warehouse /\ key[2] \in DOMAIN R.lines
                                  THEN R.lines[key[2]].quantity - x.lines[key[2]].quantity ELSE 0
            BY <3>5, <5>4, <5>8, <5>10
          <6> QED
            BY <4>1, <5>1, <5>2, <5>5, <5>6, <6>1, <6>2, <6>3
        <5> QED
          BY <4>3, <5>9, <5>10, KeyCases
      <4> QED
        BY <4>2, <4>3
    <3>7. ASSUME NEW t \in All(new), Writes(R, t)
          PROVE  Entry(D, key)' + Due(new, key) = Aim(R, new, t, key)'
      <4>1. t.op = "rewriteReceipt"
        <5>1. t.op \notin {"total", "rows"}
          BY <3>7 DEF Writes
        <5>2. t \in All(st)
          BY <1>15, <3>7, <5>1
        <5> QED
          BY <1>1, <1>2, <3>7, <5>2 DEF Writes, Apt, PaymentOps
      <4>2. t \in All(st)
        BY <2>4, <3>7, <4>1
      <4>3. Entry(D, key) + Due(st, key) = Aim(R, st, t, key)
        BY <1>0, <3>2, <3>7, <4>2 DEF Owes
      <4>4. Aim(R, new, t, key)' = Aim(R, st, t, key) + DueIn(A, key)
        BY <3>6, <3>7, <4>1
      <4> QED
        BY <3>3, <3>4, <4>3, <4>4
    <3>8. \E t \in All(new) : Writes(R, t)
      BY <2>3 DEF Coming, Writes
    <3>9. \A t : Writes(R, t)' <=> Writes(R, t)
      BY DEF Writes
    <3> QED
      BY <1>0, <3>7, <3>8, <3>9 DEF Owes
  <2> QED
    BY <1>15, <2>3, <2>5, <2>6
<1>19. \A t \in All(new) : t.op # "read"
  BY <1>15
<1>20. D[1] \in {"receipt", "payment"} /\ disturbed \subseteq disturbed'
  BY <1>2, <1>7
<1> QED
  BY <1>0, <1>01, <1>12, <1>14, <1>16, <1>17, <1>18, <1>19, <1>20, ReceiptWork
-----------------------------------------------------------------------------
(* Nothing that documents say or account for changes.                      *)
LEMMA BooksStay ==
  ASSUME Inv, Inv', Booked, NEW c \in Calls, Running(c), Account(c),
         UNCHANGED <<rows, total, balance, payments, receipts, transfers>>
  PROVE  Booked' /\ Grown(c) /\ \A d \in Docs : SameBook(d)
<1>1. Booked' /\ \A d \in Docs : \A key \in Keys : Entry(d, key)' = Entry(d, key)
  BY AccountsStay
<1>2. Grown(c)
  <2>1. \A p \in Variants, w \in Places : Len(rows[p][w]) \in Nat
    BY DEF Inv, Typed, RowsTypeOK
  <2>2. rows' = rows
    OBVIOUS
  <2> QED
    BY <2>1, <2>2 DEF Grown
<1>3. \A d, key : Says(d, key)' = Says(d, key)
  BY DEF Says
<1> QED
  BY <1>1, <1>2, <1>3 DEF SameBook, Like

(* A statement fails: its document is disturbed, unless it was a read.     *)
LEMMA LoseWork ==
  ASSUME Inv, Inv', Books, NEW c \in Calls, NEW s \in Sent(c), Account(c), Lose(c, s),
         UNCHANGED <<rows, total, balance, payments, receipts, transfers>>
  PROVE  Books'
<1>0. PICK R, st, new, D : R = Request(c) /\ st = call[c].stages /\ new = call'[c].stages /\ D = R.doc
  OBVIOUS
<1>1. Running(c) /\ CallOK(c) /\ D \in Docs /\ s \in Pending(c) /\ Booked
  BY <1>0, SentFacts, DocsKnown DEF Inv, Books
<1>2. Booked' /\ Grown(c) /\ \A d \in Docs : SameBook(d)
  BY <1>1, BooksStay
<1>3. /\ Alone(c) /\ (Running(c)' => Request(c)' = R) /\ call'[c].at # "idle"
      /\ new = Staged(<<Sent(c) \ {s}>>) /\ (new = <<>> => ~ Running(c)')
  <2>1. Resumes(c, <<Sent(c) \ {s}>>)
    BY <1>1, HandlersLeave DEF Inv
  <2>2. CASE Ends(c)
    <3>1. call'[c].at \in {"done", "failed"}
      BY <2>2 DEF Ends
    <3> QED
      BY <1>0, <2>1, <3>1 DEF Running, Resumes
  <2>3. CASE ~ Ends(c)
    BY <1>0, <2>1, <2>3 DEF Resumes, Stands, Request
  <2> QED
    BY <2>2, <2>3
<1>4. /\ new = <<>> \/ new = <<Sent(c) \ {s}>>
      /\ new # <<>> => Sent(c) # {s}
  BY <1>3, StagedOne
<1>5. Len(new) <= Most /\ All(new) \subseteq Sent(c)
  <2>1. CASE new = <<>>
    BY <2>1 DEF All, Most
  <2>2. CASE new # <<>>
    <3>1. PICK X : X = Sent(c) \ {s}
      OBVIOUS
    <3>2. new = <<X>> /\ X \subseteq Sent(c)
      BY <1>4, <2>2, <3>1
    <3>3. Len(<<X>>) = 1 /\ DOMAIN <<X>> = {1} /\ <<X>>[1] = X
      OBVIOUS
    <3> QED
      BY <3>2, <3>3 DEF All, Most
  <2> QED
    BY <2>1, <2>2
<1>6. CASE s.op = "read"
  <2>1. st = Reading /\ Sent(c) = {s}
    <3>1. st = <<{[op |-> "read"]}>>
      BY <1>0, <1>1, <1>6 DEF CallOK
    <3> QED
      BY <1>0, <1>1, <3>1 DEF Sent, Reading
  <2>2. ~ Late(c) /\ ~ Late(c)' /\ Begun(c)'
    BY <1>0, <1>3, <1>4, <2>1 DEF Late, Begun
  <2>3. disturbed' = disturbed
    BY <1>6 DEF Lose, DisturbIf
  <2> QED
    BY <1>0, <1>2, <1>3, <2>2, <2>3, QuietStep DEF Does
<1>7. CASE s.op # "read"
  <2>1. disturbed' = disturbed \cup {D}
    BY <1>0, <1>7 DEF Lose, DisturbIf
  <2>2. Late(c) /\ Placed(c, R, st) /\ Apt(c, R, st)
    BY <1>0, <1>7, AtWork
  <2>3. All(new) \subseteq All(st)
    BY <1>0, <1>1, <1>5, SentFirst DEF Pending
  <2>4. \A t \in All(new) : t.op # "read"
    <3>1. \A t \in All(st) : t.op # "read"
      BY <1>0, <1>1, <2>2, LateReads DEF Pending
    <3> QED
      BY <2>3, <3>1
  <2>5. Running(c)' => Late(c)'
    <3>1. CallsOK' /\ CallsOK
      BY DEF Inv
    <3>2. Pending(c)' \subseteq Pending(c)
      BY <1>0, <2>3 DEF Pending
    <3> QED
      BY <2>2, <3>1, <3>2, LateStays
  <2>6. Begun(c)'
    BY <1>3, <2>5 DEF Begun
  <2>7. Placed(c, R, new)'
    <3>1. \A t \in All(new) : Inserting(c, R, t) /\ Found(t)
      BY <2>2, <2>3 DEF Placed
    <3>2. \A t \in All(new) : Inserting(c, R, t)' /\ Found(t)'
      BY <3>1 DEF Inserting, Found
    <3>3. There(R)'
      BY <2>2 DEF Placed, There
    <3> QED
      BY <1>5, <3>2, <3>3 DEF Placed
  <2>8. CASE D[1] \in Tracked
    <3>1. D \in disturbed'
      BY <2>1
    <3> QED
      BY <1>0, <1>1, <1>2, <1>3, <2>1, <2>6, <2>7, <2>8, <3>1, WorkStep
  <2>9. CASE D[1] \notin Tracked
    BY <1>0, <1>1, <1>2, <1>3, <1>5, <2>1, <2>6, <2>9, QuietStep DEF Does
  <2> QED
    BY <2>8, <2>9
<1> QED
  BY <1>6, <1>7

(* A statement that the database client refuses keeps the books.           *)
LEMMA RefusedWork ==
  ASSUME Inv, Inv', Books, NEW c \in Calls, NEW s \in Sent(c), Account(c), FailRefused(c, s),
         UNCHANGED transfers
  PROVE  Books'
BY LoseWork DEF FailRefused
-----------------------------------------------------------------------------
(* The first steps of a call.                                              *)

(* Stages that are dropped are empty.                                      *)
LEMMA StagedAll ==
  ASSUME NEW T, NEW st \in Seq(T)
  PROVE  All(Staged(st)) = All(st)
<1>1. PICK new : new = Staged(st)
  OBVIOUS
<1>21. \A q : q = Staged(st) =>
         /\ q \in Seq(T)
         /\ \E o \in 0..Len(st) :
              /\ Len(q) = Len(st) - o
              /\ \A i \in 1..o : st[i] = {}
              /\ \A i \in 1..Len(q) : q[i] = st[i + o]
  BY SMTT(30), StagedLeaves
<1>2. PICK o \in 0..Len(st) :
        /\ Len(new) = Len(st) - o
        /\ \A i \in 1..o : st[i] = {}
        /\ \A i \in 1..Len(new) : new[i] = st[i + o]
  BY <1>1, <1>21
<1>3. new \in Seq(T)
  BY <1>1, <1>21
<1>4. ASSUME NEW i \in DOMAIN st, NEW s \in st[i] PROVE s \in All(new)
  <2>1. i \in 1..Len(st) /\ i \notin 1..o
    BY <1>2, <1>4
  <2>2. i - o \in 1..Len(new)
    BY <1>2, <2>1
  <2>3. new[i - o] = st[i]
    BY <1>2, <2>1, <2>2
  <2>4. i - o \in DOMAIN new
    BY <1>3, <2>2
  <2> QED
    BY <1>4, <2>3, <2>4 DEF All
<1>5. All(new) \subseteq All(st)
  BY <1>1, StagedWithin
<1>6. All(st) \subseteq All(new)
  BY <1>4 DEF All
<1> QED
  BY <1>1, <1>5, <1>6

(* A call that reads is not late yet.                                      *)
LEMMA AtRead ==
  ASSUME Inv, NEW c \in Calls, NEW s \in Sent(c), s.op = "read"
  PROVE  /\ Running(c) /\ CallOK(c) /\ ~ Late(c) /\ ~ Begun(c) /\ call[c].stages = Reading /\ Sent(c) = {s}
         /\ Request(c).doc \in Docs /\ Apt(c, Request(c), call[c].stages)
<1>1. Running(c) /\ CallOK(c) /\ s \in Pending(c) /\ Request(c).doc \in Docs
  BY SentFacts, DocsKnown DEF Inv
<1>2. call[c].stages = Reading
  BY <1>1 DEF CallOK, Reading
<1>3. Sent(c) = {s}
  BY <1>1, <1>2 DEF Sent, Reading
<1>4. Apt(c, Request(c), call[c].stages)
  BY <1>1, CallsApt
<1> QED
  BY <1>1, <1>2, <1>3, <1>4 DEF Late, Begun, Running

(* The handler throws after a read.                                        *)
LEMMA ThrownWork ==
  ASSUME Inv, Inv', Books, NEW c \in Calls, NEW s \in Sent(c), s.op = "read", Account(c), Refuse(c),
         UNCHANGED <<rows, total, balance, payments, receipts, transfers, disturbed>>
  PROVE  Books'
<1>1. Running(c) /\ ~ Late(c) /\ Booked
  BY AtRead DEF Books
<1>2. Booked' /\ Grown(c) /\ \A d \in Docs : SameBook(d)
  BY <1>1, BooksStay
<1>3. Alone(c) /\ Ends(c)
  BY <1>1, RefuseEffect DEF Inv
<1>4. ~ Running(c)' /\ ~ Late(c)' /\ Begun(c)'
  BY <1>3 DEF Ends, Running, Late, Begun
<1> QED
  BY <1>1, <1>2, <1>3, <1>4, QuietStep DEF Does

(* The handler goes on after its read.                                     *)
LEMMA GoneOn ==
  ASSUME Inv, Inv', NEW c \in Calls, NEW s \in Sent(c), s.op = "read",
         NEW T, NEW more \in Seq(T), Len(more) <= Most, \A t \in All(more) : t.op # "read", GoOn(c, more),
         NEW new, new = call'[c].stages
  PROVE  /\ Alone(c) /\ (Running(c)' => Request(c)' = Request(c) /\ Late(c)') /\ call'[c].at # "idle"
         /\ All(new) = All(more) /\ Len(new) <= Most /\ \A key : Due(new, key) = Due(more, key)
<1>1. Running(c) /\ call[c].stages = Reading /\ Shaped /\ CallsOK
  BY AtRead DEF Inv
<1>2. Resumes(c, more)
  <2>1. more \o Tail(call[c].stages) = more
    BY <1>1 DEF Reading
  <2> QED
    BY <1>1, <2>1, HandlersLeave
<1>3. /\ Alone(c) /\ (Running(c)' => Request(c)' = Request(c)) /\ call'[c].at # "idle"
  <2>1. CASE Ends(c)
    <3>1. call'[c].at \in {"done", "failed"}
      BY <2>1 DEF Ends
    <3> QED
      BY <1>2, <3>1 DEF Running, Resumes
  <2>2. CASE ~ Ends(c)
    BY <1>2, <2>2 DEF Resumes, Stands, Request
  <2> QED
    BY <2>1, <2>2
<1>4. new = Staged(more)
  BY <1>2 DEF Resumes
<1>5. All(new) = All(more)
  BY <1>4, StagedAll
<1>6. Len(new) <= Most /\ \A key : Due(new, key) = Due(more, key)
  BY <1>1, DueRead
<1>7. ASSUME Running(c)' PROVE Late(c)'
  <2>1. [op |-> "read"] \in All(Reading)
    <3>1. 1 \in DOMAIN Reading /\ Reading[1] = {[op |-> "read"]}
      BY DEF Reading
    <3> QED
      BY <3>1 DEF All
  <2>2. new # Reading
    BY <1>5, <2>1
  <2> QED
    BY <1>7, <2>2 DEF Late
<1> QED
  BY <1>3, <1>5, <1>6, <1>7

(* The id of a call that has not begun is new, and no other call asks about*)
(* the document that it will insert.                                       *)
LEMMA NewDocument ==
  ASSUME Inv, Books, NEW c \in Calls, NEW s \in Sent(c), s.op = "read", NEW R, R = Request(c),
         R.op \in {"createReceipt", "createPayment", "createTransfer"}
  PROVE  /\ Unborn(c) /\ There(R) /\ R.doc = <<R.doc[1], c>>
         /\ \A b \in Calls \ {c} : Late(b) => Request(b).doc # R.doc
         /\ \A key \in Keys : Says(R.doc, key) = 0
<1>1. ~ Begun(c) /\ Apt(c, R, call[c].stages)
  BY AtRead
<1>2. Unborn(c) /\ There(R)
  BY <1>1 DEF Books, There
<1>3. R.doc = <<R.doc[1], c>>
  BY <1>1 DEF Apt
<1>4. ASSUME NEW b \in Calls \ {c}, Late(b), Request(b).doc = R.doc PROVE FALSE
  <2>1. PICK r, st : r = Request(b) /\ st = call[b].stages
    OBVIOUS
  <2>2. Does(b, r, st) /\ Running(b) /\ CallOK(b)
    BY <1>4, <2>1 DEF Does, Late, Inv, CallsOK
  <2>3. There(r)
    BY <2>2 DEF Books, Placed
  <2>4. Apt(b, r, st)
    BY <2>1, <2>2, CallsApt
  <2>5. r.doc[1] = R.doc[1] /\ r.doc[2] = c /\ b # c
    BY <1>3, <1>4, <2>1
  <2>6. R.doc[1] \in Tracked
    BY <1>1 DEF Apt, Tracked, ReceiptOps, PaymentOps, TransferOps
  <2>7. r.op \in ReceiptOps \cup PaymentOps \cup TransferOps
    BY <2>4, <2>5, <2>6 DEF Apt, Tracked
  <2>8. r.op \notin {"createReceipt", "createPayment", "createTransfer"}
    BY <2>4, <2>5 DEF Apt
  <2> QED
    BY <1>2, <2>3, <2>5, <2>7, <2>8 DEF There, Unborn, ReceiptOps, PaymentOps, TransferOps
<1>5. \A key \in Keys : Says(R.doc, key) = 0
  BY <1>2, <1>3 DEF Unborn, Says
<1> QED
  BY <1>2, <1>3, <1>4, <1>5

(* A call goes to work on a document.                                      *)
LEMMA ReadWork ==
  ASSUME Inv, Inv', Books, NEW c \in Calls, NEW s \in Sent(c), s.op = "read", Account(c),
         NEW R, R = Request(c), NEW D, D = R.doc, D[1] \in Tracked,
         NEW T, NEW more \in Seq(T), Len(more) <= Most, \A t \in All(more) : t.op # "read", GoOn(c, more),
         UNCHANGED <<rows, total, balance, payments, receipts, transfers>>, disturbed \subseteq disturbed',
         There(R), \A t \in All(more) : Inserting(c, R, t) /\ t.op # "commit",
         D \notin disturbed' => \A b \in Calls \ {c} : Late(b) => Request(b).doc # D,
         D \notin disturbed' /\ Resting(D) /\ Balanced(D) /\ Once(D) => Working(R, more)
  PROVE  Books'
<1>1. Running(c) /\ ~ Late(c) /\ Booked /\ D \in Docs
  BY AtRead DEF Books
<1>2. Booked' /\ Grown(c) /\ \A d \in Docs : SameBook(d)
  BY <1>1, BooksStay
<1>3. PICK new : new = call'[c].stages
  OBVIOUS
<1>4. /\ Alone(c) /\ (Running(c)' => Request(c)' = R /\ Late(c)') /\ call'[c].at # "idle"
      /\ All(new) = All(more) /\ Len(new) <= Most /\ \A key : Due(new, key) = Due(more, key)
  BY <1>3, GoneOn
<1>5. Begun(c)'
  BY <1>4 DEF Begun
<1>6. Placed(c, R, new)'
  <2>1. \A t \in All(new) : Inserting(c, R, t)' /\ Found(t)'
    BY <1>4 DEF Inserting, Found
  <2>2. There(R)'
    BY DEF There
  <2> QED
    BY <1>4, <2>1, <2>2 DEF Placed
<1>7. ASSUME D \notin disturbed' PROVE Working(R, new)' /\ Kept(D)'
  <2>1. D \in Docs \ disturbed
    BY <1>1, <1>7
  <2>2. ~ InHand(D) /\ ~ Rewritten(D)
    BY <1>1, <1>7 DEF InHand, Rewritten
  <2>3. Resting(D) /\ Balanced(D) /\ Once(D)
    BY <2>1, <2>2 DEF Books, Kept
  <2>4. Kept(D)'
    <3>1. Resting(D)'
      BY <1>1, <1>2, <2>3 DEF Resting, SameBook
    <3>2. Balanced(D)' /\ Once(D)'
      BY <2>3 DEF Balanced, Once
    <3> QED
      BY <3>1, <3>2 DEF Kept
  <2>5. Working(R, more)
    BY <1>7, <2>3
  <2>6. Working(R, new)'
    <3>1. \A op : Coming(new, op)' <=> Coming(more, op)
      BY <1>4 DEF Coming
    <3>2. \A key \in Keys : AtHome(R, key)' => AtHome(R, key)
      BY DEF AtHome
    <3>3. ASSUME NEW key \in Keys, Owes(R, more, key) PROVE Owes(R, new, key)'
      <4>1. Entry(D, key)' = Entry(D, key) /\ Says(D, key)' = Says(D, key) /\ Due(new, key) = Due(more, key)
        BY <1>1, <1>2, <1>4 DEF SameBook
      <4>2. \A t : Aim(R, new, t, key)' = Aim(R, more, t, key)
        BY <3>1 DEF Aim
      <4>3. \A t : Writes(R, t)' <=> Writes(R, t)
        BY DEF Writes
      <4> QED
        BY <1>4, <3>3, <4>1, <4>2, <4>3 DEF Owes
    <3>4. ASSUME NEW t \in All(new), Tracks(R, more, t) PROVE Tracks(R, new, t)'
      BY <1>4, <3>4 DEF Tracks
    <3>5. \A t \in All(new) : Prepared(R, t) => Prepared(R, t)'
      BY DEF Prepared, Planned
    <3> QED
      BY <1>4, <2>5, <3>1, <3>2, <3>3, <3>4, <3>5 DEF Working
  <2> QED
    BY <2>4, <2>6
<1>8. \A st : Late(c)' /\ st = call'[c].stages =>
        Placed(c, R, st)' /\ (D \notin disturbed' => Working(R, st)')
  BY <1>3, <1>6, <1>7
<1> QED
  BY <1>1, <1>2, <1>4, <1>5, <1>7, <1>8, WorkStep
-----------------------------------------------------------------------------
(* The calls on reasons and warehouses.                                    *)

(* They change nothing that is accounted for.                              *)
LEMMA AsideWork ==
  ASSUME Inv, Inv', Books, NEW c \in Calls, Running(c), Account(c), Request(c).doc[1] \notin Tracked,
         UNCHANGED <<rows, total, balance, payments, receipts, disturbed>>,
         DOMAIN transfers' = DOMAIN transfers, \A t \in DOMAIN transfers : Like(transfers[t], transfers'[t]),
         Alone(c), Running(c)' => Request(c)' = Request(c) /\ Late(c)', call'[c].at # "idle",
         Len(call'[c].stages) <= Most
  PROVE  Books'
<1>1. Booked' /\ \A d \in Docs : \A key \in Keys : Entry(d, key)' = Entry(d, key)
  BY AccountsStay DEF Books
<1>2. Grown(c)
  <2>1. \A p \in Variants, w \in Places : Len(rows[p][w]) \in Nat
    BY DEF Inv, Typed, RowsTypeOK
  <2>2. rows' = rows
    OBVIOUS
  <2> QED
    BY <2>1, <2>2 DEF Grown
<1>3. ASSUME NEW d, NEW key PROVE Says(d, key)' = Says(d, key)
  <2>1. d[2] \in DOMAIN transfers => OfTransfer(transfers[d[2]], key) = OfTransfer(transfers'[d[2]], key)
    BY LikeTransfers
  <2> QED
    BY <2>1 DEF Says
<1>4. \A d \in Docs : SameBook(d)
  BY <1>1, <1>3 DEF SameBook
<1>5. Begun(c)'
  BY DEF Begun
<1> QED
  BY <1>1, <1>2, <1>4, <1>5, QuietStep DEF Does

(* A statement of theirs succeeds.                                         *)
LEMMA AsideExecuted ==
  ASSUME Inv, Inv', Books, NEW c \in Calls, NEW s \in Sent(c), Account(c), Request(c).doc[1] \notin Tracked,
         UNCHANGED <<rows, total, balance, payments, receipts, disturbed>>,
         DOMAIN transfers' = DOMAIN transfers, \A t \in DOMAIN transfers : Like(transfers[t], transfers'[t]),
         Executed(c, s)
  PROVE  Books'
<1>1. Running(c) /\ CallsOK /\ CallsOK' /\ Shaped /\ Grows
  BY SentFacts DEF Inv, Grows
<1>2. CASE s.op = "read"
  <2>1. call[c].stages = <<{s}>>
    BY <1>2, AtRead DEF Sent, Reading
  <2>2. Alone(c) /\ Ends(c)
    <3>1. <<Sent(c) \ {s}>> \o Tail(call[c].stages) = <<{}>>
      BY <1>1, <2>1 DEF Sent
    <3>2. Resumes(c, <<{}>>)
      BY <1>1, <3>1, HandlersLeave
    <3>3. Staged(<<{}>>) = <<>>
      BY StagedOne
    <3> QED
      BY <3>2, <3>3 DEF Resumes
  <2>3. ~ Running(c)' /\ call'[c].at # "idle" /\ Len(call'[c].stages) <= Most
    BY <2>2 DEF Ends, Running, Blank, Most
  <2> QED
    BY <1>1, <2>2, <2>3, AsideWork
<1>3. CASE s.op # "read"
  <2>1. Grown(c)
    <3>1. \A p \in Variants, w \in Places : Len(rows[p][w]) \in Nat
      BY DEF Inv, Typed, RowsTypeOK
    <3>2. rows' = rows
      OBVIOUS
    <3> QED
      BY <3>1, <3>2 DEF Grown
  <2>2. /\ Alone(c) /\ (Running(c)' => Request(c)' = Request(c)) /\ call'[c].at # "idle"
        /\ Pending(c)' \subseteq Pending(c)
    <3>1. All(call'[c].stages) \subseteq All(call[c].stages)
      BY <1>3, <2>1, WorkExecuted
    <3> QED
      BY <1>3, <2>1, <3>1, WorkExecuted DEF Pending
  <2>3. Late(c) /\ Placed(c, Request(c), call[c].stages)
    BY <1>3, AtWork
  <2>4. Len(call'[c].stages) <= Most
    BY <1>1, <2>3, LengthExecuted DEF Placed
  <2>5. Running(c)' => Late(c)'
    BY <1>1, <2>2, <2>3, LateStays
  <2> QED
    BY <1>1, <2>2, <2>4, <2>5, AsideWork
<1> QED
  BY <1>2, <1>3

(* They throw.                                                             *)
LEMMA AsideThrown ==
  ASSUME Inv, Inv', Books, NEW c \in Calls, NEW s \in Sent(c), Account(c), Request(c).doc[1] \notin Tracked,
         UNCHANGED <<rows, total, balance, payments, receipts, transfers, disturbed>>, Refuse(c)
  PROVE  Books'
<1>1. Running(c)
  BY SentFacts DEF Inv
<1>2. Alone(c) /\ Ends(c)
  BY <1>1, RefuseEffect DEF Inv
<1>3. ~ Running(c)' /\ call'[c].at # "idle" /\ Len(call'[c].stages) <= Most
  BY <1>2 DEF Ends, Running, Blank, Most
<1> QED
  BY <1>1, <1>2, <1>3, AsideWork DEF Like

(* They read, and go on.                                                   *)
LEMMA AsideRead ==
  ASSUME Inv, Inv', Books, NEW c \in Calls, NEW s \in Sent(c), Account(c), Request(c).doc[1] \notin Tracked,
         UNCHANGED <<rows, total, balance, payments, receipts, transfers, disturbed>>, s.op = "read",
         NEW T, NEW more \in Seq(T), Len(more) <= Most, \A t \in All(more) : t.op # "read", GoOn(c, more)
  PROVE  Books'
<1>1. Running(c)
  BY SentFacts DEF Inv
<1>2. PICK new : new = call'[c].stages
  OBVIOUS
<1>3. Alone(c) /\ (Running(c)' => Request(c)' = Request(c) /\ Late(c)') /\ call'[c].at # "idle" /\ Len(new) <= Most
  BY <1>2, GoneOn
<1> QED
  BY <1>1, <1>2, <1>3, AsideWork DEF Like

(* The calls that are about reasons and warehouses.                        *)
LEMMA AsideCalls ==
  ASSUME NEW c, NEW s, CallOK(c), Running(c), s \in Pending(c),
         \/ Request(c).op \in {"createReason", "removeReason", "archiveWarehouse", "restoreWarehouse"}
         \/ s.op \in {"deleteReason", "closeWarehouse", "countPositive", "countNegative", "openWarehouse"}
  PROVE  Request(c).doc[1] \notin Tracked
<1>1. Understood(c, Request(c)) /\ Proper(c, s)
  BY DEF CallOK
<1>2. Request(c).op \in {"createReason", "removeReason", "archiveWarehouse", "restoreWarehouse"}
  BY <1>1 DEF Proper
<1> QED
  BY <1>1, <1>2 DEF Understood, Tracked

(* The statements about warehouses and points of sale keep the books.      *)
LEMMA PremisesWork ==
  ASSUME Inv, Inv', Books, NEW c \in Calls, NEW s \in Sent(c), Account(c), PremisesStep(c, s),
         UNCHANGED <<total, balance, payments, receipts, transfers, reasons>>
  PROVE  Books'
<1>1. Running(c) /\ CallOK(c) /\ s \in Pending(c)
  BY SentFacts DEF Inv
<1>2. Request(c).doc[1] \notin Tracked
  BY <1>1, AsideCalls DEF PremisesStep, ArchiveWarehouse, CloseWarehouse, RestoreWarehouse, CountGoods, OpenWarehouse
<1>3. UNCHANGED <<rows, disturbed>>
  BY DEF PremisesStep, ArchiveWarehouse, CloseWarehouse, RestoreWarehouse, CountGoods, OpenWarehouse
<1>4. UNCHANGED <<rows, total, balance, payments, receipts, transfers, disturbed>>
  BY <1>3
<1>5. CASE Executed(c, s)
  BY <1>2, <1>4, <1>5, AsideExecuted DEF Like
<1>6. CASE Refuse(c)
  BY <1>2, <1>4, <1>6, AsideThrown
<1>7. CASE s.op = "read" /\ GoOn(c, <<{[op |-> "closeWarehouse"]}>>)
  <2>1. PICK A : A = {[op |-> "closeWarehouse"]}
    OBVIOUS
  <2>2. <<A>> \in Seq({A}) /\ Len(<<A>>) = 1 /\ All(<<A>>) = A
    BY DEF All
  <2>3. Len(<<A>>) <= Most /\ \A t \in All(<<A>>) : t.op # "read"
    BY <2>1, <2>2 DEF Most
  <2> QED
    BY <1>2, <1>4, <1>7, <2>1, <2>2, <2>3, AsideRead
<1>8. CASE s.op = "read" /\ GoOn(c, <<{[op |-> "countPositive"]}, {[op |-> "countNegative"]}, {[op |-> "openWarehouse"]}>>)
  <2>1. PICK A, B, C : A = {[op |-> "countPositive"]} /\ B = {[op |-> "countNegative"]} /\ C = {[op |-> "openWarehouse"]}
    OBVIOUS
  <2>2. <<A, B, C>> \in Seq({A, B, C}) /\ Len(<<A, B, C>>) = 3
    OBVIOUS
  <2>3. All(<<A, B, C>>) = A \cup B \cup C
    BY DEF All
  <2>4. Len(<<A, B, C>>) <= Most /\ \A t \in All(<<A, B, C>>) : t.op # "read"
    BY <2>1, <2>2, <2>3 DEF Most
  <2> QED
    BY <1>2, <1>4, <1>8, <2>1, <2>2, <2>4, AsideRead
<1> QED
  BY <1>5, <1>6, <1>7, <1>8
     DEF PremisesStep, ArchiveWarehouse, CloseWarehouse, RestoreWarehouse, CountGoods, OpenWarehouse

(* The statements about transfer reasons keep the books.                   *)
LEMMA ReasonsWork ==
  ASSUME Inv, Inv', Books, NEW c \in Calls, NEW s \in Sent(c), Account(c),
         CreateReason(c, s) \/ CountTransfers(c, s) \/ DeleteReason(c, s),
         UNCHANGED <<total, balance, payments, receipts>>
  PROVE  Books'
<1>1. Running(c) /\ CallOK(c) /\ s \in Pending(c)
  BY SentFacts DEF Inv
<1>2. Request(c).doc[1] \notin Tracked
  BY <1>1, AsideCalls DEF CreateReason, CountTransfers, DeleteReason
<1>3. UNCHANGED <<rows, disturbed>>
  BY DEF CreateReason, CountTransfers, DeleteReason
<1>4. UNCHANGED <<rows, total, balance, payments, receipts, disturbed>>
  BY <1>3
<1>5. CASE CreateReason(c, s)
  <2>1. Executed(c, s) /\ transfers' = transfers
    BY <1>5 DEF CreateReason
  <2> QED
    BY <1>2, <1>4, <2>1, AsideExecuted DEF Like
<1>6. CASE DeleteReason(c, s)
  <2>1. /\ Executed(c, s)
        /\ transfers' = [t \in DOMAIN transfers |->
                          [transfers[t] EXCEPT !.reason = IF @ = Request(c).doc[2] THEN None ELSE @]]
    BY <1>6 DEF DeleteReason
  <2>2. \A t \in DOMAIN transfers : Like(transfers[t], transfers'[t])
    BY <2>1 DEF Like, Inv, Tables, IsTransfer
  <2> QED
    BY <1>2, <1>4, <2>1, <2>2, AsideExecuted
<1>7. CASE CountTransfers(c, s)
  <2>1. s.op = "read" /\ transfers' = transfers /\ (GoOn(c, <<{[op |-> "deleteReason"]}>>) \/ Refuse(c))
    BY <1>7 DEF CountTransfers
  <2>2. CASE Refuse(c)
    BY <1>2, <1>4, <2>1, <2>2, AsideThrown
  <2>3. CASE GoOn(c, <<{[op |-> "deleteReason"]}>>)
    <3>1. PICK A : A = {[op |-> "deleteReason"]}
      OBVIOUS
    <3>2. <<A>> \in Seq({A}) /\ Len(<<A>>) = 1 /\ All(<<A>>) = A
      BY DEF All
    <3>3. Len(<<A>>) <= Most /\ \A t \in All(<<A>>) : t.op # "read"
      BY <3>1, <3>2 DEF Most
    <3> QED
      BY <1>2, <1>4, <2>1, <2>3, <3>1, <3>2, <3>3, AsideRead
  <2> QED
    BY <2>1, <2>2, <2>3
<1> QED
  BY <1>5, <1>6, <1>7
-----------------------------------------------------------------------------
(* The calls on payments, and the new receipts.                            *)

(* What few stages bring.                                                  *)
LEMMA DueShort ==
  ASSUME NEW key
  PROVE  /\ \A A : DueIn(A, key) \in Int => Due(<<A>>, key) = DueIn(A, key)
         /\ \A A, B : DueIn(A, key) \in Int /\ DueIn(B, key) \in Int =>
              Due(<<A, B>>, key) = DueIn(A, key) + DueIn(B, key)
         /\ \A A, B, C : DueIn(A, key) \in Int /\ DueIn(B, key) \in Int /\ DueIn(C, key) \in Int =>
              Due(<<A, B, C>>, key) = DueIn(A, key) + DueIn(B, key) + DueIn(C, key)
<1>1. DueIn({}, key) = 0
  BY StageOfNothing
<1>2. ASSUME NEW A, DueIn(A, key) \in Int PROVE Due(<<A>>, key) = DueIn(A, key)
  <2>1. PICK st, f : st = <<A>> /\ f = Dues(st, key)
    OBVIOUS
  <2>2. At(st, 1) = A /\ \A k \in 2..8 : At(st, k) = {}
    BY <2>1 DEF At
  <2>3. f \in [1..Most -> Int]
    BY <1>1, <1>2, <2>1, <2>2 DEF Dues, Most
  <2>4. f[1] = DueIn(A, key) /\ \A k \in 2..8 : f[k] = 0
    BY <1>1, <1>2, <2>1, <2>2 DEF Dues, Most
  <2>5. Due(st, key) = f[1] + f[2] + f[3] + f[4] + f[5] + f[6] + f[7] + f[8]
    BY <2>1, <2>3, EightDues
  <2> QED
    BY <1>2, <2>1, <2>4, <2>5
<1>3. ASSUME NEW A, NEW B, DueIn(A, key) \in Int, DueIn(B, key) \in Int
      PROVE  Due(<<A, B>>, key) = DueIn(A, key) + DueIn(B, key)
  <2>1. PICK st, f : st = <<A, B>> /\ f = Dues(st, key)
    OBVIOUS
  <2>2. At(st, 1) = B /\ At(st, 2) = A /\ \A k \in 3..8 : At(st, k) = {}
    BY <2>1 DEF At
  <2>3. f \in [1..Most -> Int]
    BY <1>1, <1>3, <2>1, <2>2 DEF Dues, Most
  <2>4. f[1] = DueIn(B, key) /\ f[2] = DueIn(A, key) /\ \A k \in 3..8 : f[k] = 0
    BY <1>1, <1>3, <2>1, <2>2 DEF Dues, Most
  <2>5. Due(st, key) = f[1] + f[2] + f[3] + f[4] + f[5] + f[6] + f[7] + f[8]
    BY <2>1, <2>3, EightDues
  <2> QED
    BY <1>3, <2>1, <2>4, <2>5
<1>4. ASSUME NEW A, NEW B, NEW C, DueIn(A, key) \in Int, DueIn(B, key) \in Int, DueIn(C, key) \in Int
      PROVE  Due(<<A, B, C>>, key) = DueIn(A, key) + DueIn(B, key) + DueIn(C, key)
  <2>1. PICK st, f : st = <<A, B, C>> /\ f = Dues(st, key)
    OBVIOUS
  <2>2. At(st, 1) = C /\ At(st, 2) = B /\ At(st, 3) = A /\ \A k \in 4..8 : At(st, k) = {}
    BY <2>1 DEF At
  <2>3. f \in [1..Most -> Int]
    BY <1>1, <1>4, <2>1, <2>2 DEF Dues, Most
  <2>4. f[1] = DueIn(C, key) /\ f[2] = DueIn(B, key) /\ f[3] = DueIn(A, key) /\ \A k \in 4..8 : f[k] = 0
    BY <1>1, <1>4, <2>1, <2>2 DEF Dues, Most
  <2>5. Due(st, key) = f[1] + f[2] + f[3] + f[4] + f[5] + f[6] + f[7] + f[8]
    BY <2>1, <2>3, EightDues
  <2> QED
    BY <1>4, <2>1, <2>4, <2>5
<1> QED
  BY <1>2, <1>3, <1>4

(* What a change of a balance brings, alone in its stage.                  *)
LEMMA DueBalance ==
  ASSUME NEW x, NEW amount \in Int, NEW key \in Keys
  PROVE  /\ DueIn({ChangeBalance(x, amount)}, key) = IF key[1] = "debt" /\ x = key[2] THEN amount ELSE 0
         /\ DueIn({}, key) = 0
<1>1. PICK s : s = ChangeBalance(x, amount)
  OBVIOUS
<1>2. Brings(s, key) = IF key[1] = "debt" /\ x = key[2] THEN amount ELSE 0
  BY <1>1, KeyCases DEF Brings, ChangeBalance
<1>3. DueIn({s}, key) = Brings(s, key)
  BY StageOf
<1>4. DueIn({}, key) = 0
  BY StageOfNothing
<1> QED
  BY <1>1, <1>2, <1>3, <1>4

(* What the creation of a payment reads keeps the books: the statements it *)
(* sends then owe the payment and its balance.                             *)
LEMMA CreatePaymentWork ==
  ASSUME Inv, Inv', Books, NEW c \in Calls, NEW s \in Sent(c), Account(c), CreatePayment(c, s),
         UNCHANGED <<rows, total, receipts, transfers>>
  PROVE  Books'
<1>0. PICK R, D : R = Request(c) /\ D = R.doc
  OBVIOUS
<1>1. s.op = "read" /\ R.op = "createPayment" /\ UNCHANGED <<rows, total, balance, payments, receipts, transfers, disturbed>>
  BY <1>0 DEF CreatePayment
<1>2. /\ Unborn(c) /\ There(R) /\ D = <<D[1], c>>
      /\ \A b \in Calls \ {c} : Late(b) => Request(b).doc # D
      /\ \A key \in Keys : Says(D, key) = 0
  BY <1>0, <1>1, NewDocument
<1>3. Apt(c, R, call[c].stages) /\ Running(c) /\ Understood(c, R)
  BY <1>0, <1>1, AtRead, SentFacts DEF Inv
<1>4. /\ D[1] = "payment" /\ R.type \in PaymentTypes /\ R.amount \in Int
      /\ None \notin Suppliers
  BY <1>0, <1>1, <1>3, AmountsAreIntegers DEF Apt, PaymentOps, Understood
<1>5. CASE Refuse(c)
  BY <1>1, <1>5, ThrownWork
<1>6. ASSUME NEW A, NEW t \in A, GoOn(c, <<A>>), t.op = "payment", t.id = c,
             t.row = Payment(R.type, R.amount, t.row.supplier, ByItself),
             \A u \in A \ {t} : u.op = "balance",
             \A key \in Keys :
               DueIn(A, key) = IF key[1] = "debt" /\ R.type = "SUPPLIER_PAYMENT" /\ t.row.supplier = key[2]
                                 THEN - R.amount ELSE 0
      PROVE  Books'
  <2>1. <<A>> \in Seq({A}) /\ Len(<<A>>) = 1 /\ All(<<A>>) = A
    BY DEF All
  <2>2. Len(<<A>>) <= Most /\ \A u \in All(<<A>>) : u.op # "read"
    BY <1>6, <2>1 DEF Most
  <2>3. \A u \in All(<<A>>) : Inserting(c, R, u) /\ u.op # "commit"
    BY <1>1, <1>2, <1>6, <2>1 DEF Inserting, Unborn
  <2>4. ASSUME Resting(D) PROVE Working(R, <<A>>)
    <3>1. ASSUME NEW key \in Keys PROVE Owes(R, <<A>>, key)
      <4>1. Entry(D, key) = 0
        BY <1>2, <2>4 DEF Resting
      <4>2. Due(<<A>>, key) = DueIn(A, key) /\ DueIn(A, key) \in Int
        <5>1. DueIn(A, key) \in Int
          BY <1>4, <1>6
        <5> QED
          BY <5>1, DueShort
      <4>3. Aim(R, <<A>>, t, key) = DueIn(A, key)
        <5>1. t.row.type = R.type /\ t.row.amount = R.amount /\ t.row.accounted.supplier = None
          BY <1>6 DEF Payment, ByItself
        <5>2. Aim(R, <<A>>, t, key) = OfPayment(t.row, key)
          BY <1>6 DEF Aim
        <5>3. CASE key[1] = "debt"
          <6>1. key[2] # None
            BY <1>4, <5>3, KeyCases
          <6>2. OfPayment(t.row, key) =
                  0 - (IF R.type = "SUPPLIER_PAYMENT" /\ t.row.supplier = key[2] THEN R.amount ELSE 0)
            BY <5>1, <5>3, <6>1 DEF OfPayment
          <6>3. DueIn(A, key) = IF R.type = "SUPPLIER_PAYMENT" /\ t.row.supplier = key[2]
                                  THEN - R.amount ELSE 0
            BY <1>6, <5>3
          <6> QED
            BY <1>4, <5>2, <6>2, <6>3
        <5>4. CASE key[1] # "debt"
          BY <1>6, <5>2, <5>4 DEF OfPayment
        <5> QED
          BY <5>3, <5>4
      <4>4. \A u \in All(<<A>>) : Writes(R, u) => u = t
        BY <1>6, <2>1 DEF Writes
      <4>5. t \in All(<<A>>) /\ Writes(R, t)
        BY <1>1, <1>6, <2>1 DEF Writes, PaymentOps
      <4> QED
        BY <1>0, <4>1, <4>2, <4>3, <4>4, <4>5 DEF Owes
    <3>2. \A u \in All(<<A>>) : u.op \in {"payment", "balance"}
      BY <1>6, <2>1
    <3> QED
      BY <3>1, <3>2 DEF Working
  <2>5. D[1] \in Tracked /\ disturbed \subseteq disturbed'
    BY <1>1, <1>4 DEF Tracked
  <2> QED
    <3>1. PICK more : more = <<A>>
      OBVIOUS
    <3>2. more \in Seq({A}) /\ Len(more) <= Most /\ (\A u \in All(more) : u.op # "read") /\ GoOn(c, more)
      BY <1>6, <2>1, <2>2, <3>1
    <3>3. UNCHANGED <<rows, total, balance, payments, receipts, transfers>>
      BY <1>1
    <3>4. (\A u \in All(more) : Inserting(c, R, u) /\ u.op # "commit") /\ (Resting(D) => Working(R, more))
      BY <2>3, <2>4, <3>1
    <3> QED
      BY <1>0, <1>1, <1>2, <2>5, <3>2, <3>3, <3>4, ReadWork
<1>7. CASE R.type = "OTHER" /\ GoOn(c, <<{[op |-> "payment", id |-> c, row |-> Payment(R.type, R.amount, None, ByItself)]}>>)
  <2>1. PICK t : t = [op |-> "payment", id |-> c, row |-> Payment(R.type, R.amount, None, ByItself)]
    OBVIOUS
  <2>2. PICK A : A = {} \cup {t}
    OBVIOUS
  <2>3. GoOn(c, <<A>>)
    BY <1>7, <2>1, <2>2
  <2>4. ASSUME NEW key \in Keys PROVE DueIn(A, key) = 0
    <3>1. \A u \in A : Brings(u, key) = 0
      BY <2>1, <2>2, KeyCases DEF Brings
    <3> QED
      BY <3>1, StageOfNothing
  <2>5. /\ t \in A /\ t.op = "payment" /\ t.id = c /\ t.row = Payment(R.type, R.amount, None, ByItself)
        /\ t.row.supplier = None /\ \A u \in A \ {t} : u.op = "balance"
    BY <2>1, <2>2 DEF Payment
  <2> QED
    BY <1>6, <1>7, <2>3, <2>4, <2>5
<1>8. CASE /\ R.type # "OTHER"
           /\ GoOn(c, <<{ChangeBalance(R.supplier, -R.amount),
                         [op |-> "payment", id |-> c, row |-> Payment(R.type, R.amount, R.supplier, ByItself)]}>>)
  <2>1. PICK t, u : /\ t = [op |-> "payment", id |-> c, row |-> Payment(R.type, R.amount, R.supplier, ByItself)]
                    /\ u = ChangeBalance(R.supplier, -R.amount)
    OBVIOUS
  <2>2. PICK A : A = {u} \cup {t}
    OBVIOUS
  <2>3. GoOn(c, <<A>>)
    <3>1. A = {u, t}
      BY <2>2
    <3> QED
      BY <1>8, <2>1, <3>1
  <2>4. R.type = "SUPPLIER_PAYMENT"
    BY <1>4, <1>8 DEF PaymentTypes
  <2>5. ASSUME NEW key \in Keys
        PROVE  DueIn(A, key) = IF key[1] = "debt" /\ R.supplier = key[2] THEN - R.amount ELSE 0
    <3>1. Brings(t, key) = 0
      BY <2>1, KeyCases DEF Brings
    <3>2. Brings(u, key) = IF key[1] = "debt" /\ R.supplier = key[2] THEN - R.amount ELSE 0
      BY <2>1, KeyCases DEF Brings, ChangeBalance
    <3>3. DueIn(A, key) = Brings(u, key)
      BY <2>2, <3>1, StageOf
    <3> QED
      BY <3>2, <3>3
  <2>6. u.op = "balance"
    BY <2>1 DEF ChangeBalance
  <2>7. /\ t \in A /\ t.op = "payment" /\ t.id = c /\ t.row = Payment(R.type, R.amount, R.supplier, ByItself)
        /\ t.row.supplier = R.supplier /\ \A v \in A \ {t} : v.op = "balance"
    BY <2>1, <2>2, <2>6 DEF Payment
  <2> QED
    BY <1>6, <2>3, <2>4, <2>5, <2>7
<1> QED
  BY <1>0, <1>5, <1>7, <1>8 DEF CreatePayment

(* An update of a payment that the balances follow.                        *)
LEMMA UpdatePaymentWork ==
  ASSUME Inv, Inv', Books, NEW c \in Calls, NEW s \in Sent(c), Account(c), UpdatePayment(c, s),
         UNCHANGED <<rows, total, receipts, transfers>>
  PROVE  Books'
<1>0. PICK R, D, old : R = Request(c) /\ D = R.doc /\ old = payments[D[2]]
  OBVIOUS
<1>1. s.op = "read" /\ R.op = "updatePayment" /\ UNCHANGED <<rows, total, balance, payments, receipts, transfers>>
  BY <1>0 DEF UpdatePayment
<1>2. Apt(c, R, call[c].stages) /\ Running(c) /\ Understood(c, R) /\ D \in Docs
  BY <1>0, <1>1, AtRead, SentFacts DEF Inv
<1>3. /\ D[1] = "payment" /\ D = <<"payment", D[2]>> /\ D[2] \in Ids
      /\ R.type \in PaymentTypes \cup {None} /\ R.amount \in AmountsPaid \cup {None}
  BY <1>0, <1>1, <1>2 DEF Apt, PaymentOps, Understood
<1>4. AmountsPaid \subseteq Int /\ None \notin AmountsPaid /\ None \notin PaymentTypes /\ None \notin Suppliers
  BY AmountsAreIntegers
<1>5. PICK row : row = Payment(Else(R.type, old.type), Else(R.amount, old.amount),
                               Else(R.supplier, old.supplier), old.accounted)
  OBVIOUS
<1>6. PICK t, P : t = [op |-> "payment", id |-> D[2], row |-> row] /\ P = {t}
  OBVIOUS
<1>7. CASE D[2] \notin DOMAIN payments
  <2>1. Refuse(c) /\ UNCHANGED disturbed
    BY <1>0, <1>7 DEF UpdatePayment
  <2> QED
    BY <1>1, <2>1, ThrownWork
<1>8. CASE D[2] \in DOMAIN payments
  <2>1. GoOn(c, <<P>> \o BalancesAfter(old, R)) /\ DisturbIf(c, Busy(c) \/ ~ AccountedUpdate(old, R))
    BY <1>0, <1>5, <1>6, <1>8 DEF UpdatePayment
  <2>2. old.type \in PaymentTypes /\ old.amount \in Int /\ old.supplier \in Suppliers \cup {None}
    BY <1>0, <1>8 DEF Inv, Tables, PaymentRow
  <2>3. /\ row.type = Else(R.type, old.type) /\ row.amount = Else(R.amount, old.amount)
        /\ row.supplier = Else(R.supplier, old.supplier) /\ row.accounted = old.accounted
    BY <1>5 DEF Payment
  <2>4. There(R) /\ Inserting(c, R, t)
    BY <1>0, <1>1, <1>6, <1>8 DEF There, Inserting
  <2>5. D \notin disturbed' => AccountedUpdate(old, R) /\ \A b \in Calls \ {c} : Late(b) => Request(b).doc # D
    BY <1>0, <2>1 DEF DisturbIf, Busy, Late, Reading
  <2>6. disturbed \subseteq disturbed' /\ D[1] \in Tracked
    BY <1>3, <2>1 DEF DisturbIf, Tracked
  <2>7. ASSUME NEW T, NEW more \in Seq(T), GoOn(c, more), Len(more) <= Most, t \in All(more),
               \A u \in All(more) \ {t} : u.op = "balance",
               ASSUME AccountedUpdate(old, R), NEW key \in Keys, key[1] = "debt"
               PROVE  Due(more, key) = (IF old.type = "SUPPLIER_PAYMENT" /\ old.supplier = key[2] THEN old.amount ELSE 0)
                                       - (IF row.type = "SUPPLIER_PAYMENT" /\ row.supplier = key[2] THEN row.amount ELSE 0),
               \A key \in Keys : key[1] # "debt" => Due(more, key) = 0
        PROVE  Books'
    <3>1. /\ \A u \in All(more) : u.op # "read" /\ u.op # "commit" /\ u.op \in {"payment", "balance"}
          /\ \A u \in All(more) : Writes(R, u) => u = t
          /\ t.op = "payment" /\ Writes(R, t) /\ t.row = row
      BY <1>1, <1>6, <2>7 DEF Writes, PaymentOps
    <3>2. \A u \in All(more) : Inserting(c, R, u) /\ u.op # "commit"
      BY <2>4, <2>7, <3>1 DEF Inserting
    <3>3. ASSUME D \notin disturbed', Resting(D) PROVE Working(R, more)
      <4>1. ASSUME NEW key \in Keys PROVE Owes(R, more, key)
        <5>1. Entry(D, key) = OfPayment(old, key)
          BY <1>0, <1>3, <1>8, <3>3 DEF Resting, Says
        <5>2. Aim(R, more, t, key) = OfPayment(row, key)
          BY <3>1 DEF Aim
        <5>3. OfPayment(row, key) = OfPayment(old, key) + Due(more, key)
          <6>1. CASE key[1] = "debt"
            <7>1. Due(more, key) = (IF old.type = "SUPPLIER_PAYMENT" /\ old.supplier = key[2] THEN old.amount ELSE 0)
                                   - (IF row.type = "SUPPLIER_PAYMENT" /\ row.supplier = key[2] THEN row.amount ELSE 0)
              BY <2>5, <2>7, <3>3, <6>1
            <7>2. row.amount \in Int /\ old.accounted.amount \in Int
              BY <1>0, <1>3, <1>4, <1>8, <2>2, <2>3 DEF Else, Inv, Tables, PaymentRow
            <7> QED
              BY <2>2, <2>3, <6>1, <7>1, <7>2 DEF OfPayment
          <6>2. CASE key[1] # "debt"
            BY <2>7, <6>2 DEF OfPayment
          <6> QED
            BY <6>1, <6>2
        <5> QED
          BY <1>0, <2>7, <3>1, <5>1, <5>2, <5>3 DEF Owes
      <4> QED
        BY <3>1, <4>1 DEF Working
    <3> QED
      BY <1>0, <1>1, <2>4, <2>5, <2>6, <2>7, <3>1, <3>2, <3>3, ReadWork
  <2>8. PICK amount, gb, nb :
          /\ amount = Else(R.amount, 0)
          /\ gb = IF old.supplier = None THEN {} ELSE {ChangeBalance(old.supplier, old.amount)}
          /\ nb = IF R.supplier = None THEN {} ELSE {ChangeBalance(R.supplier, -amount)}
    OBVIOUS
  <2>9. amount \in Int /\ (R.amount # None => amount = row.amount) /\ (R.amount = None => row.amount = old.amount)
    BY <1>3, <1>4, <2>3, <2>8 DEF Else
  <2>10. \A key \in Keys : DueIn(P, key) = 0
    <3>1. \A key \in Keys : \A u \in P : Brings(u, key) = 0
      BY <1>6, KeyCases DEF Brings
    <3> QED
      BY <3>1, StageOfNothing
  <2>11. ASSUME NEW key \in Keys
         PROVE  /\ DueIn(gb, key) = IF key[1] = "debt" /\ old.supplier = key[2] THEN old.amount ELSE 0
                /\ DueIn(nb, key) = IF key[1] = "debt" /\ R.supplier = key[2] THEN - amount ELSE 0
    <3>1. key[1] = "debt" => key[2] # None
      BY <1>4, KeyCases
    <3>2. DueIn(gb, key) = IF key[1] = "debt" /\ old.supplier = key[2] THEN old.amount ELSE 0
      <4>1. CASE old.supplier = None
        BY <2>8, <3>1, <4>1, StageOfNothing
      <4>2. CASE old.supplier # None
        BY <2>2, <2>8, <4>2, DueBalance
      <4> QED
        BY <4>1, <4>2
    <3>3. DueIn(nb, key) = IF key[1] = "debt" /\ R.supplier = key[2] THEN - amount ELSE 0
      <4>1. CASE R.supplier = None
        BY <2>8, <3>1, <4>1, StageOfNothing
      <4>2. CASE R.supplier # None
        <5>1. - amount \in Int
          BY <2>9
        <5> QED
          BY <2>8, <4>2, <5>1, DueBalance
      <4> QED
        BY <4>1, <4>2
    <3> QED
      BY <3>2, <3>3
  <2>12. \A u \in gb \cup nb : u.op = "balance"
    BY <2>8 DEF ChangeBalance
  <2>13. CASE R.type = "SUPPLIER_PAYMENT" /\ R.supplier # old.supplier
    <3>1. PICK more : more = <<P, gb, nb>>
      OBVIOUS
    <3>2. more \in Seq({P, gb, nb}) /\ Len(more) = 3 /\ All(more) = P \cup gb \cup nb
      BY <3>1 DEF All
    <3>3. GoOn(c, more)
      <4>1. BalancesAfter(old, R) = <<gb, nb>>
        BY <2>8, <2>13 DEF BalancesAfter
      <4>2. <<P>> \o <<gb, nb>> = more
        BY <3>1, ThreeStages
      <4> QED
        BY <2>1, <4>1, <4>2
    <3>4. \A key \in Keys : Due(more, key) = DueIn(gb, key) + DueIn(nb, key)
      <4>1. ASSUME NEW key \in Keys PROVE Due(more, key) = DueIn(gb, key) + DueIn(nb, key)
        <5>1. DueIn(P, key) = 0 /\ DueIn(gb, key) \in Int /\ DueIn(nb, key) \in Int
          BY <2>2, <2>9, <2>10, <2>11
        <5> QED
          BY <3>1, <5>1, DueShort
      <4> QED
        BY <4>1
    <3>5. ASSUME AccountedUpdate(old, R), NEW key \in Keys, key[1] = "debt"
          PROVE  Due(more, key) = (IF old.type = "SUPPLIER_PAYMENT" /\ old.supplier = key[2] THEN old.amount ELSE 0)
                                  - (IF row.type = "SUPPLIER_PAYMENT" /\ row.supplier = key[2] THEN row.amount ELSE 0)
      <4>1. /\ R.amount # None /\ R.supplier # None
            /\ old.type = "SUPPLIER_PAYMENT" \/ old.supplier = None
        BY <1>4, <2>13, <3>5 DEF AccountedUpdate, PaymentTypes
      <4>2. row.type = "SUPPLIER_PAYMENT" /\ row.supplier = R.supplier /\ row.amount = amount
        BY <1>4, <2>3, <2>9, <2>13, <4>1 DEF Else, PaymentTypes
      <4>3. key[2] # None
        BY <1>4, <3>5, KeyCases
      <4>4. DueIn(gb, key) = IF old.supplier = key[2] THEN old.amount ELSE 0
        BY <2>11, <3>5
      <4>5. DueIn(nb, key) = IF R.supplier = key[2] THEN - amount ELSE 0
        BY <2>11, <3>5
      <4> QED
        BY <2>2, <2>9, <3>4, <4>1, <4>2, <4>3, <4>4, <4>5
    <3>6. \A key \in Keys : key[1] # "debt" => Due(more, key) = 0
      BY <2>11, <3>4
    <3>7. t \in All(more) /\ (\A u \in All(more) \ {t} : u.op = "balance") /\ Len(more) <= Most
      BY <1>6, <2>12, <3>2 DEF Most
    <3> QED
      BY <2>7, <3>2, <3>3, <3>5, <3>6, <3>7
  <2>14. CASE R.type = "SUPPLIER_PAYMENT" /\ R.supplier = old.supplier /\ amount # old.amount /\ R.supplier # None
    <3>0. PICK B : B = {ChangeBalance(R.supplier, old.amount - amount)}
      OBVIOUS
    <3>1. PICK more : more = <<P, B>>
      OBVIOUS
    <3>2. more \in Seq({P, B}) /\ Len(more) = 2 /\ All(more) = P \cup B
      BY <3>1 DEF All
    <3>3. GoOn(c, more)
      <4>1. BalancesAfter(old, R) = <<B>>
        BY <2>8, <2>14, <3>0 DEF BalancesAfter
      <4>2. <<P>> \o <<B>> = more
        BY <3>1, TwoStages
      <4> QED
        BY <2>1, <4>1, <4>2
    <3>4. ASSUME NEW key \in Keys
          PROVE  Due(more, key) = IF key[1] = "debt" /\ R.supplier = key[2] THEN old.amount - amount ELSE 0
      <4>1. old.amount - amount \in Int
        BY <2>2, <2>9
      <4>2. DueIn(B, key) = IF key[1] = "debt" /\ R.supplier = key[2] THEN old.amount - amount ELSE 0
        BY <3>0, <4>1, DueBalance
      <4>3. DueIn(P, key) = 0 /\ DueIn(B, key) \in Int
        BY <2>10, <4>1, <4>2
      <4> QED
        BY <3>1, <4>2, <4>3, DueShort
    <3>5. ASSUME AccountedUpdate(old, R), NEW key \in Keys, key[1] = "debt"
          PROVE  Due(more, key) = (IF old.type = "SUPPLIER_PAYMENT" /\ old.supplier = key[2] THEN old.amount ELSE 0)
                                  - (IF row.type = "SUPPLIER_PAYMENT" /\ row.supplier = key[2] THEN row.amount ELSE 0)
      <4>1. R.amount # None /\ old.type = "SUPPLIER_PAYMENT"
        BY <1>4, <2>14, <3>5 DEF AccountedUpdate, PaymentTypes
      <4>2. row.type = "SUPPLIER_PAYMENT" /\ row.supplier = R.supplier /\ row.amount = amount
        BY <1>4, <2>3, <2>9, <2>14, <4>1 DEF Else, PaymentTypes
      <4>3. Due(more, key) = IF R.supplier = key[2] THEN old.amount - amount ELSE 0
        BY <3>4, <3>5
      <4> QED
        BY <2>2, <2>9, <2>14, <4>1, <4>2, <4>3
    <3>6. \A key \in Keys : key[1] # "debt" => Due(more, key) = 0
      BY <3>4
    <3>7. t \in All(more) /\ (\A u \in All(more) \ {t} : u.op = "balance") /\ Len(more) <= Most
      BY <1>6, <3>0, <3>2 DEF Most, ChangeBalance
    <3> QED
      BY <2>7, <3>2, <3>3, <3>5, <3>6, <3>7
  <2>15. CASE R.type = "OTHER" /\ old.type = "SUPPLIER_PAYMENT"
    <3>1. PICK more : more = <<P, gb>>
      OBVIOUS
    <3>2. more \in Seq({P, gb}) /\ Len(more) = 2 /\ All(more) = P \cup gb
      BY <3>1 DEF All
    <3>3. GoOn(c, more)
      <4>1. BalancesAfter(old, R) = <<gb>>
        BY <2>8, <2>15 DEF BalancesAfter
      <4>2. <<P>> \o <<gb>> = more
        BY <3>1, TwoStages
      <4> QED
        BY <2>1, <4>1, <4>2
    <3>4. \A key \in Keys : Due(more, key) = DueIn(gb, key)
      <4>1. ASSUME NEW key \in Keys PROVE Due(more, key) = DueIn(gb, key)
        <5>1. DueIn(P, key) = 0 /\ DueIn(gb, key) \in Int
          BY <2>2, <2>10, <2>11
        <5> QED
          BY <3>1, <5>1, DueShort
      <4> QED
        BY <4>1
    <3>5. ASSUME AccountedUpdate(old, R), NEW key \in Keys, key[1] = "debt"
          PROVE  Due(more, key) = (IF old.type = "SUPPLIER_PAYMENT" /\ old.supplier = key[2] THEN old.amount ELSE 0)
                                  - (IF row.type = "SUPPLIER_PAYMENT" /\ row.supplier = key[2] THEN row.amount ELSE 0)
      <4>1. row.type = "OTHER"
        BY <1>4, <2>3, <2>15 DEF Else, PaymentTypes
      <4>2. DueIn(gb, key) = IF old.supplier = key[2] THEN old.amount ELSE 0
        BY <2>11, <3>5
      <4> QED
        BY <2>2, <2>15, <3>4, <4>1, <4>2
    <3>6. \A key \in Keys : key[1] # "debt" => Due(more, key) = 0
      BY <2>11, <3>4
    <3>7. t \in All(more) /\ (\A u \in All(more) \ {t} : u.op = "balance") /\ Len(more) <= Most
      BY <1>6, <2>12, <3>2 DEF Most
    <3> QED
      BY <2>7, <3>2, <3>3, <3>5, <3>6, <3>7
  <2>16. CASE /\ ~ (R.type = "SUPPLIER_PAYMENT" /\ R.supplier # old.supplier)
              /\ ~ (R.type = "SUPPLIER_PAYMENT" /\ R.supplier = old.supplier /\ amount # old.amount /\ R.supplier # None)
              /\ ~ (R.type = "OTHER" /\ old.type = "SUPPLIER_PAYMENT")
    <3>1. PICK more : more = <<P>>
      OBVIOUS
    <3>2. more \in Seq({P}) /\ Len(more) = 1 /\ All(more) = P
      BY <3>1 DEF All
    <3>3. GoOn(c, more)
      <4>1. BalancesAfter(old, R) = <<>>
        BY <2>8, <2>16 DEF BalancesAfter
      <4>2. <<P>> \o <<>> = more
        BY <3>1
      <4> QED
        BY <2>1, <4>1, <4>2
    <3>4. \A key \in Keys : Due(more, key) = 0
      <4>1. ASSUME NEW key \in Keys PROVE Due(more, key) = 0
        <5>1. DueIn(P, key) = 0
          BY <2>10
        <5> QED
          BY <3>1, <5>1, DueShort
      <4> QED
        BY <4>1
    <3>5. ASSUME AccountedUpdate(old, R), NEW key \in Keys, key[1] = "debt"
          PROVE  Due(more, key) = (IF old.type = "SUPPLIER_PAYMENT" /\ old.supplier = key[2] THEN old.amount ELSE 0)
                                  - (IF row.type = "SUPPLIER_PAYMENT" /\ row.supplier = key[2] THEN row.amount ELSE 0)
      <4>1. Due(more, key) = 0
        BY <3>4
      <4>2. CASE R.type = "SUPPLIER_PAYMENT"
        <5>1. R.amount # None /\ R.supplier # None /\ old.type = "SUPPLIER_PAYMENT"
          BY <1>4, <2>16, <3>5, <4>2 DEF AccountedUpdate, PaymentTypes
        <5>2. row.type = "SUPPLIER_PAYMENT" /\ row.supplier = old.supplier /\ row.amount = old.amount
          BY <1>4, <2>3, <2>9, <2>16, <4>2, <5>1 DEF Else, PaymentTypes
        <5> QED
          BY <2>2, <4>1, <5>1, <5>2
      <4>3. CASE R.type = "OTHER"
        <5>1. row.type = "OTHER" /\ old.type = "OTHER"
          BY <1>4, <2>2, <2>3, <2>16, <4>3 DEF Else, PaymentTypes
        <5> QED
          BY <4>1, <5>1
      <4>4. CASE R.type = None
        <5>1. row.type = old.type
          BY <2>3, <4>4 DEF Else
        <5>2. old.type = "OTHER" \/ (R.amount = None /\ R.supplier = None)
          BY <1>4, <3>5, <4>4 DEF AccountedUpdate, PaymentTypes
        <5>3. CASE old.type = "OTHER"
          BY <4>1, <5>1, <5>3
        <5>4. CASE R.amount = None /\ R.supplier = None
          <6>1. row.supplier = old.supplier /\ row.amount = old.amount
            BY <2>3, <5>4 DEF Else
          <6> QED
            BY <2>2, <4>1, <5>1, <6>1
        <5> QED
          BY <5>2, <5>3, <5>4
      <4> QED
        BY <1>3, <4>2, <4>3, <4>4 DEF PaymentTypes
    <3>6. \A key \in Keys : key[1] # "debt" => Due(more, key) = 0
      BY <3>4
    <3>7. t \in All(more) /\ (\A u \in All(more) \ {t} : u.op = "balance") /\ Len(more) <= Most
      BY <1>6, <3>2 DEF Most
    <3> QED
      BY <2>7, <3>2, <3>3, <3>5, <3>6, <3>7
  <2> QED
    BY <2>13, <2>14, <2>15, <2>16
<1> QED
  BY <1>7, <1>8

(* A new receipt: all that it says is ahead.                               *)
LEMMA CreateReceiptWork ==
  ASSUME Inv, Inv', Books, NEW c \in Calls, NEW s \in Sent(c), Account(c), CreateReceipt(c, s),
         UNCHANGED transfers
  PROVE  Books'
<1>0. PICK R, D : R = Request(c) /\ D = R.doc
  OBVIOUS
<1>1. s.op = "read" /\ R.op = "createReceipt" /\ UNCHANGED <<rows, total, balance, payments, receipts, transfers, disturbed>>
  BY <1>0 DEF CreateReceipt
<1>2. /\ Unborn(c) /\ There(R) /\ D = <<D[1], c>>
      /\ \A b \in Calls \ {c} : Late(b) => Request(b).doc # D
      /\ \A key \in Keys : Says(D, key) = 0
  BY <1>0, <1>1, NewDocument
<1>3. Apt(c, R, call[c].stages) /\ Running(c) /\ Understood(c, R)
  BY <1>0, <1>1, AtRead, SentFacts DEF Inv
<1>4. /\ D[1] = "receipt" /\ R.lines \in Deliveries /\ R.paid \in Int
  BY <1>0, <1>1, <1>3, AmountsAreIntegers DEF Apt, ReceiptOps, Understood
<1>5. AreLines(R.lines) /\ Amount(R.lines) \in Int
  BY <1>4, ReceiptsAssumption, AmountType
<1>6. CASE Refuse(c)
  BY <1>1, <1>6, ThrownWork
<1>7. CASE ~ Refuse(c)
  <2>1. PICK changes, t, B, I :
          /\ changes = [v \in DOMAIN R.lines |-> R.lines[v].quantity]
          /\ t = [op |-> "recordReceipt", missing |-> MissingRows(R.lines, R.warehouse)]
          /\ B = {ChangeBalance(R.supplier, Amount(R.lines) - R.paid)}
          /\ I = Increments(changes, R.warehouse) \cup B
    OBVIOUS
  <2>2. R.supplier \in Suppliers /\ R.warehouse \in Warehouses /\ GoOn(c, <<{t}, I>>)
    BY <1>0, <1>7, <2>1 DEF CreateReceipt
  <2>3. PICK more : more = <<{t}, I>>
    OBVIOUS
  <2>4. more \in Seq({{t}, I}) /\ Len(more) = 2 /\ All(more) = {t} \cup I
    BY <2>3 DEF All
  <2>5. DOMAIN changes = DOMAIN R.lines /\ DOMAIN changes \subseteq Variants
        /\ \A v \in DOMAIN changes : changes[v] \in Int /\ changes[v] = R.lines[v].quantity
    BY <1>5, <2>1 DEF AreLines
  <2>6. \A u \in I : u.op \in {"total", "rows", "balance"}
    <3>1. \A u \in Increments(changes, R.warehouse) : u.op \in {"total", "rows"}
      BY <2>2, <2>5, IncrementsFacts
    <3> QED
      BY <2>1, <3>1 DEF ChangeBalance
  <2>7. ASSUME NEW key \in Keys
        PROVE  /\ DueIn({t}, key) = 0
               /\ DueIn(I, key) =
                    IF key[1] = "debt" THEN (IF R.supplier = key[2] THEN Amount(R.lines) - R.paid ELSE 0)
                    ELSE IF key[2] \in DOMAIN R.lines /\ (key[1] = "goods" => key[3] = R.warehouse)
                      THEN R.lines[key[2]].quantity ELSE 0
               /\ DueIn(I, key) \in Int
    <3>1. \A u \in {t} : Brings(u, key) = 0
      BY <2>1, KeyCases DEF Brings
    <3>2. DueIn({t}, key) = 0
      BY <3>1, StageOfNothing
    <3>3. Amount(R.lines) - R.paid \in Int
      BY <1>4, <1>5
    <3>4. DueIn(B, key) = IF key[1] = "debt" /\ R.supplier = key[2] THEN Amount(R.lines) - R.paid ELSE 0
      BY <2>1, <3>3, DueBalance
    <3>5. \A u \in B : u.op = "balance"
      BY <2>1 DEF ChangeBalance
    <3>6. DueIn(I, key) =
            IF key[1] = "debt" THEN DueIn(B, key)
            ELSE IF key[2] \in DOMAIN changes /\ (key[1] = "goods" => key[3] = R.warehouse) THEN changes[key[2]] ELSE 0
      <4>1. DOMAIN changes \subseteq Variants /\ \A v \in DOMAIN changes : changes[v] \in Int
        BY <2>5
      <4>2. PICK w : w = R.warehouse
        OBVIOUS
      <4>3. I = Increments(changes, w) \cup B /\ w \in Warehouses
        BY <2>1, <2>2, <4>2
      <4>4. DueIn(I, key) =
              IF key[1] = "debt" THEN DueIn(B, key)
              ELSE IF key[2] \in DOMAIN changes /\ (key[1] = "goods" => key[3] = w) THEN changes[key[2]] ELSE 0
        <5>1. key[1] = "debt" => DueIn(Increments(changes, w) \cup B, key) = DueIn(B, key)
          BY <3>5, <4>1, <4>3, DueIncrements
        <5>2. key[1] # "debt" /\ key[2] \in DOMAIN changes /\ (key[1] = "goods" => key[3] = w)
                => DueIn(Increments(changes, w) \cup B, key) = changes[key[2]]
          BY <3>5, <4>1, <4>3, DueIncrements
        <5>3. key[1] # "debt" /\ ~ (key[2] \in DOMAIN changes /\ (key[1] = "goods" => key[3] = w))
                => DueIn(Increments(changes, w) \cup B, key) = DueIn({}, key)
          BY <3>5, <4>1, <4>3, DueIncrements
        <5>4. DueIn({}, key) = 0
          BY StageOfNothing
        <5> QED
          BY <4>3, <5>1, <5>2, <5>3, <5>4
      <4> QED
        BY <4>2, <4>4
    <3> QED
      BY <2>5, <3>2, <3>3, <3>4, <3>6
  <2>8. \A u \in All(more) : /\ u.op # "read" /\ u.op # "commit" /\ u.op \in {"recordReceipt", "total", "rows", "balance"}
                             /\ u.op = "recordReceipt" => u = t
    BY <2>1, <2>4, <2>6
  <2>9. \A u \in All(more) : Inserting(c, R, u) /\ u.op # "commit"
    BY <1>2, <2>8 DEF Inserting, Unborn
  <2>10. ASSUME Resting(D) PROVE Working(R, more)
    <3>1. ASSUME NEW key \in Keys PROVE Owes(R, more, key)
      <4>1. Entry(D, key) = 0
        BY <1>2, <2>10 DEF Resting
      <4>2. Due(more, key) = DueIn(I, key)
        <5>1. DueIn({t}, key) \in Int /\ DueIn(I, key) \in Int /\ DueIn({t}, key) = 0
          BY <2>7
        <5> QED
          BY <2>3, <5>1, DueShort
      <4>3. Aim(R, more, t, key) = OfReceipt(Described(R, R.warehouse), key)
        BY <2>1 DEF Aim
      <4>4. OfReceipt(Described(R, R.warehouse), key) = DueIn(I, key)
        <5>1. PICK y : y = Described(R, R.warehouse)
          OBVIOUS
        <5>2. /\ ~ y.isArchived /\ y.warehouse = R.warehouse /\ y.lines = R.lines /\ y.supplier = R.supplier
              /\ y.outstanding = Amount(R.lines) - R.paid
          BY <5>1 DEF Described
        <5> QED
          BY <2>7, <5>1, <5>2, KeyCases DEF OfReceipt
      <4>5. t \in All(more) /\ Writes(R, t) /\ \A u \in All(more) : Writes(R, u) => u = t
        BY <2>1, <2>4, <2>8 DEF Writes
      <4> QED
        BY <1>0, <2>7, <4>1, <4>2, <4>3, <4>4, <4>5 DEF Owes
    <3> QED
      BY <2>8, <3>1 DEF Working
  <2>11. D[1] \in Tracked /\ disturbed \subseteq disturbed' /\ Len(more) <= Most
    BY <1>1, <1>4, <2>4 DEF Tracked, Most
  <2>12. UNCHANGED <<rows, total, balance, payments, receipts, transfers>> /\ GoOn(c, more)
    BY <1>1, <2>2, <2>3
  <2> QED
    BY <1>0, <1>1, <1>2, <2>4, <2>8, <2>9, <2>10, <2>11, <2>12, ReadWork
<1> QED
  BY <1>6, <1>7

(* A receipt is archived or restored: all that it says is taken, or given. *)
LEMMA ArchiveReceiptWork ==
  ASSUME Inv, Inv', Books, NEW c \in Calls, NEW s \in Sent(c), Account(c), ArchiveReceipt(c, s),
         UNCHANGED transfers
  PROVE  Books'
<1>0. PICK R, D, old : R = Request(c) /\ D = R.doc /\ old = receipts[D[2]]
  OBVIOUS
<1>1. /\ s.op = "read" /\ R.op \in {"archiveReceipt", "restoreReceipt"}
      /\ UNCHANGED <<rows, total, balance, payments, receipts, transfers>>
  BY <1>0 DEF ArchiveReceipt
<1>2. Apt(c, R, call[c].stages) /\ Running(c) /\ Understood(c, R) /\ D \in Docs
  BY <1>0, <1>1, AtRead, SentFacts DEF Inv
<1>3. D[1] = "receipt" /\ D = <<"receipt", D[2]>>
  BY <1>0, <1>1, <1>2 DEF Apt, ReceiptOps
<1>4. CASE D[2] \notin DOMAIN receipts
  <2>1. Refuse(c) /\ UNCHANGED disturbed
    BY <1>0, <1>4 DEF ArchiveReceipt
  <2> QED
    BY <1>1, <2>1, ThrownWork
<1>5. CASE D[2] \in DOMAIN receipts
  <2>1. PICK sign : sign = IF R.op = "archiveReceipt" THEN -1 ELSE 1
    OBVIOUS
  <2>2. PICK t, b, E :
          /\ t = [op |-> "markReceipt"] /\ b = ChangeBalance(old.supplier, sign * old.outstanding)
          /\ E = {[op |-> "everywhere", variant |-> v, quantity |-> sign * old.lines[v].quantity] : v \in DOMAIN old.lines}
    OBVIOUS
  <2>3. PICK A : A = IF old.isArchived = (R.op = "archiveReceipt") THEN {} ELSE E \cup {b, t}
    OBVIOUS
  <2>4. GoOn(c, <<A>>) /\ DisturbIf(c, Busy(c))
    BY <1>0, <1>5, <2>1, <2>2, <2>3 DEF ArchiveReceipt
  <2>5. IsReceipt(old) /\ old.lines \in [DOMAIN old.lines -> [quantity : Int, price : Int]]
        /\ old.outstanding \in Int /\ old.isArchived \in BOOLEAN
    BY <1>0, <1>5 DEF Inv, Tables, IsReceipt, AreLines
  <2>6. PICK more : more = <<A>>
    OBVIOUS
  <2>7. more \in Seq({A}) /\ Len(more) = 1 /\ All(more) = A
    BY <2>6 DEF All
  <2>8. \A u \in All(more) : u.op \in {"everywhere", "balance", "markReceipt"} /\ (u.op = "markReceipt" => u = t)
    BY <2>2, <2>3, <2>7 DEF ChangeBalance
  <2>9. There(R) /\ \A u \in All(more) : Inserting(c, R, u) /\ u.op # "commit" /\ u.op # "read"
    BY <1>0, <1>1, <1>5, <2>8 DEF Inserting, There
  <2>10. D \notin disturbed' => \A d \in Calls \ {c} : Late(d) => Request(d).doc # D
    BY <1>0, <2>4 DEF DisturbIf, Busy, Late, Reading
  <2>11. disturbed \subseteq disturbed' /\ D[1] \in Tracked /\ Len(more) <= Most
    BY <1>3, <2>4, <2>7 DEF DisturbIf, Tracked, Most
  <2>12. ASSUME Resting(D) PROVE Working(R, more)
    <3>1. ASSUME NEW key \in Keys, AtHome(R, key) PROVE Owes(R, more, key)
      <4>1. Entry(D, key) = OfReceipt(old, key) /\ Says(D, key) = OfReceipt(old, key)
        BY <1>0, <1>3, <1>5, <2>12 DEF Resting, Says
      <4>2. Entry(D, key) \in Int
        BY <1>2, EntryType DEF Books
      <4>3. CASE old.isArchived = (R.op = "archiveReceipt")
        <5>1. Due(more, key) = 0
          <6>1. A = {} /\ DueIn(A, key) = 0
            BY <2>3, <4>3, StageOfNothing
          <6>2. DueIn(A, key) \in Int
            BY <6>1
          <6> QED
            BY <2>6, <6>1, <6>2, DueShort
        <5>2. All(more) = {}
          BY <2>3, <2>7, <4>3
        <5> QED
          BY <1>0, <4>1, <4>2, <5>1, <5>2 DEF Owes
      <4>4. CASE old.isArchived # (R.op = "archiveReceipt")
        <5>1. A = E \cup {b, t}
          BY <2>3, <4>4
        <5>2. Brings(t, key) = 0
          BY <2>2, KeyCases DEF Brings
        <5>3. PICK y : y = [old EXCEPT !.isArchived = R.op = "archiveReceipt"]
          OBVIOUS
        <5>4. /\ y.isArchived = (R.op = "archiveReceipt") /\ y.supplier = old.supplier /\ y.lines = old.lines
              /\ y.warehouse = old.warehouse /\ y.outstanding = old.outstanding
          BY <2>5, <5>3 DEF IsReceipt
        <5>5. Aim(R, more, t, key) = OfReceipt(y, key)
          BY <1>0, <2>2, <5>3 DEF Aim
        <5>41. /\ R.op = "archiveReceipt" => old.isArchived = FALSE /\ y.isArchived = TRUE
               /\ R.op # "archiveReceipt" => old.isArchived = TRUE /\ y.isArchived = FALSE
          BY <2>5, <4>4, <5>4
        <5>42. \A z : z.isArchived = TRUE => OfReceipt(z, key) = 0
          BY DEF OfReceipt
        <5>6. DueIn(A, key) \in Int /\ OfReceipt(y, key) = OfReceipt(old, key) + DueIn(A, key)
          <6>1. CASE key[1] = "debt"
            <7>1. Brings(b, key) = IF old.supplier = key[2] THEN sign * old.outstanding ELSE 0
              BY <2>2, <6>1 DEF Brings, ChangeBalance
            <7>2. \A u \in A \ {b} : Brings(u, key) = 0
              BY <2>2, <5>1, <5>2, <6>1 DEF Brings
            <7>3. DueIn(A, key) = Brings(b, key)
              BY <5>1, <7>2, StageOf
            <7>4. CASE R.op = "archiveReceipt"
              <8>1. Brings(b, key) = IF old.supplier = key[2] THEN - old.outstanding ELSE 0
                BY <2>1, <2>5, <7>1, <7>4
              <8> QED
                BY <2>5, <5>4, <5>41, <5>42, <6>1, <7>3, <7>4, <8>1 DEF OfReceipt
            <7>5. CASE R.op # "archiveReceipt"
              <8>1. Brings(b, key) = IF old.supplier = key[2] THEN old.outstanding ELSE 0
                BY <2>1, <2>5, <7>1, <7>5
              <8> QED
                BY <2>5, <5>4, <5>41, <5>42, <6>1, <7>3, <7>5, <8>1 DEF OfReceipt
            <7> QED
              BY <7>4, <7>5
          <6>2. CASE key[1] # "debt"
            <7>1. Brings(b, key) = 0
              BY <2>2, <6>2, KeyCases DEF Brings, ChangeBalance
            <7>2. key[1] = "goods" => (key[3] = key[4] <=> key[3] = old.warehouse)
              BY <1>0, <1>1, <3>1 DEF AtHome
            <7>3. CASE key[2] \in DOMAIN old.lines
              <8>1. PICK e : e = [op |-> "everywhere", variant |-> key[2], quantity |-> sign * old.lines[key[2]].quantity]
                OBVIOUS
              <8>2. e \in A
                BY <2>2, <5>1, <7>3, <8>1
              <8>3. \A u \in A \ {e} : Brings(u, key) = 0
                <9>1. \A u \in E : u.op = "everywhere" /\ (u.variant = key[2] => u = e)
                  BY <2>2, <8>1
                <9>2. \A u \in E : u # e => Brings(u, key) = 0
                  BY <6>2, <9>1, KeyCases DEF Brings
                <9> QED
                  BY <5>1, <5>2, <7>1, <9>2
              <8>4. DueIn(A, key) = Brings(e, key)
                BY <8>2, <8>3, StageOf
              <8>5. Brings(e, key) = IF key[1] = "goods" => key[3] = old.warehouse
                                       THEN sign * old.lines[key[2]].quantity ELSE 0
                BY <6>2, <7>2, <8>1, KeyCases DEF Brings
              <8>6. old.lines[key[2]].quantity \in Int
                BY <2>5, <7>3
              <8>7. CASE R.op = "archiveReceipt"
                <9>1. Brings(e, key) = IF key[1] = "goods" => key[3] = old.warehouse THEN - old.lines[key[2]].quantity ELSE 0
                  BY <2>1, <8>5, <8>6, <8>7
                <9> QED
                  BY <5>4, <5>41, <5>42, <6>2, <7>3, <8>4, <8>6, <8>7, <9>1, KeyCases DEF OfReceipt
              <8>8. CASE R.op # "archiveReceipt"
                <9>1. Brings(e, key) = IF key[1] = "goods" => key[3] = old.warehouse THEN old.lines[key[2]].quantity ELSE 0
                  BY <2>1, <8>5, <8>6, <8>8
                <9> QED
                  BY <5>4, <5>41, <5>42, <6>2, <7>3, <8>4, <8>6, <8>8, <9>1, KeyCases DEF OfReceipt
              <8> QED
                BY <8>7, <8>8
            <7>4. CASE key[2] \notin DOMAIN old.lines
              <8>1. \A u \in E : Brings(u, key) = 0
                BY <2>2, <6>2, <7>4, KeyCases DEF Brings
              <8>2. DueIn(A, key) = 0
                BY <5>1, <5>2, <7>1, <8>1, StageOfNothing
              <8> QED
                BY <5>4, <6>2, <7>4, <8>2, KeyCases DEF OfReceipt
            <7> QED
              BY <7>3, <7>4
          <6> QED
            BY <6>1, <6>2
        <5>7. Due(more, key) = DueIn(A, key)
          BY <2>6, <5>6, DueShort
        <5>8. t \in All(more) /\ Writes(R, t) /\ \A u \in All(more) : Writes(R, u) => u = t
          BY <2>2, <2>7, <2>8, <5>1 DEF Writes
        <5> QED
          BY <1>0, <4>1, <5>5, <5>6, <5>7, <5>8 DEF Owes
      <4> QED
        BY <4>3, <4>4
    <3> QED
      BY <2>8, <3>1 DEF Working
  <2> QED
    BY <1>0, <1>1, <2>4, <2>6, <2>7, <2>9, <2>10, <2>11, <2>12, ReadWork
<1> QED
  BY <1>4, <1>5

(* Eight stages, five and three: what is in them, and what they bring.     *)
Eight(more, A1, A2, A3, A4, A5, B1, B2, B3) ==
  /\ All(more) = A1 \cup A2 \cup A3 \cup A4 \cup A5 \cup B1 \cup B2 \cup B3
  /\ \A key : (\A X \in {A1, A2, A3, A4, A5, B1, B2, B3} : DueIn(X, key) \in Int) =>
       Due(more, key) = DueIn(A1, key) + DueIn(A2, key) + DueIn(A3, key) + DueIn(A4, key)
                        + DueIn(A5, key) + DueIn(B1, key) + DueIn(B2, key) + DueIn(B3, key)
(* Five stages and then three are eight, and what is due in them is what   *)
(* is due in each.                                                         *)
LEMMA EightStages ==
  ASSUME NEW A1, NEW A2, NEW A3, NEW A4, NEW A5, NEW B1, NEW B2, NEW B3,
         NEW more, more = <<A1, A2, A3, A4, A5>> \o <<B1, B2, B3>>
  PROVE  /\ more \in Seq({A1, A2, A3, A4, A5, B1, B2, B3}) /\ Len(more) = 8
         /\ Eight(more, A1, A2, A3, A4, A5, B1, B2, B3)
<1> DEFINE T == {A1, A2, A3, A4, A5, B1, B2, B3}
<1>1. PICK p, b : p = <<A1, A2, A3, A4, A5>> /\ b = <<B1, B2, B3>>
  OBVIOUS
<1>2. /\ p \in Seq(T) /\ Len(p) = 5 /\ p[1] = A1 /\ p[2] = A2 /\ p[3] = A3 /\ p[4] = A4 /\ p[5] = A5
      /\ b \in Seq(T) /\ Len(b) = 3 /\ b[1] = B1 /\ b[2] = B2 /\ b[3] = B3
  BY <1>1
<1>21. more = p \o b
  BY <1>1
<1> HIDE DEF T
<1>3. more \in Seq(T) /\ Len(more) = 8 /\ DOMAIN more = 1..8
  <2>1. ASSUME NEW x \in Seq(T), NEW y \in Seq(T)
        PROVE  x \o y \in Seq(T) /\ Len(x \o y) = Len(x) + Len(y)
    OBVIOUS
  <2>2. more \in Seq(T) /\ Len(more) = 5 + 3
    BY <1>2, <1>21, <2>1
  <2> QED
    BY <2>2
<1>4. \A i \in 1..8 : more[i] = IF i <= 5 THEN p[i] ELSE b[i - 5]
  BY <1>2, <1>21
<1>5. /\ more[1] = A1 /\ more[2] = A2 /\ more[3] = A3 /\ more[4] = A4 /\ more[5] = A5
      /\ more[6] = B1 /\ more[7] = B2 /\ more[8] = B3
  BY <1>2, <1>4
<1>6. All(more) = A1 \cup A2 \cup A3 \cup A4 \cup A5 \cup B1 \cup B2 \cup B3
  <2>1. \A t : t \in All(more) <=> \E i \in 1..8 : t \in more[i]
    BY <1>3 DEF All
  <2>2. \A i \in 1..8 : i = 1 \/ i = 2 \/ i = 3 \/ i = 4 \/ i = 5 \/ i = 6 \/ i = 7 \/ i = 8
    OBVIOUS
  <2>3. ASSUME NEW t
        PROVE  t \in All(more) <=>
                 t \in A1 \/ t \in A2 \/ t \in A3 \/ t \in A4 \/ t \in A5 \/ t \in B1 \/ t \in B2 \/ t \in B3
    <3>1. t \in All(more) =>
            t \in A1 \/ t \in A2 \/ t \in A3 \/ t \in A4 \/ t \in A5 \/ t \in B1 \/ t \in B2 \/ t \in B3
      BY <1>5, <2>1, <2>2
    <3>2. 1 \in 1..8 /\ 2 \in 1..8 /\ 3 \in 1..8 /\ 4 \in 1..8 /\ 5 \in 1..8 /\ 6 \in 1..8 /\ 7 \in 1..8 /\ 8 \in 1..8
      OBVIOUS
    <3>3. t \in A1 \/ t \in A2 \/ t \in A3 \/ t \in A4 \/ t \in A5 \/ t \in B1 \/ t \in B2 \/ t \in B3
            => t \in All(more)
      BY <1>5, <2>1, <3>2
    <3> QED
      BY <3>1, <3>3
  <2> QED
    BY <2>3
<1>7. /\ At(more, 1) = B3 /\ At(more, 2) = B2 /\ At(more, 3) = B1 /\ At(more, 4) = A5
      /\ At(more, 5) = A4 /\ At(more, 6) = A3 /\ At(more, 7) = A2 /\ At(more, 8) = A1
  BY <1>3, <1>5 DEF At
<1>8. ASSUME NEW key, \A X \in T : DueIn(X, key) \in Int
      PROVE  Due(more, key) = DueIn(A1, key) + DueIn(A2, key) + DueIn(A3, key) + DueIn(A4, key)
                              + DueIn(A5, key) + DueIn(B1, key) + DueIn(B2, key) + DueIn(B3, key)
  <2>1. PICK f : f = Dues(more, key)
    OBVIOUS
  <2>2. f = [k \in 1..8 |-> DueIn(At(more, k), key)]
    BY <2>1 DEF Dues, Most
  <2>3. /\ f[1] = DueIn(B3, key) /\ f[2] = DueIn(B2, key) /\ f[3] = DueIn(B1, key) /\ f[4] = DueIn(A5, key)
        /\ f[5] = DueIn(A4, key) /\ f[6] = DueIn(A3, key) /\ f[7] = DueIn(A2, key) /\ f[8] = DueIn(A1, key)
    BY <1>7, <2>2
  <2>4. /\ DueIn(B3, key) \in Int /\ DueIn(B2, key) \in Int /\ DueIn(B1, key) \in Int /\ DueIn(A5, key) \in Int
        /\ DueIn(A4, key) \in Int /\ DueIn(A3, key) \in Int /\ DueIn(A2, key) \in Int /\ DueIn(A1, key) \in Int
    BY <1>8 DEF T
  <2>5. \A k \in 1..8 : f[k] \in Int
    <3>1. \A i \in 1..8 : i = 1 \/ i = 2 \/ i = 3 \/ i = 4 \/ i = 5 \/ i = 6 \/ i = 7 \/ i = 8
      OBVIOUS
    <3> QED
      BY <2>3, <2>4, <3>1
  <2>6. f \in [1..Most -> Int]
    <3>1. f = [k \in 1..8 |-> f[k]]
      BY <2>2
    <3>2. f \in [1..8 -> Int]
      BY <2>5, <3>1
    <3> QED
      BY <3>2 DEF Most
  <2>7. Due(more, key) = f[1] + f[2] + f[3] + f[4] + f[5] + f[6] + f[7] + f[8]
    BY <2>1, <2>6, EightDues
  <2> QED
    BY <2>3, <2>4, <2>7
<1>9. Eight(more, A1, A2, A3, A4, A5, B1, B2, B3)
  <2>1. \A key : (\A X \in {A1, A2, A3, A4, A5, B1, B2, B3} : DueIn(X, key) \in Int) =>
          Due(more, key) = DueIn(A1, key) + DueIn(A2, key) + DueIn(A3, key) + DueIn(A4, key)
                           + DueIn(A5, key) + DueIn(B1, key) + DueIn(B2, key) + DueIn(B3, key)
    BY <1>8, Zenon DEF T
  <2> QED
    BY <1>6, <2>1, Zenon DEF Eight
<1> QED
  BY <1>3, <1>9 DEF T

(* What the last three stages of an update of a receipt bring: the old     *)
(* debt goes, and the new one comes.                                       *)
LEMMA DebtChangesDue ==
  ASSUME NEW old, NEW r, AreLines(old.lines), old.paid \in Int, old.supplier \in Suppliers,
         r.lines \in Deliveries \cup {None}, r.paid \in AmountsPaid \cup {None},
         r.supplier \in Suppliers \cup {None}
  PROVE  \E B1, B2, B3 :
           /\ DebtChanges(old, r) = <<B1, B2, B3>>
           /\ \A t \in B1 \cup B2 \cup B3 : t.op \in {"balance", "refused"}
           /\ \A key \in Keys : /\ DueIn(B1, key) \in Int /\ DueIn(B2, key) \in Int /\ DueIn(B3, key) \in Int
                                /\ key[1] # "debt" => DueIn(B1, key) = 0 /\ DueIn(B2, key) = 0 /\ DueIn(B3, key) = 0
           /\ r.supplier = None => [op |-> "refused"] \in B2
           /\ r.lines # None /\ r.paid # None /\ r.supplier # None /\ Amount(r.lines) # 0 =>
                \A key \in Keys : key[1] = "debt" =>
                  DueIn(B1, key) + DueIn(B2, key) + DueIn(B3, key)
                    = (IF r.supplier = key[2] THEN Amount(r.lines) - r.paid ELSE 0)
                      - (IF old.supplier = key[2] THEN Amount(old.lines) - old.paid ELSE 0)
<1>01. PICK lines, debt, paid, sup :
         /\ lines = Else(r.lines, NoLines) /\ debt = Amount(old.lines) - old.paid /\ paid = Else(r.paid, 0)
         /\ sup = Else(r.supplier, old.supplier)
  OBVIOUS
<1>02. PICK change : change = Amount(lines) - paid - debt
  OBVIOUS
<1>03. PICK B1 : B1 = IF r.supplier # old.supplier THEN {ChangeBalance(old.supplier, -debt)} ELSE {}
  OBVIOUS
<1>04. PICK B2 : B2 = IF r.supplier = old.supplier THEN {}
                      ELSE IF r.supplier = None THEN {[op |-> "refused"]} ELSE {ChangeBalance(r.supplier, debt)}
  OBVIOUS
<1>05. PICK B3 : B3 = IF Amount(lines) # 0 /\ (Amount(lines) # Amount(old.lines) \/ r.paid # old.paid)
                        THEN {ChangeBalance(sup, change)} ELSE {}
  OBVIOUS
<1>2. DebtChanges(old, r) = <<B1, B2, B3>>
  BY <1>01, <1>02, <1>03, <1>04, <1>05 DEF DebtChanges
<1>3. \A t \in B1 \cup B2 \cup B3 : t.op \in {"balance", "refused"}
  BY <1>01, <1>02, <1>03, <1>04, <1>05 DEF ChangeBalance
<1>4. AmountsPaid \subseteq Int /\ None \notin AmountsPaid /\ None \notin Suppliers /\ None \notin Deliveries
  BY AmountsAreIntegers
<1>5. Amount(lines) \in Int /\ Amount(old.lines) \in Int /\ paid \in Int /\ debt \in Int /\ change \in Int /\ -debt \in Int
  <2>1. AreLines(lines)
    BY <1>01, <1>02, <1>03, <1>04, <1>05, <1>4, ReceiptsAssumption, NoLinesAreLines DEF Else
  <2>2. Amount(lines) \in Int /\ Amount(old.lines) \in Int
    BY <2>1, AmountType
  <2>3. paid \in Int
    BY <1>01, <1>02, <1>03, <1>04, <1>05, <1>4 DEF Else
  <2> QED
    BY <1>01, <1>02, <1>03, <1>04, <1>05, <2>2, <2>3
<1>6. ASSUME NEW key \in Keys
      PROVE  /\ DueIn(B1, key) = IF r.supplier # old.supplier /\ key[1] = "debt" /\ old.supplier = key[2] THEN -debt ELSE 0
             /\ DueIn(B2, key) = IF r.supplier # old.supplier /\ r.supplier # None /\ key[1] = "debt" /\ r.supplier = key[2]
                                   THEN debt ELSE 0
             /\ DueIn(B3, key) = IF /\ Amount(lines) # 0 /\ (Amount(lines) # Amount(old.lines) \/ r.paid # old.paid)
                                    /\ key[1] = "debt" /\ sup = key[2]
                                   THEN change ELSE 0
  <2>1. DueIn({}, key) = 0
    BY StageOfNothing
  <2>2. DueIn({[op |-> "refused"]}, key) = 0
    <3>1. \A t \in {[op |-> "refused"]} : Brings(t, key) = 0
      BY KeyCases DEF Brings
    <3> QED
      BY <3>1, StageOfNothing
  <2>3. DueIn({ChangeBalance(old.supplier, -debt)}, key) = IF key[1] = "debt" /\ old.supplier = key[2] THEN -debt ELSE 0
    BY <1>5, DueBalance
  <2>4. DueIn({ChangeBalance(r.supplier, debt)}, key) = IF key[1] = "debt" /\ r.supplier = key[2] THEN debt ELSE 0
    BY <1>5, DueBalance
  <2>5. DueIn({ChangeBalance(sup, change)}, key) = IF key[1] = "debt" /\ sup = key[2] THEN change ELSE 0
    BY <1>5, DueBalance
  <2>6. DueIn(B1, key) = IF r.supplier # old.supplier /\ key[1] = "debt" /\ old.supplier = key[2] THEN -debt ELSE 0
    <3>1. CASE r.supplier # old.supplier
      <4>1. B1 = {ChangeBalance(old.supplier, -debt)}
        BY <1>01, <1>02, <1>03, <1>04, <1>05, <3>1
      <4> QED
        BY <2>3, <3>1, <4>1
    <3>2. CASE r.supplier = old.supplier
      <4>1. B1 = {}
        BY <1>01, <1>02, <1>03, <1>04, <1>05, <3>2
      <4> QED
        BY <2>1, <3>2, <4>1
    <3> QED
      BY <3>1, <3>2
  <2>7. DueIn(B2, key) = IF r.supplier # old.supplier /\ r.supplier # None /\ key[1] = "debt" /\ r.supplier = key[2]
                           THEN debt ELSE 0
    <3>1. CASE r.supplier = old.supplier
      <4>1. B2 = {}
        BY <1>01, <1>02, <1>03, <1>04, <1>05, <3>1
      <4> QED
        BY <2>1, <3>1, <4>1
    <3>2. CASE r.supplier # old.supplier /\ r.supplier = None
      <4>1. B2 = {[op |-> "refused"]}
        BY <1>01, <1>02, <1>03, <1>04, <1>05, <3>2
      <4> QED
        BY <2>2, <3>2, <4>1
    <3>3. CASE r.supplier # old.supplier /\ r.supplier # None
      <4>1. B2 = {ChangeBalance(r.supplier, debt)}
        BY <1>01, <1>02, <1>03, <1>04, <1>05, <3>3
      <4> QED
        BY <2>4, <3>3, <4>1
    <3> QED
      BY <3>1, <3>2, <3>3
  <2>8. DueIn(B3, key) = IF /\ Amount(lines) # 0 /\ (Amount(lines) # Amount(old.lines) \/ r.paid # old.paid)
                            /\ key[1] = "debt" /\ sup = key[2]
                           THEN change ELSE 0
    <3>1. CASE Amount(lines) # 0 /\ (Amount(lines) # Amount(old.lines) \/ r.paid # old.paid)
      <4>1. B3 = {ChangeBalance(sup, change)}
        BY <1>01, <1>02, <1>03, <1>04, <1>05, <3>1
      <4> QED
        BY <2>5, <3>1, <4>1
    <3>2. CASE ~ (Amount(lines) # 0 /\ (Amount(lines) # Amount(old.lines) \/ r.paid # old.paid))
      <4>1. B3 = {}
        BY <1>01, <1>02, <1>03, <1>04, <1>05, <3>2
      <4> QED
        BY <2>1, <3>2, <4>1
    <3> QED
      BY <3>1, <3>2
  <2> QED
    BY <2>6, <2>7, <2>8
<1>7. \A key \in Keys : /\ DueIn(B1, key) \in Int /\ DueIn(B2, key) \in Int /\ DueIn(B3, key) \in Int
                        /\ key[1] # "debt" => DueIn(B1, key) = 0 /\ DueIn(B2, key) = 0 /\ DueIn(B3, key) = 0
  <2> SUFFICES ASSUME NEW key \in Keys
               PROVE  /\ DueIn(B1, key) \in Int /\ DueIn(B2, key) \in Int /\ DueIn(B3, key) \in Int
                      /\ key[1] # "debt" => DueIn(B1, key) = 0 /\ DueIn(B2, key) = 0 /\ DueIn(B3, key) = 0
    OBVIOUS
  <2> QED
    BY <1>5, <1>6
<1>8. r.supplier = None => [op |-> "refused"] \in B2
  BY <1>01, <1>02, <1>03, <1>04, <1>05, <1>4
<1>9. ASSUME r.lines # None, r.paid # None, r.supplier # None, Amount(r.lines) # 0, NEW key \in Keys, key[1] = "debt"
      PROVE  DueIn(B1, key) + DueIn(B2, key) + DueIn(B3, key)
               = (IF r.supplier = key[2] THEN Amount(r.lines) - r.paid ELSE 0)
                 - (IF old.supplier = key[2] THEN Amount(old.lines) - old.paid ELSE 0)
  <2>1. lines = r.lines /\ paid = r.paid /\ sup = r.supplier
    BY <1>01, <1>02, <1>03, <1>04, <1>05, <1>9 DEF Else
  <2>2. PICK a, b, p, q : a = Amount(r.lines) /\ b = Amount(old.lines) /\ p = r.paid /\ q = old.paid
    OBVIOUS
  <2>3. /\ a \in Int /\ b \in Int /\ p \in Int /\ q \in Int /\ a # 0
        /\ debt = b - q /\ change = a - p - debt
    BY <1>01, <1>02, <1>03, <1>04, <1>05, <1>5, <1>9, <2>1, <2>2
  <2>4. DueIn(B3, key) = IF r.supplier = key[2] THEN change ELSE 0
    <3>1. DueIn(B3, key) = IF (a # b \/ p # q) /\ r.supplier = key[2] THEN change ELSE 0
      BY <1>6, <1>9, <2>1, <2>2, <2>3
    <3>2. a = b /\ p = q => change = 0
      BY <2>3
    <3> QED
      BY <3>1, <3>2
  <2>5. DueIn(B1, key) = IF r.supplier # old.supplier /\ old.supplier = key[2] THEN -debt ELSE 0
    BY <1>6, <1>9
  <2>6. DueIn(B2, key) = IF r.supplier # old.supplier /\ r.supplier = key[2] THEN debt ELSE 0
    BY <1>6, <1>9
  <2>7. debt \in Int /\ change \in Int
    BY <1>5
  <2> QED
    BY <2>2, <2>3, <2>4, <2>5, <2>6, <2>7
<1> WITNESS B1, B2, B3
<1> QED
  BY <1>2, <1>3, <1>7, <1>8, <1>9

(* An update of a receipt, which the stock and the debt follow: all that   *)
(* will change is ahead.                                                   *)
LEMMA UpdateReceiptWork ==
  ASSUME Inv, Inv', Books, NEW c \in Calls, NEW s \in Sent(c), Account(c), UpdateReceipt(c, s),
         UNCHANGED transfers
  PROVE  Books'
<1>0. PICK R, D, old : R = Request(c) /\ D = R.doc /\ old = receipts[D[2]]
  OBVIOUS
<1>1. s.op = "read" /\ R.op = "updateReceipt" /\ UNCHANGED <<rows, total, balance, payments, receipts, transfers>>
  BY <1>0 DEF UpdateReceipt
<1>2. Apt(c, R, call[c].stages) /\ Running(c) /\ Understood(c, R) /\ D \in Docs /\ ~ Begun(c)
  BY <1>0, <1>1, AtRead, SentFacts DEF Inv
<1>3. /\ D[1] = "receipt" /\ D = <<"receipt", D[2]>>
      /\ R.lines \in Deliveries \cup {None} /\ R.paid \in AmountsPaid \cup {None}
  BY <1>0, <1>1, <1>2 DEF Apt, ReceiptOps, Understood
<1>4. Unborn(c)
  BY <1>2 DEF Books
<1>5. PICK w, kept, deleted, inserted, sup, paid :
        /\ w = Else(R.warehouse, old.warehouse)
        /\ kept = IF R.lines = None THEN {} ELSE DOMAIN old.lines \cap DOMAIN R.lines
        /\ deleted = IF R.lines = None THEN {} ELSE DOMAIN old.lines \ DOMAIN R.lines
        /\ inserted = IF R.lines = None THEN {} ELSE DOMAIN R.lines \ DOMAIN old.lines
        /\ sup = Else(R.supplier, old.supplier) /\ paid = Else(R.paid, -old.paid)
  OBVIOUS
<1>6. PICK row, changes : /\ row = Payment("SUPPLIER_PAYMENT", paid, sup, [supplier |-> sup, amount |-> paid])
                          /\ changes = [v \in deleted |-> -old.lines[v].quantity]
  OBVIOUS
<1>7. PICK t, e, p : /\ t = [op |-> "rewriteReceipt", deleted |-> [v \in deleted |-> old.lines[v]]]
                     /\ e = [op |-> "reread", kept |-> kept, warehouse |-> w]
                     /\ p = [op |-> "payment", id |-> c, row |-> row]
  OBVIOUS
<1>8. PICK A1, A2, A3, A4, A5 :
        /\ A1 = Increments(changes, w) /\ A2 = (IF kept = {} THEN {} ELSE {e})
        /\ A3 = {[op |-> "line", variant |-> v] : v \in kept}
        /\ A4 = {IF inserted = {} THEN t ELSE [op |-> "refused"]} /\ A5 = {p}
  OBVIOUS
<1>9. CASE ~ (/\ D[2] \in DOMAIN receipts /\ R.supplier \in Suppliers \cup {None}
              /\ R.warehouse \in Warehouses \cup {None})
  <2>1. Refuse(c) /\ UNCHANGED disturbed
    BY <1>0, <1>9 DEF UpdateReceipt
  <2> QED
    BY <1>1, <2>1, ThrownWork
<1>10. CASE /\ D[2] \in DOMAIN receipts /\ R.supplier \in Suppliers \cup {None}
            /\ R.warehouse \in Warehouses \cup {None}
  <2>1. /\ GoOn(c, <<A1, A2, A3, A4, A5>> \o DebtChanges(old, R))
        /\ DisturbIf(c, Busy(c) \/ ~ AccountedReceiptUpdate(old, R))
    BY ZenonT(40), <1>0, <1>5, <1>6, <1>7, <1>8, <1>10 DEF UpdateReceipt
  <2>2. /\ AreLines(old.lines) /\ old.paid \in Int /\ old.supplier \in Suppliers /\ old.warehouse \in Warehouses
        /\ IsReceipt(old)
    BY <1>0, <1>10, ReceiptFacts
  <2>3. PICK B1, B2, B3 :
           /\ DebtChanges(old, R) = <<B1, B2, B3>>
           /\ \A u \in B1 \cup B2 \cup B3 : u.op \in {"balance", "refused"}
           /\ \A key \in Keys : /\ DueIn(B1, key) \in Int /\ DueIn(B2, key) \in Int /\ DueIn(B3, key) \in Int
                                /\ key[1] # "debt" => DueIn(B1, key) = 0 /\ DueIn(B2, key) = 0 /\ DueIn(B3, key) = 0
           /\ R.supplier = None => [op |-> "refused"] \in B2
           /\ R.lines # None /\ R.paid # None /\ R.supplier # None /\ Amount(R.lines) # 0 =>
                \A key \in Keys : key[1] = "debt" =>
                  DueIn(B1, key) + DueIn(B2, key) + DueIn(B3, key)
                    = (IF R.supplier = key[2] THEN Amount(R.lines) - R.paid ELSE 0)
                      - (IF old.supplier = key[2] THEN Amount(old.lines) - old.paid ELSE 0)
    BY <1>3, <1>10, <2>2, DebtChangesDue
  <2>4. PICK more : more = <<A1, A2, A3, A4, A5>> \o <<B1, B2, B3>>
    OBVIOUS
  <2>51. /\ Len(more) = 8 /\ more \in Seq({A1, A2, A3, A4, A5, B1, B2, B3})
         /\ Eight(more, A1, A2, A3, A4, A5, B1, B2, B3)
    BY <2>4, EightStages
  <2>6. /\ Len(more) = 8
        /\ All(more) = A1 \cup A2 \cup A3 \cup A4 \cup A5 \cup B1 \cup B2 \cup B3
        /\ \A key : (\A X \in {A1, A2, A3, A4, A5, B1, B2, B3} : DueIn(X, key) \in Int) =>
              Due(more, key) = DueIn(A1, key) + DueIn(A2, key) + DueIn(A3, key) + DueIn(A4, key)
                               + DueIn(A5, key) + DueIn(B1, key) + DueIn(B2, key) + DueIn(B3, key)
    BY <2>51 DEF Eight
  <2>60. PICK T : more \in Seq(T)
    BY <2>51
  <2>7. GoOn(c, more)
    BY <2>1, <2>3, <2>4
  <2>8. w \in Warehouses /\ paid \in Int /\ AmountsPaid \subseteq Int /\ None \notin AmountsPaid /\ None \notin Deliveries
    BY <1>3, <1>5, <1>10, <2>2, AmountsAreIntegers DEF Else
  <2>9. /\ DOMAIN changes = deleted /\ deleted \subseteq DOMAIN old.lines /\ deleted \subseteq Variants
        /\ \A v \in deleted : changes[v] \in Int /\ changes[v] = - old.lines[v].quantity /\ old.lines[v].quantity \in Int
    BY <1>5, <1>6, <2>2 DEF AreLines
  <2>10. /\ \A u \in A1 : u.op \in {"total", "rows"}
         /\ \A u \in A2 : u = e /\ u.op = "reread" /\ u.kept = kept /\ u.warehouse = w
         /\ \A u \in A3 : u.op = "line"
         /\ \A u \in A4 : u.op \in {"rewriteReceipt", "refused"} /\ (u.op = "rewriteReceipt" => u = t /\ inserted = {})
         /\ \A u \in A5 : u = p /\ u.op = "payment" /\ u.id = c /\ u.row = row
    <3>1. \A u \in A1 : u.op \in {"total", "rows"}
      BY <1>8, <2>8, <2>9, IncrementsFacts
    <3> QED
      BY <1>7, <1>8, <3>1
  <2>11. \A u \in All(more) :
           /\ u.op \in {"total", "rows", "reread", "line", "rewriteReceipt", "refused", "payment", "balance"}
           /\ u.op = "reread" => u = e
           /\ u.op = "rewriteReceipt" => u = t /\ inserted = {}
           /\ u.op = "payment" => u.id = c /\ u.row = row
    BY <2>3, <2>6, <2>10
  <2>12. \A key \in Keys : OfPayment(row, key) = 0
    <3>1. row.accounted.supplier = sup /\ row.accounted.amount = paid /\ row.type = "SUPPLIER_PAYMENT"
          /\ row.supplier = sup /\ row.amount = paid
      BY <1>6 DEF Payment
    <3> QED
      BY <2>8, <3>1 DEF OfPayment
  <2>13. \A u \in All(more) : Inserting(c, R, u) /\ u.op # "commit" /\ u.op # "read"
    BY <1>1, <1>4, <2>11, <2>12 DEF Inserting, Unborn
  <2>14. There(R) /\ D[1] \in Tracked /\ Len(more) <= Most
    BY <1>0, <1>1, <1>3, <1>10, <2>6 DEF There, Tracked, Most
  <2>15. /\ disturbed \subseteq disturbed'
         /\ D \notin disturbed' => AccountedReceiptUpdate(old, R) /\ \A b \in Calls \ {c} : Late(b) => Request(b).doc # D
    BY <1>0, <2>1 DEF DisturbIf, Busy, Late, Reading
  <2>16. ASSUME D \notin disturbed', Resting(D), Balanced(D) PROVE Working(R, more)
    <3>1. /\ ~ old.isArchived /\ Else(R.warehouse, old.warehouse) = old.warehouse /\ w = old.warehouse
          /\ R.lines # None /\ R.lines \in Deliveries /\ Amount(R.lines) # 0
          /\ R.paid \notin {None, 0} /\ R.paid \in Int
      BY <1>3, <1>5, <2>8, <2>15, <2>16 DEF AccountedReceiptUpdate, Else
    <3>2. AreLines(R.lines) /\ Amount(R.lines) \in Int /\ Amount(old.lines) \in Int
      BY <2>2, <3>1, ReceiptsAssumption, AmountType
    <3>3. old.outstanding = Amount(old.lines) - old.paid
      BY <1>0, <1>3, <1>10, <2>16 DEF Balanced
    <3>4. /\ kept = DOMAIN old.lines \cap DOMAIN R.lines /\ deleted = DOMAIN old.lines \ DOMAIN R.lines
          /\ inserted = DOMAIN R.lines \ DOMAIN old.lines
      BY <1>5, <3>1
    <3>5. ASSUME NEW key \in Keys
          PROVE  /\ DueIn(A2, key) = 0 /\ DueIn(A3, key) = 0 /\ DueIn(A4, key) = 0 /\ DueIn(A5, key) = 0
      <4>1. /\ \A u \in A2 : Brings(u, key) = 0
            /\ \A u \in A3 : Brings(u, key) = 0
            /\ \A u \in A4 : Brings(u, key) = 0
            /\ \A u \in A5 : Brings(u, key) = 0
        BY <2>10, KeyCases DEF Brings
      <4> QED
        BY <4>1, StageOfNothing
    <3>6. ASSUME NEW key \in Keys
          PROVE  DueIn(A1, key) = IF key[1] # "debt" /\ key[2] \in deleted /\ (key[1] = "goods" => key[3] = w)
                                    THEN - old.lines[key[2]].quantity ELSE 0
      <4>1. \A u \in {} : u.op = "balance"
        OBVIOUS
      <4>2. A1 = Increments(changes, w) \cup {}
        BY <1>8
      <4>3. DueIn({}, key) = 0
        BY StageOfNothing
      <4>4. DOMAIN changes \subseteq Variants /\ \A v \in DOMAIN changes : changes[v] \in Int
        BY <2>9
      <4>5. key[1] = "debt" => DueIn(Increments(changes, w) \cup {}, key) = DueIn({}, key)
        BY <2>8, <4>1, <4>4, DueIncrements
      <4>6. key[1] # "debt" /\ key[2] \in DOMAIN changes /\ (key[1] = "goods" => key[3] = w)
              => DueIn(Increments(changes, w) \cup {}, key) = changes[key[2]]
        BY <2>8, <4>1, <4>4, DueIncrements
      <4>7. key[1] # "debt" /\ ~ (key[2] \in DOMAIN changes /\ (key[1] = "goods" => key[3] = w))
              => DueIn(Increments(changes, w) \cup {}, key) = DueIn({}, key)
        BY <2>8, <4>1, <4>4, DueIncrements
      <4> QED
        BY <2>9, <4>2, <4>3, <4>5, <4>6, <4>7
    <3>7. ASSUME NEW key \in Keys
          PROVE  /\ Due(more, key) = DueIn(A1, key) + DueIn(B1, key) + DueIn(B2, key) + DueIn(B3, key)
                 /\ DueIn(A1, key) \in Int /\ DueIn(B1, key) \in Int /\ DueIn(B2, key) \in Int /\ DueIn(B3, key) \in Int
      <4>1. DueIn(A1, key) \in Int
        BY <2>9, <3>6
      <4>2. DueIn(B1, key) \in Int /\ DueIn(B2, key) \in Int /\ DueIn(B3, key) \in Int
        BY <2>3
      <4>3. DueIn(A2, key) = 0 /\ DueIn(A3, key) = 0 /\ DueIn(A4, key) = 0 /\ DueIn(A5, key) = 0
        BY <3>5
      <4>4. Due(more, key) = DueIn(A1, key) + DueIn(A2, key) + DueIn(A3, key) + DueIn(A4, key)
                             + DueIn(A5, key) + DueIn(B1, key) + DueIn(B2, key) + DueIn(B3, key)
        BY <2>6, <4>1, <4>2, <4>3
      <4> QED
        BY <4>1, <4>2, <4>3, <4>4
    <3>8. ASSUME ~ Coming(more, "refused")
          PROVE  inserted = {} /\ R.supplier \in Suppliers /\ kept = DOMAIN R.lines /\ kept # {} /\ t \in All(more) /\ A2 = {e}
      <4>1. \A u \in All(more) : u.op # "refused"
        BY <3>8 DEF Coming
      <4>2. PICK f : f = [op |-> "refused"]
        OBVIOUS
      <4>3. f \notin A4 /\ f \notin B2
        BY <2>6, <4>1, <4>2
      <4>4. inserted = {}
        BY <1>8, <4>2, <4>3
      <4>5. R.supplier \in Suppliers
        BY <1>10, <2>3, <4>2, <4>3
      <4>6. kept = DOMAIN R.lines
        BY <3>4, <4>4
      <4>7. kept # {}
        <5>1. SUFFICES ASSUME DOMAIN R.lines = {} PROVE FALSE
          BY <4>6
        <5>2. PICK g : g = [v \in Variants |-> IF v \in DOMAIN R.lines THEN R.lines[v].quantity * R.lines[v].price ELSE 0]
          OBVIOUS
        <5>3. g \in [1..NVariants -> Int] /\ \A i \in 1..NVariants : g[i] = 0
          BY <5>1, <5>2 DEF Variants
        <5>4. NVariants \in Nat
          BY RowsAssumption
        <5>5. SumTo(g, NVariants) = 0
          BY <5>3, <5>4, SumZero
        <5>6. Amount(R.lines) = SumTo(g, NVariants)
          BY <5>2 DEF Amount
        <5> QED
          BY <3>1, <5>5, <5>6
      <4>8. A4 = {t} /\ A2 = {e}
        BY <1>8, <4>4, <4>7
      <4> QED
        BY <2>6, <4>4, <4>5, <4>6, <4>7, <4>8
    <3>9. ASSUME ~ Coming(more, "refused") PROVE Tracks(R, more, t)
      <4>1. inserted = {} /\ R.supplier \in Suppliers /\ kept = DOMAIN R.lines
        BY <3>8, <3>9
      <4>2. t.deleted = [v \in deleted |-> old.lines[v]]
        BY <1>7
      <4>3. DOMAIN t.deleted = deleted /\ t.deleted = [v \in DOMAIN t.deleted |-> t.deleted[v]]
            /\ \A v \in deleted : old.lines[v] = t.deleted[v]
        BY <4>2
      <4>4. deleted \cap DOMAIN R.lines = {} /\ DOMAIN old.lines = deleted \cup DOMAIN R.lines
        BY <3>4, <4>1
      <4>5. \A v \in DOMAIN R.lines : \E u \in All(more) : u.op = "line" /\ u.variant = v
        <5>1. ASSUME NEW v \in DOMAIN R.lines PROVE \E u \in All(more) : u.op = "line" /\ u.variant = v
          <6>1. PICK u : u = [op |-> "line", variant |-> v]
            OBVIOUS
          <6>2. u \in A3 /\ u.op = "line" /\ u.variant = v
            BY <1>8, <4>1, <5>1, <6>1
          <6> QED
            BY <2>6, <6>2
        <5> QED
          BY <5>1
      <4>6. \A u \in All(more) : u.op = "reread" => u.kept = DOMAIN R.lines /\ u.warehouse = old.warehouse
        BY <1>7, <2>11, <3>1, <4>1
      <4> QED
        BY <1>0, <3>1, <4>1, <4>3, <4>4, <4>5, <4>6 DEF Tracks
    <3>10. ASSUME ~ Coming(more, "refused"), NEW key \in Keys PROVE Owes(R, more, key)
      <4>1. Entry(D, key) = OfReceipt(old, key)
        BY <1>0, <1>3, <1>10, <2>16 DEF Resting, Says
      <4>2. /\ inserted = {} /\ R.supplier \in Suppliers /\ kept = DOMAIN R.lines /\ t \in All(more)
            /\ R.supplier # None /\ A2 = {e}
        BY <3>8, <3>10, AmountsAreIntegers
      <4>3. Coming(more, "reread")
        <5>1. e \in All(more) /\ e.op = "reread"
          BY <1>7, <2>6, <4>2
        <5> QED
          BY <5>1 DEF Coming
      <4>4. t.op = "rewriteReceipt" /\ t.deleted = [v \in deleted |-> old.lines[v]]
        BY <1>7
      <4>5. Aim(R, more, t, key) = IF key[1] # "debt" THEN OfReceipt(Undeleted(old, t.deleted), key)
                                   ELSE OfReceipt(Described(R, old.warehouse), key)
        BY <1>0, <4>3, <4>4 DEF Aim
      <4>6. OfReceipt(old, key) + Due(more, key) = Aim(R, more, t, key)
        <5>1. CASE key[1] = "debt"
          <6>1. PICK y : y = Described(R, old.warehouse)
            OBVIOUS
          <6>2. ~ y.isArchived /\ y.supplier = R.supplier /\ y.outstanding = Amount(R.lines) - R.paid
            BY <6>1 DEF Described
          <6>3. OfReceipt(y, key) = IF R.supplier = key[2] THEN Amount(R.lines) - R.paid ELSE 0
            BY <5>1, <6>2 DEF OfReceipt
          <6>4. OfReceipt(old, key) = IF old.supplier = key[2] THEN Amount(old.lines) - old.paid ELSE 0
            BY <3>1, <3>3, <5>1 DEF OfReceipt
          <6>5. DueIn(A1, key) = 0
            BY <3>6, <5>1
          <6>6. DueIn(B1, key) + DueIn(B2, key) + DueIn(B3, key)
                  = (IF R.supplier = key[2] THEN Amount(R.lines) - R.paid ELSE 0)
                    - (IF old.supplier = key[2] THEN Amount(old.lines) - old.paid ELSE 0)
            BY <2>3, <3>1, <4>2, <5>1
          <6>7. /\ Due(more, key) = DueIn(A1, key) + DueIn(B1, key) + DueIn(B2, key) + DueIn(B3, key)
                /\ DueIn(B1, key) \in Int /\ DueIn(B2, key) \in Int /\ DueIn(B3, key) \in Int
            BY <3>7
          <6>8. PICK f, g : f = Amount(R.lines) - R.paid /\ g = Amount(old.lines) - old.paid
            OBVIOUS
          <6>9. f \in Int /\ g \in Int
            BY <2>2, <3>1, <3>2, <6>8
          <6> QED
            BY <4>5, <5>1, <6>1, <6>3, <6>4, <6>5, <6>6, <6>7, <6>8, <6>9
        <5>2. CASE key[1] # "debt"
          <6>1. PICK q : q = Undeleted(old, t.deleted)
            OBVIOUS
          <6>2. /\ ~ q.isArchived /\ q.warehouse = old.warehouse /\ DOMAIN q.lines = DOMAIN old.lines \ deleted
                /\ \A v \in DOMAIN old.lines \ deleted : q.lines[v] = old.lines[v]
            BY <2>2, <3>1, <4>4, <6>1 DEF Undeleted, IsReceipt
          <6>3. Due(more, key) = DueIn(A1, key)
            <7>1. DueIn(B1, key) = 0 /\ DueIn(B2, key) = 0 /\ DueIn(B3, key) = 0
              BY <2>3, <5>2
            <7> QED
              BY <3>7, <7>1
          <6>4. DueIn(A1, key) = IF key[2] \in deleted /\ (key[1] = "goods" => key[3] = old.warehouse)
                                   THEN - old.lines[key[2]].quantity ELSE 0
            BY <3>1, <3>6, <5>2
          <6>5. \A v \in DOMAIN old.lines : old.lines[v].quantity \in Int
            BY <2>2 DEF AreLines
          <6>6. OfReceipt(old, key) + DueIn(A1, key) = OfReceipt(q, key)
            <7>1. CASE key[1] = "total"
              <8>1. OfReceipt(old, key) = IF key[2] \in DOMAIN old.lines THEN old.lines[key[2]].quantity ELSE 0
                BY <3>1, <7>1 DEF OfReceipt
              <8>2. OfReceipt(q, key) = IF key[2] \in DOMAIN q.lines THEN q.lines[key[2]].quantity ELSE 0
                BY <6>2, <7>1 DEF OfReceipt
              <8> QED
                BY <2>9, <6>2, <6>4, <6>5, <7>1, <8>1, <8>2
            <7>2. CASE key[1] = "goods"
              <8>1. OfReceipt(old, key) = IF key[3] = old.warehouse /\ key[2] \in DOMAIN old.lines THEN old.lines[key[2]].quantity ELSE 0
                BY <3>1, <7>2 DEF OfReceipt
              <8>2. OfReceipt(q, key) = IF key[3] = old.warehouse /\ key[2] \in DOMAIN q.lines THEN q.lines[key[2]].quantity ELSE 0
                BY <6>2, <7>2 DEF OfReceipt
              <8> QED
                BY <2>9, <6>2, <6>4, <6>5, <7>2, <8>1, <8>2
            <7> QED
              BY <5>2, <7>1, <7>2, KeyCases
          <6> QED
            BY <4>5, <5>2, <6>1, <6>3, <6>6
        <5> QED
          BY <5>1, <5>2
      <4>7. Writes(R, t) /\ \A u \in All(more) : Writes(R, u) => u = t
        <5>1. \A u \in All(more) : u.op = "payment" => ~ Writes(R, u)
          BY <1>1 DEF Writes, PaymentOps
        <5> QED
          BY <2>11, <4>4, <5>1 DEF Writes
      <4> QED
        BY <1>0, <4>1, <4>2, <4>6, <4>7 DEF Owes
    <3>11. ~ Coming(more, "refused") => Coming(more, "rewriteReceipt")
      BY <1>7, <3>8 DEF Coming
    <3> QED
      BY <2>11, <3>9, <3>10, <3>11 DEF Working
  <2> QED
    BY <1>0, <1>1, <2>60, <2>7, <2>13, <2>14, <2>15, <2>16, ReadWork
<1> QED
  BY <1>9, <1>10
-----------------------------------------------------------------------------
(* The transfers.                                                          *)

(* Movements that no row has been found for are as they are planned.       *)
LEMMA MovesUnfound ==
  /\ \A how, items, from, to : \A m \in Moves(how, items, from, to) : Unfound(m) = m
  /\ \A old, r : \A m \in MovesOfUpdate(old, r) : Unfound(m) = m
<1>1. ASSUME NEW how, NEW items, NEW from, NEW to, NEW m \in Moves(how, items, from, to) PROVE Unfound(m) = m
  <2>1. PICK v \in DOMAIN items :
          m = [how |-> how, variant |-> v, from |-> from, to |-> to, quantity |-> items[v]]
    BY <1>1 DEF Moves
  <2> QED
    BY <2>1 DEF Unfound
<1>2. ASSUME NEW old, NEW r, NEW m \in MovesOfUpdate(old, r) PROVE Unfound(m) = m
  <2>1. \E how, items, from, to : m \in Moves(how, items, from, to)
    BY <1>2 DEF MovesOfUpdate
  <2> QED
    BY <1>1, <2>1
<1> QED
  BY <1>1, <1>2

(* A transfer is read, and its rows are to be looked up.                   *)
LEMMA TransferRead ==
  ASSUME Inv, Inv', Books, NEW c \in Calls, NEW s \in Sent(c), s.op = "read", Account(c),
         NEW R, R = Request(c), NEW D, D = R.doc, D[1] = "transfer",
         NEW moves, NEW t, t = [op |-> "lookup", moves |-> moves], GoOn(c, <<{t}>>),
         UNCHANGED <<rows, total, balance, payments, receipts, transfers>>, disturbed \subseteq disturbed',
         There(R), R.op = "createTransfer" => c \notin DOMAIN transfers,
         D \notin disturbed' => \A b \in Calls \ {c} : Late(b) => Request(b).doc # D,
         \A m \in moves : Unfound(m) = m,
         D \notin disturbed' => Prepared(R, t)
  PROVE  Books'
<1>1. PICK more : more = <<{t}>>
  OBVIOUS
<1>2. more \in Seq({{t}}) /\ Len(more) = 1 /\ All(more) = {t}
  BY <1>1 DEF All
<1>3. \A u \in All(more) : Inserting(c, R, u) /\ u.op # "commit" /\ u.op # "read"
  BY <1>2 DEF Inserting
<1>4. D[1] \in Tracked /\ Len(more) <= Most
  BY <1>2 DEF Tracked, Most
<1>5. D \notin disturbed' => Working(R, more)
  BY <1>2 DEF Working
<1>6. GoOn(c, more)
  BY <1>1
<1> QED
  BY <1>2, <1>3, <1>4, <1>5, <1>6, ReadWork

(* What the creation of a transfer reads keeps the books: the movements it *)
(* prepares are those of the transfer.                                     *)
LEMMA CreateTransferWork ==
  ASSUME Inv, Inv', Books, NEW c \in Calls, NEW s \in Sent(c), Account(c), CreateTransfer(c, s),
         UNCHANGED <<total, balance, payments, receipts>>
  PROVE  Books'
<1>0. PICK R, D : R = Request(c) /\ D = R.doc
  OBVIOUS
<1>1. s.op = "read" /\ R.op = "createTransfer" /\ UNCHANGED <<rows, total, balance, payments, receipts, transfers, disturbed>>
  BY <1>0 DEF CreateTransfer
<1>2. /\ Unborn(c) /\ There(R)
      /\ \A b \in Calls \ {c} : Late(b) => Request(b).doc # D
  BY <1>0, <1>1, NewDocument
<1>3. D[1] = "transfer"
  BY <1>0, <1>1, AtRead DEF Apt, TransferOps
<1>4. CASE Refuse(c)
  BY <1>1, <1>4, ThrownWork
<1>5. CASE ~ Refuse(c)
  <2>1. PICK moves : moves = Moves("ship", R.items, R.source, R.destination)
    OBVIOUS
  <2>2. PICK t : t = [op |-> "lookup", moves |-> moves]
    OBVIOUS
  <2>3. GoOn(c, <<{t}>>)
    BY <1>0, <1>5, <2>1, <2>2 DEF CreateTransfer
  <2>4. \A m \in moves : Unfound(m) = m
    BY <2>1, MovesUnfound
  <2>5. Prepared(R, t)
    <3>1. {Unfound(m) : m \in t.moves} = moves
      BY <2>2, <2>4
    <3> QED
      BY <1>1, <2>1, <3>1 DEF Prepared, Planned
  <2>6. c \notin DOMAIN transfers /\ disturbed \subseteq disturbed'
    BY <1>1, <1>2 DEF Unborn
  <2> QED
    BY <1>0, <1>1, <1>2, <1>3, <2>2, <2>3, <2>4, <2>5, <2>6, TransferRead
<1> QED
  BY <1>4, <1>5

(* What the update of a transfer reads keeps the books: the movements it   *)
(* prepares lead from the recorded goods to the new ones.                  *)
LEMMA UpdateTransferWork ==
  ASSUME Inv, Inv', Books, NEW c \in Calls, NEW s \in Sent(c), Account(c), UpdateTransfer(c, s),
         UNCHANGED <<total, balance, payments, receipts>>
  PROVE  Books'
<1>0. PICK R, D, old : R = Request(c) /\ D = R.doc /\ old = transfers[D[2]]
  OBVIOUS
<1>1. s.op = "read" /\ R.op = "updateTransfer" /\ UNCHANGED <<rows, total, balance, payments, receipts, transfers>>
  BY <1>0 DEF UpdateTransfer
<1>3. D[1] = "transfer"
  BY <1>0, <1>1, AtRead DEF Apt, TransferOps
<1>4. CASE Refuse(c) /\ UNCHANGED disturbed
  BY <1>1, <1>4, ThrownWork
<1>5. CASE ~ (Refuse(c) /\ UNCHANGED disturbed)
  <2>1. PICK moves : moves = MovesOfUpdate(old, R)
    OBVIOUS
  <2>2. PICK t : t = [op |-> "lookup", moves |-> moves]
    OBVIOUS
  <2>3. /\ GoOn(c, <<{t}>>) /\ D[2] \in DOMAIN transfers
        /\ DisturbIf(c, Busy(c) \/ ~ AccountedTransferUpdate(old, R))
    BY <1>0, <1>5, <2>1, <2>2 DEF UpdateTransfer
  <2>4. \A m \in moves : Unfound(m) = m
    BY <2>1, MovesUnfound
  <2>5. AccountedTransferUpdate(old, R) => Prepared(R, t)
    <3>1. {Unfound(m) : m \in t.moves} = moves
      BY <2>2, <2>4
    <3> QED
      BY <1>0, <1>1, <2>1, <3>1 DEF Prepared, Planned
  <2>6. /\ There(R) /\ disturbed \subseteq disturbed'
        /\ D \notin disturbed' => AccountedTransferUpdate(old, R) /\ \A b \in Calls \ {c} : Late(b) => Request(b).doc # D
    BY <1>0, <1>1, <2>3 DEF There, DisturbIf, Busy, Late, Reading
  <2> QED
    BY <1>0, <1>1, <1>3, <2>2, <2>3, <2>4, <2>5, <2>6, TransferRead
<1> QED
  BY <1>4, <1>5

(* What archiving or restoring a transfer reads keeps the books: the       *)
(* movements it prepares are those of all its goods.                       *)
LEMMA ArchiveTransferWork ==
  ASSUME Inv, Inv', Books, NEW c \in Calls, NEW s \in Sent(c), Account(c), ArchiveTransfer(c, s),
         UNCHANGED <<total, balance, payments, receipts>>
  PROVE  Books'
<1>0. PICK R, D, old : R = Request(c) /\ D = R.doc /\ old = transfers[D[2]]
  OBVIOUS
<1>1. /\ s.op = "read" /\ R.op \in {"archiveTransfer", "restoreTransfer"}
      /\ UNCHANGED <<rows, total, balance, payments, receipts, transfers>>
  BY <1>0 DEF ArchiveTransfer
<1>3. D[1] = "transfer"
  BY <1>0, <1>1, AtRead DEF Apt, TransferOps
<1>4. CASE Refuse(c) /\ UNCHANGED disturbed
  BY <1>1, <1>4, ThrownWork
<1>5. CASE ~ (Refuse(c) /\ UNCHANGED disturbed)
  <2>1. PICK moves : moves = IF R.op = "archiveTransfer"
                               THEN Moves("return", Recorded(old), old.destination, old.source)
                               ELSE Moves("resend", Recorded(old), old.source, old.destination)
    OBVIOUS
  <2>2. PICK t : t = [op |-> "lookup", moves |-> moves]
    OBVIOUS
  <2>3. /\ GoOn(c, <<{t}>>) /\ D[2] \in DOMAIN transfers
        /\ DisturbIf(c, Busy(c) \/ old.isArchived = (R.op = "archiveTransfer"))
    BY <1>0, <1>5, <2>1, <2>2 DEF ArchiveTransfer
  <2>4. \A m \in moves : Unfound(m) = m
    BY <2>1, MovesUnfound
  <2>5. old.isArchived # (R.op = "archiveTransfer") => Prepared(R, t)
    <3>1. {Unfound(m) : m \in t.moves} = moves
      BY <2>2, <2>4
    <3> QED
      BY <1>0, <1>1, <2>1, <3>1 DEF Prepared, Planned
  <2>6. /\ There(R) /\ disturbed \subseteq disturbed'
        /\ D \notin disturbed' => /\ old.isArchived # (R.op = "archiveTransfer")
                                  /\ \A b \in Calls \ {c} : Late(b) => Request(b).doc # D
    BY <1>0, <1>1, <2>3 DEF There, DisturbIf, Busy, Late, Reading
  <2> QED
    BY <1>0, <1>1, <1>3, <2>2, <2>3, <2>4, <2>5, <2>6, TransferRead
<1> QED
  BY <1>4, <1>5
(* A call of a transfer that looks rows up, or commits, has nothing else   *)
(* ahead.                                                                  *)
LEMMA NothingAfter ==
  ASSUME Inv, NEW c \in Calls, NEW s \in Sent(c), s.op \in {"lookup", "commit"},
         NEW st, st = call[c].stages
  PROVE  After(st) = {} /\ Sent(c) = {s} /\ Request(c).op \in TransferOps
<1>1. Proper(c, s) /\ \A t \in After(st) : Proper(c, t) /\ Follows(s.op, t.op)
  BY SentFacts DEF Inv
<1>2. Request(c).op \in TransferOps
  BY <1>1 DEF Proper
<1>3. ASSUME NEW t \in After(st) PROVE FALSE
  <2>1. t.op \in {"read", "lookup", "commit"}
    BY <1>1, <1>2 DEF Proper, TransferOps, ReceiptOps, PaymentOps
  <2>2. Rank(s.op) = 1 /\ Rank(t.op) = 1
    BY <2>1 DEF Rank
  <2> QED
    BY <1>1, <2>1, <2>2 DEF Follows
<1>4. Sent(c) = {s}
  <2>1. \A t \in Sent(c) : t.op \in Solo => Sent(c) = {t}
    BY SentFacts, SentFirst DEF Inv
  <2> QED
    BY <2>1 DEF Solo
<1> QED
  BY <1>2, <1>3, <1>4

(* The rows of the movements are found: the movements are as planned.      *)
LEMMA LookUpWork ==
  ASSUME Inv, Inv', Books, NEW c \in Calls, NEW s \in Sent(c), Account(c), LookUp(c, s),
         UNCHANGED <<total, balance, payments, receipts>>
  PROVE  Books'
<1>0. PICK R, st, new, D : R = Request(c) /\ st = call[c].stages /\ new = call'[c].stages /\ D = R.doc
  OBVIOUS
<1>01. s.op # "read" /\ s.op = "lookup" /\ s.op \in Solo
  BY DEF LookUp, Solo
<1>1. /\ Late(c) /\ Running(c) /\ D \in Docs /\ Apt(c, R, st) /\ s \in All(st) /\ Placed(c, R, st)
      /\ (D \notin disturbed => Working(R, st))
  BY <1>0, <1>01, AtWork
<1>2. PICK newest \in BOOLEAN :
        GoOn(c, <<{[op |-> "commit", moves |-> {
          LET toRow == FindRow(rows[m.variant][m.to], newest)
          IN  [how |-> m.how, variant |-> m.variant, quantity |-> m.quantity,
               from |-> m.from, to |-> m.to, toRow |-> toRow,
               fromRow |-> FindRow(rows[m.variant][m.from], newest),
               seen |-> IF toRow = 0 THEN 0 ELSE rows[m.variant][m.to][toRow]] : m \in s.moves}]}>>)
  BY DEF LookUp
<1>3. UNCHANGED <<rows, total, balance, payments, receipts, transfers>> /\ disturbed' = disturbed
  BY DEF LookUp
<1> DEFINE toRow(m) == FindRow(rows[m.variant][m.to], newest)
           found(m) == [how |-> m.how, variant |-> m.variant, quantity |-> m.quantity,
                        from |-> m.from, to |-> m.to, toRow |-> toRow(m),
                        fromRow |-> FindRow(rows[m.variant][m.from], newest),
                        seen |-> IF toRow(m) = 0 THEN 0 ELSE rows[m.variant][m.to][toRow(m)]]
           all == {found(m) : m \in s.moves}
<1>02. PICK moves : moves = all
  OBVIOUS
<1>03. PICK t : t = [op |-> "commit", moves |-> moves]
  OBVIOUS
<1>4. GoOn(c, <<{t}>>)
  BY <1>2, <1>02, <1>03
<1>5. After(st) = {} /\ Sent(c) = {s} /\ R.op \in TransferOps
  BY <1>0, <1>01, NothingAfter
<1>6. \A m \in s.moves : IsMove(m)
  BY <1>01, SentFacts, MovingProper DEF Inv
<1>7. ASSUME NEW m \in s.moves
      PROVE  /\ Unfound(found(m)) = Unfound(m)
             /\ found(m).toRow \in 0..Len(rows[found(m).variant][found(m).to])
             /\ found(m).fromRow \in 0..Len(rows[found(m).variant][found(m).from])
  <2>1. IsMove(m) /\ m.variant \in Variants /\ m.from \in Places /\ m.to \in Places
    BY <1>6 DEF IsMove, Places
  <2>2. rows[m.variant][m.to] \in Seq(Int) /\ rows[m.variant][m.from] \in Seq(Int)
    BY <2>1, RowsFacts DEF Inv, Typed
  <2>3. ASSUME NEW q \in Seq(Int) PROVE FindRow(q, newest) \in 0..Len(q)
    <3>1. PICK i : i = FindRow(q, newest)
      OBVIOUS
    <3>2. i \in Nat /\ (i # 0 => i \in DOMAIN q)
      BY <3>1, FoundRow
    <3> QED
      BY <3>1, <3>2
  <2>4. /\ toRow(m) \in 0..Len(rows[m.variant][m.to])
        /\ FindRow(rows[m.variant][m.from], newest) \in 0..Len(rows[m.variant][m.from])
    BY <2>2, <2>3
  <2> QED
    BY <2>4 DEF Unfound
<1>8. t.op = "commit" /\ t.moves = moves
  BY <1>03
<1> HIDE DEF found
<1>10. (\A n \in moves : \E m \in s.moves : n = found(m)) /\ \A m \in s.moves : found(m) \in moves
  BY <1>02
<1> HIDE DEF all
<1>9. {Unfound(n) : n \in moves} = {Unfound(m) : m \in s.moves}
  <2>1. \A n \in moves : \E m \in s.moves : Unfound(n) = Unfound(m)
    BY <1>7, <1>10
  <2>2. \A m \in s.moves : \E n \in moves : Unfound(n) = Unfound(m)
    BY <1>7, <1>10
  <2> QED
    BY <2>1, <2>2
<1>11. \A n \in moves : /\ n.toRow \in 0..Len(rows[n.variant][n.to])
                        /\ n.fromRow \in 0..Len(rows[n.variant][n.from])
  BY <1>7, <1>10
<1>12. All(new) \subseteq {t}
  <2>1. Pending(c)' \subseteq {t} \cup After(call[c].stages)
    BY <1>4, NextPending DEF Inv
  <2> QED
    BY <1>0, <1>5, <2>1 DEF Pending
<1>13. Resumes(c, <<{t}>> \o Tail(st))
  <2>1. Resumes(c, <<{t}>> \o Tail(call[c].stages))
    BY <1>1, <1>4, HandlersLeave DEF Inv
  <2> QED
    BY <1>0, <2>1
<1>14. /\ Alone(c) /\ (Running(c)' => Request(c)' = R) /\ call'[c].at # "idle"
  <2>1. CASE Ends(c)
    <3>1. call'[c].at \in {"done", "failed"}
      BY <2>1 DEF Ends
    <3> QED
      BY <1>13, <3>1 DEF Running, Resumes
  <2>2. CASE ~ Ends(c)
    BY <1>0, <1>13, <2>2 DEF Resumes, Stands, Request
  <2> QED
    BY <2>1, <2>2
<1>15. Booked' /\ Grown(c) /\ \A d \in Docs : SameBook(d)
  BY <1>1, <1>3, BooksStay DEF Books
<1>16. Begun(c)'
  <2>1. Running(c)' => Late(c)'
    <3>1. ASSUME Running(c)' PROVE Late(c)'
      <4>1. \A u \in All(new) : u.op # "read"
        BY <1>8, <1>12
      <4>2. call'[c].stages # Reading
        <5>1. new = Reading => [op |-> "read"] \in All(new)
          BY DEF Reading, All
        <5> QED
          BY <1>0, <4>1, <5>1
      <4> QED
        BY <3>1, <4>2 DEF Late
    <3> QED
      BY <3>1
  <2> QED
    BY <1>14, <2>1 DEF Begun
<1>17. D \in Docs /\ D[1] = "transfer" /\ D[1] \in Tracked /\ Request(c).doc = D
  BY <1>0, <1>1, <1>5 DEF Apt, Tracked
<1>18. D \notin disturbed' => \A b \in Calls \ {c} : Late(b) => Request(b).doc # D
  BY <1>1, <1>3, <1>17 DEF Books, Sole
<1>19. Placed(c, R, new)'
  <2>1. Len(new) <= Most
    BY <1>0, <1>1, <1>4, LengthNext DEF Inv, Placed
  <2>2. There(R)'
    BY <1>1, <1>3 DEF Placed, There
  <2>3. Inserting(c, R, s)
    BY <1>1 DEF Placed
  <2>4. Inserting(c, R, t)'
    BY <1>01, <1>3, <1>8, <2>3 DEF Inserting
  <2>5. Found(t)'
    BY <1>3, <1>8, <1>11 DEF Found
  <2> QED
    BY <1>12, <2>1, <2>2, <2>4, <2>5 DEF Placed
<1>20. ASSUME D \notin disturbed' PROVE Working(R, new)'
  <2>1. Prepared(R, s)
    BY <1>0, <1>01, <1>1, <1>3, <1>20 DEF Working
  <2>2. Prepared(R, t)'
    BY <1>3, <1>8, <1>9, <2>1 DEF Prepared, Planned
  <2> QED
    BY <1>0, <1>12, <1>17, <2>2 DEF Working
<1>21. D \notin disturbed' => Kept(D)'
  <2>1. ASSUME D \notin disturbed PROVE Resting(D)' /\ Balanced(D)' /\ Once(D)'
    <3>1. Resting(D) /\ Once(D)
      BY <1>1, <1>17, <2>1 DEF Books, Kept, InHand
    <3>2. Resting(D)'
      BY <1>15, <1>17, <3>1 DEF Resting, SameBook
    <3>3. Once(D)'
      BY <1>3, <3>1 DEF Once
    <3> QED
      BY <1>17, <3>2, <3>3 DEF Balanced
  <2> QED
    BY <1>3, <2>1 DEF Kept
<1>22. disturbed \subseteq disturbed' /\ \A d \in Docs \ {D} : SameBook(d)
  BY <1>3, <1>15
<1>23. \A q : Late(c)' /\ q = call'[c].stages => Placed(c, R, q)' /\ (D \notin disturbed' => Working(R, q)')
  BY <1>0, <1>19, <1>20
<1> QED
  BY <1>0, <1>1, <1>14, <1>15, <1>16, <1>17, <1>18, <1>21, <1>22, <1>23, WorkStep

-----------------------------------------------------------------------------
(* What a transaction of a transfer moves.                                 *)

(* The quantity of a place, and what an accounted movement changes there.  *)
Held(r, w) == SumTo(r[w], Len(r[w]))
Shift(m, w) ==
  LET q == IF m.how = "level" THEN m.quantity - m.seen ELSE m.quantity
  IN  (IF w = m.to THEN q ELSE 0) - (IF w = m.from THEN q ELSE 0)
Landed(r, m) ==
  /\ m.how \in {"ship", "level"} => Len(r[m.from]) = 1
  /\ m.how \in {"carry", "return", "resend"} => m.fromRow # 0
  /\ m.how \in {"level", "resend"} => m.toRow # 0

(* One row of a sequence is changed, or one is added.                      *)
LEMMA RowCount ==
  ASSUME NEW p \in Seq(Int), NEW found \in 0..Len(p), NEW q \in Int
  PROVE  /\ SumTo(Increased(p, found, q), Len(Increased(p, found, q))) = SumTo(p, Len(p)) + q
         /\ found # 0 => SumTo(Decreased(p, found, q), Len(Decreased(p, found, q))) = SumTo(p, Len(p)) - q
<1> DEFINE n == Len(p)
<1>1. n \in Nat /\ p \in [1..n -> Int] /\ \A x \in [1..n -> Int] : x \in Seq(Int) /\ Len(x) = n
  OBVIOUS
<1>2. CASE found = 0
  <2>1. PICK new : new = Append(p, q)
    OBVIOUS
  <2>2. Increased(p, found, q) = new
    BY <1>2, <2>1 DEF Increased
  <2>3. SumTo(new, Len(new)) = SumTo(p, Len(p)) + q
    BY <2>1, AppendedCount
  <2> QED
    BY <1>2, <2>2, <2>3
<1>3. CASE found # 0
  <2>1. found \in 1..n
    BY <1>1, <1>3
  <2>2. PICK a, b : a = [p EXCEPT ![found] = @ + q] /\ b = [p EXCEPT ![found] = @ - q]
    OBVIOUS
  <2>3. Increased(p, found, q) = a /\ Decreased(p, found, q) = b
    BY <1>3, <2>2 DEF Increased, Decreased
  <2> HIDE DEF n
  <2>4. /\ a \in [1..n -> Int] /\ b \in [1..n -> Int] /\ p[found] \in Int
        /\ a[found] = p[found] + q /\ b[found] = p[found] - q
        /\ \A i \in 1..n : i # found => a[i] = p[i] /\ b[i] = p[i]
    BY <1>1, <2>1, <2>2
  <2>5. SumTo(a, n) = SumTo(p, n) + (a[found] - p[found]) /\ SumTo(b, n) = SumTo(p, n) + (b[found] - p[found])
    BY <1>1, <2>1, <2>4, SumChange
  <2>6. SumTo(p, n) \in Int
    BY <1>1, SumType
  <2>7. Len(a) = n /\ Len(b) = n
    BY <1>1, <2>4
  <2> QED
    BY <2>3, <2>4, <2>5, <2>6, <2>7 DEF n
<1> QED
  BY <1>2, <1>3

(* One row of a place is changed, or every one where there is one.         *)
LEMMA PlaceCount ==
  ASSUME NEW r \in [Places -> Seq(Int)], NEW w \in Places, NEW found \in 0..Len(r[w]), NEW q \in Int,
         NEW p \in Places
  PROVE  /\ Held(r, p) \in Int
         /\ Held(Into(r, w, found, q), p) = Held(r, p) + (IF p = w THEN q ELSE 0)
         /\ found # 0 => Held(OutOf(r, w, found, q), p) = Held(r, p) - (IF p = w THEN q ELSE 0)
         /\ Len(r[w]) = 1 => Held(OutOfEach(r, w, q), p) = Held(r, p) - (IF p = w THEN q ELSE 0)
<1>1. PICK z : z = r[w]
  OBVIOUS
<1>2. z \in Seq(Int) /\ found \in 0..Len(z) /\ r[p] \in Seq(Int) /\ \A x : [r EXCEPT ![w] = x][p] = IF p = w THEN x ELSE r[p]
  BY <1>1
<1>3. Held(r, p) \in Int
  <2>1. \A x \in Seq(Int) : Len(x) \in Nat /\ x \in [1..Len(x) -> Int]
    OBVIOUS
  <2> QED
    BY <1>2, <2>1, SumType DEF Held
<1>4. /\ SumTo(Increased(z, found, q), Len(Increased(z, found, q))) = SumTo(z, Len(z)) + q
      /\ found # 0 => SumTo(Decreased(z, found, q), Len(Decreased(z, found, q))) = SumTo(z, Len(z)) - q
  BY <1>2, RowCount
<1>5. Len(z) = 1 => SumTo(AddToEach(z, -q), Len(AddToEach(z, -q))) = SumTo(z, Len(z)) - q
  <2>1. PICK x, y : y = -q /\ x = AddToEach(z, y)
    OBVIOUS
  <2>2. y \in Int
    BY <2>1
  <2>3. /\ Len(z) = 1 => SumTo(x, Len(x)) = SumTo(z, Len(z)) + y
        /\ SumTo(z, Len(z)) \in Int
    BY <1>2, <2>1, <2>2, AddedCount
  <2>4. SumTo(z, Len(z)) + y = SumTo(z, Len(z)) - q
    BY <2>1, <2>3
  <2> QED
    BY <2>1, <2>3, <2>4
<1>6. Into(r, w, found, q)[p] = IF p = w THEN Increased(z, found, q) ELSE r[p]
  BY <1>1, <1>2 DEF Into
<1>7. OutOf(r, w, found, q)[p] = IF p = w THEN Decreased(z, found, q) ELSE r[p]
  BY <1>1, <1>2 DEF OutOf
<1>8. OutOfEach(r, w, q)[p] = IF p = w THEN AddToEach(z, -q) ELSE r[p]
  BY <1>1, <1>2 DEF OutOfEach
<1>9. CASE p = w
  BY <1>1, <1>3, <1>4, <1>5, <1>6, <1>7, <1>8, <1>9 DEF Held
<1>10. CASE p # w
  BY <1>3, <1>6, <1>7, <1>8, <1>10 DEF Held
<1> QED
  BY <1>9, <1>10

(* The same, of all rows and places.                                       *)
LEMMA PlaceCounts ==
  \A p \in Places, x \in [Places -> Seq(Int)], w \in Places : \A k \in 0..Len(x[w]), q \in Int :
    /\ Held(x, p) \in Int
    /\ Held(Into(x, w, k, q), p) = Held(x, p) + (IF p = w THEN q ELSE 0)
    /\ k # 0 => Held(OutOf(x, w, k, q), p) = Held(x, p) - (IF p = w THEN q ELSE 0)
    /\ Len(x[w]) = 1 => Held(OutOfEach(x, w, q), p) = Held(x, p) - (IF p = w THEN q ELSE 0)
<1> SUFFICES ASSUME NEW p \in Places, NEW x \in [Places -> Seq(Int)], NEW w \in Places, NEW k \in 0..Len(x[w]), NEW q \in Int
             PROVE  /\ Held(x, p) \in Int
                    /\ Held(Into(x, w, k, q), p) = Held(x, p) + (IF p = w THEN q ELSE 0)
                    /\ k # 0 => Held(OutOf(x, w, k, q), p) = Held(x, p) - (IF p = w THEN q ELSE 0)
                    /\ Len(x[w]) = 1 => Held(OutOfEach(x, w, q), p) = Held(x, p) - (IF p = w THEN q ELSE 0)
  OBVIOUS
<1> QED
  BY PlaceCount, ZenonT(30)

(* An accounted movement changes the quantities of its two places, and     *)
(* takes no row away.                                                      *)
LEMMA MovedCount ==
  ASSUME NEW r \in [Places -> Seq(Int)], NEW m, IsFound(m),
         m.toRow \in 0..Len(r[m.to]), m.fromRow \in 0..Len(r[m.from]), NEW p \in Places
  PROVE  /\ Len(r[p]) <= Len(Moved(r, m)[p])
         /\ Landed(r, m) => Held(Moved(r, m), p) = Held(r, p) + Shift(m, p)
<1> DEFINE T == [Places -> Seq(Int)]
<1>15. \A x \in T, w \in Places, k \in Nat, q \in Int, u \in Places :
         /\ Len(Into(x, w, k, q)[u]) = IF u = w /\ k = 0 THEN Len(x[u]) + 1 ELSE Len(x[u])
         /\ Len(OutOf(x, w, k, q)[u]) = Len(x[u])
         /\ Len(OutOfEach(x, w, q)[u]) = Len(x[u])
  BY IntoLengths
<1>17. \A x \in T, w \in Places, k \in Nat, q \in Int :
         Into(x, w, k, q) \in T /\ OutOf(x, w, k, q) \in T /\ OutOfEach(x, w, q) \in T
  BY IntoType
<1>19. \A x \in T, w \in Places : \A k \in 0..Len(x[w]), q \in Int :
         /\ Held(x, p) \in Int
         /\ Held(Into(x, w, k, q), p) = Held(x, p) + (IF p = w THEN q ELSE 0)
         /\ k # 0 => Held(OutOf(x, w, k, q), p) = Held(x, p) - (IF p = w THEN q ELSE 0)
         /\ Len(x[w]) = 1 => Held(OutOfEach(x, w, q), p) = Held(x, p) - (IF p = w THEN q ELSE 0)
  BY PlaceCounts, Zenon
<1>18. r \in T /\ \A x \in T, w \in Places : Len(x[w]) \in Nat
  OBVIOUS
<1> HIDE DEF T
<1>1. PICK q, to, from, i, j : /\ q = (IF m.how = "level" THEN m.quantity - m.seen ELSE m.quantity)
                               /\ to = m.to /\ from = m.from /\ i = m.toRow /\ j = m.fromRow
  OBVIOUS
<1>2. /\ q \in Int /\ to \in Places /\ from \in Places /\ i \in Nat /\ j \in Nat
      /\ i \in 0..Len(r[to]) /\ j \in 0..Len(r[from])
      /\ m.how \in {"ship", "carry", "return", "resend", "level"} /\ Nowhere \in Places
  BY <1>1 DEF IsFound, IsMove, Places
<1>4. /\ r \in T /\ 0 \in 0..Len(r[Nowhere])
      /\ \A x \in T, w \in Places : Len(x[w]) \in Nat
  BY <1>2, <1>18
<1>5. \A x \in T, w \in Places, k \in Nat :
        Into(x, w, k, q) \in T /\ OutOf(x, w, k, q) \in T /\ OutOfEach(x, w, q) \in T
  BY <1>2, <1>17
<1>6. ASSUME NEW x \in T, NEW w \in Places, NEW k \in Nat, NEW u \in Places
      PROVE  /\ Len(x[u]) <= Len(Into(x, w, k, q)[u])
             /\ k # 0 => Len(Into(x, w, k, q)[u]) = Len(x[u])
             /\ Len(OutOf(x, w, k, q)[u]) = Len(x[u])
             /\ Len(OutOfEach(x, w, q)[u]) = Len(x[u])
  <2>1. /\ Len(Into(x, w, k, q)[u]) = IF u = w /\ k = 0 THEN Len(x[u]) + 1 ELSE Len(x[u])
        /\ Len(OutOf(x, w, k, q)[u]) = Len(x[u])
        /\ Len(OutOfEach(x, w, q)[u]) = Len(x[u])
    BY <1>2, <1>15
  <2>2. Len(x[u]) \in Nat
    BY <1>4
  <2> QED
    BY <2>1, <2>2
<1> DEFINE Part(w) == IF p = w THEN q ELSE 0
<1>7. ASSUME NEW x \in T, NEW w \in Places, NEW k \in 0..Len(x[w])
      PROVE  /\ Held(x, p) \in Int
             /\ Held(Into(x, w, k, q), p) = Held(x, p) + Part(w)
             /\ k # 0 => Held(OutOf(x, w, k, q), p) = Held(x, p) - Part(w)
             /\ Len(x[w]) = 1 => Held(OutOfEach(x, w, q), p) = Held(x, p) - Part(w)
  BY <1>2, <1>19
<1>14. \A x \in T : Held(x, p) \in Int
  <2>1. \A x \in T : 0 \in 0..Len(x[p])
    BY <1>4
  <2> QED
    BY <1>7, <2>1
<1>8. /\ Shift(m, p) = Part(to) - Part(from) /\ Held(r, p) \in Int
      /\ Part(to) \in Int /\ Part(from) \in Int
  BY <1>1, <1>2, <1>4, <1>14 DEF Shift
<1> HIDE DEF Part
<1>9. CASE m.how = "ship"
  <2>1. PICK x : x = OutOfEach(r, from, q)
    OBVIOUS
  <2>2. x \in T /\ i \in 0..Len(x[to]) /\ Len(x[p]) = Len(r[p])
    BY <1>2, <1>4, <1>5, <1>6, <2>1
  <2>3. Moved(r, m) = Into(x, to, i, q)
    BY <1>1, <1>9, <2>1 DEF Moved, Ship
  <2>4. Len(r[p]) <= Len(Into(x, to, i, q)[p])
    BY <1>2, <1>4, <1>6, <2>2
  <2>5. ASSUME Landed(r, m) PROVE Held(Into(x, to, i, q), p) = Held(r, p) + Shift(m, p)
    <3>1. Len(r[from]) = 1
      BY <1>1, <1>9, <2>5 DEF Landed
    <3>2. Held(x, p) = Held(r, p) - Part(from)
      BY <1>2, <1>4, <1>7, <2>1, <3>1
    <3>3. Held(Into(x, to, i, q), p) = Held(x, p) + Part(to)
      BY <1>2, <1>7, <2>2
    <3> QED
      BY <1>2, <1>8, <3>2, <3>3
  <2> QED
    BY <2>3, <2>4, <2>5
<1>10. CASE m.how = "carry"
  <2>1. CASE j = 0
    <3>1. Moved(r, m) = r /\ ~ Landed(r, m)
      BY <1>1, <1>10, <2>1 DEF Moved, Carry, Landed
    <3> QED
      BY <1>4, <3>1
  <2>2. CASE j # 0
    <3>1. PICK x : x = OutOf(r, from, j, q)
      OBVIOUS
    <3>2. x \in T /\ i \in 0..Len(x[to]) /\ Len(x[p]) = Len(r[p])
      BY ZenonT(40), <1>2, <1>4, <1>5, <1>6, <3>1
    <3>3. Moved(r, m) = Into(x, to, i, q)
      BY <1>1, <1>10, <2>2, <3>1 DEF Moved, Carry
    <3>4. Len(r[p]) <= Len(Into(x, to, i, q)[p])
      BY <1>2, <1>4, <1>6, <3>2
    <3>5. Held(x, p) = Held(r, p) - Part(from)
      BY <1>2, <1>4, <1>7, <2>2, <3>1
    <3>6. Held(Into(x, to, i, q), p) = Held(x, p) + Part(to)
      BY <1>2, <1>7, <3>2
    <3>7. Held(Into(x, to, i, q), p) = Held(r, p) + Shift(m, p)
      BY <1>2, <1>8, <3>5, <3>6
    <3> QED
      BY <3>3, <3>4, <3>7
  <2> QED
    BY <2>1, <2>2
<1>11. CASE m.how = "return"
  <2>1. PICK x : x = Into(r, to, i, q)
    OBVIOUS
  <2>2. /\ x \in T /\ Len(r[p]) <= Len(x[p]) /\ Len(r[from]) <= Len(x[from])
    BY <1>2, <1>4, <1>5, <1>6, <2>1
  <2>3. j \in 0..Len(x[from])
    BY <1>2, <1>4, <2>2
  <2>4. Moved(r, m) = OutOf(x, from, j, q)
    BY <1>1, <1>11, <2>1 DEF Moved, Return
  <2>5. Len(r[p]) <= Len(OutOf(x, from, j, q)[p])
    BY <1>2, <1>6, <2>2
  <2>6. ASSUME Landed(r, m) PROVE Held(OutOf(x, from, j, q), p) = Held(r, p) + Shift(m, p)
    <3>1. j # 0
      BY <1>1, <1>11, <2>6 DEF Landed
    <3>2. Held(x, p) = Held(r, p) + Part(to)
      BY <1>2, <1>4, <1>7, <2>1
    <3>3. Held(OutOf(x, from, j, q), p) = Held(x, p) - Part(from)
      BY <1>2, <1>7, <2>2, <2>3, <3>1
    <3> QED
      BY <1>2, <1>8, <3>2, <3>3
  <2> QED
    BY <2>4, <2>5, <2>6
<1>12. CASE m.how = "resend"
  <2>1. PICK w : w = IF i = 0 THEN Nowhere ELSE to
    OBVIOUS
  <2>2. w \in Places /\ i \in 0..Len(r[w])
    BY <1>2, <1>4, <2>1
  <2>3. PICK x : x = Into(r, w, i, q)
    OBVIOUS
  <2>4. /\ x \in T /\ Len(r[p]) <= Len(x[p]) /\ Len(r[from]) <= Len(x[from])
    BY <1>2, <1>4, <1>5, <1>6, <2>2, <2>3
  <2>5. j \in 0..Len(x[from])
    BY <1>2, <1>4, <2>4
  <2>6. Moved(r, m) = OutOf(x, from, j, q)
    BY <1>1, <1>12, <2>1, <2>3 DEF Moved, Resend
  <2>7. Len(r[p]) <= Len(OutOf(x, from, j, q)[p])
    BY <1>2, <1>6, <2>4
  <2>8. ASSUME Landed(r, m) PROVE Held(OutOf(x, from, j, q), p) = Held(r, p) + Shift(m, p)
    <3>1. j # 0 /\ w = to
      BY <1>1, <1>12, <2>1, <2>8 DEF Landed
    <3>2. Held(x, p) = Held(r, p) + Part(to)
      BY <1>2, <1>4, <1>7, <2>3, <3>1
    <3>3. Held(OutOf(x, from, j, q), p) = Held(x, p) - Part(from)
      BY <1>2, <1>7, <2>4, <2>5, <3>1
    <3> QED
      BY <1>2, <1>8, <3>2, <3>3
  <2> QED
    BY <2>6, <2>7, <2>8
<1>13. CASE m.how = "level"
  <2>1. CASE i = 0
    <3>1. Moved(r, m) = r /\ ~ Landed(r, m)
      BY <1>1, <1>13, <2>1 DEF Moved, Level, Landed
    <3> QED
      BY <1>4, <3>1
  <2>2. CASE i # 0
    <3>1. PICK x : x = Into(r, to, i, q)
      OBVIOUS
    <3>2. x \in T /\ Len(x[from]) = Len(r[from]) /\ Len(x[p]) = Len(r[p])
      BY ZenonT(40), <1>2, <1>4, <1>5, <1>6, <2>2, <3>1
    <3>3. Moved(r, m) = OutOfEach(x, from, q)
      BY <1>1, <1>13, <2>2, <3>1 DEF Moved, Level
    <3>4. Len(r[p]) <= Len(OutOfEach(x, from, q)[p])
      BY <1>2, <1>4, <1>6, <3>2
    <3>5. ASSUME Landed(r, m) PROVE Held(OutOfEach(x, from, q), p) = Held(r, p) + Shift(m, p)
      <4>1. Len(x[from]) = 1
        BY <1>1, <1>13, <3>2, <3>5 DEF Landed
      <4>2. Held(x, p) = Held(r, p) + Part(to)
        BY <1>2, <1>4, <1>7, <3>1
      <4>3. Held(OutOfEach(x, from, q), p) = Held(x, p) - Part(from)
        BY <1>2, <1>7, <3>2, <4>1
      <4> QED
        BY <1>2, <1>8, <4>2, <4>3
    <3> QED
      BY <3>3, <3>4, <3>5
  <2> QED
    BY <2>1, <2>2
<1> QED
  BY <1>2, <1>9, <1>10, <1>11, <1>12, <1>13

(* A quantity that is left out, alone, leaves nothing.                     *)
LEMMA WithoutOne ==
  ASSUME NEW q \in Int
  PROVE  Without(<<q>>, q) = <<>>
<1>1. PICK f, none, n : f = <<q>> /\ none = <<>> /\ n = 1
  OBVIOUS
<1>2. f[1] = q /\ Len(f) = n
  BY <1>1
<1> DEFINE g == CHOOSE h : Leaving(h, f, q, none, n)
<1>3. Without(f, q) = g[n]
  BY <1>1, <1>2 DEF Without, Leaving, Left
<1>4. Leaving(g, f, q, none, n)
  BY <1>1, LeavingExists
<1> HIDE DEF g
<1>5. g = [i \in 0..1 |-> IF i = 0 THEN none ELSE Left(g[i - 1], f[i], q)]
  BY <1>1, <1>4 DEF Leaving
<1>6. g[0] = none /\ g[1] = Left(g[0], f[1], q)
  <2>1. 0 \in 0..1 /\ 1 \in 0..1 /\ 1 - 1 = 0
    OBVIOUS
  <2> QED
    BY <1>5, <2>1
<1>7. g[1] = none
  BY <1>2, <1>6 DEF Left
<1> QED
  BY <1>1, <1>3, <1>7

(* What transfer x bears of variant v, what it means in place w, and what  *)
(* movements change of the variant there.                                  *)
Bears(x, v) == IF x.isArchived \/ v \notin DOMAIN x.items THEN 0 ELSE Recorded(x)[v]
Means(x, v, w) == (IF w = x.destination THEN Bears(x, v) ELSE 0) - (IF w = x.source THEN Bears(x, v) ELSE 0)
Net(moves, v, w) ==
  IF \E m \in moves : m.variant = v THEN Shift(CHOOSE m \in moves : m.variant = v, w) ELSE 0

(* A variant moves once.                                                   *)
LEMMA NetOf ==
  ASSUME NEW moves, \A m, n \in moves : m.variant = n.variant => m = n, NEW v, NEW w
  PROVE  /\ \A m \in moves : m.variant = v => Net(moves, v, w) = Shift(m, w)
         /\ (\A m \in moves : m.variant # v) => Net(moves, v, w) = 0
<1>1. ASSUME NEW m \in moves, m.variant = v PROVE Net(moves, v, w) = Shift(m, w)
  <2>1. PICK n : n = CHOOSE k \in moves : k.variant = v
    OBVIOUS
  <2>2. n \in moves /\ n.variant = v
    BY <1>1, <2>1
  <2>3. n = m
    BY <1>1, <2>2
  <2> QED
    BY <1>1, <2>1, <2>3 DEF Net
<1>2. (\A m \in moves : m.variant # v) => Net(moves, v, w) = 0
  BY DEF Net
<1> QED
  BY <1>1, <1>2

(* The movements are as planned; what they are if goods are planned.       *)
Covering(moves, P) == {Unfound(m) : m \in moves} = P
Carries(moves, how, items, from, to) ==
  /\ \A m \in moves : /\ m.how = how /\ m.variant \in DOMAIN items /\ m.from = from /\ m.to = to
                       /\ m.quantity = items[m.variant]
  /\ \A v \in DOMAIN items : \E m \in moves : m.variant = v

(* What is planned is what is moved.                                       *)
LEMMA PlannedMoves ==
  ASSUME NEW how, NEW items, NEW from, NEW to, NEW moves, Covering(moves, Moves(how, items, from, to))
  PROVE  Carries(moves, how, items, from, to)
<1>0. PICK P : P = Moves(how, items, from, to)
  OBVIOUS
<1>01. (\A m \in moves : Unfound(m) \in P) /\ \A n \in P : \E m \in moves : Unfound(m) = n
  BY <1>0 DEF Covering
<1>1. ASSUME NEW m \in moves
      PROVE  /\ m.how = how /\ m.variant \in DOMAIN items /\ m.from = from /\ m.to = to
             /\ m.quantity = items[m.variant]
  <2>1. PICK n : n = Unfound(m)
    OBVIOUS
  <2>2. n \in Moves(how, items, from, to)
    BY <1>0, <1>01, <2>1
  <2>3. /\ n.how = how /\ n.variant \in DOMAIN items /\ n.from = from /\ n.to = to
        /\ n.quantity = items[n.variant]
    BY <2>2, MovesFacts
  <2>4. n.how = m.how /\ n.variant = m.variant /\ n.from = m.from /\ n.to = m.to /\ n.quantity = m.quantity
    BY <2>1 DEF Unfound
  <2> QED
    BY <2>3, <2>4
<1>2. ASSUME NEW v \in DOMAIN items PROVE \E m \in moves : m.variant = v
  <2>1. PICK n : n = [how |-> how, variant |-> v, from |-> from, to |-> to, quantity |-> items[v]]
    OBVIOUS
  <2>2. n \in P
    BY <1>0, <2>1 DEF Moves
  <2>3. PICK m \in moves : Unfound(m) = n
    BY <1>01, <2>2
  <2>4. n.variant = v /\ n.variant = m.variant
    BY <2>1, <2>3 DEF Unfound
  <2> QED
    BY <2>4
<1> QED
  BY <1>1, <1>2 DEF Carries

(* What a movement of an update is.                                        *)
Intends(m, old, before, now, source, destination) ==
  LET v == m.variant
  IN  \/ /\ m.how = "ship" /\ v \in DOMAIN now \ DOMAIN before
         /\ m.from = source /\ m.to = destination /\ m.quantity = now[v]
      \/ /\ m.how = "level" /\ v \in DOMAIN now \cap DOMAIN before /\ now[v] # before[v]
         /\ destination = old.destination
         /\ m.from = old.source /\ m.to = destination /\ m.quantity = now[v]
      \/ /\ m.how = "carry" /\ v \in DOMAIN now \cap DOMAIN before
         /\ destination # old.destination
         /\ m.from = old.destination /\ m.to = destination /\ m.quantity = now[v]
      \/ /\ m.how = "return" /\ v \in DOMAIN before \ DOMAIN now
         /\ m.from = old.destination /\ m.to = old.source /\ m.quantity = before[v]

(* The movements of an update, variant by variant.                         *)
Covers(moves, old, before, now, source, destination) ==
  /\ \A m \in moves : Intends(m, old, before, now, source, destination)
  /\ \A v \in Variants :
       /\ v \in DOMAIN now \ DOMAIN before => \E m \in moves : m.variant = v
       /\ v \in DOMAIN before \ DOMAIN now => \E m \in moves : m.variant = v
       /\ v \in DOMAIN now \cap DOMAIN before /\ (now[v] # before[v] \/ destination # old.destination)
            => \E m \in moves : m.variant = v
(* The movements of an update of a transfer are about every variant whose  *)
(* goods it changes.                                                       *)
LEMMA PlannedUpdate ==
  ASSUME NEW old, NEW r, NEW moves, Covering(moves, MovesOfUpdate(old, r)),
         NEW before, before = Recorded(old), NEW now, now = Else(r.items, NoItems),
         NEW source, source = Else(r.source, old.source),
         NEW destination, destination = Else(r.destination, old.destination)
  PROVE  Covers(moves, old, before, now, source, destination)
<1> DEFINE kept == DOMAIN before \cap DOMAIN now
           changed == {v \in kept : now[v] # before[v]}
           added == Variants \ DOMAIN before
           gone == Variants \ DOMAIN now
           M1 == Moves("ship", Of(now, added), source, destination)
           M2 == Moves("level", Of(now, changed), old.source, destination)
           M3 == Moves("carry", Of(now, kept), old.destination, destination)
           M4 == Moves("return", Of(before, gone), old.destination, old.source)
           P == M1 \cup (IF destination = old.destination THEN M2 ELSE M3) \cup M4
<1>0. PICK Q : Q = MovesOfUpdate(old, r)
  OBVIOUS
<1>1. Q = P
  BY <1>0 DEF MovesOfUpdate
<1>01. (\A m \in moves : Unfound(m) \in Q) /\ \A n \in Q : \E m \in moves : Unfound(m) = n
  BY <1>0 DEF Covering
<1>2. /\ DOMAIN now \cap added \subseteq DOMAIN now \ DOMAIN before
      /\ DOMAIN before \cap gone \subseteq DOMAIN before \ DOMAIN now
      /\ \A v : v \in changed => v \in DOMAIN now \cap DOMAIN before /\ now[v] # before[v]
      /\ \A v : v \in kept => v \in DOMAIN now \cap DOMAIN before
  OBVIOUS
<1>3. \A v \in Variants :
        /\ v \in DOMAIN now \ DOMAIN before => v \in DOMAIN now \cap added
        /\ v \in DOMAIN before \ DOMAIN now => v \in DOMAIN before \cap gone
        /\ v \in DOMAIN now \cap DOMAIN before /\ now[v] # before[v] => v \in DOMAIN now \cap changed
        /\ v \in DOMAIN now \cap DOMAIN before => v \in DOMAIN now \cap kept
  OBVIOUS
<1> HIDE DEF added, gone, changed, kept
<1>4. ASSUME NEW how, NEW items, NEW S, NEW from, NEW to, NEW v \in DOMAIN items \cap S
      PROVE  \E n \in Moves(how, Of(items, S), from, to) : n.variant = v
  <2>1. v \in DOMAIN Of(items, S)
    BY DEF Of
  <2>2. PICK n : n = [how |-> how, variant |-> v, from |-> from, to |-> to, quantity |-> Of(items, S)[v]]
    OBVIOUS
  <2>3. n \in Moves(how, Of(items, S), from, to)
    BY <2>1, <2>2 DEF Moves
  <2> QED
    BY <2>2, <2>3
<1>5. /\ \A m \in M1 : /\ m.how = "ship" /\ m.variant \in DOMAIN now \cap added
                       /\ m.from = source /\ m.to = destination /\ m.quantity = now[m.variant]
      /\ \A m \in M2 : /\ m.how = "level" /\ m.variant \in DOMAIN now \cap changed /\ m.from = old.source
                       /\ m.to = destination /\ m.quantity = now[m.variant]
      /\ \A m \in M3 : /\ m.how = "carry" /\ m.variant \in DOMAIN now \cap kept /\ m.from = old.destination
                       /\ m.to = destination /\ m.quantity = now[m.variant]
      /\ \A m \in M4 : /\ m.how = "return" /\ m.variant \in DOMAIN before \cap gone
                       /\ m.from = old.destination /\ m.to = old.source /\ m.quantity = before[m.variant]
  BY MovesOfFacts
<1>6. /\ \A v \in DOMAIN now \cap added : \E n \in M1 : n.variant = v
      /\ \A v \in DOMAIN now \cap changed : \E n \in M2 : n.variant = v
      /\ \A v \in DOMAIN now \cap kept : \E n \in M3 : n.variant = v
      /\ \A v \in DOMAIN before \cap gone : \E n \in M4 : n.variant = v
  BY <1>4
<1> HIDE DEF M1, M2, M3, M4
<1>7. ASSUME NEW m \in moves
      PROVE  Intends(m, old, before, now, source, destination)
  <2>1. PICK n : n = Unfound(m)
    OBVIOUS
  <2>2. n.how = m.how /\ n.variant = m.variant /\ n.from = m.from /\ n.to = m.to /\ n.quantity = m.quantity
    BY <2>1 DEF Unfound
  <2>3. n \in P
    BY <1>01, <1>1, <2>1
  <2>4. \/ n \in M1
        \/ n \in M2 /\ destination = old.destination
        \/ n \in M3 /\ destination # old.destination
        \/ n \in M4
    <3>1. CASE destination = old.destination
      BY <2>3, <3>1
    <3>2. CASE destination # old.destination
      BY <2>3, <3>2
    <3> QED
      BY <3>1, <3>2
  <2> QED
    BY <1>2, <1>5, <2>2, <2>4 DEF Intends
<1>8. ASSUME NEW v \in Variants,
             \/ v \in DOMAIN now \ DOMAIN before \/ v \in DOMAIN before \ DOMAIN now
             \/ /\ v \in DOMAIN now \cap DOMAIN before
                /\ (now[v] # before[v] \/ destination # old.destination)
      PROVE  \E m \in moves : m.variant = v
  <2>1. PICK n \in P : n.variant = v
    BY <1>3, <1>6, <1>8
  <2>2. PICK m \in moves : Unfound(m) = n
    BY <1>01, <1>1, <2>1
  <2> QED
    BY <2>1, <2>2 DEF Unfound
<1> QED
  BY <1>7, <1>8 DEF Covers

(* The movements bring goods from what one transfer means to what the other*)
(* does.                                                                   *)
Brought(old, x, moves) ==
  \A v \in Variants, w \in Places :
    Means(old, v, w) \in Int /\ Means(x, v, w) = Means(old, v, w) + Net(moves, v, w)
Singly(moves) == \A m, n \in moves : m.variant = n.variant => m = n

(* What the transaction of create moves is what the new transfer means.    *)
LEMMA CreatedMeans ==
  ASSUME NEW r, DOMAIN r.items \subseteq Variants, \A v \in DOMAIN r.items : r.items[v] \in Int,
         NEW moves, {Unfound(m) : m \in moves} = Moves("ship", r.items, r.source, r.destination),
         \A m, n \in moves : m.variant = n.variant => m = n,
         NEW x, x = [reason |-> r.reason, source |-> r.source, destination |-> r.destination,
                     isArchived |-> FALSE, items |-> Rows(r.items)]
  PROVE  /\ \A v \in DOMAIN x.items : Len(x.items[v]) = 1
         /\ \A v \in Variants, w \in Places : Means(x, v, w) = Net(moves, v, w)
<1>1. /\ x.source = r.source /\ x.destination = r.destination /\ x.isArchived = FALSE
      /\ x.items = Rows(r.items)
  OBVIOUS
<1>2. DOMAIN x.items = DOMAIN r.items /\ \A v \in DOMAIN r.items : x.items[v] = <<r.items[v]>>
  BY <1>1 DEF Rows
<1>3. \A v \in DOMAIN x.items : Len(x.items[v]) = 1 /\ Recorded(x)[v] = r.items[v]
  <2>1. \A e : Len(<<e>>) = 1 /\ <<e>>[1] = e
    OBVIOUS
  <2> QED
    BY <1>2, <2>1 DEF Recorded
<1>4. /\ \A m \in moves : /\ m.how = "ship" /\ m.variant \in DOMAIN r.items /\ m.from = r.source
                          /\ m.to = r.destination /\ m.quantity = r.items[m.variant]
      /\ \A v \in DOMAIN r.items : \E m \in moves : m.variant = v
  <2>1. Covering(moves, Moves("ship", r.items, r.source, r.destination))
    BY DEF Covering
  <2>2. Carries(moves, "ship", r.items, r.source, r.destination)
    BY <2>1, PlannedMoves
  <2> QED
    BY <2>2 DEF Carries
<1>5. ASSUME NEW v \in Variants, NEW w \in Places PROVE Means(x, v, w) = Net(moves, v, w)
  <2>1. CASE v \in DOMAIN r.items
    <3>1. PICK m \in moves : m.variant = v
      BY <1>4, <2>1
    <3>2. Net(moves, v, w) = Shift(m, w)
      BY <3>1, NetOf
    <3>3. Bears(x, v) = m.quantity
      BY ZenonT(40), <1>1, <1>2, <1>3, <1>4, <2>1, <3>1 DEF Bears
    <3>4. m.how # "level" /\ m.to = x.destination /\ m.from = x.source
      BY <1>1, <1>4, <3>1
    <3> QED
      BY <3>2, <3>3, <3>4 DEF Means, Shift
  <2>2. CASE v \notin DOMAIN r.items
    <3>1. Net(moves, v, w) = 0
      BY <1>4, <2>2, NetOf
    <3>2. Bears(x, v) = 0
      BY <1>2, <2>2 DEF Bears
    <3> QED
      BY <3>1, <3>2 DEF Means
  <2> QED
    BY <2>1, <2>2
<1> QED
  BY <1>3, <1>5

(* A transfer that comes out of force returns what it means; one that      *)
(* comes into force sends it.                                              *)
LEMMA MarkedMeans ==
  ASSUME NEW old, old.isArchived \in BOOLEAN, DOMAIN Recorded(old) = DOMAIN old.items,
         \A v \in DOMAIN old.items : Recorded(old)[v] \in Int,
         NEW archives \in BOOLEAN, old.isArchived # archives,
         NEW moves, archives => Covering(moves, Moves("return", Recorded(old), old.destination, old.source)),
         ~ archives => Covering(moves, Moves("resend", Recorded(old), old.source, old.destination)),
         Singly(moves),
         NEW x, x.isArchived = archives, x.items = old.items, x.source = old.source, x.destination = old.destination
  PROVE  Brought(old, x, moves)
<1>01. \A m, n \in moves : m.variant = n.variant => m = n
  BY DEF Singly
<1>1. Recorded(x) = Recorded(old)
  BY DEF Recorded
<1>2. PICK before : before = Recorded(old)
  OBVIOUS
<1>3. /\ \A m \in moves :
           /\ m.how # "level" /\ m.variant \in DOMAIN before /\ m.quantity = before[m.variant]
           /\ IF archives THEN m.from = old.destination /\ m.to = old.source
              ELSE m.from = old.source /\ m.to = old.destination
      /\ \A v \in DOMAIN before : \E m \in moves : m.variant = v
  <2>1. CASE archives
    <3>1. Carries(moves, "return", before, old.destination, old.source)
      BY <1>2, <2>1, PlannedMoves
    <3> QED
      BY <2>1, <3>1 DEF Carries
  <2>2. CASE ~ archives
    <3>1. Carries(moves, "resend", before, old.source, old.destination)
      BY <1>2, <2>2, PlannedMoves
    <3> QED
      BY <2>2, <3>1 DEF Carries
  <2> QED
    BY <2>1, <2>2
<1> SUFFICES ASSUME NEW v \in Variants, NEW w \in Places
             PROVE  Means(old, v, w) \in Int /\ Means(x, v, w) = Means(old, v, w) + Net(moves, v, w)
  BY DEF Brought
<1>4. CASE v \in DOMAIN old.items
  <2>1. PICK m \in moves : m.variant = v
    BY <1>2, <1>3, <1>4
  <2>2. Net(moves, v, w) = Shift(m, w)
    BY <1>01, <2>1, NetOf
  <2>3. PICK q : q = before[v]
    OBVIOUS
  <2>4. /\ q \in Int /\ m.quantity = q /\ m.how # "level"
        /\ Bears(old, v) = (IF old.isArchived THEN 0 ELSE q) /\ Bears(x, v) = IF archives THEN 0 ELSE q
    BY <1>1, <1>2, <1>3, <1>4, <2>1, <2>3 DEF Bears
  <2>5. CASE archives
    <3>1. Bears(old, v) = q /\ Bears(x, v) = 0 /\ m.from = old.destination /\ m.to = old.source
      BY <1>3, <2>1, <2>4, <2>5
    <3>2. Shift(m, w) = (IF w = old.source THEN q ELSE 0) - (IF w = old.destination THEN q ELSE 0)
      BY <2>4, <3>1 DEF Shift
    <3> QED
      BY <2>2, <2>4, <3>1, <3>2 DEF Means
  <2>6. CASE ~ archives
    <3>1. Bears(old, v) = 0 /\ Bears(x, v) = q /\ m.from = old.source /\ m.to = old.destination
      BY <1>3, <2>1, <2>4, <2>6
    <3>2. Shift(m, w) = (IF w = old.destination THEN q ELSE 0) - (IF w = old.source THEN q ELSE 0)
      BY <2>4, <3>1 DEF Shift
    <3> QED
      BY <2>2, <2>4, <3>1, <3>2 DEF Means
  <2> QED
    BY <2>5, <2>6
<1>5. CASE v \notin DOMAIN old.items
  <2>1. Net(moves, v, w) = 0
    BY <1>01, <1>2, <1>3, <1>5, NetOf
  <2>2. Bears(old, v) = 0 /\ Bears(x, v) = 0
    BY <1>5 DEF Bears
  <2> QED
    BY <2>1, <2>2 DEF Means
<1> QED
  BY <1>4, <1>5

(* What becomes of the rows of an item in an update.                       *)
Becomes(a, was, items, r, moves, v) ==
  /\ v \in DOMAIN items <=> a # <<>>
  /\ v \in DOMAIN items => items[v] = a
  /\ \A m \in moves : m.variant = v =>
       /\ m.how = "ship" => a = Append(was, r.items[v])
       /\ m.how = "level" /\ m.toRow # 0 => a = [i \in DOMAIN was |-> r.items[v]]
       /\ m.how = "return" => a = Without(was, m.quantity)
       /\ m.how = "carry" => a = was
  /\ (\A m \in moves : m.variant # v) => a = was

(* The items of a variant after an update.                                 *)
LEMMA ItemsAfterOf ==
  ASSUME NEW old, NEW r, NEW moves, \A m, n \in moves : m.variant = n.variant => m = n,
         NEW items, items = ItemsAfter(old, r, moves), NEW v \in Variants,
         NEW was, was = IF v \in DOMAIN old.items THEN old.items[v] ELSE <<>>
  PROVE  \E a : Becomes(a, was, items, r, moves, v)
<1> DEFINE old0(u) == IF u \in DOMAIN old.items THEN old.items[u] ELSE <<>>
           gone(u) == CHOOSE m \in moves : m.variant = u
           after(u) == CASE \E m \in moves : m.variant = u /\ m.how = "ship" -> Append(old0(u), r.items[u])
                         [] \E m \in moves : m.variant = u /\ m.how = "level" /\ m.toRow # 0 ->
                              [i \in DOMAIN old0(u) |-> r.items[u]]
                         [] \E m \in moves : m.variant = u /\ m.how = "return" ->
                              Without(old0(u), gone(u).quantity)
                         [] OTHER -> old0(u)
<1>1. items = [u \in {z \in Variants : after(z) # <<>>} |-> after(u)]
  BY DEF ItemsAfter
<1> DEFINE shipped == \E m \in moves : m.variant = v /\ m.how = "ship"
           levelled == \E m \in moves : m.variant = v /\ m.how = "level" /\ m.toRow # 0
           returned == \E m \in moves : m.variant = v /\ m.how = "return"
           added == Append(was, r.items[v])
           level == [i \in DOMAIN was |-> r.items[v]]
           left == Without(was, gone(v).quantity)
<1>2. after(v) = CASE shipped -> added [] levelled -> level [] returned -> left [] OTHER -> was
  OBVIOUS
<1>3. \A m \in moves : m.variant = v =>
        /\ shipped <=> m.how = "ship"
        /\ levelled <=> m.how = "level" /\ m.toRow # 0
        /\ returned <=> m.how = "return"
        /\ gone(v) = m
  OBVIOUS
<1>4. (\A m \in moves : m.variant # v) => ~ shipped /\ ~ levelled /\ ~ returned
  OBVIOUS
<1>5. \A m \in moves : m.variant = v /\ m.how = "return" => left = Without(was, m.quantity)
  BY <1>3
<1>6. /\ v \in DOMAIN items <=> after(v) # <<>>
      /\ v \in DOMAIN items => items[v] = after(v)
  <2> HIDE DEF after
  <2> QED
    BY <1>1
<1> HIDE DEF after, shipped, levelled, returned, left, level, added, gone
<1>7. \A m \in moves : m.variant = v =>
        /\ m.how = "ship" => after(v) = added
        /\ m.how = "level" /\ m.toRow # 0 => after(v) = level
        /\ m.how = "return" => after(v) = left
        /\ m.how = "carry" => after(v) = was
  BY <1>2, <1>3
<1>8. (\A m \in moves : m.variant # v) => after(v) = was
  BY <1>2, <1>4
<1>9. PICK a : a = after(v)
  OBVIOUS
<1>10. /\ v \in DOMAIN items <=> a # <<>>
       /\ v \in DOMAIN items => items[v] = a
       /\ \A m \in moves : m.variant = v =>
            /\ m.how = "ship" => a = Append(was, r.items[v])
            /\ m.how = "level" /\ m.toRow # 0 => a = [i \in DOMAIN was |-> r.items[v]]
            /\ m.how = "return" => a = Without(was, m.quantity)
            /\ m.how = "carry" => a = was
       /\ (\A m \in moves : m.variant # v) => a = was
  BY <1>5, <1>6, <1>7, <1>8, <1>9 DEF added, level
<1> QED
  BY <1>10 DEF Becomes

(* A sequence of one quantity.                                             *)
LEMMA OneQuantity ==
  ASSUME NEW q \in Seq(Int), Len(q) = 1
  PROVE  q[1] \in Int /\ q = <<q[1]>>
OBVIOUS

(* An accounted update moves what it changes of the meaning of a transfer, *)
(* and leaves a variant there once.                                        *)
LEMMA UpdatedMeans ==
  ASSUME NEW old, ~ old.isArchived, DOMAIN old.items \subseteq Variants,
         \A v \in DOMAIN old.items : old.items[v] \in Seq(Int) /\ Len(old.items[v]) = 1,
         NEW r, AccountedTransferUpdate(old, r),
         \A v \in DOMAIN Else(r.items, NoItems) : Else(r.items, NoItems)[v] \in Int,
         NEW moves, Covering(moves, MovesOfUpdate(old, r)),
         Singly(moves),
         \A m \in moves : m.how = "level" => m.toRow # 0 /\ old.items[m.variant] = <<m.seen>>,
         NEW x, ~ x.isArchived, x.items = ItemsAfter(old, r, moves), DOMAIN x.items \subseteq Variants,
         x.source = Else(r.source, old.source), x.destination = Else(r.destination, old.destination)
  PROVE  /\ \A v \in DOMAIN x.items : Len(x.items[v]) = 1
         /\ Brought(old, x, moves)
<1>01. \A m, n \in moves : m.variant = n.variant => m = n
  BY DEF Singly
<1>1. PICK before, now : before = Recorded(old) /\ now = Else(r.items, NoItems)
  OBVIOUS
<1>2. /\ DOMAIN before = DOMAIN old.items
      /\ \A v \in DOMAIN old.items : before[v] \in Int /\ old.items[v] = <<before[v]>>
  <2>1. ASSUME NEW q \in Seq(Int), Len(q) = 1 PROVE q[Len(q)] \in Int /\ q = <<q[Len(q)]>>
    <3>1. q[1] \in Int /\ q = <<q[1]>>
      BY <2>1, OneQuantity
    <3> QED
      BY <2>1, <3>1
  <2> QED
    BY <1>1, <2>1 DEF Recorded
<1>3. \A v \in DOMAIN now : now[v] \in Int /\ now[v] = r.items[v]
  <2>1. CASE r.items = None
    BY <1>1, <2>1 DEF Else, NoItems
  <2>2. CASE r.items # None
    <3>1. now = r.items
      BY <1>1, <2>2 DEF Else
    <3> QED
      BY <1>1, <3>1
  <2> QED
    BY <2>1, <2>2
<1>4. PICK source, destination : source = x.source /\ destination = x.destination
  OBVIOUS
<1>55. Covers(moves, old, before, now, source, destination)
  <2>1. source = Else(r.source, old.source) /\ destination = Else(r.destination, old.destination)
    BY <1>4
  <2> QED
    BY <1>1, <2>1, PlannedUpdate
<1>5. /\ \A m \in moves :
           LET v == m.variant
           IN  \/ /\ m.how = "ship" /\ v \in DOMAIN now \ DOMAIN before
                  /\ m.from = source /\ m.to = destination /\ m.quantity = now[v]
               \/ /\ m.how = "level" /\ v \in DOMAIN now \cap DOMAIN before /\ now[v] # before[v]
                  /\ destination = old.destination
                  /\ m.from = old.source /\ m.to = destination /\ m.quantity = now[v]
               \/ /\ m.how = "carry" /\ v \in DOMAIN now \cap DOMAIN before
                  /\ destination # old.destination
                  /\ m.from = old.destination /\ m.to = destination /\ m.quantity = now[v]
               \/ /\ m.how = "return" /\ v \in DOMAIN before \ DOMAIN now
                  /\ m.from = old.destination /\ m.to = old.source /\ m.quantity = before[v]
      /\ \A v \in Variants :
           /\ v \in DOMAIN now \ DOMAIN before => \E m \in moves : m.variant = v
           /\ v \in DOMAIN before \ DOMAIN now => \E m \in moves : m.variant = v
           /\ v \in DOMAIN now \cap DOMAIN before /\ (now[v] # before[v] \/ destination # old.destination)
                => \E m \in moves : m.variant = v
  BY <1>55 DEF Covers, Intends
<1>6. \A v \in DOMAIN now \cap DOMAIN before :
        source = old.source /\ (destination = old.destination \/ now[v] = before[v])
  <2>1. PICK kept : kept = DOMAIN old.items \cap DOMAIN now
    OBVIOUS
  <2>2. /\ kept = {} \/ source = old.source
        /\ destination = old.destination \/ \A v \in kept : r.items[v] = before[v]
    BY <1>1, <1>4, <2>1 DEF AccountedTransferUpdate
  <2> QED
    BY <1>2, <1>3, <2>1, <2>2
<1>7. ASSUME NEW v \in Variants, NEW w \in Places
      PROVE  /\ v \in DOMAIN x.items => Len(x.items[v]) = 1
             /\ Means(old, v, w) \in Int /\ Means(x, v, w) = Means(old, v, w) + Net(moves, v, w)
  <2>1. PICK was : was = IF v \in DOMAIN old.items THEN old.items[v] ELSE <<>>
    OBVIOUS
  <2>2. PICK a :
          /\ v \in DOMAIN x.items <=> a # <<>>
          /\ v \in DOMAIN x.items => x.items[v] = a
          /\ \A m \in moves : m.variant = v =>
               /\ m.how = "ship" => a = Append(was, r.items[v])
               /\ m.how = "level" /\ m.toRow # 0 => a = [i \in DOMAIN was |-> r.items[v]]
               /\ m.how = "return" => a = Without(was, m.quantity)
               /\ m.how = "carry" => a = was
          /\ (\A m \in moves : m.variant # v) => a = was
    <3>1. PICK items : items = x.items
      OBVIOUS
    <3>2. items = ItemsAfter(old, r, moves)
      BY <3>1
    <3>3. \E a : Becomes(a, was, items, r, moves, v)
      BY <1>01, <2>1, <3>2, ItemsAfterOf
    <3> QED
      BY <3>1, <3>3 DEF Becomes
  <2>3. \A q \in Int : /\ <<q>> # <<>> /\ Len(<<q>>) = 1 /\ <<q>>[1] = q
                       /\ Append(<<>>, q) = <<q>> /\ Without(<<q>>, q) = <<>>
                       /\ \A z : [i \in DOMAIN <<z>> |-> q] = <<q>>
    <3>1. \A q \in Int : Without(<<q>>, q) = <<>>
      BY WithoutOne
    <3>2. ASSUME NEW q \in Int
          PROVE  <<q>> # <<>> /\ Len(<<q>>) = 1 /\ <<q>>[1] = q /\ Append(<<>>, q) = <<q>>
      OBVIOUS
    <3>3. ASSUME NEW q \in Int, NEW z PROVE [i \in DOMAIN <<z>> |-> q] = <<q>>
      <4>1. DOMAIN <<z>> = 1..1 /\ <<q>> = [i \in 1..1 |-> q]
        OBVIOUS
      <4> QED
        BY <4>1
    <3> QED
      BY <3>1, <3>2, <3>3
  <2>4. /\ \A q \in Int : a = <<q>> => v \in DOMAIN x.items /\ Len(x.items[v]) = 1 /\ Bears(x, v) = q
        /\ a = <<>> => v \notin DOMAIN x.items /\ Bears(x, v) = 0
    <3>1. ASSUME NEW q \in Int, a = <<q>>
          PROVE  v \in DOMAIN x.items /\ Len(x.items[v]) = 1 /\ Bears(x, v) = q
      <4>1. v \in DOMAIN x.items /\ x.items[v] = <<q>> /\ Len(<<q>>) = 1 /\ <<q>>[1] = q
        BY <2>2, <2>3, <3>1
      <4>2. Recorded(x)[v] = q
        BY <4>1 DEF Recorded
      <4> QED
        BY <4>1, <4>2 DEF Bears
    <3>2. a = <<>> => v \notin DOMAIN x.items
      BY <2>2
    <3> QED
      BY <3>1, <3>2 DEF Bears
  <2>5. PICK b, n : b = Bears(old, v) /\ n = Bears(x, v)
    OBVIOUS
  <2>6. /\ v \in DOMAIN before => b = before[v] /\ was = <<b>> /\ b \in Int
        /\ v \notin DOMAIN before => b = 0 /\ was = <<>>
    BY <1>1, <1>2, <2>1, <2>5 DEF Bears
  <2>7. b \in Int
    BY <2>6
  <2>8. PICK net : net = Net(moves, v, w)
    OBVIOUS
  <2>9. /\ Means(old, v, w) = (IF w = old.destination THEN b ELSE 0) - (IF w = old.source THEN b ELSE 0)
        /\ Means(x, v, w) = (IF w = destination THEN n ELSE 0) - (IF w = source THEN n ELSE 0)
    BY <1>4, <2>5 DEF Means
  <2>10. CASE v \in DOMAIN now \ DOMAIN before
    <3>1. PICK m \in moves : m.variant = v
      BY <1>5, <2>10
    <3>2. m.how = "ship" /\ m.from = source /\ m.to = destination /\ m.quantity = now[v]
      BY <1>5, <2>10, <3>1
    <3>3. net = (IF w = destination THEN now[v] ELSE 0) - (IF w = source THEN now[v] ELSE 0)
      BY <1>01, <2>8, <3>1, <3>2, NetOf DEF Shift
    <3>4. a = <<now[v]>> /\ now[v] \in Int
      BY <1>3, <2>2, <2>3, <2>6, <2>10, <3>1, <3>2
    <3>5. n = now[v] /\ b = 0 /\ (v \in DOMAIN x.items => Len(x.items[v]) = 1)
      BY <2>4, <2>5, <2>6, <2>10, <3>4
    <3> QED
      BY <2>8, <2>9, <3>3, <3>4, <3>5
  <2>11. CASE v \in DOMAIN before \ DOMAIN now
    <3>1. PICK m \in moves : m.variant = v
      BY <1>5, <2>11
    <3>2. m.how = "return" /\ m.from = old.destination /\ m.to = old.source /\ m.quantity = before[v]
      BY <1>5, <2>11, <3>1
    <3>3. net = (IF w = old.source THEN b ELSE 0) - (IF w = old.destination THEN b ELSE 0)
      BY <1>01, <2>6, <2>8, <2>11, <3>1, <3>2, NetOf DEF Shift
    <3>4. a = <<>>
      BY <2>2, <2>3, <2>6, <2>7, <2>11, <3>1, <3>2
    <3>5. n = 0 /\ v \notin DOMAIN x.items
      BY <2>4, <2>5, <3>4
    <3> QED
      BY <2>7, <2>8, <2>9, <3>3, <3>5
  <2>12. CASE v \in DOMAIN now \cap DOMAIN before
    <3>0. source = old.source /\ now[v] \in Int /\ b = before[v]
      BY <1>3, <1>6, <2>6, <2>12
    <3>1. CASE destination = old.destination /\ now[v] # before[v]
      <4>1. PICK m \in moves : m.variant = v
        BY <1>5, <2>12, <3>1
      <4>2. m.how = "level" /\ m.from = old.source /\ m.to = destination /\ m.quantity = now[v]
        BY <1>5, <2>12, <3>1, <4>1
      <4>3. m.toRow # 0 /\ m.seen = b
        <5>1. m.toRow # 0 /\ was = <<m.seen>> /\ was = <<b>>
          BY <1>2, <2>1, <2>6, <2>12, <4>1, <4>2
        <5>2. <<m.seen>>[1] = m.seen /\ <<b>>[1] = b
          OBVIOUS
        <5> QED
          BY <5>1, <5>2
      <4>4. a = <<now[v]>>
        <5>1. a = [i \in DOMAIN was |-> now[v]]
          BY <1>3, <2>2, <2>12, <4>1, <4>2, <4>3
        <5> QED
          BY <2>3, <2>6, <2>12, <3>0, <5>1
      <4>5. n = now[v] /\ Len(x.items[v]) = 1
        BY <2>4, <2>5, <3>0, <4>4
      <4>6. net = (IF w = destination THEN now[v] - b ELSE 0) - (IF w = source THEN now[v] - b ELSE 0)
        <5>1. net = Shift(m, w)
          BY <1>01, <2>8, <4>1, NetOf
        <5> QED
          BY <3>0, <4>2, <4>3, <5>1 DEF Shift
      <4>7. /\ Means(old, v, w) = (IF w = destination THEN b ELSE 0) - (IF w = source THEN b ELSE 0)
            /\ Means(x, v, w) = (IF w = destination THEN now[v] ELSE 0) - (IF w = source THEN now[v] ELSE 0)
        BY <2>9, <3>0, <3>1, <4>5
      <4>8. now[v] \in Int
        BY <3>0
      <4> QED
        BY <2>7, <2>8, <4>5, <4>6, <4>7, <4>8
    <3>2. CASE destination # old.destination
      <4>1. PICK m \in moves : m.variant = v
        BY <1>5, <2>12, <3>2
      <4>2. m.how = "carry" /\ m.from = old.destination /\ m.to = destination /\ m.quantity = now[v]
        BY <1>5, <2>12, <3>2, <4>1
      <4>3. a = <<b>> /\ now[v] = b
        BY <1>6, <2>2, <2>6, <2>12, <3>2, <4>1, <4>2
      <4>4. n = b /\ Len(x.items[v]) = 1
        BY <2>4, <2>5, <2>7, <4>3
      <4>5. net = (IF w = destination THEN b ELSE 0) - (IF w = old.destination THEN b ELSE 0)
        <5>1. net = Shift(m, w)
          BY <1>01, <2>8, <4>1, NetOf
        <5> QED
          BY <4>2, <4>3, <5>1 DEF Shift
      <4> QED
        BY <2>7, <2>8, <2>9, <3>0, <4>4, <4>5
    <3>3. CASE destination = old.destination /\ now[v] = before[v]
      <4>1. \A m \in moves : m.variant # v
        BY <1>5, <2>12, <3>3
      <4>2. a = <<b>> /\ net = 0
        <5>1. net = 0
          BY <1>01, <2>8, <4>1, NetOf
        <5>2. a = was
          BY <2>2, <4>1
        <5> QED
          BY <2>6, <2>12, <5>1, <5>2
      <4>3. n = b /\ Len(x.items[v]) = 1
        BY <2>4, <2>5, <2>7, <4>2
      <4> QED
        BY <2>7, <2>8, <2>9, <3>0, <3>3, <4>2, <4>3
    <3> QED
      BY <3>1, <3>2, <3>3
  <2>13. CASE v \notin DOMAIN now /\ v \notin DOMAIN before
    <3>1. \A m \in moves : m.variant # v
      BY <1>5, <2>13
    <3>2. a = <<>> /\ net = 0 /\ b = 0
      <4>1. net = 0
        BY <1>01, <2>8, <3>1, NetOf
      <4>2. a = was
        BY <2>2, <3>1
      <4> QED
        BY <2>6, <2>13, <4>1, <4>2
    <3>3. n = 0 /\ v \notin DOMAIN x.items
      BY <2>4, <2>5, <3>2
    <3> QED
      BY <2>8, <2>9, <3>2, <3>3
  <2> QED
    BY <2>10, <2>11, <2>12, <2>13
<1>8. ASSUME NEW v \in DOMAIN x.items PROVE Len(x.items[v]) = 1
  <2>1. v \in Variants /\ Nowhere \in Places
    BY DEF Places
  <2> QED
    BY <1>7, <2>1
<1> QED
  BY <1>7, <1>8 DEF Brought

(* A movement of whole quantities changes whole quantities.                *)
LEMMA NetType ==
  ASSUME NEW moves, \A m \in moves : IsFound(m), NEW v, NEW w
  PROVE  Net(moves, v, w) \in Int
<1>1. CASE \E m \in moves : m.variant = v
  <2>1. PICK m : m = CHOOSE k \in moves : k.variant = v
    OBVIOUS
  <2>2. m \in moves /\ Net(moves, v, w) = Shift(m, w)
    BY <1>1, <2>1 DEF Net
  <2>3. m.quantity \in Int /\ m.seen \in Int
    BY <2>2 DEF IsFound, IsMove
  <2> QED
    BY <2>2, <2>3 DEF Shift
<1>2. CASE ~ \E m \in moves : m.variant = v
  BY <1>2 DEF Net
<1> QED
  BY <1>1, <1>2

(* What the rows become when a transfer commits: none goes, and each place *)
(* gets what the movements say, if every one of them finds its rows.       *)
LEMMA CommitRows ==
  ASSUME Inv, Inv', NEW c \in Calls, NEW s \in Sent(c), Commit(c, s), Found(s)
  PROVE  /\ \A v \in Variants, w \in Places : Len(rows[v][w]) <= Len(rows'[v][w])
         /\ (\A m \in s.moves : ~ Unaccounted(c, m)) =>
              \A v \in Variants, w \in Places : InPlace(rows', v, w) = InPlace(rows, v, w) + Net(s.moves, v, w)
<1>1. s.op = "commit"
  BY DEF Commit
<1>2. PICK moves : moves = s.moves
  OBVIOUS
<1>3. /\ \A m \in moves : IsFound(m)
      /\ \A m, n \in moves : m.variant = n.variant => m = n
  <2>1. Proper(c, s)
    BY SentFacts DEF Inv
  <2> QED
    BY <1>1, <1>2, <2>1, MovingProper DEF Moving
<1>4. rows' = [v \in Variants |->
        IF \E m \in moves : m.variant = v
          THEN Moved(rows[v], CHOOSE m \in moves : m.variant = v) ELSE rows[v]]
  BY <1>2 DEF Commit
<1>5. PICK r : r = rows
  OBVIOUS
<1>6. PICK q : q = rows'
  OBVIOUS
<1>7. /\ \A v \in Variants, w \in Places : InPlace(r, v, w) = Held(r[v], w) /\ InPlace(q, v, w) = Held(q[v], w)
  BY DEF InPlace, Held
<1>8. /\ r \in [Variants -> [Places -> Seq(Int)]] /\ q \in [Variants -> [Places -> Seq(Int)]]
  BY <1>5, <1>6 DEF Inv, Typed, RowsTypeOK
<1>9. /\ \A v \in Variants : /\ \A m \in moves : m.variant = v => q[v] = Moved(r[v], m)
                             /\ (\A m \in moves : m.variant # v) => q[v] = r[v]
  <2>1. ASSUME NEW v \in Variants, NEW m \in moves, m.variant = v PROVE q[v] = Moved(r[v], m)
    <3>1. PICK n : n = CHOOSE k \in moves : k.variant = v
      OBVIOUS
    <3>2. n \in moves /\ n.variant = v
      BY <2>1, <3>1
    <3>3. n = m
      BY <1>3, <2>1, <3>2
    <3>4. q[v] = Moved(r[v], n)
      BY <1>4, <1>5, <1>6, <2>1, <3>1
    <3> QED
      BY <3>3, <3>4
  <2>2. ASSUME NEW v \in Variants, \A m \in moves : m.variant # v PROVE q[v] = r[v]
    BY <1>4, <1>5, <1>6, <2>2
  <2> QED
    BY <2>1, <2>2
<1>10. \A m \in moves : /\ m.toRow \in 0..Len(r[m.variant][m.to])
                        /\ m.fromRow \in 0..Len(r[m.variant][m.from])
  BY <1>1, <1>2, <1>5 DEF Found
<1>11. ASSUME NEW v \in Variants, NEW w \in Places
       PROVE  /\ Len(r[v][w]) <= Len(q[v][w])
              /\ (\A m \in moves : ~ Unaccounted(c, m)) => Held(q[v], w) = Held(r[v], w) + Net(moves, v, w)
  <2>1. r[v] \in [Places -> Seq(Int)] /\ Len(r[v][w]) \in Nat
    <3>1. r[v] \in [Places -> Seq(Int)] /\ r[v][w] \in Seq(Int)
      BY <1>8
    <3> QED
      BY <3>1
  <2>2. CASE \A m \in moves : m.variant # v
    <3>1. q[v] = r[v] /\ Net(moves, v, w) = 0
      BY <1>3, <1>9, <2>2, NetOf
    <3>2. Held(r[v], w) \in Int
      <4>1. InPlace(r, v, w) \in Int
        BY <1>8, PlacesCount
      <4> QED
        BY <1>7, <4>1
    <3> QED
      BY <2>1, <3>1, <3>2
  <2>3. ASSUME NEW m \in moves, m.variant = v
        PROVE  /\ Len(r[v][w]) <= Len(q[v][w])
               /\ (\A n \in moves : ~ Unaccounted(c, n)) => Held(q[v], w) = Held(r[v], w) + Net(moves, v, w)
    <3>1. PICK a : a = r[v]
      OBVIOUS
    <3>2. a \in [Places -> Seq(Int)] /\ q[v] = Moved(a, m) /\ Net(moves, v, w) = Shift(m, w)
      BY <1>3, <1>9, <2>1, <2>3, <3>1, NetOf
    <3>3. IsFound(m) /\ m.toRow \in 0..Len(a[m.to]) /\ m.fromRow \in 0..Len(a[m.from])
      BY <1>3, <1>10, <2>3, <3>1
    <3>4. Len(a[w]) <= Len(Moved(a, m)[w]) /\ (Landed(a, m) => Held(Moved(a, m), w) = Held(a, w) + Shift(m, w))
      BY <3>2, <3>3, MovedCount
    <3>5. ~ Unaccounted(c, m) => Landed(a, m)
      BY <1>5, <2>3, <3>1 DEF Unaccounted, Landed
    <3> QED
      BY <3>1, <3>2, <3>4, <3>5
  <2> QED
    BY <2>2, <2>3
<1> QED
  BY <1>2, <1>5, <1>6, <1>7, <1>11

(* What a transfer means is what it says of goods.                         *)
LEMMA SaysMeans ==
  ASSUME NEW x, NEW key
  PROVE  OfTransfer(x, key) = IF key[1] = "goods" THEN Means(x, key[2], key[3]) ELSE 0
BY DEF OfTransfer, Means, Bears

(* What a transfer that commits says then is what it said and what moves.  *)
LEMMA CommitMeans ==
  ASSUME Inv, NEW c \in Calls, NEW s \in Sent(c), Commit(c, s), \A m \in s.moves : ~ Unaccounted(c, m),
         NEW R, R = Request(c), NEW D, D = R.doc, D[1] = "transfer", R.op = "createTransfer" => D[2] = c,
         Prepared(R, s), Inserting(c, R, s), There(R), Once(D)
  PROVE  /\ Once(D)'
         /\ \A key \in Keys : Says(D, key)' =
              IF key[1] = "goods" THEN Says(D, key) + Net(s.moves, key[2], key[3]) ELSE Says(D, key)
<1>1. s.op = "commit"
  BY DEF Commit
<1>2. PICK moves : moves = s.moves
  OBVIOUS
<1>3. /\ \A m \in moves : IsFound(m)
      /\ \A m, n \in moves : m.variant = n.variant => m = n
      /\ Moving(c, moves) /\ R.op \in TransferOps
  <2>1. Proper(c, s)
    BY SentFacts DEF Inv
  <2> QED
    BY <1>1, <1>2, <2>1, MovingProper DEF Moving
<1>4. Understood(c, R)
  <2>1. Running(c)
    BY DEF Sent
  <2> QED
    BY <2>1 DEF Inv, CallsOK, CallOK
<1>5. PICK x : x = Committed(c, moves)
  OBVIOUS
<1>6. IsTransfer(x, reasons) /\ DOMAIN x.items \subseteq Variants
  <2>1. R.op \in {"createTransfer", "updateTransfer"} => R.reason \in reasons \cup {None}
    BY DEF Commit
  <2>2. IsTransfer(x, reasons)
    BY <1>3, <1>4, <1>5, <2>1, CommittedType
  <2> QED
    BY <2>2 DEF IsTransfer
<1>7. PICK id : id = D[2]
  OBVIOUS
<1>8. id \in DOMAIN transfers' /\ transfers'[id] = x
  <2>1. transfers' = Put(transfers, id, x)
    BY <1>2, <1>5, <1>7 DEF Commit
  <2> QED
    BY <2>1 DEF Put
<1>9. \A key : Says(D, key)' = IF key[1] = "goods" THEN Means(x, key[2], key[3]) ELSE 0
  <2>1. ASSUME NEW key PROVE Says(D, key)' = OfTransfer(x, key)
    BY <1>7, <1>8 DEF Says, OfTransfer
  <2> QED
    BY <2>1, SaysMeans
<1>10. SUFFICES /\ \A v \in DOMAIN x.items : Len(x.items[v]) = 1
                /\ \A key \in Keys : Says(D, key)' =
                     IF key[1] = "goods" THEN Says(D, key) + Net(moves, key[2], key[3]) ELSE Says(D, key)
  BY <1>2, <1>7, <1>8 DEF Once
<1>11. CASE R.op = "createTransfer"
  <2>1. \A key \in Keys : Says(D, key) = 0
    <3>1. id \notin DOMAIN transfers
      BY <1>1, <1>7, <1>11 DEF Inserting
    <3> QED
      BY <1>7, <3>1 DEF Says
  <2>2. x = [reason |-> R.reason, source |-> R.source, destination |-> R.destination,
             isArchived |-> FALSE, items |-> Rows(R.items)]
    BY <1>5, <1>11 DEF Committed
  <2>3. R.items \in Shipments
    BY <1>4, <1>11 DEF Understood
  <2>4. DOMAIN R.items \subseteq Variants /\ \A v \in DOMAIN R.items : R.items[v] \in Int
    <3>1. R.items \in [DOMAIN R.items -> Int] /\ DOMAIN R.items \subseteq Variants
      BY <2>3, TransfersAssumption
    <3> QED
      BY <3>1
  <2>5. {Unfound(m) : m \in moves} = Moves("ship", R.items, R.source, R.destination)
    BY <1>2, <1>11 DEF Prepared, Planned
  <2>6. /\ \A v \in DOMAIN x.items : Len(x.items[v]) = 1
        /\ \A v \in Variants, w \in Places : Means(x, v, w) = Net(moves, v, w)
    BY <1>3, <2>2, <2>4, <2>5, CreatedMeans
  <2>7. ASSUME NEW key \in Keys, key[1] = "goods" PROVE Says(D, key)' = Says(D, key) + Net(moves, key[2], key[3])
    <3>1. key[2] \in Variants /\ key[3] \in Places
      BY <2>7, KeyCases
    <3>2. Net(moves, key[2], key[3]) \in Int
      BY <1>3, <3>1, NetType
    <3> QED
      BY <1>9, <2>1, <2>6, <2>7, <3>1, <3>2
  <2> QED
    BY <1>9, <2>1, <2>6, <2>7
<1>12. CASE R.op # "createTransfer"
  <2>1. PICK old : old = transfers[id]
    OBVIOUS
  <2>2. id \in DOMAIN transfers /\ R.op \in {"updateTransfer", "archiveTransfer", "restoreTransfer"}
    BY <1>3, <1>7, <1>12 DEF There, TransferOps
  <2>3. /\ IsTransfer(old, reasons) /\ DOMAIN old.items \subseteq Variants
        /\ \A v \in DOMAIN old.items : old.items[v] \in Seq(Int) \ {<<>>}
        /\ DOMAIN Recorded(old) = DOMAIN old.items /\ \A v \in DOMAIN old.items : Recorded(old)[v] \in Int
    BY <2>1, <2>2, TransferFacts
  <2>4. \A v \in DOMAIN old.items : Len(old.items[v]) = 1
    BY <1>7, <2>1, <2>2 DEF Once
  <2>5. \A key : Says(D, key) = IF key[1] = "goods" THEN Means(old, key[2], key[3]) ELSE 0
    <3>1. ASSUME NEW key PROVE Says(D, key) = OfTransfer(old, key)
      BY <1>7, <2>1, <2>2 DEF Says
    <3> QED
      BY <3>1, SaysMeans
  <2>6. SUFFICES /\ \A v \in DOMAIN x.items : Len(x.items[v]) = 1
                 /\ Brought(old, x, moves)
    <3>1. ASSUME NEW key \in Keys, key[1] = "goods"
          PROVE  Says(D, key)' = Says(D, key) + Net(moves, key[2], key[3])
      <4>1. key[2] \in Variants /\ key[3] \in Places
        BY <3>1, KeyCases
      <4> QED
        BY <1>9, <2>5, <2>6, <3>1, <4>1 DEF Brought
    <3> QED
      BY <1>9, <2>5, <2>6, <3>1
  <2>7. CASE R.op = "updateTransfer"
    <3>1. /\ x.source = Else(R.source, old.source) /\ x.destination = Else(R.destination, old.destination)
          /\ x.isArchived = old.isArchived /\ x.items = ItemsAfter(old, R, moves)
      BY <1>5, <1>7, <2>1, <2>7 DEF Committed
    <3>2. AccountedTransferUpdate(old, R) /\ ~ old.isArchived
      BY <1>7, <2>1, <2>7 DEF Prepared, AccountedTransferUpdate
    <3>3. Covering(moves, MovesOfUpdate(old, R))
      BY <1>2, <1>7, <2>1, <2>7 DEF Prepared, Planned, Covering
    <3>4. \A v \in DOMAIN Else(R.items, NoItems) : Else(R.items, NoItems)[v] \in Int
      <4>1. R.items \in Shipments \cup {None}
        BY <1>4, <2>7 DEF Understood
      <4>2. CASE R.items = None
        BY <4>2 DEF Else, NoItems
      <4>3. CASE R.items # None
        <5>1. R.items \in [DOMAIN R.items -> Int]
          BY <4>1, <4>3, TransfersAssumption
        <5> QED
          BY <4>3, <5>1 DEF Else
      <4> QED
        BY <4>2, <4>3
    <3>5. \A m \in moves : m.how = "level" => m.toRow # 0 /\ old.items[m.variant] = <<m.seen>>
      BY <1>2, <1>7, <2>1 DEF Unaccounted
    <3>6. \A v \in DOMAIN old.items : old.items[v] \in Seq(Int) /\ Len(old.items[v]) = 1
      BY <2>3, <2>4
    <3>7. ~ x.isArchived
      BY <3>1, <3>2
    <3>8. Singly(moves)
      BY <1>3 DEF Singly
    <3> QED
      BY <1>6, <2>3, <3>1, <3>2, <3>3, <3>4, <3>5, <3>6, <3>7, <3>8, UpdatedMeans
  <2>8. CASE R.op \in {"archiveTransfer", "restoreTransfer"}
    <3>1. PICK archives \in BOOLEAN : archives <=> R.op = "archiveTransfer"
      OBVIOUS
    <3>2. x = [old EXCEPT !.isArchived = archives]
      BY <1>5, <1>7, <2>1, <2>8, <3>1 DEF Committed
    <3>3. /\ x.isArchived = archives /\ x.items = old.items
          /\ x.source = old.source /\ x.destination = old.destination
      <4>1. old = [reason |-> old.reason, source |-> old.source, destination |-> old.destination,
                   isArchived |-> old.isArchived, items |-> old.items]
        BY <2>3 DEF IsTransfer
      <4> QED
        BY <3>2, <4>1
    <3>4. old.isArchived \in BOOLEAN /\ old.isArchived # archives
      <4>1. old.isArchived \in BOOLEAN
        BY <2>3 DEF IsTransfer
      <4>2. old.isArchived # (R.op = "archiveTransfer")
        BY <1>7, <2>1, <2>8 DEF Prepared
      <4> QED
        BY <3>1, <4>1, <4>2
    <3>5. /\ archives => Covering(moves, Moves("return", Recorded(old), old.destination, old.source))
          /\ ~ archives => Covering(moves, Moves("resend", Recorded(old), old.source, old.destination))
      <4>1. {Unfound(m) : m \in moves} = Planned(R)
        BY <1>2 DEF Prepared
      <4>2. CASE archives
        <5>1. R.op = "archiveTransfer"
          BY <3>1, <4>2
        <5> QED
          BY <1>7, <2>1, <4>1, <4>2, <5>1 DEF Planned, Covering
      <4>3. CASE ~ archives
        <5>1. R.op = "restoreTransfer"
          BY <2>8, <3>1, <4>3
        <5> QED
          BY <1>7, <2>1, <4>1, <4>3, <5>1 DEF Planned, Covering
      <4> QED
        BY <4>2, <4>3
    <3>6. Brought(old, x, moves)
      <4>1. Singly(moves)
        BY <1>3 DEF Singly
      <4>2. DOMAIN Recorded(old) = DOMAIN old.items /\ \A v \in DOMAIN old.items : Recorded(old)[v] \in Int
        BY <2>3
      <4> QED
        BY <3>3, <3>4, <3>5, <4>1, <4>2, MarkedMeans
    <3> QED
      BY <2>4, <3>3, <3>6
  <2> QED
    BY <2>2, <2>7, <2>8
<1> QED
  BY <1>11, <1>12

(* A transfer commits: its rows and what it says change together.          *)
LEMMA CommitWork ==
  ASSUME Inv, Inv', Books, NEW c \in Calls, NEW s \in Sent(c), Account(c), Commit(c, s),
         UNCHANGED <<total, balance, payments, receipts>>
  PROVE  Books'
<1>0. PICK R, st, new, D : R = Request(c) /\ st = call[c].stages /\ new = call'[c].stages /\ D = R.doc
  OBVIOUS
<1>01. s.op # "read" /\ s.op = "commit" /\ Executed(c, s)
  BY DEF Commit
<1>1. /\ Late(c) /\ Running(c) /\ D \in Docs /\ Apt(c, R, st) /\ s \in All(st) /\ Placed(c, R, st)
      /\ (D \notin disturbed => Working(R, st))
  BY <1>0, <1>01, AtWork
<1>2. After(st) = {} /\ Sent(c) = {s} /\ R.op \in TransferOps
  BY <1>0, <1>01, NothingAfter
<1>3. D[1] = "transfer" /\ D = <<"transfer", D[2]>> /\ D[1] \in Tracked /\ (R.op = "createTransfer" => D[2] = c)
  BY <1>0, <1>1, <1>2 DEF Apt, Tracked
<1>4. There(R) /\ Inserting(c, R, s) /\ Found(s)
  BY <1>1 DEF Placed
<1>5. PICK x : x = Committed(c, s.moves)
  OBVIOUS
<1>6. transfers' = Put(transfers, D[2], x)
  BY <1>0, <1>5 DEF Commit
<1>7. /\ \A k : k # D[2] => /\ k \in DOMAIN transfers' <=> k \in DOMAIN transfers
                            /\ k \in DOMAIN transfers => transfers'[k] = transfers[k]
      /\ D[2] \in DOMAIN transfers' /\ DOMAIN transfers \subseteq DOMAIN transfers'
  BY <1>6 DEF Put
<1>8. D[2] = c \/ D[2] \in DOMAIN transfers
  BY <1>0, <1>2, <1>3, <1>4 DEF There, TransferOps
<1>9. Grown(c)
  <2>1. \A v \in Variants, w \in Places : Len(rows[v][w]) <= Len(rows'[v][w])
    BY <1>4, CommitRows
  <2>2. ASSUME NEW b \in Calls \ {c}, b \in DOMAIN transfers' PROVE b \in DOMAIN transfers
    BY <1>7, <1>8, <2>2
  <2> QED
    BY <1>7, <2>1, <2>2 DEF Grown
<1>10. /\ Alone(c) /\ (Running(c)' => Request(c)' = R) /\ call'[c].at # "idle"
       /\ All(new) \subseteq All(st) /\ \A t \in All(new) : Alike(s, t) => s.op \in {"balance", "refused"}
  BY <1>0, <1>01, <1>9, WorkExecuted
<1>11. All(new) = {}
  <2>1. \A t \in All(st) : t = s
    <3>1. Pending(c) = Sent(c) \cup After(call[c].stages)
      BY <1>1, SentFirst, SentFacts DEF Inv
    <3> QED
      BY <1>0, <1>2, <3>1 DEF Pending
  <2>2. s \notin All(new)
    BY <1>01, <1>10 DEF Alike, PerVariant
  <2> QED
    BY <1>10, <2>1, <2>2
<1>12. ~ Running(c)'
  <2>1. ASSUME Running(c)' PROVE FALSE
    <3>1. CallOK(c)'
      BY DEF Inv, CallsOK
    <3>2. new # <<>> /\ new[1] # {}
      BY <1>0, <2>1, <3>1 DEF CallOK
    <3>3. new \in Seq(Own(new))
      BY <1>0, <3>1 DEF CallOK, Orderly, Own
    <3>4. 1 \in DOMAIN new
      BY <3>2, <3>3
    <3> QED
      BY <1>11, <3>2, <3>4 DEF All
  <2> QED
    BY <2>1
<1>13. ~ Late(c)' /\ Begun(c)'
  BY <1>10, <1>12 DEF Late, Begun
<1>14. /\ Booked' /\ \A d \in Docs \ {D} : \A key \in Keys : Entry(d, key)' = Entry(d, key)
       /\ \A key \in Keys : /\ Change(key) \in Int
                            /\ Entry(D, key)' = Entry(D, key) + Change(key)
  BY <1>0, <1>1, AccountStep DEF Books
<1>15. Apart(D)
  <2>1. UNCHANGED <<payments, receipts>>
    OBVIOUS
  <2>2. ASSUME NEW k, <<"transfer", k>> # D
        PROVE  /\ k \in DOMAIN transfers' <=> k \in DOMAIN transfers
               /\ k \in DOMAIN transfers => Like(transfers[k], transfers'[k])
    <3>1. k # D[2]
      BY <1>3, <2>2
    <3> QED
      BY <1>7, <3>1 DEF Like
  <2> QED
    BY <2>1, <2>2 DEF Apart
<1>16. \A d \in Docs \ {D} : SameBook(d)
  BY <1>14, <1>15, OthersSame
<1>17. disturbed \subseteq disturbed' /\ (D \notin disturbed' => D \notin disturbed /\ \A m \in s.moves : ~ Unaccounted(c, m))
  BY <1>0 DEF Commit, DisturbIf
<1>18. D \notin disturbed' => \A b \in Calls \ {c} : Late(b) => Request(b).doc # D
  BY <1>0, <1>1, <1>3, <1>17 DEF Books, Sole
<1>19. ASSUME D \notin disturbed' PROVE Kept(D)'
  <2>1. D \notin disturbed /\ \A m \in s.moves : ~ Unaccounted(c, m)
    BY <1>17, <1>19
  <2>2. Prepared(R, s)
    BY <1>01, <1>1, <2>1 DEF Working
  <2>3. Resting(D) /\ Once(D)
    BY <1>1, <1>3, <2>1 DEF Books, Kept, InHand
  <2>4. /\ Once(D)'
        /\ \A key \in Keys : Says(D, key)' =
             IF key[1] = "goods" THEN Says(D, key) + Net(s.moves, key[2], key[3]) ELSE Says(D, key)
    BY <1>0, <1>3, <1>4, <2>1, <2>2, <2>3, CommitMeans
  <2>5. ASSUME NEW key \in Keys PROVE Entry(D, key)' = Says(D, key)'
    <3>1. Entry(D, key) = Says(D, key) /\ Entry(D, key) \in Int
      BY <1>1, <2>3, EntryType DEF Resting, Books
    <3>2. CASE key[1] = "goods"
      <4>1. key[2] \in Variants /\ key[3] \in Places
        BY <3>2, KeyCases
      <4>2. InPlace(rows', key[2], key[3]) = InPlace(rows, key[2], key[3]) + Net(s.moves, key[2], key[3])
        BY <1>4, <2>1, <4>1, CommitRows
      <4>3. InPlace(rows, key[2], key[3]) \in Int
        BY <4>1, PlacesCount DEF Inv, Typed, RowsTypeOK
      <4>4. Net(s.moves, key[2], key[3]) \in Int
        <5>1. \A m \in s.moves : IsFound(m)
          BY <1>01, SentFacts, MovingProper DEF Inv
        <5> QED
          BY <5>1, NetType
      <4>5. Change(key) = Net(s.moves, key[2], key[3])
        BY <3>2, <4>2, <4>3, <4>4 DEF Change
      <4> QED
        BY <1>14, <2>4, <3>1, <3>2, <4>5
    <3>3. CASE key[1] # "goods"
      <4>1. balance \in [Suppliers -> Int] /\ total \in [Variants -> Int]
        BY DEF Inv, Typed, RowsTypeOK
      <4>2. Change(key) = 0
        BY <3>3, <4>1, KeyCases DEF Change
      <4> QED
        BY <1>14, <2>4, <3>1, <3>3, <4>2
    <3> QED
      BY <3>2, <3>3
  <2>6. Resting(D)'
    BY <2>5 DEF Resting
  <2>7. Balanced(D)'
    BY <1>3 DEF Balanced
  <2> QED
    BY <2>4, <2>6, <2>7 DEF Kept
<1> QED
  BY <1>0, <1>1, <1>3, <1>9, <1>10, <1>13, <1>14, <1>16, <1>17, <1>18, <1>19, WorkStep

(* Nothing is written, and no call is at work that was not; where one is   *)
(* gone, its document is disturbed.                                        *)
LEMMA FewerWork ==
  ASSUME Inv, Inv', Books, UNCHANGED <<rows, total, balance, payments, receipts, transfers, effect>>,
         disturbed \subseteq disturbed',
         \A c \in Calls : Late(c)' => Late(c) /\ call'[c] = call[c],
         \A c \in Calls : ~ Begun(c)' => ~ Begun(c),
         \A c \in Calls : Late(c) /\ ~ Late(c)' => Request(c).doc \in disturbed'
  PROVE  Books'
<1>1. \A d \in Docs : SameBook(d)
  <2>1. \A d, key : Entry(d, key)' = Entry(d, key)
    BY DEF Entry
  <2>2. \A d, key : Says(d, key)' = Says(d, key)
    BY DEF Says
  <2>3. \A k : k \in DOMAIN transfers => Like(transfers[k], transfers'[k])
    BY DEF Like
  <2> QED
    BY <2>1, <2>2, <2>3 DEF SameBook
<1>2. \A c \in Calls : Late(c)' => Request(c)' = Request(c) /\ call'[c].stages = call[c].stages
  BY DEF Request
<1>3. Booked'
  BY DEF Books, Booked
<1>4. Sole'
  <2> SUFFICES ASSUME NEW a \in Calls, NEW b \in Calls, Late(a)', Late(b)', Request(a)'.doc = Request(b)'.doc,
                      Request(b)'.doc[1] \in Tracked, Request(b)'.doc \notin disturbed'
               PROVE  a = b
    BY DEF Sole
  <2>1. Late(a) /\ Late(b) /\ Request(a)' = Request(a) /\ Request(b)' = Request(b)
    BY <1>2
  <2> QED
    BY <2>1 DEF Books, Sole
<1>5. ASSUME NEW b \in Calls, ~ Begun(b)' PROVE Unborn(b)'
  BY <1>5 DEF Books, Unborn
<1>6. ASSUME NEW b \in Calls, NEW r, NEW st, Does(b, r, st)'
      PROVE  /\ Placed(b, r, st)'
             /\ r.doc \notin disturbed' => Working(r, st)'
  <2>1. Does(b, r, st)
    BY <1>2, <1>6 DEF Does
  <2>2. Placed(b, r, st) /\ (r.doc \notin disturbed => Working(r, st))
    BY <2>1 DEF Books
  <2>3. Running(b) /\ r = Request(b) /\ st = call[b].stages /\ CallOK(b)
    BY <2>1 DEF Does, Late, Inv, CallsOK
  <2>4. Apt(b, r, st) /\ r.doc \in Docs
    BY <2>3, CallsApt, DocsKnown DEF Inv
  <2>5. There(r)' /\ \A s \in All(st) : Inserting(b, r, s)' /\ Found(s)'
    <3>1. \A s : (Inserting(b, r, s) => Inserting(b, r, s)') /\ (Found(s) => Found(s)')
      BY DEF Inserting, Found
    <3> QED
      BY <2>2, <3>1 DEF Placed, There
  <2>6. r.doc \notin disturbed' => Working(r, st)'
    BY <1>1, <2>2, <2>4, OtherWorks DEF Placed
  <2> QED
    BY <2>2, <2>5, <2>6 DEF Placed
<1>7. ASSUME NEW d \in Docs \ disturbed' PROVE Kept(d)'
  <2>1. Kept(d) /\ SameBook(d)
    BY <1>1 DEF Books
  <2>2. \A c \in Calls : Late(c) /\ Request(c).doc = d => Late(c)' /\ Request(c)' = Request(c) /\ call'[c] = call[c]
    BY <1>2
  <2>3. (InHand(d) => InHand(d)') /\ (Rewritten(d) => Rewritten(d)')
    BY <2>2 DEF InHand, Rewritten
  <2>4. Resting(d) => Resting(d)'
    BY <2>1 DEF Resting, SameBook
  <2>5. (Balanced(d) => Balanced(d)') /\ (Once(d) => Once(d)')
    BY DEF Balanced, Once
  <2> QED
    BY <2>1, <2>3, <2>4, <2>5 DEF Kept
<1> QED
  BY <1>3, <1>4, <1>5, <1>6, <1>7 DEF Books

(* A call is received, and reads first.                                    *)
LEMMA ReceiveWork ==
  ASSUME Inv, Inv', Books, NEW c \in Calls, ReceiveRequest(c)
  PROVE  Books'
<1>1. PICK r \in Requests : Receive(c, [r EXCEPT !.doc[2] = IF @ = None THEN c ELSE @])
  BY DEF ReceiveRequest
<1> DEFINE q == [r EXCEPT !.doc[2] = IF @ = None THEN c ELSE @]
<1> HIDE DEF q
<1>2. Alone(c) /\ call[c].at = "idle" /\ call'[c].at = "running" /\ call'[c].stages = Reading
  BY <1>1, ReceiveEffect DEF Inv, q
<1>3. /\ UNCHANGED <<rows, total, balance, payments, receipts, transfers, effect>>
      /\ disturbed' = disturbed
  BY <1>1 DEF ReceiveRequest, Receive
<1>4. ~ Late(c) /\ ~ Late(c)' /\ ~ Begun(c)
  BY <1>2 DEF Late, Begun, Running
<1>5. \A b \in Calls \ {c} : /\ call'[b] = call[b] /\ Late(b)' = Late(b) /\ Begun(b)' = Begun(b)
  BY <1>2 DEF Alone, Late, Begun, Running
<1>6. /\ \A b \in Calls : Late(b)' => Late(b) /\ call'[b] = call[b]
      /\ \A b \in Calls : ~ Begun(b)' => ~ Begun(b)
      /\ \A b \in Calls : Late(b) => Late(b)'
  BY <1>4, <1>5
<1> QED
  BY <1>3, <1>6, FewerWork

(* The server stops: the documents of the calls at work are disturbed.     *)
LEMMA CrashWork ==
  ASSUME Inv, Inv', Books, Crash
  PROVE  Books'
<1>1. UNCHANGED <<rows, total, balance, payments, receipts, transfers, effect>> /\ Restart
  BY DEF Crash
<1>2. \A c \in Calls : IF Running(c) THEN call'[c] = [Blank EXCEPT !.at = "aborted"] ELSE call'[c] = call[c]
  BY <1>1, RestartEffect DEF Inv
<1>3. \A c \in Calls : ~ Running(c)' /\ (call'[c].at = "idle" => call[c].at = "idle")
  BY <1>2 DEF Running, Blank
<1>4. \A c \in Calls : ~ Late(c)' /\ (~ Begun(c)' => ~ Begun(c))
  BY <1>3 DEF Late, Begun
<1>5. disturbed \subseteq disturbed' /\ \A c \in Calls : Late(c) => Request(c).doc \in disturbed'
  BY <1>1 DEF Restart, Late, Reading
<1> QED
  BY <1>1, <1>4, <1>5, FewerWork

(* Nothing happens.                                                        *)
LEMMA StillWork ==
  ASSUME Inv, Inv', Books, UNCHANGED vars
  PROVE  Books'
<1>1. UNCHANGED <<rows, total, balance, payments, receipts, transfers, effect, call, disturbed>>
  BY DEF vars
<1>2. \A c \in Calls : Late(c)' = Late(c) /\ Begun(c)' = Begun(c)
  BY <1>1 DEF Late, Begun, Running
<1> QED
  BY <1>1, <1>2, FewerWork

(* What the books say of a document is what it accounts for.               *)
LEMMA SaysAccounted ==
  ASSUME NEW d
  PROVE  /\ \A s \in Suppliers : Says(d, <<"debt", s, 0, 0>>) = Accounted(d).debts[s]
         /\ \A v \in Variants : Says(d, <<"total", v, 0, 0>>) = Accounted(d).totals[v]
         /\ \A v \in Variants, w \in Places, h \in Places :
              Says(d, <<"goods", v, w, h>>) = Accounted(d).goods[v][w]
<1>1. ASSUME NEW s \in Suppliers PROVE Says(d, <<"debt", s, 0, 0>>) = Accounted(d).debts[s]
  BY DEF Says, Accounted, OfReceipt, OfPayment, OfTransfer, OwedByReceipt, OwedByPayment
<1>2. ASSUME NEW v \in Variants PROVE Says(d, <<"total", v, 0, 0>>) = Accounted(d).totals[v]
  BY DEF Says, Accounted, OfReceipt, OfPayment, OfTransfer, Received
<1>3. ASSUME NEW v \in Variants, NEW w \in Places, NEW h \in Places
      PROVE  Says(d, <<"goods", v, w, h>>) = Accounted(d).goods[v][w]
  BY DEF Says, Accounted, OfReceipt, OfPayment, OfTransfer, Received, ReceivedIn, Shipped
<1> QED
  BY <1>1, <1>2, <1>3

(* The books balance to begin with.                                        *)
LEMMA BooksInit ==
  ASSUME Init
  PROVE  Books
<1>1. Inv
  BY InitTyped
<1>2. effect = [d \in Docs |-> Accounted(d)] /\ \A c \in Calls : call[c].at = "idle"
  BY DEF Init, HandlersInit, Blank
<1>3. receipts = OpeningReceipts /\ payments = OpeningPayments /\ transfers = OpeningTransfers
  BY DEF Init
<1>4. \A c \in Calls : ~ Running(c) /\ ~ Late(c)
  BY <1>2 DEF Running, Late
<1>5. Booked
  <2>1. ASSUME NEW d \in Docs
        PROVE  Accounted(d) \in [goods : [Variants -> [Places -> Int]], totals : [Variants -> Int],
                                 debts : [Suppliers -> Int]]
    <3>1. d[1] = "receipt" /\ d[2] \in DOMAIN receipts =>
            /\ IsReceipt(receipts[d[2]])
            /\ \A v \in DOMAIN receipts[d[2]].lines : receipts[d[2]].lines[v].quantity \in Int
      BY <1>1 DEF Inv, Tables, IsReceipt, AreLines
    <3>2. d[2] \in DOMAIN payments =>
            payments[d[2]].amount \in Int /\ payments[d[2]].accounted.amount \in Int
      BY <1>1 DEF Inv, Tables, PaymentRow
    <3>3. d[2] \in DOMAIN transfers =>
            \A v \in DOMAIN transfers[d[2]].items : Recorded(transfers[d[2]])[v] \in Int
      BY <1>1, TransferFacts
    <3>4. ASSUME NEW v \in Variants, NEW w \in Places
          PROVE  (CASE d[1] = "receipt" /\ d[2] \in DOMAIN receipts -> ReceivedIn(d[2], v, w)
                    [] d[1] = "transfer" /\ d[2] \in DOMAIN transfers -> Shipped(d[2], v, w)
                    [] OTHER -> 0) \in Int
      <4>1. d[1] = "receipt" /\ d[2] \in DOMAIN receipts => ReceivedIn(d[2], v, w) \in Int
        BY <3>1 DEF ReceivedIn, Received
      <4>2. d[1] = "transfer" /\ d[2] \in DOMAIN transfers => Shipped(d[2], v, w) \in Int
        BY <3>3 DEF Shipped
      <4> QED
        BY <4>1, <4>2
    <3>5. ASSUME NEW v \in Variants
          PROVE  (IF d[1] = "receipt" /\ d[2] \in DOMAIN receipts THEN Received(d[2], v) ELSE 0) \in Int
      BY <3>1 DEF Received
    <3>6. ASSUME NEW s \in Suppliers
          PROVE  (CASE d[1] = "receipt" /\ d[2] \in DOMAIN receipts -> OwedByReceipt(d[2], s)
                    [] d[1] = "payment" /\ d[2] \in DOMAIN payments -> OwedByPayment(d[2], s)
                    [] OTHER -> 0) \in Int
      <4>1. d[1] = "receipt" /\ d[2] \in DOMAIN receipts => OwedByReceipt(d[2], s) \in Int
        BY <3>1 DEF OwedByReceipt, IsReceipt
      <4>2. d[1] = "payment" /\ d[2] \in DOMAIN payments => OwedByPayment(d[2], s) \in Int
        BY <3>2 DEF OwedByPayment
      <4> QED
        BY <4>1, <4>2
    <3> QED
      BY <3>4, <3>5, <3>6 DEF Accounted
  <2> QED
    BY <1>2, <2>1 DEF Booked
<1>6. ASSUME NEW c \in Calls PROVE Unborn(c)
  BY <1>3, OpeningAssumption DEF Unborn
<1>7. ASSUME NEW d \in Docs PROVE Kept(d)
  <2>1. ASSUME NEW key \in Keys PROVE Entry(d, key) = Says(d, key)
    <3>1. effect[d] = Accounted(d)
      BY <1>2
    <3>2. CASE key[1] = "debt"
      <4>1. key = <<"debt", key[2], 0, 0>> /\ key[2] \in Suppliers
        BY <3>2 DEF Keys
      <4> QED
        BY <3>1, <3>2, <4>1, SaysAccounted DEF Entry
    <3>3. CASE key[1] = "total"
      <4>1. key = <<"total", key[2], 0, 0>> /\ key[2] \in Variants
        BY <3>3 DEF Keys
      <4> QED
        BY <3>1, <3>3, <4>1, SaysAccounted DEF Entry
    <3>4. CASE key[1] = "goods"
      <4>1. /\ key = <<"goods", key[2], key[3], key[4]>>
            /\ key[2] \in Variants /\ key[3] \in Places /\ key[4] \in Places
        BY <3>4 DEF Keys
      <4> QED
        BY <3>1, <3>4, <4>1, SaysAccounted DEF Entry
    <3> QED
      BY <3>2, <3>3, <3>4, KeyCases
  <2>2. Balanced(d)
    BY <1>3, OpeningAssumption DEF Balanced
  <2>3. Once(d)
    BY <1>3, OpeningAssumption DEF Once
  <2> QED
    BY <2>1, <2>2, <2>3 DEF Kept, Resting
<1> QED
  BY <1>4, <1>5, <1>6, <1>7 DEF Books, Sole, Does

(* A step of a call.                                                       *)
LEMMA ServeWork ==
  ASSUME Inv, Inv', Books, NEW c \in Calls, Serve(c)
  PROVE  Books'
<1>1. PICK s \in Sent(c) :
        /\ \/ ReceiptStep(c, s) /\ UNCHANGED <<transfers, reasons, archived>>
           \/ TransferStep(c, s) /\ UNCHANGED <<total, balance, payments, receipts, archived>>
           \/ PremisesStep(c, s) /\ UNCHANGED <<total, balance, payments, receipts, transfers, reasons>>
           \/ LoseStatement(c, s)
        /\ Account(c)
  BY DEF Serve
<1>2. CASE ReceiptStep(c, s) /\ UNCHANGED transfers
  <2>1. CASE PaymentStep(c, s) /\ UNCHANGED <<rows, total, receipts>>
    BY <1>1, <1>2, <2>1, BalanceWork, PaymentWork, CreatePaymentWork, UpdatePaymentWork DEF PaymentStep
  <2>2. CASE IncrementTotal(c, s) \/ IncrementRows(c, s) \/ IncrementEverywhere(c, s)
    BY <1>1, <1>2, <2>2, TotalWork, RowsWork, EverywhereWork
  <2>3. CASE CreateReceipt(c, s) \/ RecordReceipt(c, s) \/ UpdateReceipt(c, s) \/ RereadLines(c, s)
    BY <1>1, <1>2, <2>3, CreateReceiptWork, RecordWork, UpdateReceiptWork, RereadWork
  <2>4. CASE \/ WriteLine(c, s) \/ RewriteReceipt(c, s) \/ ArchiveReceipt(c, s) \/ MarkReceipt(c, s)
             \/ FailRefused(c, s)
    BY <1>1, <1>2, <2>4, LineWork, RewriteWork, ArchiveReceiptWork, MarkWork, RefusedWork
  <2> QED
    BY <1>2, <2>1, <2>2, <2>3, <2>4 DEF ReceiptStep
<1>3. CASE TransferStep(c, s) /\ UNCHANGED <<total, balance, payments, receipts>>
  <2>1. CASE CreateTransfer(c, s) \/ UpdateTransfer(c, s) \/ ArchiveTransfer(c, s)
    BY <1>1, <1>3, <2>1, CreateTransferWork, UpdateTransferWork, ArchiveTransferWork
  <2>2. CASE LookUp(c, s) \/ Commit(c, s)
    BY <1>1, <1>3, <2>2, LookUpWork, CommitWork
  <2>3. CASE CreateReason(c, s) \/ CountTransfers(c, s) \/ DeleteReason(c, s)
    BY <1>1, <1>3, <2>3, ReasonsWork
  <2> QED
    BY <1>3, <2>1, <2>2, <2>3 DEF TransferStep
<1>4. CASE PremisesStep(c, s) /\ UNCHANGED <<total, balance, payments, receipts, transfers, reasons>>
  BY <1>1, <1>4, PremisesWork
<1>5. CASE LoseStatement(c, s)
  <2>1. Lose(c, s) /\ UNCHANGED <<rows, total, balance, payments, receipts, transfers>>
    BY <1>5 DEF LoseStatement
  <2> QED
    BY <1>1, <2>1, LoseWork
<1> QED
  BY <1>1, <1>2, <1>3, <1>4, <1>5

(* The books are kept in every behaviour.                                  *)
LEMMA BooksHold == Spec => [](Inv /\ Books)
<1>1. Init => Inv /\ Books
  BY InitTyped, BooksInit
<1>2. Inv /\ Inv' /\ Books /\ [Next]_vars => Books'
  <2> SUFFICES ASSUME Inv, Inv', Books, [Next]_vars PROVE Books'
    OBVIOUS
  <2>1. CASE Crash
    BY <2>1, CrashWork
  <2>2. ASSUME NEW c \in Calls, ReceiveRequest(c) PROVE Books'
    BY <2>2, ReceiveWork
  <2>3. ASSUME NEW c \in Calls, Serve(c) PROVE Books'
    BY <2>3, ServeWork
  <2>4. CASE UNCHANGED vars
    BY <2>4, StillWork
  <2> QED
    BY <2>1, <2>2, <2>3, <2>4 DEF Next
<1> QED
  BY <1>1, <1>2, InvHolds, PTL DEF Spec

(* A document at rest has changed what it accounts for.                    *)
LEMMA RestAccounts ==
  ASSUME Books, NEW d \in Docs \ disturbed, AtRest(d)
  PROVE  /\ \A s \in Suppliers : effect[d].debts[s] = Accounted(d).debts[s]
         /\ \A v \in Variants : effect[d].totals[v] = Accounted(d).totals[v]
         /\ \A v \in Variants, w \in Places : effect[d].goods[v][w] = Accounted(d).goods[v][w]
<1>1. Resting(d)
  <2>1. ~ InHand(d)
    BY DEF AtRest, InHand, Late
  <2> QED
    BY <2>1 DEF Books, Kept
<1>2. ASSUME NEW s \in Suppliers PROVE effect[d].debts[s] = Accounted(d).debts[s]
  <2>1. PICK key : key = <<"debt", s, 0, 0>>
    OBVIOUS
  <2>2. key \in Keys /\ Entry(d, key) = effect[d].debts[s] /\ Says(d, key) = Accounted(d).debts[s]
    BY <2>1, SaysAccounted DEF Keys, Entry
  <2> QED
    BY <1>1, <2>2 DEF Resting
<1>3. ASSUME NEW v \in Variants PROVE effect[d].totals[v] = Accounted(d).totals[v]
  <2>1. PICK key : key = <<"total", v, 0, 0>>
    OBVIOUS
  <2>2. key \in Keys /\ Entry(d, key) = effect[d].totals[v] /\ Says(d, key) = Accounted(d).totals[v]
    BY <2>1, SaysAccounted DEF Keys, Entry
  <2> QED
    BY <1>1, <2>2 DEF Resting
<1>4. ASSUME NEW v \in Variants, NEW w \in Places PROVE effect[d].goods[v][w] = Accounted(d).goods[v][w]
  <2>1. PICK key : key = <<"goods", v, w, w>>
    OBVIOUS
  <2>2. key \in Keys /\ Entry(d, key) = effect[d].goods[v][w] /\ Says(d, key) = Accounted(d).goods[v][w]
    BY <2>1, SaysAccounted DEF Keys, Entry
  <2> QED
    BY <1>1, <2>2 DEF Resting
<1> QED
  BY <1>2, <1>3, <1>4

(* DebtAccounts of the run: a receipt or a payment at rest has changed     *)
(* what is owed to each supplier by exactly what it says, however the      *)
(* calls on other documents interleaved.                                   *)
THEOREM DebtsAccounted == Spec => []DebtAccounts
<1>1. Books => DebtAccounts
  <2> SUFFICES ASSUME Books, NEW d \in Docs \ disturbed, AtRest(d)
               PROVE  effect[d].debts = Accounted(d).debts
    BY DEF DebtAccounts
  <2>1. effect[d].debts \in [Suppliers -> Int]
    BY DEF Books, Booked
  <2>2. PICK b : b = Accounted(d).debts
    OBVIOUS
  <2>3. DOMAIN b = Suppliers /\ b = [s \in Suppliers |-> b[s]]
    BY <2>2 DEF Accounted
  <2>4. \A s \in Suppliers : effect[d].debts[s] = b[s]
    BY <2>2, RestAccounts
  <2> QED
    BY <2>1, <2>2, <2>3, <2>4
<1> QED
  BY <1>1, BooksHold, PTL

(* StockAccounts of the run: a receipt or a transfer at rest has moved     *)
(* exactly what it says of each variant to each warehouse, and in the      *)
(* totals, however the calls on other documents interleaved.               *)
THEOREM StockAccounted == Spec => []StockAccounts
<1>1. Books => StockAccounts
  <2> SUFFICES ASSUME Books, NEW d \in Docs \ disturbed, AtRest(d)
               PROVE  effect[d].goods = Accounted(d).goods /\ effect[d].totals = Accounted(d).totals
    BY DEF StockAccounts
  <2>1. effect[d].goods \in [Variants -> [Places -> Int]] /\ effect[d].totals \in [Variants -> Int]
    BY DEF Books, Booked
  <2>2. PICK a, b : a = Accounted(d).goods /\ b = Accounted(d).totals
    OBVIOUS
  <2>3. b = [v \in Variants |-> b[v]] /\ a = [v \in Variants |-> [w \in Places |-> a[v][w]]]
    BY <2>2 DEF Accounted
  <2>4. /\ \A v \in Variants : effect[d].totals[v] = b[v]
        /\ \A v \in Variants, w \in Places : effect[d].goods[v][w] = a[v][w]
    BY <2>2, RestAccounts
  <2>5. effect[d].totals = b
    BY <2>1, <2>3, <2>4
  <2>6. effect[d].goods = a
    BY <2>1, <2>3, <2>4
  <2> QED
    BY <2>2, <2>5, <2>6
<1> QED
  BY <1>1, BooksHold, PTL
=============================================================================
