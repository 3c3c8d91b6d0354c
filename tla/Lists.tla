------------------------------- MODULE Lists -------------------------------
(***************************************************************************)
(* How a client reads a list while others change it: the infinite lists,   *)
(* that go on from a cursor, and the numbered pages, whose rows and count  *)
(* are two queries side by side.  A list is ordered by one column, without *)
(* a second one for rows that tie: these come in any order, and not in the *)
(* same one in the next query.                                             *)
(***************************************************************************)
EXTENDS Integers, SequencesExt, FiniteSetsExt

CONSTANTS
  Limits,   \* what DEFAULT_PRISMA_LIMIT, or the rowsPerPage of a client, may be (a bound)
  Wide,     \* how many rows more than that the list of categories takes
  Items,    \* what may be in the list (a bound)
  Keys,     \* the values of the column of the order: the smaller comes first (a bound)
  NChanges, \* how often the table changes while it is read (a bound)
  Openings, \* the keys of the items that are there to begin with
  None

ASSUME ListsAssumption ==
  /\ Limits \subseteq Nat \ {0} /\ Wide \in Nat \ {0} /\ Keys \subseteq Int
  /\ NChanges \in Nat
  /\ \A opening \in Openings : DOMAIN opening \subseteq Items /\ opening \in [DOMAIN opening -> Keys]

VARIABLES
  list,     \* which list is read
  limit,    \* how many rows at a time
  key,      \* the items that are there, with the value that they are ordered by
  active,   \* those of them that are not archived
  changes,  \* how often these have changed since a client began to read
  reader,   \* the client: how and how far it has read
  steady,   \* history: the items that have been active since it began
  loose,    \* history: the items that have got another key since, or have been
            \* read level with the cursor or, in pages, with another item
  came,     \* history: an item has become active since
  left,     \* history: an item has ceased to be since
  lost      \* history: the item of its cursor was not active when it went on
            \* from it, or has got another key; or an item has become active
            \* between the count and the rows of a page

table == <<key, active, changes>>
seen == <<steady, loose, came, left, lost>>
which == <<list, limit>>
vars == <<which, table, reader, seen>>

(* An infinite list takes rows above the limit for its cursor.  The order  *)
(* is that of createdAt, which stays as it is, of another column, which an *)
(* update may change, or none.  Items are archived or deleted, or stay.    *)
Infinite(order, extra, removal) ==
  [read |-> "infinite", order |-> order, extra |-> extra, removal |-> removal]
Pages(order, removal) == [read |-> "pages", order |-> order, extra |-> 0, removal |-> removal]

ProductsList == Infinite("newest", 1, "archive")
VariantsList == Infinite("newest", 1, "archive")
WarehouseVariantsList == Infinite("newest", 1, "archive")
WarehousesList == Infinite("newest", 1, "archive")
SuppliersList == Infinite("newest", 1, "archive")
CategoriesList == Infinite("name", Wide, "archive")
GroupsList == Infinite("name", 1, "archive")
EmployeesList == Infinite("newest", 1, "delete")
CustomersList == Infinite("newest", 1, "delete")
BrandsList == Infinite("newest", 1, "delete")
ColorsList == Infinite("newest", 1, "delete")
TagsList == Infinite("newest", 1, "delete")
CharacteristicsList == Infinite("newest", 1, "delete")
ValuesList == Infinite("newest", 1, "delete")
AttributesList == Infinite("newest", 1, "delete")
SourcesList == Infinite("newest", 1, "delete")
OperationsList == Infinite("newest", 1, "delete")
TransferReasonsList == Infinite("newest", 1, "delete")
AdjustmentReasonsList == Infinite("newest", 1, "delete")
OrdersList == Infinite("newest", 1, "never")
RefundsList == Infinite("newest", 1, "never")

ProductsPages == Pages("newest", "archive")
VariantsPages == Pages("none", "archive")
CategoriesPages == Pages("newest", "archive")
GroupsPages == Pages("newest", "archive")
SuppliersPages == Pages("newest", "archive")
WarehousesPages == Pages("newest", "archive")
PointsOfSalePages == Pages("newest", "archive")
ReceiptsPages == Pages("newest", "archive")
TransfersPages == Pages("newest", "archive")
AdjustmentsPages == Pages("newest", "archive")
EmployeesPages == Pages("newest", "delete")
CustomersPages == Pages("newest", "delete")
OrdersPages == Pages("newest", "never")
RefundsPages == Pages("newest", "never")
ShiftsPages == Pages("newest", "never")
PaymentsPages == Pages("newest", "never")
ImportsPages == Pages("newest", "never")

Scrolled ==
  {ProductsList, VariantsList, WarehouseVariantsList, WarehousesList, SuppliersList, CategoriesList,
   GroupsList, EmployeesList, CustomersList, BrandsList, ColorsList, TagsList, CharacteristicsList,
   ValuesList, AttributesList, SourcesList, OperationsList, TransferReasonsList,
   AdjustmentReasonsList, OrdersList, RefundsList}
Paged ==
  {ProductsPages, VariantsPages, CategoriesPages, GroupsPages, SuppliersPages, WarehousesPages,
   PointsOfSalePages, ReceiptsPages, TransfersPages, AdjustmentsPages, EmployeesPages,
   CustomersPages, OrdersPages, RefundsPages, ShiftsPages, PaymentsPages, ImportsPages}

(* buildOrderByArray: pages are ordered by a column that the client names, *)
(* or as above.                                                            *)
AllLists == Scrolled \cup Paged \cup {[pages EXCEPT !.order = "column"] : pages \in Paged}

(* Two items of which either may come first.                               *)
Level(i, j) == list.order = "none" \/ key[i] = key[j]

(* The orders that findMany may answer in.                                 *)
Orders(items) ==
  {o \in SetToSeqs(items) : \A m, n \in DOMAIN o : m < n => Level(o[m], o[n]) \/ key[o[m]] < key[o[n]]}

(* findMany with a cursor, when the order is not unique: the rows are read *)
(* without it and those before the cursor's are left out, which are all of *)
(* them if that one is archived or deleted.                                *)
From(cursor, order) ==
  IF cursor = None THEN order
  ELSE IF cursor \in Range(order)
    THEN SubSeq(order, SelectInSeq(order, LAMBDA i : i = cursor), Len(order)) ELSE <<>>

(* The rows after those that are skipped, as many as are taken.            *)
Window(order, skip, take) ==
  SubSeq(order, skip + 1, IF skip + take < Len(order) THEN skip + take ELSE Len(order))

(* Mutant of Skip: the last row of a page is also the first of the next.   *)
SkipLess(page) == (page - 1) * (limit - 1)

(* getPaginationData *)
Skip(page) == (page - 1) * limit

(* Mutant of TotalPages: the rows of the last page are not counted.        *)
FullPages(items) == items \div limit

(* calculateTotalPages *)
TotalPages(items) == (items + limit - 1) \div limit
-----------------------------------------------------------------------------
(* What a client has been shown, and what of it more than once; where it   *)
(* is; and the rows and the count of the page that it waits for.           *)
Idle == [how |-> "idle", shown |-> {}, twice |-> {}, cursor |-> None, page |-> 0,
         rows |-> None, count |-> None]

Shows(r, items) == [r EXCEPT !.shown = @ \cup items, !.twice = @ \cup (r.shown \cap items)]

Init ==
  /\ list \in AllLists /\ limit \in Limits
  /\ key \in Openings /\ active \in SUBSET DOMAIN key
  /\ list.removal # "archive" => active = DOMAIN key
  /\ changes = 0
  /\ reader = Idle
  /\ steady = active /\ loose = {} /\ came = FALSE /\ left = FALSE /\ lost = FALSE

(* Mutant of NextCursor: the row at the limit, however many were taken.    *)
RowAtLimit(rows) == IF Len(rows) >= limit THEN rows[limit] ELSE None

(* The row that is popped, if there are more than the limit.               *)
NextCursor(rows) == IF Len(rows) > limit THEN Last(rows) ELSE None

(* findAllInfiniteList: the row above the limit is the next cursor.        *)
LoadMore ==
  /\ list.read = "infinite" /\ reader.how \in {"idle", "scrolling"}
  /\ \E order \in Orders(active) :
       LET taken == Window(From(reader.cursor, order), 0, limit + list.extra)
           next == NextCursor(taken)
       IN  reader' = [Shows(reader, Range(taken) \ {next}) EXCEPT
                        !.how = IF next # None THEN "scrolling" ELSE "scrolled",
                        !.cursor = next]
  /\ loose' = loose \cup {i \in active : reader.cursor \in active \ {i} /\ Level(i, reader.cursor)}
  /\ lost' = (lost \/ reader.cursor \notin active \cup {None})
  /\ UNCHANGED <<which, table, steady, came, left>>

(* findAll: the client asks for a page; the rows and the count are read in *)
(* any order.                                                              *)
AskForPage ==
  /\ list.read = "pages"
  /\ \/ reader.how = "idle"
     \/ reader.how = "paging" /\ reader.rows = None /\ reader.count = None
  /\ reader' = [reader EXCEPT !.how = "waiting", !.page = @ + 1]
  /\ UNCHANGED <<which, table, seen>>

ReadRows ==
  /\ reader.how = "waiting" /\ reader.rows = None
  /\ \E order \in Orders(active) :
       reader' = [reader EXCEPT !.rows = Range(Window(order, Skip(reader.page), limit))]
  /\ loose' = loose \cup {i \in active : \E j \in active \ {i} : Level(i, j)}
  /\ UNCHANGED <<which, table, steady, came, left, lost>>

ReadCount ==
  /\ reader.how = "waiting" /\ reader.count = None
  /\ reader' = [reader EXCEPT !.count = Cardinality(active)]
  /\ UNCHANGED <<which, table, seen>>

(* The page is shown, with how many there are.                             *)
ShowPage ==
  /\ reader.how = "waiting" /\ reader.rows # None /\ reader.count # None
  /\ reader' = [Shows(reader, reader.rows) EXCEPT
                  !.how = IF reader.page < TotalPages(reader.count) THEN "paging" ELSE "paged",
                  !.rows = None, !.count = None]
  /\ UNCHANGED <<which, table, seen>>
-----------------------------------------------------------------------------
(* Items come, go and move while the list is read (what is there before is *)
(* any part of an opening, and what comes after does not matter).          *)
Reading == reader.how \in {"scrolling", "waiting", "paging"}
Changed == Reading /\ changes < NChanges /\ changes' = changes + 1
Torn == reader.how = "waiting" /\ reader.count # None /\ reader.rows = None

Enters(i) ==
  /\ Changed
  /\ active' = active \cup {i}
  /\ came' = TRUE /\ lost' = (lost \/ Torn)
  /\ UNCHANGED <<which, reader, steady, loose, left>>

Create ==
  \E i \in Items \ DOMAIN key, k \in Keys :
    /\ Enters(i)
    /\ list.order = "newest" => \A j \in DOMAIN key : k <= key[j]
    /\ key' = [j \in DOMAIN key \cup {i} |-> IF j = i THEN k ELSE key[j]]

Restore ==
  \E i \in DOMAIN key \ active : /\ list.removal = "archive" /\ Enters(i)
                                /\ UNCHANGED key

(* An item is archived, or deleted.                                        *)
Leave ==
  \E i \in active :
    /\ Changed /\ list.removal # "never"
    /\ active' = active \ {i}
    /\ key' = IF list.removal = "delete" THEN Restrict(key, DOMAIN key \ {i}) ELSE key
    /\ steady' = steady \ {i}
    /\ left' = TRUE
    /\ UNCHANGED <<which, reader, loose, came, lost>>

(* An update gives an item another name, or whatever the list is ordered by. *)
Move ==
  \E i \in DOMAIN key, k \in Keys :
    /\ Changed /\ list.order \in {"name", "column"} /\ k # key[i]
    /\ key' = [key EXCEPT ![i] = k]
    /\ loose' = loose \cup {i}
    /\ came' = TRUE /\ left' = TRUE
    /\ lost' = (lost \/ reader.cursor = i)
    /\ UNCHANGED <<which, active, reader, steady>>

Next == LoadMore \/ AskForPage \/ ReadRows \/ ReadCount \/ ShowPage
        \/ Create \/ Restore \/ Leave \/ Move
Spec == Init /\ [][Next]_vars
-----------------------------------------------------------------------------
(* A reader is at a page or at a cursor, and has of the items what it has  *)
(* asked for.                                                              *)
TypeOK ==
  /\ list \in AllLists /\ limit \in Limits
  /\ active \subseteq DOMAIN key /\ DOMAIN key \subseteq Items /\ key \in [DOMAIN key -> Keys]
  /\ steady \subseteq active /\ loose \subseteq Items
  /\ reader.how \in {"idle", "scrolling", "scrolled", "waiting", "paging", "paged"}
  /\ reader.how = "scrolling" <=> reader.cursor # None
  /\ reader.how = "scrolling" => Cardinality(reader.shown) >= limit /\ reader.cursor \in Items
  /\ changes \in 0..NChanges
  /\ reader.count # None \/ reader.rows # None => reader.how = "waiting"
  /\ reader.count # None => reader.count \in 0..Cardinality(Items)

(* A reader at the end of a list has been shown every item that was active *)
(* throughout and had a place of its own (its key did not change, and was  *)
(* not that of a cursor or, in pages, of another item that was read with   *)
(* it), whatever is created, archived, restored, deleted or moved beside   *)
(* it; except for a scroll whose cursor's item was archived or deleted (it *)
(* ends there) or moved, and for pages (up to the last one, by the count   *)
(* that came with it) if an item left or moved, or came between the count  *)
(* and the rows.                                                           *)
AtEnd == reader.how = "scrolled" \/ (reader.how = "paged" /\ ~ left)
AllShown == AtEnd /\ ~ lost => steady \ loose \subseteq reader.shown

(* A reader is shown no item twice that had a place of its own: by a scroll*)
(* whose cursor's item did not move, in the list of the categories too,    *)
(* which takes more rows than it needs for the cursor; and by pages if no  *)
(* other item came or moved meanwhile.                                     *)
NothingRepeated ==
  \/ list.read = "infinite" /\ ~ lost
  \/ list.read = "pages" /\ ~ came
    => reader.twice \subseteq loose
=============================================================================
