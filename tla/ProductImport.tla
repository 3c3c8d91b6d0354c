--------------------------- MODULE ProductImport ---------------------------
(***************************************************************************)
(* ProductsImportService: the import of a file of products into a          *)
(* warehouse.  A file is a sequence of rows, each with a variant, its      *)
(* quantity, and the id and the sku of its product.                        *)
(***************************************************************************)
EXTENDS Products

CONSTANTS
  Warehouses,  \* the warehouses, all there throughout
  Undefined    \* the sku of a product in a file without skus

VARIABLES
  stock,    \* variantToWarehouse: the quantities, by variant and warehouse
  skuField  \* IMPORT_SCHEMA_CACHE: whether it has the field of the sku

Empty == [k \in {} |-> 0]
Stocked(v, w) == IF <<v, w>> \in DOMAIN stock THEN stock[<<v, w>>] ELSE 0

(* Mutant of GroupRows: the variants of the last product are not set.      *)
GroupRowsBeforeLast(file) ==
  LET add(entries, row) ==
        LET n == Len(entries)
            line == [variant |-> row.variant, quantity |-> row.quantity]
        IN  IF n > 0 /\ entries[n].product = row.product
              THEN [entries EXCEPT ![n].lines = Append(@, line)]
            ELSE Append(entries, [product |-> row.product, sku |-> row.sku, lines |-> <<line>>])
      entries == FoldLeft(add, <<>>, file)
  IN  [entries EXCEPT ![Len(entries)].lines = <<>>]

(* transformData: consecutive rows of a product are one entry.             *)
GroupRows(file) ==
  LET add(entries, row) ==
        LET n == Len(entries)
            line == [variant |-> row.variant, quantity |-> row.quantity]
        IN  IF n > 0 /\ entries[n].product = row.product
              THEN [entries EXCEPT ![n].lines = Append(@, line)]
            ELSE Append(entries, [product |-> row.product, sku |-> row.sku, lines |-> <<line>>])
  IN  FoldLeft(add, <<>>, file)

(* The tables as the transaction has them, and whether it can go on.       *)
Tables == [ok |-> TRUE, products |-> products, variants |-> variants, stock |-> stock]

(* createProduct: a product that is there is left as it is; a sku that some*)
(* product has, or that another one begins with, is numbered.              *)
SkuAmong(table, sku) ==
  LET n == Cardinality({p \in DOMAIN table : IsPrefix(sku, table[p].sku)})
  IN  IF n = 0 THEN sku ELSE Append(sku, n + 1)

ImportProduct(db, entry, mapsSku) ==
  LET sku == SkuAmong(db.products, IF mapsSku THEN entry.sku ELSE <<Undefined>>)
  IN  IF entry.product \in DOMAIN db.products THEN db
      ELSE IF \E p \in DOMAIN db.products : db.products[p].sku = sku THEN [db EXCEPT !.ok = FALSE]
      ELSE [db EXCEPT !.products = Put(@, entry.product,
             [category |-> None, brand |-> None, gender |-> None, colors |-> Empty, media |-> {},
              values |-> {}, sku |-> sku, title |-> None, total |-> 0, isArchived |-> FALSE])]

(* Mutant of ImportVariant: a row that is there gets the quantity.         *)
SetVariant(db, product, w, line) ==
  LET v == line.variant
      was == IF v \in DOMAIN db.variants THEN db.variants[v]
             ELSE [product |-> product, total |-> 0, isArchived |-> FALSE]
  IN  [db EXCEPT !.variants = Put(@, v, [was EXCEPT !.total = @ + line.quantity]),
                 !.stock = Put(@, <<v, w>>, line.quantity)]

(* upsertVariants: a variant that is there, of whichever product, gets more*)
(* in all and in its row of the warehouse; what is missing is created.     *)
ImportVariant(db, product, w, line) ==
  LET v == line.variant
      was == IF v \in DOMAIN db.variants THEN db.variants[v]
             ELSE [product |-> product, total |-> 0, isArchived |-> FALSE]
      had == IF <<v, w>> \in DOMAIN db.stock THEN db.stock[<<v, w>>] ELSE 0
  IN  [db EXCEPT !.variants = Put(@, v, [was EXCEPT !.total = @ + line.quantity]),
                 !.stock = Put(@, <<v, w>>, had + line.quantity)]

SumOfLines(lines) == FoldLeft(LAMBDA sum, line : sum + line.quantity, 0, lines)

ImportEntry(db, entry, w, mapsSku) ==
  LET upsert(tables, line) == ImportVariant(tables, entry.product, w, line)
      created == ImportProduct(db, entry, mapsSku)
      upserted == FoldLeft(upsert, created, entry.lines)
  IN  IF ~ created.ok THEN created
      ELSE [upserted EXCEPT !.products[entry.product].total = @ + SumOfLines(entry.lines)]
-----------------------------------------------------------------------------
(* createProductImport: the header, the source and the warehouse are read. *)
(* A source without the field of the sku is refused, unless the server has *)
(* served one with it.                                                     *)
ReadSource(c, s) ==
  LET r == Request(c)
  IN  /\ s.op = "read" /\ r.op = "import"
      /\ IF r.warehouse \in Warehouses /\ (r.mapsSku \/ skuField)
           THEN /\ GoOn(c, <<{[op |-> "import"]}>>)
                /\ skuField' = (skuField \/ r.mapsSku)
           ELSE Refuse(c) /\ UNCHANGED skuField
      /\ UNCHANGED <<taxonomy, goods, stock, disturbed>>

(* The products whose quantity in the file is of a variant of another one. *)
Misplaced(file, table) ==
  {file[i].product : i \in {k \in DOMAIN file :
     /\ file[k].variant \in DOMAIN table
     /\ table[file[k].variant].product # file[k].product}}

(* The transaction, when it commits.                                       *)
Import(c, s) ==
  LET r == Request(c)
      step(db, entry) == IF db.ok THEN ImportEntry(db, entry, r.warehouse, r.mapsSku) ELSE db
      after == FoldLeft(step, Tables, GroupRows(r.file))
      odd == Misplaced(r.file, after.variants)
  IN  /\ s.op = "import" /\ after.ok
      /\ products' = after.products /\ variants' = after.variants /\ stock' = after.stock
      /\ Executed(c, s)
      /\ disturbed' = disturbed \cup
           (IF odd = {} THEN {}
            ELSE {<<"product", odd \cup {after.variants[r.file[i].variant].product : i \in DOMAIN r.file}>>})
      /\ UNCHANGED <<taxonomy, files, skuField>>

ImportStep(c, s) == ReadSource(c, s) \/ Import(c, s)
=============================================================================
