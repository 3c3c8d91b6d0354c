------------------------------ MODULE Catalog ------------------------------
(***************************************************************************)
(* The catalog: the calls that describe products, edit them and import     *)
(* them, beside each other.                                                *)
(***************************************************************************)
EXTENDS ProductImport

CONSTANTS
  Requests,        \* what clients ask for, by call; what is created has no id yet
  OpeningCatalog   \* the tables to begin with

VARIABLE overlapped  \* history: two calls have been at work at once

vars == <<taxonomy, goods, stock, skuField, call, disturbed, overlapped>>

Init ==
  /\ HandlersInit
  /\ known = OpeningCatalog.known
  /\ groups = OpeningCatalog.groups /\ categories = OpeningCatalog.categories
  /\ names = <<>>
  /\ products = OpeningCatalog.products /\ variants = OpeningCatalog.variants
  /\ files = OpeningCatalog.files
  /\ stock = OpeningCatalog.stock
  /\ skuField = FALSE
  /\ overlapped = FALSE
-----------------------------------------------------------------------------
(* The id of what call c creates.                                          *)
Named(c, r) ==
  IF r.doc[2] # None THEN r ELSE [r EXCEPT !.doc[2] = IF r.doc[1] = "product" THEN {c} ELSE c]

ReceiveRequest(c) ==
  \E r \in Requests[c] :
    /\ Receive(c, Named(c, r))
    /\ overlapped' = (overlapped \/ \E b \in Calls : Running(b))
    /\ UNCHANGED <<taxonomy, goods, stock, skuField>>

Serve(c) ==
  \E s \in Sent(c) :
    /\ \/ CategoryStep(c, s) /\ UNCHANGED <<goods, stock, skuField>>
       \/ ProductStep(c, s) /\ UNCHANGED <<stock, skuField>>
       \/ ImportStep(c, s)
       \/ Lose(c, s) /\ UNCHANGED <<taxonomy, goods, stock, skuField>>
    /\ UNCHANGED overlapped

(* The cache of the import is in the memory of the server.                 *)
Crash ==
  /\ Restart
  /\ skuField' = FALSE
  /\ UNCHANGED <<taxonomy, goods, stock, overlapped>>

Next == Crash \/ \E c \in Calls : ReceiveRequest(c) \/ Serve(c)

Spec == Init /\ [][Next]_vars
-----------------------------------------------------------------------------
(* What the tables refer to is there, and skus and keys of media are those *)
(* of one product.                                                         *)
TypeOK ==
  /\ \A g \in DOMAIN groups : groups[g].characteristics \subseteq All("characteristic")
  /\ \A k \in DOMAIN categories : /\ categories[k].characteristics \subseteq All("characteristic")
                                  /\ categories[k].group \in DOMAIN groups \cup {None}
  /\ \A x \in All("value") : x[1] \in All("characteristic")
  /\ \A p \in DOMAIN products :
       /\ products[p].category \in DOMAIN categories \cup {None}
       /\ products[p].brand \in All("brand") \cup {None}
       /\ DOMAIN products[p].colors \subseteq All("color")
       /\ products[p].values \subseteq All("value")
       /\ products[p].total \in Int
       /\ \A q \in DOMAIN products \ {p} : /\ products[q].sku # products[p].sku
                                           /\ products[q].media \cap products[p].media = {}
  /\ \A v \in DOMAIN variants : variants[v].product \in DOMAIN products /\ variants[v].total \in Int
  /\ \A k \in DOMAIN stock : k[1] \in DOMAIN variants /\ stock[k] \in Int

(* The title of a product at rest names its category, gender, brand, sku   *)
(* and one of its colors, unless an update has changed them (only batchEdit*)
(* writes titles), a call on it failed, or two overlapped: the titles are  *)
(* written beside the columns and the colors that they name.  The name of a*)
(* category, brand or color is the one that it has, or one that it had: no *)
(* rename writes titles.                                                   *)
TitlesNameProducts ==
  \A p \in DOMAIN products :
    LET x == products[p]
        hasHad(kind, id, name) == name \in Range(Names(<<kind, id>>))
    IN  Undisturbed(p) /\ Resting(p) /\ x.title # None =>
          /\ x.title.gender = x.gender /\ x.title.sku = x.sku
          /\ hasHad("category", x.category, x.title.category)
          /\ hasHad("brand", x.brand, x.title.brand)
          /\ \E color \in (IF DOMAIN x.colors = {} THEN {None} ELSE DOMAIN x.colors) :
               hasHad("color", color, x.title.color)

(* The media of a product at rest have their files: an update deletes the  *)
(* files beside the rows, in a service that no transaction reaches.        *)
MediaHaveFiles ==
  \A p \in DOMAIN products : Undisturbed(p) /\ Resting(p) => products[p].media \subseteq files

(* The number that the next product gets is free as long as no import has  *)
(* brought a sku that is a number: creates that counted the same products  *)
(* at once, and archived products, do not use it up (generateSku).         *)
NumbersImported ==
  \E p \in DOMAIN products \ (Calls \cup {0}) : Len(products[p].sku) = 1 /\ products[p].sku[1] \in Nat
NextSkuFree == ~ NumbersImported => GenerateSku \notin Skus

(* A characteristic is not asked for by a category and by its group, unless*)
(* two calls have been at work at once: each of the two services looks at  *)
(* the other's tables before it writes its own.                            *)
GroupsAndCategoriesDisjoint ==
  ~ overlapped =>
    \A k \in DOMAIN categories :
      categories[k].group # None =>
        categories[k].characteristics \cap groups[categories[k].group].characteristics = {}

(* The total of a product is that of its variants, whose totals are those  *)
(* of their rows, after imports that overlap, fail or are repeated; except *)
(* where a variant went to another product, or the file had it there.      *)
TotalsFollowRows ==
  /\ \A v \in DOMAIN variants :
       variants[v].total = FoldFunction(+, 0, [w \in Warehouses |-> Stocked(v, w)])
  /\ \A p \in DOMAIN products :
       Undisturbed(p) =>
         products[p].total = FoldFunction(+, 0,
           [v \in {u \in DOMAIN variants : variants[u].product = p} |-> variants[v].total])

(* Nothing that describes a product goes from under it, unless two calls   *)
(* have been at work at once: the removals count the products first.       *)
DescriptionsStay ==
  [][~ overlapped =>
       \A p \in DOMAIN products :
         /\ products[p].values \ products'[p].values \subseteq All("value")'
         /\ DOMAIN products[p].colors \ DOMAIN products'[p].colors \subseteq All("color")'
         /\ products'[p].brand # None \/ products[p].brand = None]_vars

(* An import that succeeds brings exactly the quantities of the rows of its*)
(* file, each to the product of its row if the variant is new, and nothing *)
(* of it is there before.                                                  *)
InFile(file, v) ==
  SumOfLines(SelectSeq(file, LAMBDA row : row.variant = v))
FileImported ==
  [][\A c \in Calls :
       Running(c) /\ Request(c).op = "import" /\ call'[c].at = "done" =>
         LET file == Request(c).file
         IN  /\ \A v \in DOMAIN variants' :
                  variants'[v].total - (IF v \in DOMAIN variants THEN variants[v].total ELSE 0)
                    = InFile(file, v)
             /\ \A i \in DOMAIN file :
                  /\ file[i].product \in DOMAIN products'
                  /\ file[i].variant \in DOMAIN variants \/
                       \E j \in 1..i : /\ file[j].variant = file[i].variant
                                       /\ variants'[file[i].variant].product = file[j].product]_vars
=============================================================================
