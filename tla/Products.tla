------------------------------ MODULE Products ------------------------------
(***************************************************************************)
(* Products and their variants (ProductsService, VariantsService).  What a *)
(* product consists of is in several tables, and its media are files in    *)
(* the storage: an update sends a statement for each, side by side.        *)
(***************************************************************************)
EXTENDS Categories, SequencesExt, FiniteSetsExt

VARIABLES
  products,  \* product, with its colors and their order, the keys of its media
             \* and its values
  variants,  \* variant
  files      \* the keys of media that have a file in the storage

goods == <<products, variants, files>>

(* The calls on products: a document is a set of products.                 *)
ProductsOf(c) == IF Request(c).doc[1] = "product" THEN Request(c).doc[2] ELSE {}

(* Another call is at work on a product of call c.                         *)
Contended(c) ==
  \E b \in Calls \ {c} : /\ Running(b) /\ call[b].stages # <<{[op |-> "read"]}>>
                         /\ ProductsOf(b) \cap ProductsOf(c) # {}

Undisturbed(p) == \A d \in disturbed : d[1] = "product" => p \notin d[2]
Resting(p) == \A c \in Calls : Running(c) => p \notin ProductsOf(c)

(* The colors of a request, in order: the first is the primary color.      *)
Indexed(sent) == [k \in Range(sent) |-> CHOOSE i \in DOMAIN sent : sent[i] = k]
Pairs(colors) == {<<k, colors[k]>> : k \in DOMAIN colors}

(* assembleProductName, of the names that are there when it is called: the *)
(* title is a copy of them, and a rename does not write titles.            *)
AssembleName(category, gender, brand, color, sku) ==
  [category |-> NameOf(<<"category", category>>), gender |-> gender,
   brand |-> NameOf(<<"brand", brand>>), color |-> NameOf(<<"color", color>>), sku |-> sku]

(* Mutant of GenerateSku: archived products are not counted.               *)
SkuOfActive == <<Cardinality({p \in DOMAIN products : ~ products[p].isArchived}) + 1>>

(* generateSku.  A sku is a sequence of its parts: a number here, what the *)
(* file says and perhaps a number in an import.                            *)
GenerateSku == <<Cardinality(DOMAIN products) + 1>>
Skus == {products[p].sku : p \in DOMAIN products}
-----------------------------------------------------------------------------
(* create: the count and the names are read, the product is inserted, then *)
(* its variants.                                                           *)
CreateProduct(c, s) ==
  LET r == Request(c)
  IN  /\ s.op = "read" /\ r.op = "createProduct"
      /\ IF /\ r.category \in DOMAIN categories /\ r.brand \in All("brand")
            /\ r.colors[1] \in All("color")
           THEN GoOn(c, <<{[op |-> "insertProduct", sku |-> GenerateSku,
                            title |-> AssembleName(r.category, r.gender, r.brand, r.colors[1], GenerateSku)]},
                          {[op |-> "insertVariants"]}>>)
           ELSE Refuse(c)
      /\ UNCHANGED <<taxonomy, goods, disturbed>>

InsertProduct(c, s) ==
  LET r == Request(c)
  IN  /\ s.op = "insertProduct"
      /\ s.sku \notin Skus
      /\ r.brand \in All("brand") /\ Range(r.colors) \subseteq All("color")
      /\ r.values \subseteq All("value")
      /\ \A p \in DOMAIN products : products[p].media \cap r.media = {}
      /\ products' = Put(products, c,
           [category |-> r.category, brand |-> r.brand, gender |-> r.gender,
            colors |-> Indexed(r.colors), media |-> r.media, values |-> r.values,
            sku |-> s.sku, title |-> s.title, total |-> 0, isArchived |-> FALSE])
      /\ Executed(c, s)
      /\ UNCHANGED <<taxonomy, variants, files, disturbed>>

(* createProductVariants: one transaction.                                 *)
NewVariants(c, p, sizes) ==
  [v \in DOMAIN variants \cup ({c} \X sizes) |->
     IF v \in {c} \X sizes THEN [product |-> p, total |-> 0, isArchived |-> FALSE] ELSE variants[v]]

InsertVariants(c, s) ==
  \E p \in ProductsOf(c) :
    /\ s.op = "insertVariants"
    /\ variants' = NewVariants(c, p, Request(c).sizes)
    /\ Executed(c, s)
    /\ UNCHANGED <<taxonomy, products, files, disturbed>>
-----------------------------------------------------------------------------
(* The statements that make media, colors and values what is sent, from    *)
(* what was read (compareArrays).                                          *)
MediaStatements(old, sent) ==
  IF sent = None THEN {}
  ELSE {[op |-> "media", dropped |-> old.media \ sent, added |-> sent \ old.media],
        [op |-> "deleteFiles", dropped |-> old.media \ sent]}

ColorStatements(old, sent) ==
  IF sent = None THEN {}
  ELSE LET new == Pairs(Indexed(sent)) \ Pairs(old.colors)
       IN  {[op |-> "colors",
             deleted |-> {k \in Pairs(old.colors) : k[1] \notin Range(sent)},
             updated |-> {k \in new : k[1] \in DOMAIN old.colors},
             created |-> {k \in new : k[1] \notin DOMAIN old.colors}]}

ValueStatements(old, sent) ==
  {[op |-> "values", dropped |-> old.values \ Else(sent, {}), added |-> Else(sent, {}) \ old.values]}

(* An update that leaves what the title names: it does not write titles.   *)
KeepsName(old, r) ==
  /\ r.category \in {None, old.category} /\ r.brand \in {None, old.brand}
  /\ r.gender \in {None, old.gender}
  /\ r.colors = None \/ DOMAIN old.colors \subseteq Range(r.colors)

(* update.  A client that has not seen an earlier update may send a key    *)
(* whose file is gone.                                                     *)
UpdateProduct(c, s) ==
  \E p \in ProductsOf(c) :
    LET r == Request(c)
        old == products[p]
    IN  /\ s.op = "read" /\ r.op = "updateProduct"
        /\ IF p \in DOMAIN products
             THEN /\ GoOn(c, <<{[op |-> "rewriteProduct"]}
                               \cup MediaStatements(old, r.media) \cup ColorStatements(old, r.colors)
                               \cup ValueStatements(old, r.values)
                               \cup (IF r.sizes = {} THEN {} ELSE {[op |-> "insertVariants"]})>>)
                  /\ DisturbIf(c, \/ Contended(c) \/ ~ KeepsName(old, r)
                                  \/ r.media # None /\ ~ (r.media \subseteq files))
             ELSE Refuse(c) /\ UNCHANGED disturbed
        /\ UNCHANGED <<taxonomy, goods>>

(* The statement s of call c makes p out of the product p of its document. *)
Rewrite(c, s, p, new) ==
  /\ products' = [products EXCEPT ![p] = new]
  /\ Executed(c, s)
  /\ UNCHANGED <<taxonomy, variants, files, disturbed>>

(* What an update or a batch edit sets in the table of products itself.    *)
Described(old, r) ==
  [old EXCEPT !.category = Else(r.category, @), !.brand = Else(r.brand, @), !.gender = Else(r.gender, @)]
Describes(r) == r.category \in DOMAIN categories \cup {None} /\ r.brand \in All("brand") \cup {None}

RewriteProduct(c, s) ==
  \E p \in ProductsOf(c) : /\ s.op = "rewriteProduct" /\ Describes(Request(c))
                           /\ Rewrite(c, s, p, Described(products[p], Request(c)))

(* Mutant of ChangeMedia: the rows of the files that go stay.              *)
AddMedia(c, s) ==
  \E p \in ProductsOf(c) :
    /\ s.op = "media"
    /\ \A q \in DOMAIN products : products[q].media \cap s.added = {}
    /\ Rewrite(c, s, p, [products[p] EXCEPT !.media = @ \cup s.added])

(* updateProductMedia *)
ChangeMedia(c, s) ==
  \E p \in ProductsOf(c) :
    /\ s.op = "media"
    /\ \A q \in DOMAIN products : products[q].media \cap s.added = {}
    /\ Rewrite(c, s, p, [products[p] EXCEPT !.media = (@ \ s.dropped) \cup s.added])

DeleteFiles(c, s) ==
  /\ s.op = "deleteFiles"
  /\ files' = files \ s.dropped
  /\ Executed(c, s)
  /\ UNCHANGED <<taxonomy, products, variants, disturbed>>

(* updateProductColors: a color that has another index by now stays.       *)
ChangeColors(c, s) ==
  \E p \in ProductsOf(c) :
    LET kept == Pairs(products[p].colors) \ s.deleted
        after == {k \in kept : \A u \in s.updated : u[1] # k[1]}
                 \cup {u \in s.updated : u[1] \in {k[1] : k \in kept}} \cup s.created
        ids == {k[1] : k \in after}
    IN  /\ s.op = "colors"
        /\ {k[1] : k \in s.created} \subseteq All("color")
        /\ \A k \in s.created : k[1] \notin {j[1] : j \in kept}
        /\ Rewrite(c, s, p,
             [products[p] EXCEPT !.colors = [k \in ids |-> (CHOOSE a \in after : a[1] = k)[2]]])

(* updateProductCharacteristicValues *)
ChangeValues(c, s) ==
  \E p \in ProductsOf(c) :
    /\ s.op = "values" /\ s.added \subseteq All("value")
    /\ Rewrite(c, s, p, [products[p] EXCEPT !.values = (@ \ s.dropped) \cup s.added])
-----------------------------------------------------------------------------
(* batchEdit: the columns of all products, the colors, the media and the   *)
(* values of each, and the titles, side by side.  It may be sent a key     *)
(* whose file is gone, as an update.                                       *)
BatchEdit(c, s) ==
  LET r == Request(c)
  IN  /\ s.op = "read" /\ r.op = "batchEdit"
      /\ GoOn(c, <<{[op |-> "updateMany"]}
           \cup (IF r.colors = None THEN {} ELSE {[op |-> "dropColors"]})
           \cup (IF r.media = {} /\ r.values = {} THEN {}
                 ELSE {[op |-> "batchProduct", product |-> p] : p \in ProductsOf(c)})
           \cup (IF {r.brand, r.category, r.gender, r.colors} = {None} THEN {}
                 ELSE {[op |-> "readTitles"]})>>)
      /\ DisturbIf(c, Contended(c) \/ ~ (r.media \subseteq files))
      /\ UNCHANGED <<taxonomy, goods>>

(* The statement s of call c makes new[p] of each product p of its request,*)
(* and more follows it.                                                    *)
RewriteAll(c, s, new, more) ==
  /\ products' = [p \in DOMAIN products |-> IF p \in ProductsOf(c) THEN new[p] ELSE products[p]]
  /\ Followed(c, s, more)
  /\ UNCHANGED <<taxonomy, variants, files, disturbed>>

UpdateMany(c, s) ==
  /\ s.op = "updateMany" /\ Describes(Request(c))
  /\ RewriteAll(c, s, [p \in DOMAIN products |-> Described(products[p], Request(c))], {})

DropColors(c, s) ==
  /\ s.op = "dropColors"
  /\ RewriteAll(c, s, [p \in DOMAIN products |-> [products[p] EXCEPT !.colors = <<>>]],
                {[op |-> "createColors"]})

CreateColors(c, s) ==
  LET sent == Request(c).colors
  IN  /\ s.op = "createColors"
      /\ Range(sent) \subseteq All("color")
      /\ ProductsOf(c) \subseteq DOMAIN products
      /\ \A p \in ProductsOf(c) : DOMAIN products[p].colors \cap Range(sent) = {}
      /\ RewriteAll(c, s, [p \in DOMAIN products |->
           [products[p] EXCEPT !.colors =
              [k \in DOMAIN @ \cup Range(sent) |-> IF k \in DOMAIN @ THEN @[k] ELSE Indexed(sent)[k]]]], {})

(* The same keys for every product: only the first one gets them.          *)
BatchProduct(c, s) ==
  LET r == Request(c)
  IN  /\ s.op = "batchProduct"
      /\ s.product \in DOMAIN products /\ r.values \subseteq All("value")
      /\ \A q \in DOMAIN products : products[q].media \cap r.media = {}
      /\ Rewrite(c, s, s.product,
           [products[s.product] EXCEPT !.media = @ \cup r.media,
                                       !.values = IF r.values = {} THEN @ ELSE r.values])

(* Mutant of TitleAfter: as the product is, not as it is going to be.      *)
TitleBefore(p, r, color) ==
  AssembleName(products[p].category, products[p].gender, products[p].brand, color, products[p].sku)

(* What is sent, or what the product has.                                  *)
TitleAfter(p, r, color) ==
  AssembleName(Else(r.category, products[p].category), Else(r.gender, products[p].gender),
               Else(r.brand, products[p].brand), color, products[p].sku)

(* updateProductTitles: the color is the first that is sent, or any one of *)
(* the product (its colors are read in no order).                          *)
TitleColors(p, r) ==
  IF r.colors # None THEN {r.colors[1]}
  ELSE IF DOMAIN products[p].colors = {} THEN {None} ELSE DOMAIN products[p].colors

ReadTitles(c, s) ==
  LET r == Request(c)
      edited == ProductsOf(c)
  IN  \E color \in [edited -> All("color") \cup {None}] :
        /\ s.op = "readTitles" /\ edited \subseteq DOMAIN products /\ Describes(r)
        /\ \A p \in edited : color[p] \in TitleColors(p, r)
        /\ Followed(c, s, {[op |-> "writeTitles",
                            titles |-> [p \in edited |-> TitleAfter(p, r, color[p])]]})
        /\ UNCHANGED <<taxonomy, goods, disturbed>>

WriteTitles(c, s) ==
  /\ s.op = "writeTitles"
  /\ RewriteAll(c, s, [p \in ProductsOf(c) |-> [products[p] EXCEPT !.title = s.titles[p]]], {})

(* archive and restore *)
ArchiveProduct(c, s) ==
  \E p \in ProductsOf(c) :
    /\ s.op = "read" /\ Request(c).op \in {"archiveProduct", "restoreProduct"} /\ p \in DOMAIN products
    /\ Rewrite(c, s, p, [products[p] EXCEPT !.isArchived = Request(c).op = "archiveProduct"])
-----------------------------------------------------------------------------
(* VariantsService.create *)
CreateVariant(c, s) ==
  \E p \in ProductsOf(c) :
    /\ s.op = "read" /\ Request(c).op = "createVariant" /\ p \in DOMAIN products
    /\ variants' = NewVariants(c, p, Request(c).sizes)
    /\ Executed(c, s)
    /\ UNCHANGED <<taxonomy, products, files, disturbed>>

(* VariantsService.update: the variant goes to the product of the URL, and *)
(* the totals of the two products stay.                                    *)
UpdateVariant(c, s) ==
  LET v == Request(c).variant
  IN  \E p \in ProductsOf(c) :
        /\ s.op = "read" /\ Request(c).op = "updateVariant"
        /\ v \in DOMAIN variants /\ p \in DOMAIN products
        /\ variants' = [variants EXCEPT ![v].product = p]
        /\ Executed(c, s)
        /\ disturbed' = disturbed \cup
             (IF variants[v].product = p THEN {} ELSE {<<"product", {p, variants[v].product}>>})
        /\ UNCHANGED <<taxonomy, products, files>>

(* VariantsService.archive and restore *)
ArchiveVariant(c, s) ==
  LET r == Request(c)
  IN  /\ s.op = "read" /\ r.op \in {"archiveVariant", "restoreVariant"} /\ r.variant \in DOMAIN variants
      /\ variants' = [variants EXCEPT ![r.variant].isArchived = r.op = "archiveVariant"]
      /\ Executed(c, s)
      /\ UNCHANGED <<taxonomy, products, files, disturbed>>
-----------------------------------------------------------------------------
(* The remove of brands, colors, characteristics and values counts the     *)
(* products first and deletes in a statement of its own.                   *)
ProductsWithBrand(b) == {p \in DOMAIN products : products[p].brand = b}
ProductsWithColor(k) == {p \in DOMAIN products : k \in DOMAIN products[p].colors}
ProductsWithValue(x) == {p \in DOMAIN products : x \in products[p].values}
ProductsWithCharacteristic(ch) ==
  {p \in DOMAIN products : \E x \in products[p].values : x[1] = ch}

Users(attribute) ==
  CASE attribute[1] = "brand" -> ProductsWithBrand(attribute[2])
    [] attribute[1] = "color" -> ProductsWithColor(attribute[2])
    [] attribute[1] = "value" -> ProductsWithValue(attribute[2])
    [] attribute[1] = "characteristic" -> ProductsWithCharacteristic(attribute[2])

(* Mutant of CountUsers: what is deleted is not counted.                   *)
DoNotCountUsers(c, s) ==
  LET a == Request(c).doc
  IN  /\ s.op = "read" /\ Request(c).op = "removeAttribute"
      /\ IF a \in known THEN GoOn(c, <<{[op |-> "deleteAttribute"]}>>) ELSE Refuse(c)
      /\ UNCHANGED <<taxonomy, goods, disturbed>>

CountUsers(c, s) ==
  LET a == Request(c).doc
  IN  /\ s.op = "read" /\ Request(c).op = "removeAttribute"
      /\ IF a \in known /\ Users(a) = {}
           THEN GoOn(c, <<{[op |-> "deleteAttribute"]}>>) ELSE Refuse(c)
      /\ UNCHANGED <<taxonomy, goods, disturbed>>

(* Mutant of Gone: the values of a characteristic stay.                    *)
GoneAlone(a) == {a}

(* What goes with an attribute: the values of a characteristic.            *)
Gone(a) == {a} \cup {k \in known : a[1] = "characteristic" /\ k[1] = "value" /\ k[2][1] = a[2]}

(* onDelete: a product that has it by now is left without, and so are the  *)
(* categories and the groups.                                              *)
DeleteAttribute(c, s) ==
  LET a == Request(c).doc
      lost(kind) == {k[2] : k \in {g \in Gone(a) : g[1] = kind}}
      without(row) == [row EXCEPT !.characteristics = @ \ lost("characteristic")]
  IN  /\ s.op = "deleteAttribute" /\ a \in known
      /\ known' = known \ Gone(a)
      /\ groups' = [g \in DOMAIN groups |-> without(groups[g])]
      /\ categories' = [k \in DOMAIN categories |-> without(categories[k])]
      /\ products' = [p \in DOMAIN products |->
           [products[p] EXCEPT !.brand = IF @ \in lost("brand") THEN None ELSE @,
                               !.colors = Restrict(@, DOMAIN @ \ lost("color")),
                               !.values = @ \ lost("value")]]
      /\ Executed(c, s)
      /\ disturbed' = disturbed \cup {<<"product", {p}>> : p \in Users(a)}
      /\ UNCHANGED <<names, variants, files>>

ProductStep(c, s) ==
  \/ CreateProduct(c, s) \/ InsertProduct(c, s) \/ InsertVariants(c, s)
  \/ UpdateProduct(c, s) \/ RewriteProduct(c, s) \/ ChangeMedia(c, s) \/ DeleteFiles(c, s)
  \/ ChangeColors(c, s) \/ ChangeValues(c, s)
  \/ BatchEdit(c, s) \/ UpdateMany(c, s) \/ DropColors(c, s) \/ CreateColors(c, s)
  \/ BatchProduct(c, s) \/ ReadTitles(c, s) \/ WriteTitles(c, s) \/ ArchiveProduct(c, s)
  \/ CreateVariant(c, s) \/ UpdateVariant(c, s) \/ ArchiveVariant(c, s)
  \/ CountUsers(c, s) \/ DeleteAttribute(c, s)
=============================================================================
