----------------------------- MODULE MCCatalog -----------------------------
(* A small instance of Catalog for TLC: a product that was created and one *)
(* that was imported, two categories, one of them without a group, and two *)
(* brands and colors.                                                      *)
EXTENDS Catalog, TLC

CONSTANTS
  b1, b2, k1, k2,        \* brands, colors
  h1, girls, boys,       \* a characteristic, genders
  m1, m2, m3,            \* media
  n1,                    \* another name
  s1, f1, f2, A, x1, x2  \* a size; ids and a sku in files

Row(p, sku, v, q) == [product |-> p, sku |-> sku, variant |-> v, quantity |-> q]
Files ==
  { << Row(f2, <<A>>, x2, 1), Row(f1, <<A>>, x1, 2), Row(f1, <<A>>, <<f1, s1>>, 1), Row(f2, <<A>>, x2, 1) >>,
    << Row(f2, <<2>>, x2, 1) >>, << Row(f1, <<A>>, <<0, s1>>, 1) >> }

SomeCatalog ==
  [known |-> {<<"brand", b1>>, <<"brand", b2>>, <<"color", k1>>, <<"color", k2>>,
              <<"characteristic", h1>>, <<"value", <<h1, 1>>>>},
   groups |-> 0 :> [characteristics |-> {}, isArchived |-> FALSE],
   categories |-> (0 :> [group |-> 0, characteristics |-> {}, isArchived |-> FALSE])
               @@ (10 :> [group |-> None, characteristics |-> {h1}, isArchived |-> FALSE]),
   products |->
     (0 :> [category |-> 0, brand |-> b1, gender |-> girls, colors |-> k1 :> 1, media |-> {m1},
            values |-> {}, sku |-> <<1>>,
            title |-> [category |-> 0, gender |-> girls, brand |-> b1, color |-> k1, sku |-> <<1>>],
            total |-> 1, isArchived |-> FALSE])
     @@ (f1 :> [category |-> None, brand |-> None, gender |-> boys, colors |-> Empty, media |-> {},
                values |-> {}, sku |-> <<A>>, title |-> None, total |-> 1, isArchived |-> FALSE]),
   variants |-> (<<0, s1>> :> [product |-> 0, total |-> 1, isArchived |-> FALSE])
             @@ (x1 :> [product |-> f1, total |-> 1, isArchived |-> FALSE]),
   files |-> {m1, m2, m3},
   stock |-> (<<<<0, s1>>, 1>> :> 1) @@ (<<x1, 1>> :> 1)]
-----------------------------------------------------------------------------
CategoryRequests ==
  [op : {"createAttribute"}, doc : {<<"brand", None>>, <<"value", <<h1, 2>>>>}]
  \cup [op : {"updateAttribute"}, doc : {<<"brand", b1>>, <<"brand", b2>>, <<"color", k2>>}, name : {n1}]
  \cup [op : {"removeAttribute"}, doc : {<<"brand", b1>>, <<"brand", b2>>, <<"color", k1>>, <<"color", k2>>,
                                         <<"value", <<h1, 1>>>>, <<"characteristic", h1>>}]
  \cup [op : {"createCategory"}, doc : {<<"category", None>>}, group : {0}, characteristics : {{h1}}]
  \cup [op : {"updateCategory"}, doc : {<<"category", 0>>}, group : {None}, characteristics : {{h1}}, name : {None}]
  \cup [op : {"updateCategory"}, doc : {<<"category", 10>>}, group : {0, None}, characteristics : {{h1}, None}, name : {n1}]
  \cup [op : {"archiveCategory", "restoreCategory"}, doc : {<<"category", 0>>}]
  \cup [op : {"createGroup"}, doc : {<<"group", None>>}, characteristics : {{h1}}]
  \cup [op : {"updateGroup"}, doc : {<<"group", 0>>}, characteristics : {{h1}, None}]
  \cup [op : {"archiveGroup", "restoreGroup"}, doc : {<<"group", 0>>}]

Product(ids) == <<"product", ids>>
Creations ==
  [op : {"createProduct"}, doc : {Product(None)}, category : {10}, brand : {b2}, gender : {boys},
   colors : {<<k2, k1>>}, media : {{m3}}, values : {{<<h1, 1>>}}, sizes : {{s1}}]
Updates ==
  [op : {"updateProduct"}, doc : {Product({0})}, category : {None}, brand : {None}, gender : {None},
   colors : {None}, media : {{m2}, {m1, m2}}, values : {{<<h1, 1>>}}, sizes : {{}}]
  \cup [op : {"updateProduct"}, doc : {Product({0})}, category : {None}, brand : {None}, gender : {girls},
        colors : {<<k2, k1>>}, media : {None}, values : {None}, sizes : {{s1}}]
  \cup [op : {"updateProduct"}, doc : {Product({0})}, category : {None}, brand : {b2}, gender : {None},
        colors : {<<k2>>}, media : {None}, values : {None}, sizes : {{}}]
Edits ==
  [op : {"batchEdit"}, doc : {Product({0})}, category : {None}, brand : {b2}, gender : {None},
   colors : {None, <<k2, k1>>}, media : {{}}, values : {{<<h1, 1>>}}]
  \cup [op : {"batchEdit"}, doc : {Product({0, f1})}, category : {10}, brand : {None}, gender : {None, boys},
        colors : {None}, media : {{m2}}, values : {{}}]
  \cup [op : {"batchEdit"}, doc : {Product({0})}, category : {None}, brand : {None}, gender : {boys},
        colors : {None}, media : {{}}, values : {{}}]
  \cup [op : {"batchEdit"}, doc : {Product({0})}, category : {None}, brand : {None}, gender : {None},
        colors : {None}, media : {{m1}}, values : {{}}]
OtherProductRequests ==
  [op : {"archiveProduct", "restoreProduct"}, doc : {Product({0})}]
  \cup [op : {"createVariant"}, doc : {Product({0})}, sizes : {{s1}}]
  \cup [op : {"updateVariant"}, doc : {Product({f1})}, variant : {<<0, s1>>, x1}]
  \cup [op : {"archiveVariant", "restoreVariant"}, doc : {Product({0})}, variant : {<<0, s1>>}]
Imports ==
  [op : {"import"}, doc : {Product({f1, f2})}, file : Files, warehouse : Warehouses, mapsSku : {TRUE}]
  \cup [op : {"import"}, doc : {Product({f1, f2})}, file : {CHOOSE f \in Files : Len(f) = 4},
        warehouse : {1}, mapsSku : {FALSE}]

SomeRequests ==
  LET all == CategoryRequests \cup Creations \cup Updates \cup Edits \cup OtherProductRequests \cup Imports
  IN  << all, all >>
=============================================================================
