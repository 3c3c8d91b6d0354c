----------------------------- MODULE Categories -----------------------------
(***************************************************************************)
(* What products are described by: brands, colors, characteristics and     *)
(* their values, and the categories and groups of categories that say      *)
(* which characteristics a product has (CategoriesService,                 *)
(* CategoryGroupsService, CharacteristicsService, ValuesService,           *)
(* BrandsService, ColorsService).                                          *)
(***************************************************************************)
EXTENDS Handlers, Sequences

VARIABLES
  known,       \* brand, color, characteristic, characteristicValue: the ids
               \* that are there, each with its kind; a value is a pair of its
               \* characteristic and a number
  groups,      \* categoryGroup
  categories,  \* category
  names        \* the names that brands, colors and categories (productName)
               \* have had, one after the other, of those that were renamed

taxonomy == <<known, groups, categories, names>>

All(kind) == {k[2] : k \in {a \in known : a[1] = kind}}

(* The names of x, a pair of a kind and an id; its first one is written as *)
(* its id.                                                                 *)
Names(x) == IF x \in DOMAIN names THEN names[x] ELSE <<x[2]>>
NameOf(x) == Names(x)[Len(Names(x))]
Renamed(x, name) == IF name = None THEN names ELSE Put(names, x, Append(Names(x), name))

(* The create of each of the four services.                                *)
CreateAttribute(c, s) ==
  LET r == Request(c)
  IN  /\ s.op = "read" /\ r.op = "createAttribute"
      /\ r.doc[1] = "value" => r.doc[2][1] \in All("characteristic")
      /\ known' = known \cup {r.doc}
      /\ Executed(c, s)
      /\ UNCHANGED <<groups, categories, names, disturbed>>

(* BrandsService.update and ColorsService.update                           *)
UpdateAttribute(c, s) ==
  LET r == Request(c)
  IN  /\ s.op = "read" /\ r.op = "updateAttribute"
      /\ IF r.doc \in known THEN GoOn(c, <<{[op |-> "renameAttribute"]}>>) ELSE Refuse(c)
      /\ UNCHANGED <<taxonomy, disturbed>>

RenameAttribute(c, s) ==
  LET r == Request(c)
  IN  /\ s.op = "renameAttribute" /\ r.doc \in known
      /\ names' = Renamed(r.doc, r.name)
      /\ Executed(c, s)
      /\ UNCHANGED <<known, groups, categories, disturbed>>
-----------------------------------------------------------------------------
InGroup(g) == {k \in DOMAIN categories : categories[k].group = g}

(* checkIfCharacteristicsAreUsedInGroup *)
UsedInGroup(g, characteristics) == groups[g].characteristics \cap characteristics # {}

(* checkIfCharacteristicsAreUsedInCategories: it does not look at which    *)
(* characteristics it is given.                                            *)
UsedInCategories(g) == \E k \in InGroup(g) : categories[k].characteristics # {}

(* CategoriesService.create *)
CreateCategory(c, s) ==
  LET r == Request(c)
  IN  /\ s.op = "read" /\ r.op = "createCategory"
      /\ IF r.group \in DOMAIN groups /\ ~ UsedInGroup(r.group, r.characteristics)
           THEN GoOn(c, <<{[op |-> "insertCategory"]}>>) ELSE Refuse(c)
      /\ UNCHANGED <<taxonomy, disturbed>>

InsertCategory(c, s) ==
  LET r == Request(c)
  IN  /\ s.op = "insertCategory"
      /\ r.characteristics \subseteq All("characteristic")
      /\ categories' = Put(categories, r.doc[2],
           [group |-> r.group, characteristics |-> r.characteristics, isArchived |-> FALSE])
      /\ Executed(c, s)
      /\ UNCHANGED <<known, groups, names, disturbed>>

(* Mutant of GroupAfter: a category that stays in its group is not checked.*)
GroupSent(k, r) == r.group

(* The group that an update leaves category k in.                          *)
GroupAfter(k, r) == Else(r.group, categories[k].group)

(* CategoriesService.update.  The characteristics that are not sent are    *)
(* none, there is nothing to check about them, and a group that is sent    *)
(* has to be there.                                                        *)
UpdateCategory(c, s) ==
  LET r == Request(c)
      k == r.doc[2]
      sent == Else(r.characteristics, {})
  IN  /\ s.op = "read" /\ r.op = "updateCategory"
      /\ IF /\ k \in DOMAIN categories
            /\ r.group \in DOMAIN groups \cup {None}
            /\ GroupAfter(k, r) # None => ~ UsedInGroup(GroupAfter(k, r), sent)
           THEN GoOn(c, <<{[op |-> "rewriteCategory"]}>>) ELSE Refuse(c)
      /\ UNCHANGED <<taxonomy, disturbed>>

RewriteCategory(c, s) ==
  LET r == Request(c)
      k == r.doc[2]
      sent == Else(r.characteristics, {})
  IN  /\ s.op = "rewriteCategory"
      /\ sent \subseteq All("characteristic")
      /\ categories' = [categories EXCEPT ![k].group = Else(r.group, @), ![k].characteristics = sent]
      /\ names' = Renamed(r.doc, r.name)
      /\ Executed(c, s)
      /\ UNCHANGED <<known, groups, disturbed>>

(* CategoriesService.archive and restore: they do not look at the group.   *)
ArchiveCategory(c, s) ==
  LET r == Request(c)
  IN  /\ s.op = "read" /\ r.op \in {"archiveCategory", "restoreCategory"}
      /\ r.doc[2] \in DOMAIN categories
      /\ categories' = [categories EXCEPT ![r.doc[2]].isArchived = r.op = "archiveCategory"]
      /\ Executed(c, s)
      /\ UNCHANGED <<known, groups, names, disturbed>>
-----------------------------------------------------------------------------
(* CategoryGroupsService.create *)
CreateGroup(c, s) ==
  LET r == Request(c)
  IN  /\ s.op = "read" /\ r.op = "createGroup"
      /\ r.characteristics \subseteq All("characteristic")
      /\ groups' = Put(groups, r.doc[2], [characteristics |-> r.characteristics, isArchived |-> FALSE])
      /\ Executed(c, s)
      /\ UNCHANGED <<known, categories, names, disturbed>>

(* CategoryGroupsService.update *)
UpdateGroup(c, s) ==
  LET r == Request(c)
      g == r.doc[2]
      sent == Else(r.characteristics, {})
  IN  /\ s.op = "read" /\ r.op = "updateGroup"
      /\ IF g \in DOMAIN groups /\ (sent # {} => ~ UsedInCategories(g))
           THEN GoOn(c, <<{[op |-> "rewriteGroup"]}>>) ELSE Refuse(c)
      /\ UNCHANGED <<taxonomy, disturbed>>

RewriteGroup(c, s) ==
  LET r == Request(c)
      sent == Else(r.characteristics, {})
  IN  /\ s.op = "rewriteGroup"
      /\ sent \subseteq All("characteristic")
      /\ groups' = [groups EXCEPT ![r.doc[2]].characteristics = sent]
      /\ Executed(c, s)
      /\ UNCHANGED <<known, categories, names, disturbed>>

(* CategoryGroupsService.archive, with the categories, and restore, without*)
ArchiveGroup(c, s) ==
  LET r == Request(c)
      g == r.doc[2]
  IN  /\ s.op = "read" /\ r.op = "archiveGroup" /\ g \in DOMAIN groups
      /\ groups' = [groups EXCEPT ![g].isArchived = TRUE]
      /\ categories' = [k \in DOMAIN categories |->
           [categories[k] EXCEPT !.isArchived = @ \/ k \in InGroup(g)]]
      /\ Executed(c, s)
      /\ UNCHANGED <<known, names, disturbed>>

RestoreGroup(c, s) ==
  LET r == Request(c)
  IN  /\ s.op = "read" /\ r.op = "restoreGroup" /\ r.doc[2] \in DOMAIN groups
      /\ groups' = [groups EXCEPT ![r.doc[2]].isArchived = FALSE]
      /\ Executed(c, s)
      /\ UNCHANGED <<known, categories, names, disturbed>>

CategoryStep(c, s) ==
  \/ CreateAttribute(c, s) \/ UpdateAttribute(c, s) \/ RenameAttribute(c, s)
  \/ CreateCategory(c, s) \/ InsertCategory(c, s)
  \/ UpdateCategory(c, s) \/ RewriteCategory(c, s) \/ ArchiveCategory(c, s)
  \/ CreateGroup(c, s) \/ UpdateGroup(c, s) \/ RewriteGroup(c, s)
  \/ ArchiveGroup(c, s) \/ RestoreGroup(c, s)
=============================================================================
