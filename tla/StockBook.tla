----------------------------- MODULE StockBook -----------------------------
(***************************************************************************)
(* What a service that records each movement of goods and applies it in    *)
(* one transaction promises: a document moves the stock by the quantities  *)
(* of its lines, all of them at once, and only once.                       *)
(***************************************************************************)
EXTENDS StockLevels

CONSTANT NDocs  \* how many documents can be posted

ASSUME DocsAssumption == NDocs \in Nat

Docs == 1..NDocs

VARIABLE docs   \* the lines of the posted documents, by document

bookVars == <<vtw, variantTotal, productTotal, docs>>

BookInit == LevelsInit /\ docs = [d \in {} |-> <<>>]

(* A document is posted, all of it at once.                                *)
Post(d) ==
  /\ d \notin DOMAIN docs
  /\ DOMAIN docs' = DOMAIN docs \cup {d}
  /\ \A e \in DOMAIN docs : docs'[e] = docs[e]
  /\ docs'[d] \in Seq(Line)
  /\ Apply(docs'[d])

BookNext == \E d \in Docs : Post(d)

BookSpec == BookInit /\ [][BookNext]_bookVars
-----------------------------------------------------------------------------
BookTypeOK ==
  /\ LevelsTypeOK
  /\ DOMAIN docs \subseteq Docs
  /\ \A d \in DOMAIN docs : docs[d] \in Seq(Line)
=============================================================================
