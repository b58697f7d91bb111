------------------------------ MODULE MCSupply ------------------------------
(***************************************************************************)
(* Small instances of the three parts of supply: purchasing, the data it   *)
(* rests on, and how suppliers perform. Plans and orders name suppliers,   *)
(* prices and BOMs and change none of them, and the ranking only asks      *)
(* which suppliers are approved, so one run goes through the states of one *)
(* part after the other: each moves only while the others are as they      *)
(* began.                                                                  *)
(***************************************************************************)
EXTENDS SupplyReads, Performance, TLC

MCPlanned == [big |-> 2, small |-> 1]

\* "own" is a supplier the factory maintains itself.
MCTier == [own |-> 3, far |-> 1, new |-> 2, more |-> 3]

\* Two batches list the same suppliers, and two are not about suppliers.
MCBatchOf == <<[type |-> "supplier", fingerprint |-> "a", suppliers |-> <<"new", "more">>],
               [type |-> "supplier", fingerprint |-> "a", suppliers |-> <<"new", "more">>],
               [type |-> "sku", fingerprint |-> "b", suppliers |-> <<>>],
               [type |-> "sku", fingerprint |-> "b", suppliers |-> <<>>]>>

MCQuarterOf == <<"spring", "spring", "summer">>
MCSelections == {<<"spring", 1>>, <<"summer", 1>>, <<"spring", 3>>}
MCFirstSelection == <<"summer", 1>>
MCShippedBy == [late |-> "far", early |-> "far"]
MCPlannedOn == [late |-> 1, early |-> 2]
MCWeightings == {[m \in Metrics |-> CASE m = "delivery" -> 10000 [] OTHER -> 0],
                 [m \in Metrics |-> CASE m = "sampling" -> 3333 [] m = "delivery" -> 6667
                                       [] OTHER -> 0]}

CONSTANTS i1, i2, b1, b2
StaffSymmetry == Permutations({i1, i2}) \cup Permutations({b1, b2})

-----------------------------------------------------------------------------
NoRelations == \A p \in Pairs : relation[p] = NoRelation
NoImports   == \A b \in Batches : batch[b] = "none"
Idle == /\ NoImports /\ \A s \in Suppliers \ KnownSuppliers : supplier[s] = "none"
        /\ \A k \in Skus : sku[k].conversion = "none" /\ (sku[k].status = "none" \/ k \in KnownSkus)

\* Suppliers entered by hand and imported, and SKUs submitted again.
EntryScene ==
  /\ NoRelations /\ bom = <<>> /\ Len(request) =< 2
  /\ NoImports \/ \A k \in Skus : sku[k].conversion = "none"

\* Two suppliers of one SKU.
TermsScene ==
  /\ Idle /\ bom = <<>> /\ change = <<>> /\ agreement = <<>>
  /\ Len(request) =< 2 /\ \A p \in Pairs : relation[p].version =< 3

\* Prices of two suppliers whose relation stays.
PriceScene ==
  /\ Idle /\ bom = <<>>
  /\ \A p \in Pairs : /\ relation[p].version =< 2 /\ ~relation[p].primary
                      /\ relation[p].terms # "fast"
  /\ Len(request) =< 3

\* Versions of one BOM.
BomScene == Idle /\ NoRelations /\ Len(request) =< 2

CatalogScenes == EntryScene \/ TermsScene \/ PriceScene \/ BomScene

\* Ratings of one supplier by two people, weights, and two batches, until a
\* ranking is read.
ScoreScene ==
  /\ load \in {<<Closed("done")>>, <<Closed("done"), Loading(selection, TRUE)>>}
  /\ \A k \in DOMAIN rating : k[1] = "far" /\ k[2] = "spring"
  /\ DOMAIN weighting \subseteq {<<1, 2>>}

\* One person's page, as nothing changes elsewhere.
PageScene ==
  /\ today = 1 /\ \A d \in Shipments : shipped[d] = 0
  /\ \A k \in DOMAIN rating : k[4] = Me
  /\ saving.phase \in {"sent", "saved"} /\ IsReview =>
       saving.command.key = <<"far", "spring", "sampling", Me>>
  /\ weighting = <<>>

PerformanceScenes == ScoreScene \/ PageScene

\* As PerformanceInit: with no second request and no save, the page is unchanged.
NothingRated == /\ Len(load) = 1 /\ saving = NotSaving
                /\ today = 1 /\ rating = <<>> /\ weighting = <<>>
                /\ \A d \in Shipments : shipped[d] = 0

Scenes == IF NothingRated THEN CatalogScenes ELSE PerformanceScenes

-----------------------------------------------------------------------------
\* Steps within these scenes: what CONSTRAINT Scenes would keep.
SupplyNext ==
  \/ /\ NothingRated /\ CatalogInit
     /\ ProcurementNext /\ UNCHANGED <<catalogVars, performanceVars>> /\ Scenes'
  \/ /\ NothingRated /\ ProcurementInit
     /\ CatalogNext /\ UNCHANGED <<procurementVars, performanceVars>> /\ Scenes'
  \/ /\ ProcurementInit /\ CatalogInit
     /\ PerformanceNext /\ UNCHANGED <<procurementVars, catalogVars>> /\ Scenes'

SupplyInit == ProcurementInit /\ CatalogInit /\ PerformanceInit

SupplySpec ==
  /\ SupplyInit
  /\ [][SupplyNext]_<<procurementVars, catalogVars, performanceVars>>
=============================================================================
