------------------------------ MODULE Catalog -------------------------------
(***************************************************************************)
(* Suppliers, SKUs, what a supplier delivers on which terms and at which   *)
(* price, bills of materials, and supplier imports: what the staff enters  *)
(* waits for a review by somebody else, unless the factory maintains its   *)
(* own tier-3 suppliers directly. A review carries what its requester saw: *)
(* versions, terms, and the BOMs to retire; by the time it is decided they *)
(* may be stale.                                                           *)
(*                                                                         *)
(* A command is one transaction that locks the rows it reads. There is one *)
(* factory, and one finished SKU has BOMs. Days are numbers; a period with *)
(* no end runs to Forever. Sequences stand for tables.                     *)
(***************************************************************************)
EXTENDS Integers, Sequences, FiniteSets

CONSTANTS Suppliers, Skus,
          Tier,          \* Tier[s]: suppliers.tier
          KnownSuppliers, KnownSkus, \* approved from the start
          Internal,      \* users of the staff, who may review one another
          Makers,        \* users bound to the factory
          Terms,         \* terms of delivery that are tried (a bound)
          Days,          \* days on which prices and BOMs may begin (a bound)
          Batches,       \* import batches (a bound)
          BatchOf,       \* BatchOf[b]: type, fingerprint and suppliers listed
          MaxRequests,   \* bounds of the tables that grow
          MaxPrices,
          MaxBoms

ASSUME DaysAssumption == Days \subseteq Nat \ {0} /\ IsFiniteSet(Days)
ASSUME KnownAssumption == KnownSuppliers \subseteq Suppliers /\ KnownSkus \subseteq Skus
ASSUME ListedAssumption == \A b \in Batches : BatchOf[b].suppliers \in Seq(Suppliers)

VARIABLES supplier,  \* suppliers.verification_status
          sku,       \* skus.verification_status and sku_unit_conversions
          relation,  \* supplier_skus with their resource_versions
          agreement, \* core_price_agreements
          change,    \* core_price_change_requests
          priceVersion, \* resource_versions of supplier_price
          bom,       \* product_boms
          batch,     \* import_batches
          request    \* approval_requests of these

catalogVars ==
  <<supplier, sku, relation, agreement, change, priceVersion, bom, batch, request>>

People  == Internal \cup Makers
Forever == 1 + CHOOSE d \in Days \cup {0} : \A e \in Days : e =< d
Pairs   == Suppliers \X Skus
NoRelation == [status |-> "none", terms |-> "none", primary |-> FALSE, version |-> 0,
               by |-> "nobody"]

Verdicts  == {"approved", "rejected"}
Verifying == {"none", "pending"} \cup Verdicts
Proposed  == [terms: Terms \cup {"none"}, primary: BOOLEAN, by: People \cup {"nobody"}]

CatalogTypeOK ==
  /\ supplier \in [Suppliers -> Verifying]
  /\ sku \in [Skus -> [status: Verifying, conversion: {"none", "active", "inactive"}]]
  /\ relation \in [Pairs -> [status: {"pending", "active", "inactive"}, terms: Terms,
       primary: BOOLEAN, version: Nat \ {0}, by: People] \cup {NoRelation}]
  /\ agreement \in Seq([of: Pairs, from: Days, to: 0 .. Forever, active: BOOLEAN])
  /\ change \in Seq([of: Pairs, current: Nat, from: Days, decision: {"pending"} \cup Verdicts])
  /\ priceVersion \in [Pairs -> Nat \ {0}]
  /\ bom \in Seq([from: Days, to: 0 .. Forever, overlap: BOOLEAN,
                  status: {"pending"} \cup Verdicts])
  /\ batch \in [Batches -> {"none", "awaiting_mapping", "awaiting_duplicate_confirmation",
                            "committed"}]
  /\ \A r \in DOMAIN request : /\ request[r].by \in People
                               /\ request[r].status \in {"pending"} \cup Verdicts
                               /\ request[r].proposed \in Proposed
                               /\ request[r].retires \subseteq DOMAIN bom

CatalogInit ==
  /\ supplier = [s \in Suppliers |-> IF s \in KnownSuppliers THEN "approved" ELSE "none"]
  /\ sku = [k \in Skus |-> [status |-> IF k \in KnownSkus THEN "approved" ELSE "none",
                            conversion |-> "none"]]
  /\ relation = [p \in Pairs |-> NoRelation]
  /\ agreement = <<>> /\ change = <<>> /\ bom = <<>> /\ request = <<>>
  /\ priceVersion = [p \in Pairs |-> 1]
  /\ batch = [b \in Batches |-> "none"]

-----------------------------------------------------------------------------
(* Reviews *)

Ask(type, target, u) ==
  [type |-> type, target |-> target, by |-> u, status |-> "pending", version |-> 0,
   retires |-> {}, proposed |-> [terms |-> "none", primary |-> FALSE, by |-> "nobody"]]

\* createApproval.
Asks(rows) == /\ Len(request) + Len(rows) =< MaxRequests
              /\ request' = request \o rows

\* decideApproval, the part common to the effects of this module. A price
\* change also consumes a step-up code, as in Access.
Concludes(r, u, type, verdict) ==
  /\ request[r].type = type /\ request[r].status = "pending"
  /\ u \in Internal /\ u # request[r].by
  /\ request' = [request EXCEPT ![r].status = verdict]

-----------------------------------------------------------------------------
(* Suppliers and imports *)

\* A tier-3 supplier is the factory's own.
Direct(u, s) == u \in Makers /\ Tier[s] = 3

CreateSupplier(s, u) ==
  /\ supplier[s] = "none"
  /\ \/ /\ Direct(u, s)
        /\ supplier' = [supplier EXCEPT ![s] = "approved"]
        /\ UNCHANGED request
     \/ /\ u \in Internal
        /\ supplier' = [supplier EXCEPT ![s] = "pending"]
        /\ Asks(<<Ask("supplier_onboarding", s, u)>>)
  /\ UNCHANGED <<sku, relation, agreement, change, priceVersion, bom, batch>>

DecideSupplier(r, u, verdict) ==
  /\ Concludes(r, u, "supplier_onboarding", verdict)
  /\ supplier[request[r].target] = "pending"
  /\ supplier' = [supplier EXCEPT ![request[r].target] = verdict]
  /\ UNCHANGED <<sku, relation, agreement, change, priceVersion, bom, batch>>

\* stageImport: the second batch of one fingerprint is to be confirmed.
StageImport(b) ==
  /\ batch[b] = "none"
  /\ batch' = [batch EXCEPT ![b] =
       IF \E c \in Batches : batch[c] # "none" /\ BatchOf[c].fingerprint = BatchOf[b].fingerprint
       THEN "awaiting_duplicate_confirmation" ELSE "awaiting_mapping"]
  /\ UNCHANGED <<supplier, sku, relation, agreement, change, priceVersion, bom, request>>

\* commitImport of suppliers: all its rows, or none. (A duplicate is committed
\* when the command confirms it.)
CommitSuppliers(b, u) ==
  LET listed == BatchOf[b].suppliers
  IN /\ batch[b] \in {"awaiting_mapping", "awaiting_duplicate_confirmation"}
     /\ BatchOf[b].type = "supplier"
     /\ \A i, j \in DOMAIN listed : /\ supplier[listed[i]] = "none"
                                    /\ listed[i] = listed[j] => i = j
     /\ supplier' = [s \in Suppliers |->
          IF \E i \in DOMAIN listed : listed[i] = s THEN "pending" ELSE supplier[s]]
     /\ Asks([i \in DOMAIN listed |-> Ask("supplier_onboarding", listed[i], u)])
     /\ batch' = [batch EXCEPT ![b] = "committed"]
     /\ UNCHANGED <<sku, relation, agreement, change, priceVersion, bom>>

\* commitImport of anything else is put off for ever.
DeferCommit(b) ==
  /\ batch[b] \in {"awaiting_mapping", "awaiting_duplicate_confirmation"}
  /\ BatchOf[b].type # "supplier"
  /\ batch' = [batch EXCEPT ![b] = "awaiting_mapping"]
  /\ UNCHANGED <<supplier, sku, relation, agreement, change, priceVersion, bom, request>>

-----------------------------------------------------------------------------
(* SKUs *)

SubmitSku(k, u, conversion) ==
  /\ sku' = [sku EXCEPT ![k] = [status |-> "pending", conversion |-> conversion]]
  /\ Asks(<<Ask("sku_verification", k, u)>>)
  /\ UNCHANGED <<supplier, relation, agreement, change, priceVersion, bom, batch>>

CreateSku(k, u) ==
  /\ sku[k].status = "none"
  /\ \E conversion \in {"none", "active"} : SubmitSku(k, u, conversion)

\* Mutant: a SKU still under review can be submitted again.
CanResubmitEarly(k) == sku[k].status \in {"pending", "rejected"}

\* Mutant: a SKU in use can be submitted again.
CanResubmitApproved(k) == sku[k].status \in {"approved", "rejected"}

CanResubmit(k) == sku[k].status = "rejected"

\* resubmit_sku: without a purchase unit, its conversion is put out of use.
ResubmitSku(k, u) ==
  /\ CanResubmit(k)
  /\ \/ SubmitSku(k, u, "active")
     \/ SubmitSku(k, u, IF sku[k].conversion = "active" THEN "inactive" ELSE sku[k].conversion)

DecideSku(r, u, verdict) ==
  /\ Concludes(r, u, "sku_verification", verdict)
  /\ sku[request[r].target].status = "pending"
  /\ sku' = [sku EXCEPT ![request[r].target].status = verdict]
  /\ UNCHANGED <<supplier, relation, agreement, change, priceVersion, bom, batch>>

-----------------------------------------------------------------------------
(* Who supplies what *)

\* writeSupplierSku: a new relation, or new terms for one, whatever its status
\* and whatever reviews of it wait.
WriteRelation(p, u, terms, primary) ==
  LET version == relation[p].version + 1
      new(status) == [status |-> status, terms |-> terms, primary |-> primary,
                      version |-> version, by |-> u]
  IN /\ supplier[p[1]] # "none" /\ sku[p[2]].status = "approved"
     /\ \/ /\ Direct(u, p[1])
           /\ relation' = [relation EXCEPT ![p] = new("active")]
           /\ UNCHANGED request
        \/ /\ ~Direct(u, p[1])
           /\ relation' = [relation EXCEPT ![p] = new("pending")]
           /\ Asks(<<[Ask("supplier_sku_change", p, u) EXCEPT
                        !.version = version,
                        !.proposed = [terms |-> terms, primary |-> primary, by |-> u]]>>)
     /\ UNCHANGED <<supplier, sku, agreement, change, priceVersion, bom, batch>>

\* Mutant: the review is applied to whatever the relation has become.
AsReviewedAnyway(r, p) == TRUE

\* The relation is at the version, and has the terms, the review is about.
AsReviewed(r, p) ==
  /\ relation[p].version = request[r].version
  /\ [terms |-> relation[p].terms, primary |-> relation[p].primary, by |-> relation[p].by]
       = request[r].proposed

\* applySupplierSku: a primary supplier that is approved replaces the others.
DecideRelation(r, u, verdict) ==
  LET p == request[r].target
      replaces(o) == /\ verdict = "approved" /\ relation[p].primary
                     /\ o # p /\ o[2] = p[2]
  IN /\ Concludes(r, u, "supplier_sku_change", verdict)
     /\ AsReviewed(r, p)
     /\ relation[p].status = "pending"
     /\ relation' = [o \in Pairs |->
          IF o = p THEN [relation[p] EXCEPT !.version = @ + 1,
                           !.status = IF verdict = "approved" THEN "active" ELSE "inactive"]
          ELSE IF replaces(o) THEN [relation[o] EXCEPT !.primary = FALSE] ELSE relation[o]]
     /\ UNCHANGED <<supplier, sku, agreement, change, priceVersion, bom, batch>>

-----------------------------------------------------------------------------
(* Prices *)

\* The active agreement of p, 0 if there is none: the latest, were there two.
Current(p) ==
  LET live == {a \in DOMAIN agreement : agreement[a].of = p /\ agreement[a].active}
  IN IF live = {} THEN 0
     ELSE CHOOSE a \in live : \A b \in live :
            \/ agreement[b].from < agreement[a].from
            \/ agreement[b].from = agreement[a].from /\ b =< a

BeginsAfter(p, day) == Current(p) # 0 => day > agreement[Current(p)].from

\* The agreement a gives way to a new one of p from day on.
Agrees(p, a, day) ==
  /\ Len(agreement) < MaxPrices
  /\ a # 0 => agreement[a].active
  /\ agreement' = Append(
       [x \in DOMAIN agreement |->
          IF x = a THEN [agreement[x] EXCEPT !.to = day - 1, !.active = FALSE] ELSE agreement[x]],
       [of |-> p, from |-> day, to |-> Forever, active |-> TRUE])
  /\ priceVersion' = [priceVersion EXCEPT ![p] = @ + 1]

Priceable(p, day) == /\ sku[p[2]].status = "approved"
                     /\ relation[p].status = "active"
                     /\ BeginsAfter(p, day)

\* writeSupplierPrice by the factory, with a step-up code for this version.
SetPrice(p, u, day) ==
  /\ Direct(u, p[1])
  /\ Priceable(p, day)
  /\ Agrees(p, Current(p), day)
  /\ UNCHANGED <<supplier, sku, relation, change, bom, batch, request>>

\* writeSupplierPrice by the staff.
RequestPrice(p, u, day) ==
  /\ u \in Internal /\ Tier[p[1]] # 3
  /\ Priceable(p, day)
  /\ change' = Append(change, [of |-> p, current |-> Current(p), from |-> day,
                               decision |-> "pending"])
  /\ Asks(<<[Ask("supplier_price_change", Len(change) + 1, u) EXCEPT
               !.version = priceVersion[p]]>>)
  /\ UNCHANGED <<supplier, sku, relation, agreement, priceVersion, bom, batch>>

\* Mutant: the request is applied to whatever price is active now.
SamePriceAnyway(r, c, verdict) == TRUE

\* Neither decision is possible once another price was agreed.
SamePrice(r, c, verdict) == /\ priceVersion[c.of] = request[r].version
                            /\ verdict = "approved" => Current(c.of) = c.current

DecidePrice(r, u, verdict) ==
  LET c == change[request[r].target]
  IN /\ Concludes(r, u, "supplier_price_change", verdict)
     /\ c.decision = "pending"
     /\ SamePrice(r, c, verdict)
     /\ IF verdict = "approved" THEN Agrees(c.of, c.current, c.from)
                                ELSE UNCHANGED <<agreement, priceVersion>>
     /\ change' = [change EXCEPT ![request[r].target].decision = verdict]
     /\ UNCHANGED <<supplier, sku, relation, bom, batch>>

-----------------------------------------------------------------------------
(* Bills of materials *)

Overlap(x, y) == x.from =< y.to /\ y.from =< x.to

\* create_bom: new is inserted at once; what it replaces ends when it is
\* approved. Only versions already approved are on that list.
CreateBom(u, new) ==
  LET conflicting == {b \in DOMAIN bom : bom[b].status # "rejected" /\ Overlap(new, bom[b])}
  IN /\ Len(bom) < MaxBoms
     /\ u \in Internal
     /\ new.from =< new.to
     /\ new.overlap => new.to < Forever
     /\ ~new.overlap => \A b \in conflicting : bom[b].from < new.from
     /\ bom' = Append(bom, new)
     /\ Asks(<<[Ask("bom_version", Len(bom) + 1, u) EXCEPT
                  !.retires = IF new.overlap THEN {}
                              ELSE {b \in conflicting : bom[b].status = "approved"}]>>)
     /\ UNCHANGED <<supplier, sku, relation, agreement, change, priceVersion, batch>>

\* applyBom.
DecideBom(r, u, verdict) ==
  LET new == request[r].target
      ends(b) == verdict = "approved" /\ b \in request[r].retires
  IN /\ Concludes(r, u, "bom_version", verdict)
     /\ bom[new].status = "pending"
     /\ bom' = [b \in DOMAIN bom |->
          IF b = new THEN [bom[b] EXCEPT !.status = verdict]
          ELSE IF ends(b) THEN [bom[b] EXCEPT !.to = bom[new].from - 1] ELSE bom[b]]
     /\ UNCHANGED <<supplier, sku, relation, agreement, change, priceVersion, batch>>

-----------------------------------------------------------------------------
Versions == [from: Days, to: Days \cup {Forever}, overlap: BOOLEAN, status: {"pending"}]

CatalogNext ==
  \/ \E u \in People :
       \/ \E s \in Suppliers : CreateSupplier(s, u)
       \/ \E p \in Pairs :
            \/ \E terms \in Terms, primary \in BOOLEAN : WriteRelation(p, u, terms, primary)
            \/ \E day \in Days : SetPrice(p, u, day) \/ RequestPrice(p, u, day)
  \/ \E u \in Internal :
       \/ \E b \in Batches : CommitSuppliers(b, u)
       \/ \E k \in Skus : CreateSku(k, u) \/ ResubmitSku(k, u)
       \/ \E new \in Versions : CreateBom(u, new)
       \/ \E r \in DOMAIN request, verdict \in Verdicts :
            \/ DecideSupplier(r, u, verdict) \/ DecideSku(r, u, verdict)
            \/ DecideRelation(r, u, verdict) \/ DecidePrice(r, u, verdict)
            \/ DecideBom(r, u, verdict)
  \/ \E b \in Batches : StageImport(b) \/ DeferCommit(b)

CatalogSpec == CatalogInit /\ [][CatalogNext]_catalogVars

-----------------------------------------------------------------------------
(* Properties *)

\* The prices of a supplier's SKU follow one another: no period ends before
\* it begins, no two have a day in common, and at most one is active, whichever
\* of the requests made against one price are approved, and in whatever order.
PricesDisjoint ==
  \A a, b \in DOMAIN agreement :
    /\ agreement[a].from =< agreement[a].to
    /\ a # b /\ agreement[a].of = agreement[b].of =>
        /\ ~Overlap(agreement[a], agreement[b])
        /\ ~(agreement[a].active /\ agreement[b].active)

\* A supplier delivers on terms the factory set for its own tier-3 supplier, or
\* on those a reviewer saw when approving: not on terms written meanwhile.
TermsAreApproved ==
  \A p \in Pairs :
    relation[p].status = "active" =>
      \/ Direct(relation[p].by, p[1])
      \/ \E r \in DOMAIN request :
           /\ request[r].type = "supplier_sku_change" /\ request[r].target = p
           /\ request[r].status = "approved" /\ request[r].version + 1 = relation[p].version
           /\ request[r].proposed.terms = relation[p].terms
           /\ request[r].proposed.by = relation[p].by
           /\ relation[p].primary => request[r].proposed.primary

Waiting(type, target) ==
  {r \in DOMAIN request : /\ request[r].type = type /\ request[r].target = target
                          /\ request[r].status = "pending"}

OneWaits(pending, type, target) == Cardinality(Waiting(type, target)) = IF pending THEN 1 ELSE 0

\* What is pending waits for one review, and only what is pending does. (Of a
\* relation, exactly one review names the version that is pending; reviews
\* of older versions stay pending for ever.)
TargetsWait ==
  /\ \A s \in Suppliers : OneWaits(supplier[s] = "pending", "supplier_onboarding", s)
  /\ \A k \in Skus : OneWaits(sku[k].status = "pending", "sku_verification", k)
  /\ \A c \in DOMAIN change : OneWaits(change[c].decision = "pending", "supplier_price_change", c)
  /\ \A b \in DOMAIN bom : OneWaits(bom[b].status = "pending", "bom_version", b)
  /\ \A p \in Pairs :
       Cardinality({r \in Waiting("supplier_sku_change", p) :
                      request[r].version = relation[p].version})
         = IF relation[p].status = "pending" THEN 1 ELSE 0

=============================================================================
