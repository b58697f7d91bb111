----------------------------- MODULE SupplyReads -----------------------------
(***************************************************************************)
(* The pages over purchasing and over the data it rests on (GET            *)
(* /purchase-plans, /purchase-orders, /suppliers, /supplier-skus,          *)
(* /supplier-prices, /master-data), and what the purchase and master data  *)
(* workspaces of the web client count on them and offer. A page answers    *)
(* 503 when a row does not parse, or names a row that is not on it.        *)
(*                                                                         *)
(* Names, addresses and amounts always parse. There is one factory, so it  *)
(* sees the lines and links the staff sees. Plans, suppliers, SKUs and BOMs*)
(* are fewer than a page shows; orders need not be.                        *)
(***************************************************************************)
EXTENDS Procurement, Catalog

CONSTANT OrderLimit \* orders a page shows (200; a bound here)

ASSUME OrderLimitAssumption == OrderLimit \in Nat \ {0}

-----------------------------------------------------------------------------
(* Purchase plans and orders *)

PlanParses(no, v) ==
  plan[no][v].status \in {"draft", "pending_approval", "awaiting_factory_confirmation",
    "confirmed", "disputed", "ordering", "ordered_complete", "superseded"}
PlanItemParses(no, v, i) ==
  /\ Planned[i] > 0 /\ plan[no][v].ordered[i] >= 0
  /\ plan[no][v].completion[i] \in {"not_ordered", "within_tolerance", "over_plan_pending",
                                    "under_plan_pending", "exception_approved"}

\* factory_plan_responses.status of an answer that a review decides.
AnswerStatus(a) == IF review[a].status = "pending" THEN "pending_supply_chain"
                   ELSE review[a].status
AnswerParses(a) == AnswerStatus(a) \in {"accepted", "pending_supply_chain", "approved", "rejected"}

\* The latest answer to a version, if it was disputed.
LatestAnswers(no, v) ==
  LET answers == {a \in DOMAIN review : /\ review[a].kind = "plan_exception"
                                        /\ review[a].no = no /\ review[a].v = v}
  IN {a \in answers : \A b \in answers : b =< a}

Reader(u) == u \in Buyers \cup FactoryUsers

PlansReply(u) ==
  CASE ~Reader(u) -> 403
    [] \E no \in PlanNos : \E v \in DOMAIN plan[no] :
         \/ ~PlanParses(no, v)
         \/ \E i \in PlanItems : ~PlanItemParses(no, v, i)
         \/ \E a \in LatestAnswers(no, v) : ~AnswerParses(a) -> 503
    [] OTHER -> 200

ShownOrders == {o \in DOMAIN orders : o > Len(orders) - OrderLimit}
ShownLinks(o) == {id \in ItemIds : orders[o].line[id] > 0}

OrdersReply(u) ==
  CASE ~Reader(u) -> 403
    [] \E o \in ShownOrders : \E id \in ShownLinks(o) :
         \/ id[2] \notin DOMAIN plan[id[1]]
         \/ ~PlanItemParses(id[1], id[2], id[3]) -> 503
    [] OTHER -> 200

\* The purchase workspace: lines counted as deviations that wait for approval,
\* and the buttons of plans, orders and their lines.
DeviationShown(no, v, i) ==
  plan[no][v].completion[i] \in {"over_plan_pending", "under_plan_pending"}
ConfirmOffered(no, v)  == plan[no][v].status = "awaiting_factory_confirmation"
FinalizeOffered(no, v) == plan[no][v].status \in {"confirmed", "ordering"}
AnswerOffered(o)       == orders[o].status = "factory_confirmation"
ReceiveOffered(o)      == orders[o].status = "confirmed"

-----------------------------------------------------------------------------
(* Suppliers, their SKUs and prices, and master data *)

SupplierParses(s) == supplier[s] \in {"pending", "approved", "rejected"}
RelationParses(p) == relation[p].status \in {"pending", "active", "inactive"}
AgreementParses(a) == agreement[a].to >= agreement[a].from
PriceRequestParses(c) == change[c].decision \in {"pending", "approved", "rejected"}

\* dataScope: the staff sees every supplier, the factory its own.
InScope(u, s) == supplier[s] # "none" /\ (u \in Internal \/ Tier[s] = 3)

SuppliersReply(u) ==
  CASE u \notin People -> 403
    [] \E s \in Suppliers : InScope(u, s) /\ ~SupplierParses(s) -> 503
    [] OTHER -> 200

\* A SKU is active (skus.status) from its approval on.
ActiveSku(k) == sku[k].status = "approved"

ShownRelations(activeOnly) ==
  {p \in Pairs : /\ relation[p].status # "none"
                 /\ activeOnly => relation[p].status = "active"}

\* The summaries beside them: the factory also sees who delivers to it.
SummaryShown(u, s) == InScope(u, s) \/ \E p \in ShownRelations(FALSE) : p[1] = s

SupplierSkusReply(u) ==
  CASE u \notin People -> 403
    [] \E p \in ShownRelations(FALSE) : \/ ~RelationParses(p)
                                        \/ ~SummaryShown(u, p[1])
                                        \/ ~ActiveSku(p[2]) -> 503
    [] OTHER -> 200

\* The suppliers whose agreements and requests are on the page of prices.
Priced(u) == {s \in Suppliers : IF u \in Internal THEN supplier[s] # "none"
                                ELSE \E p \in ShownRelations(TRUE) : p[1] = s}

ShownAgreements(u) == {a \in DOMAIN agreement : agreement[a].of[1] \in Priced(u)}
ShownChanges(u)    == {c \in DOMAIN change : change[c].of[1] \in Priced(u)}

SupplierPricesReply(u) ==
  CASE u \notin People -> 403
    [] \/ \E a \in ShownAgreements(u) : ~AgreementParses(a)
       \/ \E c \in ShownChanges(u) : ~PriceRequestParses(c) -> 503
    [] OTHER -> 200

\* resolveDataScope: what the factory sees of master data is what is in use.
MasterDataScope(u) == CASE u \in Internal -> "full"
                        [] u \in Makers   -> "factory"
                        [] OTHER          -> "forbidden"

SkuShown(u, k) == IF MasterDataScope(u) = "full" THEN sku[k].status # "none" ELSE ActiveSku(k)
BomShown(u, b) == MasterDataScope(u) = "full" \/ bom[b].status = "approved"
ShownConversions(u) == {k \in Skus : SkuShown(u, k) /\ sku[k].conversion # "none"}

SkuParses(k) == sku[k].status \in {"pending", "approved", "rejected"}
ConversionParses(k) == sku[k].conversion \in {"active", "inactive"}
BomParses(b) == bom[b].status \in {"draft", "pending", "approved", "rejected"}

\* bomLifecycleStatus as of a day.
Lifecycle(b, day) ==
  CASE bom[b].status # "approved" -> bom[b].status
    [] bom[b].from > day          -> "future"
    [] bom[b].to < day            -> "expired"
    [] OTHER                      -> "effective"

\* What the page says of the latest review of a SKU, if there was one.
LatestReview(k) ==
  LET reviews == {r \in DOMAIN request : request[r].type = "sku_verification"
                                         /\ request[r].target = k}
  IN {request[r].status : r \in {r \in reviews : \A q \in reviews : q =< r}}

MasterDataReply(u) ==
  CASE MasterDataScope(u) = "forbidden" -> 403
    [] \/ \E k \in Skus : SkuShown(u, k) /\ ~SkuParses(k)
       \/ \E k \in ShownConversions(u) : ~ConversionParses(k)
       \/ \E b \in DOMAIN bom : BomShown(u, b) /\ ~BomParses(b) -> 503
    [] OTHER -> 200

\* The master data workspace: a rejected SKU can be changed and submitted again.
ResubmitOffered(k) == sku[k].status = "rejected"

-----------------------------------------------------------------------------
(* Safety *)

\* Every buyer and the factory get both pages in every state the commands
\* reach. What the plans say was ordered of a line is what the orders on the
\* other page link to it, if they are all shown, and never less. A line is
\* counted as waiting only if a review named it, and was not approved. Nothing
\* is offered to be confirmed, ordered, answered or received while a review of
\* it waits, or once its deviation was rejected.
PurchasesShown ==
  /\ \A u \in Buyers \cup FactoryUsers : PlansReply(u) = 200 /\ OrdersReply(u) = 200
  /\ \A no \in PlanNos : \A v \in DOMAIN plan[no] :
       /\ \A i \in PlanItems :
            LET linked == SumFunctionOnSet([o \in DOMAIN orders |-> orders[o].line[<<no, v, i>>]],
                                           ShownOrders)
            IN /\ linked =< plan[no][v].ordered[i]
               /\ Len(orders) =< OrderLimit => linked = plan[no][v].ordered[i]
               /\ DeviationShown(no, v, i) =>
                    \E a \in DOMAIN review : /\ review[a].kind \in {"under_plan", "over_plan"}
                                             /\ <<no, v, i>> \in review[a].items
                                             /\ review[a].status # "approved"
       /\ ConfirmOffered(no, v) \/ FinalizeOffered(no, v) =>
            \A a \in DOMAIN review :
              review[a].kind \in {"plan_version", "plan_exception"} /\ review[a].no = no
                /\ review[a].v = v => review[a].status # "pending"
  /\ \A o \in ShownOrders : AnswerOffered(o) \/ ReceiveOffered(o) =>
       \A a \in DOMAIN review : review[a].order = o =>
         \/ review[a].status = "approved"
         \/ review[a].kind = "order_exception" /\ review[a].status = "rejected"

\* Everyone gets the pages of suppliers, relations, prices and master data in
\* every state: no relation is left that names a SKU taken out of use, and no
\* price that ended before it began. The latest review shown of a SKU is the
\* one that made it what it is, so a SKU offered to be submitted again waits
\* for nobody, and each approved BOM is shown as effective on its first day,
\* whatever replaced it.
CatalogShown ==
  /\ \A u \in People : /\ SuppliersReply(u) = 200 /\ SupplierSkusReply(u) = 200
                       /\ SupplierPricesReply(u) = 200 /\ MasterDataReply(u) = 200
  /\ \A k \in Skus : LatestReview(k) # {} => LatestReview(k) = {sku[k].status}
  /\ \A k \in Skus : ResubmitOffered(k) => Waiting("sku_verification", k) = {}
  /\ \A b \in DOMAIN bom :
       bom[b].status = "approved" => Lifecycle(b, bom[b].from) = "effective"
=============================================================================
