----------------------------- MODULE StockReads ------------------------------
(***************************************************************************)
(* The pages over the inventory: GET /inventory, /stocktakes, /warehouses, *)
(* /quality-inspections, /production-orders, /shipments and /returns. A    *)
(* reader decides what the roles of the viewer let him see, selects those  *)
(* rows and the rows they refer to, and parses every one of them: a value  *)
(* outside its enumeration or range, or a missing row, and the whole page  *)
(* answers 503.                                                            *)
(*                                                                         *)
(* A reader is a few SELECTs outside a transaction. Rows are never deleted *)
(* and a reference is read before the row it names, so a page that answers *)
(* in every single state also answers when commands commit in between. The *)
(* LIMITs (100 to 5000 rows) are above what the instances hold. Columns    *)
(* the model has no variable for always parse (texts, dates, flags).       *)
(***************************************************************************)
EXTENDS Inventory

(***************************************************************************)
(* An account: its roles and the organization it is bound to. All orders   *)
(* here are made by "factory", whose warehouse is FactorySite; no order    *)
(* item has a supplier. One account of each kind is enough (a bound).      *)
(***************************************************************************)
Viewers == {[roles |-> {"supply_chain"}, of |-> "nobody"],
            [roles |-> {"factory"},      of |-> "factory"],
            [roles |-> {"factory"},      of |-> "another"],
            [roles |-> {"finance"},      of |-> "nobody"]}

\* Everything, what belongs to the viewer's factory, or nothing (403).
Scope(v, allowed, internal) ==
  CASE v.roles \cap allowed = {}                     -> "forbidden"
    [] v.roles \cap internal # {}                    -> "all"
    [] "factory" \in v.roles /\ v.of # "nobody"      -> v.of
    [] OTHER                                         -> "forbidden"

Insiders   == {"supply_chain", "finance", "admin", "company_qc"}
Inspectors == {"admin", "supply_chain", "company_qc"}

Reply(scope, accepted) == CASE scope = "forbidden" -> 403
                            [] ~accepted           -> 503
                            [] OTHER               -> 200

Sites(scope) == CASE scope = "all"     -> founded
                  [] scope = "factory" -> founded \cap {FactorySite}
                  [] OTHER             -> {}

\* All execution orders, and all shipments and returns of them, are "factory"'s.
OfFactory(scope, rows) == IF scope \in {"all", "factory"} THEN rows ELSE {}

-----------------------------------------------------------------------------
(* GET /inventory *)

InventoryScope(v) == Scope(v, {"admin", "supply_chain", "factory"}, Insiders)

\* The rows shown when the query names the warehouses selected, by default all
\* those the viewer may see; transfers are shown for all of these anyway.
ShownBatches(selected) == {b \in Rows : lot[b].wh \in selected}
ShownReservations(selected) ==
  {r \in Reservations : /\ reservation[r].status = "active"
                        /\ reservation[r].batch \in ShownBatches(selected)}
ShownTransfers(scope) ==
  {x \in Transfers : {transfer[x].from, transfer[x].to} \cap Sites(scope) # {}}

BatchParses(b) == /\ \A k \in Buckets : qty[b][k] >= 0
                  /\ lot[b].owner \in {"company", "factory"}
ReservationParses(r) == reservation[r].left >= 0
TransferParses(x) == transfer[x].n > 0

\* A warehouse out of the viewer's sight may not be asked for.
InventoryReply(v, asked) ==
  LET scope == InventoryScope(v)
      sites == Sites(scope)
      selected == IF asked = {} THEN sites ELSE asked
  IN IF sites # {} /\ ~(asked \subseteq sites) THEN 403
     ELSE Reply(scope, \/ sites = {}
                       \/ /\ \A b \in ShownBatches(selected) : BatchParses(b)
                          /\ \A r \in ShownReservations(selected) : ReservationParses(r)
                          /\ \A x \in ShownTransfers(scope) : TransferParses(x))

-----------------------------------------------------------------------------
(* GET /stocktakes *)

StocktakesScope(v) == Scope(v, {"admin", "supply_chain", "factory"}, Insiders)

ShownStocktakes(scope) == {t \in Stocktakes : task[t].wh \in Sites(scope)}

StocktakeParses(t) ==
  /\ task[t].scope \in {"full_warehouse", "sku_sample", "batch"}
  /\ task[t].status \in {"draft", "frozen", "first_count", "recount", "pending_approval",
                         "completed"}

\* The snapshot itself is not shown, only its batches; both counts are.
CountsOf(t) == {x \in {1, 2} \X BatchIds : count[t][x[1]][x[2]] # NoRow}
CountParses(t, x) == \A k \in Counted : count[t][x[1]][x[2]].q[k] >= 0

StocktakesReply(v) ==
  LET scope == StocktakesScope(v)
  IN Reply(scope, \A t \in ShownStocktakes(scope) :
                     /\ StocktakeParses(t)
                     /\ Targets(t) \subseteq Rows
                     /\ \A x \in CountsOf(t) : CountParses(t, x))

-----------------------------------------------------------------------------
(* GET /warehouses, which shows what keeps a warehouse from being closed *)

WarehousesScope(v) == Scope(v, {"admin", "supply_chain"}, {"admin", "supply_chain"})

MergedInto(w) == {merge[m].to : m \in {m \in Merges : /\ merge[m].status = "approved"
                                                      /\ merge[m].from = w}}

\* normalizeStatus of 'active', 'inactive' or 'merged:<target>'.
WarehouseParses(w) == w \in active \/ MergedInto(w) = {}
                      \/ \E target \in founded : MergedInto(w) = {target}

InventoryBlocker(w) == Held({b \in Rows : lot[b].wh = w})
TransferBlocker(w) ==
  Cardinality({x \in Transfers : /\ transfer[x].status \notin {"none", "received", "rejected"}
                                 /\ w \in {transfer[x].from, transfer[x].to}})

WarehousesReply(v) ==
  Reply(WarehousesScope(v),
        /\ \A w \in founded : WarehouseParses(w)
        /\ \A b \in Rows, k \in Buckets : qty[b][k] >= 0)

-----------------------------------------------------------------------------
(* GET /quality-inspections, batches to inspect *)

PendingScope(v) == Scope(v, {"admin", "company_qc"}, {"admin", "company_qc"})

PendingBatches == {b \in Rows : qty[b]["pending"] > 0 /\ Traceable(b)}
PendingParses(b) == lot[b].wh \in founded

-----------------------------------------------------------------------------
(* GET /production-orders *)

OrdersScope(v) == Scope(v, {"admin", "supply_chain", "factory", "company_qc"}, Inspectors)

ShownOrders(scope) == OfFactory(scope, {o \in Orders : order[o] # NoOrder})

OrderParses(o) == order[o].planned > 0 /\ Completed(o) >= 0
LineParses(o) == /\ PerFinished * order[o].planned > 0
                 /\ \A k \in DOMAIN line[o] : line[o][k] >= 0

\* production_reports.result: as reported, and as a reviewer's decision left it.
HasReport(o) == order[o].status \notin {"none", "planned", "in_production"}
ReportedResult(o) == CASE order[o].over                    -> "overproduction_quarantined"
                       [] order[o].actual < order[o].planned -> "underproduction_pending"
                       [] OTHER                            -> "within_tolerance"
ReportResult(o) ==
  CASE order[o].status = "variance_rejected"       -> "rejected"
    [] order[o].status = "completed_factory_owned" -> "rejected_factory_owned"
    [] order[o].status = "completed" /\ order[o].by # NoUser -> "approved"
    [] OTHER                                       -> ReportedResult(o)

\* Mutant: the report an approval has changed is refused as well.
ReportParsesUnreviewed(o) ==
  ReportResult(o) \in {"within_tolerance", "overproduction_quarantined",
                       "underproduction_pending", "rejected_factory_owned"}

ReportParses(o) ==
  ReportResult(o) \in {"within_tolerance", "overproduction_quarantined",
                       "underproduction_pending", "approved", "rejected_factory_owned"}

\* The order item is offered for a new order as long as it has none; a
\* factory is offered what is allocated to it.
ItemOffered(scope) == /\ scope \in {"all", "factory"}
                      /\ scope = "factory" => Allocated > 0
                      /\ \A o \in Orders : order[o] = NoOrder

OrdersReply(v) ==
  LET scope == OrdersScope(v)
  IN Reply(scope, \A o \in ShownOrders(scope) : /\ OrderParses(o)
                                                /\ LineParses(o)
                                                /\ HasReport(o) => ReportParses(o))

-----------------------------------------------------------------------------
(* GET /shipments; a receiver, who sees what is sent to him, is left out *)

ShipmentsScope(v) == Scope(v, {"admin", "supply_chain", "factory", "receiver"}, Insiders)

ShownShipments(scope) == OfFactory(scope, {x \in Shipments : shipment[x] # NoShipment})

ShipmentParses(x) == shipment[x].n > 0 /\ shipment[x].got >= 0
ExecutionParses(o) == order[o].planned > 0 /\ Completed(o) >= 0

ShipmentsReply(v) ==
  LET scope == ShipmentsScope(v)
  IN Reply(scope, \A x \in ShownShipments(scope) : /\ ShipmentParses(x)
                                                   /\ order[shipment[x].for] # NoOrder
                                                   /\ ExecutionParses(shipment[x].for))

-----------------------------------------------------------------------------
(* GET /returns *)

ReturnsScope(v) == Scope(v, Inspectors \cup {"factory", "supplier_qc"}, Inspectors)

ShownReturns(scope) == OfFactory(scope, {y \in Returns : returned[y] # NoReturn})

ReturnParses(y) ==
  /\ returned[y].n > 0
  /\ returned[y].status \in {"return_in_transit", "quarantined", "inspection",
                             "pending_supply_chain", "restocked", "rework", "scrapped"}
ReturnInspectionParses(y) == returned[y].passed \in 0 .. returned[y].n

\* product_return_dispositions.status as the propose and review commands write it.
DispositionStatus(y) == CASE returned[y].status = "restocked"  -> "approved"
                          [] returned[y].status = "inspection" -> "rejected"
                          [] OTHER                             -> "pending"
DispositionParses(y) == DispositionStatus(y) \in {"pending_supply_chain", "approved", "rejected"}

ReturnsReply(v) ==
  LET scope == ReturnsScope(v)
  IN Reply(scope, \A y \in ShownReturns(scope) :
                     /\ ReturnParses(y)
                     /\ returned[y].status # "quarantined" => ReturnInspectionParses(y)
                     /\ returned[y].by # NoUser => DispositionParses(y))

-----------------------------------------------------------------------------
(* Safety *)

\* No sequence of commands leaves a row behind that makes a page of the
\* inventory answer 503, with two exceptions: an order whose deviation was
\* rejected, and a return with a disposition under review, take down the page
\* of everyone who may see them.
PagesAnswer ==
  \A v \in Viewers :
    /\ 503 \notin {InventoryReply(v, {}), StocktakesReply(v), WarehousesReply(v),
                   ShipmentsReply(v)}
    /\ \A w \in Warehouses : InventoryReply(v, {w}) # 503
    /\ OrdersReply(v) = 503 <=>
         \E o \in ShownOrders(OrdersScope(v)) : order[o].status = "variance_rejected"
    /\ ReturnsReply(v) = 503 <=>
         \E y \in ShownReturns(ReturnsScope(v)) :
            returned[y].status = "pending_supply_chain" /\ returned[y].by # NoUser

\* What is shown of a warehouse tells whether it can be closed, unless it is
\* being counted.
BlockersShown ==
  \A w \in active :
    Blocked(w) <=> \/ InventoryBlocker(w) > 0
                   \/ TransferBlocker(w) > 0
                   \/ \E t \in Stocktakes : IsOpen(t) /\ task[t].wh = w

\* What the pages offer, the commands accept: a warehouse shown without stock
\* and transfers can be closed unless it is being counted, and only such a
\* one can; a batch shown as pending can be inspected unless it is frozen; an
\* order item that is offered has an allocation left to be made into an order.
OffersHold ==
  /\ BlockersShown
  /\ \A b \in PendingBatches :
       PendingParses(b) /\ (Frozen(lot[b].wh, lot[b].sku) \/ ENABLED InspectBatch(b, "available"))
  /\ \A o \in Orders : ItemOffered("factory") => ENABLED CreateOrder(o, Allocated)

-----------------------------------------------------------------------------
(* What the schema says, and the code does not do *)

\* database/runtime/schema.ts:610 and packages/contracts/src/returns.ts:38: a
\* disposition is pending_supply_chain, approved or rejected. So whoever may
\* see a return gets a page of returns.
ReturnsListed == \A v \in Viewers : ReturnsReply(v) \in {200, 403}
=============================================================================
