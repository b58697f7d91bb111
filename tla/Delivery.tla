------------------------------ MODULE Delivery ------------------------------
(***************************************************************************)
(* Shipments of what an execution order makes, their receipt by the        *)
(* customer, and goods that come back: quarantined, inspected, and only    *)
(* put back into stock when a proposed disposition is approved.            *)
(* All orders ship the finished SKU, from the factory's one warehouse.     *)
(***************************************************************************)
EXTENDS Warehousing, Production

CONSTANTS Shipments, \* ids of the shipments that may be planned (a bound)
          Returns    \* ids of the returns that may be received (a bound)

ASSUME DeliveryAssumption == IsFiniteSet(Shipments) /\ IsFiniteSet(Returns)

VARIABLES shipment, \* delivery_batches rows, with their receipt and exception
          returned  \* product_returns rows, with inspection and dispositions

deliveryVars == <<shipment, returned>>

ShipmentStatuses == {"pending_factory_confirmation", "planned", "pending_supply_chain",
                     "approved_to_ship", "deviation_rejected", "shipped", "received",
                     "received_with_exception"}
NoShipment == [status |-> "none", for |-> "none", n |-> 0, by |-> NoUser, got |-> 0,
               exception |-> "none"]

ReturnStatuses == {"quarantined", "pending_supply_chain", "restocked", "inspection"}
NoReturn == [status |-> "none", from |-> "none", wh |-> "none", n |-> 0, batch |-> 0,
             passed |-> 0, by |-> NoUser]

DeliveryTypeOK ==
  /\ shipment \in [Shipments ->
       [status: ShipmentStatuses, for: Orders, n: Nat \ {0}, by: Users \cup {NoUser},
        got: Nat, exception: {"none", "pending_supply_chain", "resolved"}] \cup {NoShipment}]
  /\ returned \in [Returns ->
       [status: ReturnStatuses, from: Shipments, wh: Warehouses, n: Nat \ {0}, batch: BatchIds,
        passed: Nat, by: Users \cup {NoUser}] \cup {NoReturn}]
  /\ \A y \in Returns : returned[y].passed =< returned[y].n

DeliveryInit ==
  /\ shipment = [x \in Shipments |-> NoShipment]
  /\ returned = [y \in Returns |-> NoReturn]

-----------------------------------------------------------------------------
(* Shipments *)

\* execution_orders.completed_quantity: what was reported, until a reviewer
\* has decided how much of it the company gets.
Completed(o) == IF order[o].status = "variance_pending" THEN order[o].actual ELSE order[o].company

MadeAtMost(o) == IF Completed(o) > order[o].planned THEN Completed(o) ELSE order[o].planned

\* Shipments of order o that count; no command cancels one.
Live(o) == {x \in Shipments : shipment[x].for = o /\ shipment[x].status # "deviation_rejected"}

\* shipmentCommand, create.
PlanShipment(x, o, n) ==
  /\ shipment[x] = NoShipment
  /\ order[o] # NoOrder
  /\ Sum([z \in Shipments |-> shipment[z].n], Live(o)) + n =< MadeAtMost(o)
  /\ shipment' = [shipment EXCEPT ![x] = [NoShipment EXCEPT !.for = o, !.n = n,
                                            !.status = "pending_factory_confirmation"]]
  /\ UNCHANGED returned
  /\ UNCHANGED stockVars

\* confirm.
ConfirmShipment(x) ==
  /\ shipment[x].status = "pending_factory_confirmation"
  /\ shipment' = [shipment EXCEPT ![x].status = "planned"]
  /\ UNCHANGED returned
  /\ UNCHANGED stockVars

\* ship, on another day than planned.
RequestDeviation(x, u) ==
  /\ shipment[x].status = "planned"
  /\ shipment' = [shipment EXCEPT ![x].status = "pending_supply_chain", ![x].by = u]
  /\ UNCHANGED returned
  /\ UNCHANGED stockVars

\* decideApproval with effect shipment_deviation.
DecideDeviation(x, u, decision) ==
  /\ u \in Staff /\ u # shipment[x].by
  /\ shipment[x].status = "pending_supply_chain"
  /\ shipment' = [shipment EXCEPT ![x].status = decision]
  /\ UNCHANGED returned
  /\ UNCHANGED stockVars

\* Mutant: the freeze of the warehouse is not consulted.
CanDispatchFrozen(x) == /\ shipment[x].status \in {"planned", "approved_to_ship"}
                        /\ FactorySite \in active

CanDispatch(x) == /\ shipment[x].status \in {"planned", "approved_to_ship"}
                  /\ SiteUsable

\* ship: d[b] is what batch b gives.
Dispatch(x, d) ==
  LET source == Shippable(FactorySite, Finished)
      n == shipment[x].n
  IN /\ CanDispatch(x)
     /\ TakesInOrder(d, [b \in source |-> qty[b]["available"]],
                     {p \in source \X source : p[1] < p[2]}, n)
     /\ qty' = [b \in BatchIds |->
                  IF b \in source THEN [qty[b] EXCEPT !["available"] = @ - d[b]] ELSE qty[b]]
     /\ ledger' = Posted(FactorySite, Finished, -n)
     /\ shipment' = [shipment EXCEPT ![x].status = "shipped"]
     /\ UNCHANGED <<lot, active, returned>>

\* receive: got of the shipped units, some of them perhaps damaged.
ReceiveShipment(x, got, damaged) ==
  LET whole == got = shipment[x].n /\ ~damaged
  IN /\ shipment[x].status = "shipped"
     /\ got =< shipment[x].n
     /\ damaged => got > 0
     /\ shipment' = [shipment EXCEPT ![x].got = got,
          ![x].status = IF whole THEN "received" ELSE "received_with_exception",
          ![x].exception = IF whole THEN "none" ELSE "pending_supply_chain"]
     /\ UNCHANGED returned
     /\ UNCHANGED stockVars

\* resolve_exception: writes the exception only.
ResolveException(x) ==
  /\ shipment[x].exception = "pending_supply_chain"
  /\ shipment' = [shipment EXCEPT ![x].exception = "resolved"]
  /\ UNCHANGED returned
  /\ UNCHANGED stockVars

-----------------------------------------------------------------------------
(* Returns *)

ReturnsOf(x) == {y \in Returns : returned[y].from = x}

Returnable(x, n) == Sum([y \in Returns |-> returned[y].n], ReturnsOf(x)) + n =< shipment[x].got

\* returnCommand, receive: into any warehouse there is, active or not.
ReceiveReturn(y, x, w, n, b) ==
  /\ returned[y] = NoReturn
  /\ w \in founded
  /\ shipment[x].status \in {"received", "received_with_exception"}
  /\ Returnable(x, n)
  /\ ~Frozen(w, Finished)
  /\ IsNextBatch(b)
  /\ lot' = [lot EXCEPT ![b] = NewLot(w, Finished, "company", "return")]
  /\ qty' = [qty EXCEPT ![b] = Holding("quarantine", n)]
  /\ ledger' = Posted(w, Finished, n)
  /\ returned' = [returned EXCEPT ![y] = [status |-> "quarantined", from |-> x, wh |-> w, n |-> n,
                                          batch |-> b, passed |-> 0, by |-> NoUser]]
  /\ UNCHANGED <<active, shipment>>

\* inspect: all of it, in two parts.
InspectReturn(y, passed) ==
  /\ returned[y].status = "quarantined"
  /\ passed =< returned[y].n
  /\ returned' = [returned EXCEPT ![y].status = "pending_supply_chain", ![y].passed = passed]
  /\ UNCHANGED shipment
  /\ UNCHANGED stockVars

\* propose: once, and all of it. Restocking is bounded by what passed, rework
\* and scrap by what failed, so what passed is restocked and the rest is not.
ProposeDisposition(y, u) ==
  /\ returned[y].status = "pending_supply_chain"
  /\ returned[y].by = NoUser
  /\ returned' = [returned EXCEPT ![y].by = u]
  /\ UNCHANGED shipment
  /\ UNCHANGED stockVars

\* Mutant: a disposition may be reviewed by whoever proposed it, and again.
ReviewsReturnAgain(y, u) == /\ u \in Staff /\ returned[y].by # NoUser
                            /\ returned[y].status \in {"pending_supply_chain", "inspection"}

\* review: the checks both decisions share.
ReviewsReturn(y, u) ==
  /\ u \in Staff
  /\ returned[y].status = "pending_supply_chain"
  /\ returned[y].by \notin {NoUser, u}

Restocked(q, y) ==
  LET z == returned[y]
  IN [q EXCEPT ![z.batch]["quarantine"] = @ - z.n,
               ![z.batch]["available"]  = @ + z.passed,
               ![z.batch]["defective"]  = @ + (z.n - z.passed)]

ApproveDisposition(y, u) ==
  LET z == returned[y]
  IN /\ ReviewsReturn(y, u)
     /\ ~Frozen(z.wh, Finished)
     /\ qty[z.batch]["quarantine"] >= z.n
     /\ qty' = Restocked(qty, y)
     /\ returned' = [returned EXCEPT ![y].status = "restocked"]
     /\ UNCHANGED <<lot, ledger, active, shipment>>

\* No command takes a return any further from status inspection.
RejectDisposition(y, u) ==
  /\ ReviewsReturn(y, u)
  /\ returned' = [returned EXCEPT ![y].status = "inspection"]
  /\ UNCHANGED shipment
  /\ UNCHANGED stockVars

-----------------------------------------------------------------------------
DeliveryNext ==
  /\ \/ \E x \in Shipments :
          \/ \E o \in Orders : \E n \in 1 .. MadeAtMost(o) : PlanShipment(x, o, n)
          \/ ConfirmShipment(x)
          \/ \E u \in Users :
               \/ RequestDeviation(x, u)
               \/ \E decision \in {"approved_to_ship", "deviation_rejected"} :
                     DecideDeviation(x, u, decision)
          \/ \E d \in [Shippable(FactorySite, Finished) -> 0 .. shipment[x].n] : Dispatch(x, d)
          \/ \E got \in 0 .. shipment[x].n, damaged \in BOOLEAN : ReceiveShipment(x, got, damaged)
          \/ ResolveException(x)
     \/ \E y \in Returns :
          \/ \E x \in Shipments : \E w \in Warehouses, n \in 1 .. shipment[x].got, b \in BatchIds :
                ReceiveReturn(y, x, w, n, b)
          \/ \E passed \in 0 .. returned[y].n : InspectReturn(y, passed)
          \/ \E u \in Users :
               \/ ProposeDisposition(y, u)
               \/ ApproveDisposition(y, u)
               \/ RejectDisposition(y, u)
  /\ UNCHANGED stocktakeVars
=============================================================================
