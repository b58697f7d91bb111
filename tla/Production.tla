----------------------------- MODULE Production -----------------------------
(***************************************************************************)
(* Reservations of stock and production orders: an order consumes stock    *)
(* reserved for it, reports what it finished, and either stocks it for     *)
(* inspection or waits for a reviewer to decide about the deviation.       *)
(* One order here has one BOM component and one priority per reservation;  *)
(* all orders share one purchase order item, and one factory warehouse.    *)
(***************************************************************************)
EXTENDS Stocktake

CONSTANTS Orders,        \* ids of the execution orders that may be created (a bound)
          Reservations,  \* AUTO_INCREMENT ids inventory_reservations may use (a bound)
          Priorities,    \* priorities a reservation may have (a bound)
          Finished,      \* SKU of the order item
          Component,     \* SKU of the BOM component
          PerFinished,   \* quantity_per_finished of the component
          Allocated,     \* allocated_quantity of the order item's plan links
          FactorySite,   \* the factory's only warehouse
          MaxReport,     \* largest quantity a report may name (a bound)
          OverBps, IssueBps, ConsumeBps, LossBps  \* tolerances in basis points

ASSUME ReservationsAssumption == Reservations \subseteq Nat /\ IsFiniteSet(Reservations)
ASSUME OrdersAssumption == IsFiniteSet(Orders)
ASSUME ProductionAssumption ==
  /\ {Finished, Component} \subseteq Skus
  /\ FactorySite \in Warehouses
  /\ PerFinished \in Nat \ {0}
  /\ {Allocated, MaxReport} \subseteq Nat
  /\ Priorities \subseteq Int
  /\ {OverBps, IssueBps, ConsumeBps, LossBps} \subseteq Nat

VARIABLES order,       \* execution_orders row and its production_reports row
          line,        \* production_material_lines row of the component
          reservation  \* inventory_reservations rows

productionVars == <<order, line, reservation>>

OrderStatuses == {"planned", "in_production", "variance_pending", "completed",
                  "completed_factory_owned", "variance_rejected"}
NoOrder == [status |-> "none", planned |-> 0, actual |-> 0, over |-> FALSE,
            company |-> 0, factory |-> 0, by |-> NoUser]
NoLine  == [issued |-> 0, consumed |-> 0, loss |-> 0]

\* A reservation made for something other than a production order.
Elsewhere == "elsewhere"
NoReservation == [status |-> "none", batch |-> 0, for |-> Elsewhere,
                  got |-> 0, left |-> 0, priority |-> 0]

ProductionTypeOK ==
  /\ order \in [Orders ->
       [status: OrderStatuses \cup {"none"}, planned: Nat, actual: Nat, over: BOOLEAN,
        company: Nat, factory: Nat, by: Users \cup {NoUser}]]
  /\ line \in [Orders -> [issued: Nat, consumed: Nat, loss: Nat]]
  /\ reservation \in [Reservations ->
       [status: {"active", "consumed", "released"}, batch: BatchIds,
        for: Orders \cup {Elsewhere}, got: Nat, left: Nat, priority: Int]
       \cup {NoReservation}]

ProductionInit ==
  /\ order = [o \in Orders |-> NoOrder]
  /\ line = [o \in Orders |-> NoLine]
  /\ reservation = [r \in Reservations |-> NoReservation]

-----------------------------------------------------------------------------
\* deviationBps: |actual - expected| over expected, rounded half up.
Distance(a, e) == IF a >= e THEN a - e ELSE e - a
DeviationBps(a, e) ==
  IF e =< 0 THEN (IF a = e THEN 0 ELSE 10000)
            ELSE (2 * Distance(a, e) * 10000 + e) \div (2 * e)

\* Active reservations of order o; of these, the ones of its component. A pool
\* is used in the order of UsedBefore.
Pool(o) == {r \in Reservations : reservation[r].status = "active" /\ reservation[r].for = o}
MaterialPool(o) == {r \in Pool(o) : lot[reservation[r].batch].sku = Component}
UsedBefore(r1, r2) ==
  \/ reservation[r1].priority > reservation[r2].priority
  \/ reservation[r1].priority = reservation[r2].priority /\ r1 < r2

\* What a set of reservations still holds.
Left(S) == Sum([r \in Reservations |-> reservation[r].left], S)

\* Mutant: the freeze is looked up for the finished SKU, not the batch's own.
PoolFrozenFinished(pool) == \E r \in pool : Frozen(lot[reservation[r].batch].wh, Finished)

\* lockFreezeForPool: is a batch reserved from by one of these frozen?
PoolFrozen(pool) == \E r \in pool : LET b == reservation[r].batch
                                    IN  Frozen(lot[b].wh, lot[b].sku)

\* Units a set of amounts d, one per reservation, takes from batch b.
TakenFrom(d, b) == Sum(d, {r \in DOMAIN d : reservation[r].batch = b})

-----------------------------------------------------------------------------
\* Mutant: the requested quantity is locked, available or not.
GrantedInFull(b, n) == n

Granted(b, n) == IF n =< qty[b]["available"] THEN n ELSE qty[b]["available"]

\* reserveInventory: as much as is available, the rest recorded as shortage.
Reserve(r, b, for, n, priority) ==
  LET got == Granted(b, n)
  IN /\ reservation[r] = NoReservation
     /\ \A x \in Reservations : x < r => reservation[x] # NoReservation
     /\ for \in Orders => order[for].status # "none"
     /\ b \in Rows
     /\ ~Frozen(lot[b].wh, lot[b].sku)
     /\ qty[b]["quarantine"] = 0
     /\ qty' = Moved(qty, b, "available", "locked", got)
     /\ reservation' = [reservation EXCEPT ![r] =
                          [status |-> "active", batch |-> b, for |-> for,
                           got |-> got, left |-> got, priority |-> priority]]
     /\ UNCHANGED <<lot, ledger, active, order, line>>
     /\ UNCHANGED stocktakeVars

Planned == Sum([x \in Orders |-> order[x].planned], Orders)

\* createProductionOrder: all orders of the item within what was allocated.
CreateOrder(o, n) ==
  /\ order[o] = NoOrder
  /\ Planned + n =< Allocated
  /\ order' = [order EXCEPT ![o].status = "planned", ![o].planned = n]
  /\ UNCHANGED <<line, reservation>>
  /\ UNCHANGED stockVars
  /\ UNCHANGED stocktakeVars

StartOrder(o) ==
  /\ order[o].status = "planned"
  /\ order' = [order EXCEPT ![o].status = "in_production"]
  /\ UNCHANGED <<line, reservation>>
  /\ UNCHANGED stockVars
  /\ UNCHANGED stocktakeVars

-----------------------------------------------------------------------------
(***************************************************************************)
(* updateMaterials: the reported totals m never decrease, issue at most    *)
(* what is consumed or still reserved, and the newly consumed and lost     *)
(* units leave the reservations and the locked stock behind them.          *)
(***************************************************************************)
Reports == {m \in [issued: 0 .. MaxReport, consumed: 0 .. MaxReport, loss: 0 .. MaxReport] :
              m.consumed + m.loss =< m.issued}

\* A command whose body has no materials array reports none.
NoReport == [issued |-> -1, consumed |-> -1, loss |-> -1]

NewlyUsed(o, m) == (m.consumed - line[o].consumed) + (m.loss - line[o].loss)

CanReport(o, m) ==
  /\ m.issued >= line[o].issued
  /\ m.consumed >= line[o].consumed
  /\ m.loss >= line[o].loss
  /\ ~PoolFrozen(MaterialPool(o))
  /\ m.issued =< line[o].consumed + line[o].loss + Left(MaterialPool(o))

\* d: what each reservation of the pool gives; nothing if m is no report.
Uses(o, m, d) ==
  /\ d \in [MaterialPool(o) -> 0 .. MaxReport]
  /\ IF m = NoReport
     THEN \A r \in MaterialPool(o) : d[r] = 0
     ELSE /\ CanReport(o, m)
          /\ TakesInOrder(d, [r \in MaterialPool(o) |-> reservation[r].left],
                          {p \in MaterialPool(o) \X MaterialPool(o) : UsedBefore(p[1], p[2])},
                          NewlyUsed(o, m))
  /\ \A b \in BatchIds : TakenFrom(d, b) \in 0 .. qty[b]["locked"]

Exceeds(o, m) ==
  LET theoretical == PerFinished * order[o].planned
  IN /\ m # NoReport
     /\ \/ DeviationBps(m.issued, theoretical) > IssueBps
        \/ DeviationBps(m.consumed, theoretical) > ConsumeBps
        \/ DeviationBps(m.loss, theoretical) > LossBps

LineAfter(o, m) == IF m = NoReport THEN line ELSE [line EXCEPT ![o] = m]

\* Mutant: a reservation is closed as soon as anything of it is consumed.
UseReservedOnce(d) ==
  reservation' = [r \in Reservations |->
    IF r \in DOMAIN d
    THEN [reservation[r] EXCEPT !.left = @ - d[r],
                                !.status = IF d[r] > 0 THEN "consumed" ELSE @]
    ELSE reservation[r]]

UseReserved(d) ==
  reservation' = [r \in Reservations |->
    IF r \in DOMAIN d
    THEN [reservation[r] EXCEPT
            !.left = @ - d[r],
            !.status = IF d[r] > 0 /\ reservation[r].left = d[r] THEN "consumed" ELSE @]
    ELSE reservation[r]]

\* Batches reserved from by a set of reservations.
Batches(S) == {reservation[r].batch : r \in S}
Used(d) == Batches({r \in DOMAIN d : d[r] > 0})

AfterUse(d) ==
  [b \in BatchIds |->
     IF b \in Used(d) THEN [qty[b] EXCEPT !["locked"] = @ - TakenFrom(d, b)] ELSE qty[b]]

\* Mutant: consumption leaves no movement.
LedgerUnposted(d) == ledger

LedgerAfterUse(d) ==
  [w \in Warehouses |-> [s \in Skus |->
     ledger[w][s] - Sum([b \in BatchIds |-> TakenFrom(d, b)], RowsOf(w, s))]]

\* Action "materials"; it does not look at the order's status.
ReportMaterials(o, m, d) ==
  /\ order[o] # NoOrder
  /\ Uses(o, m, d)
  /\ line' = LineAfter(o, m)
  /\ UseReserved(d)
  /\ qty' = AfterUse(d)
  /\ ledger' = LedgerAfterUse(d)
  /\ UNCHANGED <<lot, active, order>>
  /\ UNCHANGED stocktakeVars

\* releaseReservedMaterials: every positive reservation of the order.
ReleaseMaterials(o) ==
  LET released == {r \in Pool(o) : reservation[r].left > 0}
      back(b) == Left({r \in released : reservation[r].batch = b})
  IN /\ order[o].status \in {"planned", "in_production"}
     /\ ~PoolFrozen(Pool(o))
     /\ released # {}
     /\ \A b \in BatchIds : back(b) \in 0 .. qty[b]["locked"]
     /\ reservation' = [r \in Reservations |->
          IF r \in released THEN [reservation[r] EXCEPT !.status = "released", !.left = 0]
                            ELSE reservation[r]]
     /\ qty' = [b \in BatchIds |->
          IF b \in Batches(released)
          THEN [qty[b] EXCEPT !["locked"] = @ - back(b), !["available"] = @ + back(b)]
          ELSE qty[b]]
     /\ UNCHANGED <<lot, ledger, active, order, line>>
     /\ UNCHANGED stocktakeVars

-----------------------------------------------------------------------------
(***************************************************************************)
(* Action "complete": materials are updated as above if reported; then the *)
(* finished quantity is stocked for inspection, or, over tolerance, short, *)
(* or with a material deviation, put before a reviewer.                    *)
(***************************************************************************)
SiteUsable == FactorySite \in active /\ ~Frozen(FactorySite, Finished)

Over(o, actual) == /\ actual > order[o].planned
                   /\ DeviationBps(actual, order[o].planned) > OverBps

Deviates(o, actual, m) == \/ Over(o, actual)
                          \/ actual < order[o].planned
                          \/ Exceeds(o, m)

Completing(o, m, d) ==
  /\ order[o].status \in {"planned", "in_production"}
  /\ Uses(o, m, d)
  /\ line' = LineAfter(o, m)
  /\ UseReserved(d)
  /\ UNCHANGED active
  /\ UNCHANGED stocktakeVars

CompleteOrder(o, actual, m, d, b) ==
  LET spent == LedgerAfterUse(d)
  IN /\ Completing(o, m, d)
     /\ ~Deviates(o, actual, m)
     /\ SiteUsable
     /\ IsNextBatch(b)
     /\ lot' = [lot EXCEPT ![b] = NewLot(FactorySite, Finished, "company", "production")]
     /\ qty' = [AfterUse(d) EXCEPT ![b] = Holding("pending", actual)]
     /\ ledger' = [spent EXCEPT ![FactorySite][Finished] = @ + actual]
     /\ order' = [order EXCEPT ![o].status = "completed", ![o].actual = actual,
                               ![o].company = actual]

RequestProductionVariance(o, u, actual, m, d) ==
  /\ Completing(o, m, d)
  /\ Deviates(o, actual, m)
  /\ qty' = AfterUse(d)
  /\ ledger' = LedgerAfterUse(d)
  /\ order' = [order EXCEPT ![o].status = "variance_pending", ![o].actual = actual,
                            ![o].over = Over(o, actual), ![o].by = u]
  /\ UNCHANGED lot

-----------------------------------------------------------------------------
(***************************************************************************)
(* decideApproval with effect production_variance. Approved, the whole     *)
(* finished quantity is stocked; an overproduction that is rejected leaves *)
(* the planned quantity to the company and the excess to the factory, the  *)
(* latter with no movement. Neither batch is named by production_reports.  *)
(***************************************************************************)
Reviews(o, u) == /\ u \in Staff /\ u # order[o].by
                 /\ order[o].status = "variance_pending"
                 /\ UNCHANGED <<active, line, reservation>>
                 /\ UNCHANGED stocktakeVars

ApproveProduction(o, u, b) ==
  LET n == order[o].actual
  IN /\ Reviews(o, u)
     /\ SiteUsable
     /\ IF n > 0
        THEN /\ IsNextBatch(b)
             /\ lot' = [lot EXCEPT ![b] =
                          NewLot(FactorySite, Finished, "company", "variance")]
             /\ qty' = [qty EXCEPT ![b] = Holding("pending", n)]
             /\ ledger' = Posted(FactorySite, Finished, n)
        ELSE UNCHANGED <<lot, qty, ledger>>
     /\ order' = [order EXCEPT ![o].status = "completed", ![o].company = n]

RejectOverproduction(o, u, b, c) ==
  LET n == order[o].planned
      excess == order[o].actual - n
  IN /\ Reviews(o, u)
     /\ order[o].over
     /\ SiteUsable
     /\ IsNextBatch(b)
     /\ c \in BatchIds \ Rows /\ b < c
     /\ \A x \in BatchIds \ Rows : b < x => c =< x
     /\ lot' = [lot EXCEPT
                  ![b] = NewLot(FactorySite, Finished, "company", "variance"),
                  ![c] = NewLot(FactorySite, Finished, "factory", "variance")]
     /\ qty' = [qty EXCEPT ![b] = Holding("pending", n), ![c] = Holding("available", excess)]
     /\ ledger' = Posted(FactorySite, Finished, n)
     /\ order' = [order EXCEPT ![o].status = "completed_factory_owned",
                               ![o].company = n, ![o].factory = excess]

\* A shortfall or a material deviation that is rejected stocks nothing.
RejectProduction(o, u) ==
  /\ Reviews(o, u)
  /\ ~order[o].over
  /\ order' = [order EXCEPT ![o].status = "variance_rejected",
        ![o].company = IF order[o].actual =< order[o].planned THEN order[o].actual
                                                              ELSE order[o].planned]
  /\ UNCHANGED <<lot, qty, ledger>>

ProductionNext ==
  \/ \E r \in Reservations, b \in BatchIds, for \in Orders \cup {Elsewhere},
        n \in 1 .. MaxReport, priority \in Priorities : Reserve(r, b, for, n, priority)
  \/ \E o \in Orders :
       \/ \E n \in 1 .. Allocated : CreateOrder(o, n)
       \/ StartOrder(o)
       \/ ReleaseMaterials(o)
       \/ \E d \in [MaterialPool(o) -> 0 .. MaxReport] :
            \/ \E m \in Reports : ReportMaterials(o, m, d)
            \/ \E m \in Reports \cup {NoReport}, actual \in 0 .. MaxReport :
                 \/ \E b \in BatchIds : CompleteOrder(o, actual, m, d, b)
                 \/ \E u \in Users : RequestProductionVariance(o, u, actual, m, d)
       \/ \E u \in Users :
            \/ \E b \in BatchIds : ApproveProduction(o, u, b)
            \/ \E b, c \in BatchIds : RejectOverproduction(o, u, b, c)
            \/ RejectProduction(o, u)
=============================================================================
