---------------------------- MODULE MCInventory -----------------------------
(***************************************************************************)
(* Small instances of Inventory. Each configuration turns some of the      *)
(* components on, by the ids it gives them, and asks about their meeting.  *)
(***************************************************************************)
EXTENDS StockReads, TLC

CONSTANTS w1, w2, u1, u2

\* Items 1 and 2 of i units come to the first warehouse, item 3 to the other;
\* item 4 is of the SKU the orders make.
MCItemOf == [i \in Items |->
  CASE i = 3 -> [wh |-> w2, sku |-> "c", n |-> 1]
    [] i = 4 -> [wh |-> w1, sku |-> "f", n |-> 2]
    [] OTHER -> [wh |-> w1, sku |-> "c", n |-> i]]

UserSymmetry == Permutations({u1, u2})

-----------------------------------------------------------------------------
(***************************************************************************)
(* A run about several small meetings at once: a state belongs to it when  *)
(* the ids it uses are those of one scene. Every scene is an instance of   *)
(* its own; the run is their union.                                        *)
(***************************************************************************)
InScene(stocktakes, items, transfers, merges, sites, batches) ==
  /\ \A t \in Stocktakes \ stocktakes : task[t] = NoTask
  /\ received \subseteq items
  /\ \A x \in Transfers \ transfers : transfer[x] = NoTransfer
  /\ \A m \in Merges \ merges : merge[m] = NoMerge
  /\ founded \subseteq sites
  /\ Rows \subseteq batches

NoWork == /\ \A o \in Orders : order[o] = NoOrder
          /\ \A x \in Shipments : shipment[x] = NoShipment

\* Two stocktakes of one warehouse.
CountScene == NoWork /\ InScene({"t1", "t2"}, {1}, {}, {}, {w1}, {1, 2})
\* Two transfers between two warehouses.
CarryScene == NoWork /\ InScene({}, {2}, {"x1", "x2"}, {}, {w1, w2}, 1 .. 3)
\* A stocktake while goods are received, inspected and transferred.
MeetScene == NoWork /\ InScene({"t1"}, {2}, {"x1"}, {}, {w1, w2}, {1, 2})
\* Two merges between three warehouses, one of them stocked.
MergeScene == NoWork /\ InScene({}, {3}, {}, {"m1", "m2"}, Warehouses, {1})
\* A merge while goods are transferred.
MoveScene == NoWork /\ InScene({}, {3}, {"x1"}, {"m1"}, {w1, w2}, {1, 2})

\* In the scenes with shipments every count is a right one: no variances.
Shipping(stocktakes, items, returns, statuses) ==
  /\ InScene(stocktakes, items, {}, {}, {w1}, 1 .. 3)
  /\ \A t \in Stocktakes : task[t].status \in {"none", "first_count", "completed"}
  /\ \A t \in Stocktakes : task[t].scope \in {"none", "full_warehouse"}
  /\ \A y \in Returns \ returns : returned[y] = NoReturn
  /\ \A o \in Orders : order[o].status \in statuses \cup {"none", "planned"}

\* Two returns of one shipment.
ReturnScene == Shipping({}, {4}, {"y1", "y2"}, {})
\* A stocktake while goods are shipped and come back.
FreezeScene == /\ Shipping({"t1"}, {4}, {"y1"}, {})
               /\ \A x \in Shipments : shipment[x].n =< 1
\* A stocktake while an order completes and ships what it made.
MakeScene == Shipping({"t1"}, {}, {"y1"}, OrderStatuses)

StockScenes == \/ CountScene \/ CarryScene \/ MeetScene \/ MergeScene \/ MoveScene
               \/ ReturnScene \/ FreezeScene \/ MakeScene

\* Steps within these scenes: what CONSTRAINT StockScenes would keep, without
\* first generating, and checking, fifteen times as many states around them.
StockNext ==
  \/ StocktakeNext   /\ UNCHANGED <<warehousingVars, productionVars, deliveryVars>> /\ StockScenes'
  \/ WarehousingNext /\ UNCHANGED <<productionVars, deliveryVars>> /\ StockScenes'
  \/ ProductionNext  /\ UNCHANGED <<warehousingVars, deliveryVars>> /\ StockScenes'
  \/ DeliveryNext    /\ UNCHANGED <<warehousingVars, productionVars>> /\ StockScenes'

StockSpec == Init /\ [][StockNext]_vars

-----------------------------------------------------------------------------
\* One order, with a stocktake.
CountedOrder ==
  /\ order["o2"] = NoOrder /\ reservation[2] = NoReservation
  /\ order["o1"].planned =< 1
  /\ \A r \in Reservations :
       \/ reservation[r] = NoReservation
       \/ reservation[r].for = "o1" /\ reservation[r].priority = 0

\* Two orders of one purchase order item, without stocktakes.
OrderPair ==
  /\ task["t1"] = NoTask
  /\ \A o \in Orders : order[o].planned =< 1 /\ order[o].actual =< 1 /\ line[o].issued =< 1
  /\ order["o1"].status \in {"none", "planned", "in_production", "completed"}
  /\ order["o2"].status \in {"none", "planned"}

ProductionScenes == CountedOrder \/ OrderPair

\* Steps within these scenes.
ProductionScenesNext ==
  \/ StocktakeNext  /\ UNCHANGED <<warehousingVars, productionVars, deliveryVars>> /\ ProductionScenes'
  \/ WarehousingNext /\ UNCHANGED <<productionVars, deliveryVars>> /\ ProductionScenes'
  \/ ProductionNext /\ UNCHANGED <<warehousingVars, deliveryVars>> /\ ProductionScenes'

ProductionSpec == Init /\ [][ProductionScenesNext]_vars
=============================================================================
