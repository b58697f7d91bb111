----------------------------- MODULE Inventory ------------------------------
(***************************************************************************)
(* The inventory of the Scope A system: stocktakes, warehousing,           *)
(* production and delivery over one set of stock tables. Each command is   *)
(* one committed transaction; any command of any actor may come next.      *)
(***************************************************************************)
EXTENDS Delivery

vars == <<stockVars, stocktakeVars, warehousingVars, productionVars, deliveryVars>>

Init == StockInit /\ StocktakeInit /\ WarehousingInit /\ ProductionInit /\ DeliveryInit

Next ==
  \/ StocktakeNext   /\ UNCHANGED <<warehousingVars, productionVars, deliveryVars>>
  \/ WarehousingNext /\ UNCHANGED <<productionVars, deliveryVars>>
  \/ ProductionNext  /\ UNCHANGED <<warehousingVars, deliveryVars>>
  \/ DeliveryNext    /\ UNCHANGED <<warehousingVars, productionVars>>

Spec == Init /\ [][Next]_vars

-----------------------------------------------------------------------------
(* Safety *)

\* Every table holds rows of the shape its columns allow; in particular no
\* bucket of inventory_batches is ever negative, whatever is subtracted.
TypeOK == /\ StockTypeOK
          /\ StocktakeTypeOK
          /\ WarehousingTypeOK
          /\ ProductionTypeOK
          /\ DeliveryTypeOK

\* While a stocktake is open, each batch it snapshotted still holds exactly
\* the snapshotted quantities: no receipt, inspection, reservation, release,
\* consumption or transfer gets past the freeze. Hence the conditional
\* UPDATEs of an approval cannot find a bucket changed.
SnapshotCurrent ==
  \A t \in Stocktakes : IsOpen(t) =>
    \A b \in Targets(t) : \A k \in Counted : qty[b][k] = count[t][0][b].q[k]

\* Two stocktakes never hold the same warehouse.
OneOpenStocktake ==
  \A t1, t2 \in Stocktakes :
    IsOpen(t1) /\ IsOpen(t2) /\ task[t1].wh = task[t2].wh => t1 = t2

\* No recount is put to a reviewer, or accepted, that was made by whoever
\* made the first count, even when the recount was revised.
RecountIsIndependent ==
  \A t \in Stocktakes, b \in BatchIds :
    /\ task[t].status \in {"pending_approval", "completed"}
    /\ count[t][2][b] # NoRow
    => count[t][2][b].by # count[t][1][b].by

\* Stock in a warehouse is what its movements add up to, apart from the
\* overproduction left to the factory, which is stocked without a movement.
LedgerBalances ==
  \A w \in Warehouses, s \in Skus :
    Held(RowsOf(w, s)) =
      ledger[w][s] + (IF w = FactorySite /\ s = Finished
                      THEN Sum([o \in Orders |-> order[o].factory], Orders) ELSE 0)

Gone(x) == shipment[x].status \in {"shipped", "received", "received_with_exception"}

Approved(s) ==
  {y \in Stocktakes \X BatchIds \X Counted :
     adj[y[1]][y[2]][y[3]].decision = "approved" /\ lot[y[2]].sku = s}

\* Opening (none) + received + produced - used - shipped + returned + counted
\* corrections is what is on hand or between warehouses: nothing is created,
\* lost or posted twice by any order of receipts, transfers, reports,
\* shipments, returns and approvals.
GoodsConserved ==
  \A s \in Skus :
    Held({b \in Rows : lot[b].sku = s})
    + Sum([x \in Transfers |-> transfer[x].n],
          {x \in Transfers : transfer[x].status = "shipped" /\ transfer[x].sku = s})
    = Sum([i \in Items |-> ItemOf[i].n], {i \in received : ItemOf[i].sku = s})
      + (IF s = Finished
         THEN Sum([o \in Orders |-> order[o].company + order[o].factory],
                  {o \in Orders : order[o].status \in {"completed", "completed_factory_owned"}})
              - Sum([x \in Shipments |-> shipment[x].n], {x \in Shipments : Gone(x)})
              + Sum([y \in Returns |-> returned[y].n], Returns)
         ELSE 0)
      - (IF s = Component
         THEN Sum([o \in Orders |-> line[o].consumed + line[o].loss], Orders) ELSE 0)
      + Sum([y \in Stocktakes \X BatchIds \X Counted |->
               adj[y[1]][y[2]][y[3]].counted - count[y[1]][0][y[2]].q[y[3]]], Approved(s))

ActiveOn(b) == {r \in Reservations : reservation[r].status = "active" /\ reservation[r].batch = b}

\* Locked stock is exactly what active reservations hold, unless a stocktake
\* has corrected the locked bucket of that batch.
LockedIsReserved ==
  \A b \in Rows :
    (\A t \in Stocktakes : adj[t][b]["locked"].decision # "approved")
    => qty[b]["locked"] = Left(ActiveOn(b))

\* Following merges from a warehouse ends at one that was not merged: every
\* nonempty set of warehouses has one that was not merged into the set,
\* whatever merges were waiting when the first of them was approved.
MergesEnd ==
  \A S \in (SUBSET Warehouses) \ {{}} :
    \E w \in S : \A m \in Merges :
      merge[m].status = "approved" /\ merge[m].from = w => merge[m].to \notin S

-----------------------------------------------------------------------------
(* Action properties *)

\* While a stocktake stays open, nothing touches the stock it froze: no
\* batch of a frozen SKU changes in any bucket, moves, or is added.
FrozenStockUntouched ==
  [][\A t \in Stocktakes, w \in Warehouses, s \in Skus :
       Freezes(t, w, s) /\ IsOpen(t)'
       => RowsOf(w, s)' = RowsOf(w, s) /\ \A b \in RowsOf(w, s) : qty'[b] = qty[b]]_vars

\* No batch is placed in a warehouse that is not active, not even by a
\* transfer that was on its way when the warehouse was deactivated or merged.
\* (A return may be: its receipt does not look at the warehouse's status.)
ClosedWarehouseSealed ==
  [][\A b \in BatchIds :
       lot'[b] # lot[b] /\ lot'[b].source # "return" => lot'[b].wh \in active]_vars

\* Goods leave quarantine only as the return they came in by is restocked, all
\* at once, from a disposition still under review: never those of a return
\* whose disposition was rejected, nor any that failed an inspection.
LeavesQuarantineOnce ==
  [][\A b \in BatchIds : qty'[b]["quarantine"] < qty[b]["quarantine"] =>
       /\ qty'[b]["quarantine"] = 0
       /\ \E y \in Returns : /\ returned[y].batch = b
                             /\ returned[y].status = "pending_supply_chain"
                             /\ returned'[y].status = "restocked"]_vars

-----------------------------------------------------------------------------
(* What the documents say, and the code does not do *)

\* docs/refactor/stage5-write-migration-plan.md:128: a wrong count is
\* reported again as a new revision. So when a reviewer has rejected the
\* variances of a batch, some user can submit its count again.
RejectedCountIsRevisable ==
  \A t \in Stocktakes : \A b \in Targets(t) :
    task[t].status = "recount" /\ count[t][2][b] # NoRow /\ AllRejected(t, b)
    => ENABLED (\E u \in Users : SubmitCount(t, u, b, count[t][0][b].q))
=============================================================================
