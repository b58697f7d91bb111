---------------------------- MODULE Warehousing -----------------------------
(***************************************************************************)
(* Stock entering, moving between and leaving the reach of warehouses:     *)
(* whole-batch receipt of a purchase order item, whole-batch inspection,   *)
(* transfers between warehouses; and warehouses being created, merged into *)
(* others and deactivated.                                                 *)
(***************************************************************************)
EXTENDS Stocktake

CONSTANTS Items,      \* confirmed purchase order items with one allocation
          ItemOf,     \* ItemOf[i]: the warehouse, SKU and quantity of the item
          Transfers,  \* ids of the transfers that may be requested (a bound)
          MaxTransfer,\* largest quantity a transfer may ask for (a bound)
          Merges      \* ids of the merges that may be requested (a bound)

ASSUME ItemAssumption ==
  ItemOf \in [Items -> [wh: Warehouses, sku: Skus, n: Nat \ {0}]] /\ IsFiniteSet(Items)
ASSUME TransfersAssumption == IsFiniteSet(Transfers)
ASSUME MaxTransferAssumption == MaxTransfer \in Nat

VARIABLES received,  \* items with received_quantity = quantity
          transfer,  \* inventory_transfers rows and their approval requests
          founded,   \* warehouses with a row
          merge      \* approval requests of workflow warehouse_merge

siteVars == <<founded, merge>>
warehousingVars == <<received, transfer, siteVars>>

TransferStatuses == {"pending_supply_chain", "approved", "rejected", "shipped", "received"}
NoTransfer == [status |-> "none", from |-> "none", to |-> "none", sku |-> "none",
               n |-> 0, by |-> NoUser]
NoMerge == [status |-> "none", from |-> "none", to |-> "none", by |-> NoUser]

WarehousingTypeOK ==
  /\ received \in SUBSET Items
  /\ transfer \in [Transfers -> [status: TransferStatuses, from: Warehouses, to: Warehouses,
                                 sku: Skus, n: Nat \ {0}, by: Users] \cup {NoTransfer}]
  /\ founded \in SUBSET Warehouses
  /\ merge \in [Merges -> [status: {"pending", "approved", "rejected"}, from: Warehouses,
                           to: Warehouses, by: Users] \cup {NoMerge}]

WarehousingInit ==
  /\ received = {}
  /\ transfer = [x \in Transfers |-> NoTransfer]
  /\ founded = Founded
  /\ merge = [m \in Merges |-> NoMerge]

-----------------------------------------------------------------------------
\* receivePurchase: the whole remaining quantity, as one batch to inspect.
ReceivePurchase(i, b) ==
  LET item == ItemOf[i]
  IN /\ i \notin received
     /\ item.wh \in active
     /\ ~Frozen(item.wh, item.sku)
     /\ IsNextBatch(b)
     /\ lot' = [lot EXCEPT ![b] = NewLot(item.wh, item.sku, "company", "receipt")]
     /\ qty' = [qty EXCEPT ![b] = Holding("pending", item.n)]
     /\ ledger' = Posted(item.wh, item.sku, item.n)
     /\ received' = received \cup {i}
     /\ UNCHANGED <<active, transfer, siteVars>>
     /\ UNCHANGED stocktakeVars

(***************************************************************************)
(* submitQualityInspection of a batch: all of it passes or all of it       *)
(* fails, and it must be traceable to one receipt or one production        *)
(* report. (A quality rule asks for a pass rate above zero.)               *)
(***************************************************************************)
Traceable(b) == lot[b].source \in {"receipt", "production"}

InspectBatch(b, bucket) ==
  LET n == qty[b]["pending"]
  IN /\ b \in Rows
     /\ ~Frozen(lot[b].wh, lot[b].sku)
     /\ n > 0
     /\ Traceable(b)
     /\ qty' = Moved(qty, b, "pending", bucket, n)
     /\ UNCHANGED <<lot, ledger, active>>
     /\ UNCHANGED warehousingVars
     /\ UNCHANGED stocktakeVars

-----------------------------------------------------------------------------
RequestTransfer(x, u, w1, w2, s, n) ==
  /\ transfer[x] = NoTransfer
  /\ w1 # w2
  /\ {w1, w2} \subseteq active
  /\ transfer' = [transfer EXCEPT ![x] = [status |-> "pending_supply_chain", from |-> w1,
                                          to |-> w2, sku |-> s, n |-> n, by |-> u]]
  /\ UNCHANGED <<received, siteVars>>
  /\ UNCHANGED stockVars
  /\ UNCHANGED stocktakeVars

\* decideApproval with effect warehouse_transfer.
ReviewTransfer(x, u, decision) ==
  /\ u \in Staff /\ u # transfer[x].by
  /\ transfer[x].status = "pending_supply_chain"
  /\ transfer' = [transfer EXCEPT ![x].status = decision]
  /\ UNCHANGED <<received, siteVars>>
  /\ UNCHANGED stockVars
  /\ UNCHANGED stocktakeVars

\* transitionTransfer, ship: batches drained in order, one movement for all.
ShipTransfer(x, d) ==
  LET t == transfer[x]
      source == Shippable(t.from, t.sku)
  IN /\ t.status = "approved"
     /\ ~Frozen(t.from, t.sku)
     /\ TakesInOrder(d, [b \in source |-> qty[b]["available"]],
                     {p \in source \X source : p[1] < p[2]}, t.n)
     /\ qty' = [b \in BatchIds |->
                  IF b \in source THEN [qty[b] EXCEPT !["available"] = @ - d[b]] ELSE qty[b]]
     /\ ledger' = Posted(t.from, t.sku, -t.n)
     /\ transfer' = [transfer EXCEPT ![x].status = "shipped"]
     /\ UNCHANGED <<lot, active, received, siteVars>>
     /\ UNCHANGED stocktakeVars

\* Mutant: a transfer that was received can be received again.
CanReceiveAgain(x) == /\ transfer[x].status \in {"shipped", "received"}
                      /\ ~Frozen(transfer[x].to, transfer[x].sku)

CanReceive(x) == /\ transfer[x].status = "shipped"
                 /\ ~Frozen(transfer[x].to, transfer[x].sku)

\* transitionTransfer, receive: a new batch, available at once.
ReceiveTransfer(x, b) ==
  LET t == transfer[x]
  IN /\ CanReceive(x)
     /\ IsNextBatch(b)
     /\ lot' = [lot EXCEPT ![b] = NewLot(t.to, t.sku, "company", "transfer")]
     /\ qty' = [qty EXCEPT ![b] = Holding("available", t.n)]
     /\ ledger' = Posted(t.to, t.sku, t.n)
     /\ transfer' = [transfer EXCEPT ![x].status = "received"]
     /\ UNCHANGED <<active, received, siteVars>>
     /\ UNCHANGED stocktakeVars

-----------------------------------------------------------------------------
(***************************************************************************)
(* warehouseCommand, deactivate: refused while the warehouse holds stock,  *)
(* is an end of an unfinished transfer, or is being counted.               *)
(***************************************************************************)
InTransfer(w) == \E x \in Transfers :
                    /\ transfer[x].status \in {"pending_supply_chain", "approved", "shipped"}
                    /\ w \in {transfer[x].from, transfer[x].to}

\* Mutant: transfers do not keep a warehouse from being deactivated.
BlockedByStock(w) == \/ \E b \in Rows : lot[b].wh = w /\ OnHand(b) # 0
                     \/ \E t \in Stocktakes : IsOpen(t) /\ task[t].wh = w

Blocked(w) == \/ \E b \in Rows : lot[b].wh = w /\ OnHand(b) # 0
              \/ InTransfer(w)
              \/ \E t \in Stocktakes : IsOpen(t) /\ task[t].wh = w

Deactivate(w) ==
  /\ w \in active
  /\ ~Blocked(w)
  /\ active' = active \ {w}
  /\ UNCHANGED <<lot, qty, ledger>>
  /\ UNCHANGED warehousingVars
  /\ UNCHANGED stocktakeVars

\* warehouseCommand, create.
CreateWarehouse(w) ==
  /\ w \notin founded
  /\ founded' = founded \cup {w}
  /\ active' = active \cup {w}
  /\ UNCHANGED <<lot, qty, ledger, received, transfer, merge>>
  /\ UNCHANGED stocktakeVars

\* request_merge: several merges of a warehouse may wait at once.
RequestMerge(m, u, w1, w2) ==
  /\ merge[m] = NoMerge
  /\ u \in Staff
  /\ w1 # w2
  /\ {w1, w2} \subseteq active
  /\ merge' = [merge EXCEPT ![m] = [status |-> "pending", from |-> w1, to |-> w2, by |-> u]]
  /\ UNCHANGED <<received, transfer, founded>>
  /\ UNCHANGED stockVars
  /\ UNCHANGED stocktakeVars

\* Mutant: only the warehouse that goes is looked at again.
MergeableSource(w1, w2) == w1 \in active /\ ~Blocked(w1)

Mergeable(w1, w2) == {w1, w2} \subseteq active /\ ~Blocked(w1)

\* decideApproval with effect warehouse_merge: only an approval looks at the
\* warehouses, and then writes status merged:<target>.
DecidesMerge(m, u, decision) ==
  /\ u \in Staff /\ u # merge[m].by
  /\ merge[m].status = "pending"
  /\ merge' = [merge EXCEPT ![m].status = decision]
  /\ UNCHANGED <<lot, qty, ledger, received, transfer, founded>>
  /\ UNCHANGED stocktakeVars

ApproveMerge(m, u) ==
  /\ DecidesMerge(m, u, "approved")
  /\ Mergeable(merge[m].from, merge[m].to)
  /\ active' = active \ {merge[m].from}

RejectMerge(m, u) ==
  /\ DecidesMerge(m, u, "rejected")
  /\ UNCHANGED active

WarehousingNext ==
  \/ \E i \in Items, b \in BatchIds : ReceivePurchase(i, b)
  \/ \E b \in BatchIds, bucket \in {"available", "quarantine"} : InspectBatch(b, bucket)
  \/ \E x \in Transfers, u \in Users, w1, w2 \in Warehouses, s \in Skus, n \in 1 .. MaxTransfer :
        RequestTransfer(x, u, w1, w2, s, n)
  \/ \E x \in Transfers, u \in Users, decision \in {"approved", "rejected"} :
        ReviewTransfer(x, u, decision)
  \/ \E x \in Transfers :
        \E d \in [Shippable(transfer[x].from, transfer[x].sku) -> 0 .. transfer[x].n] :
           ShipTransfer(x, d)
  \/ \E x \in Transfers, b \in BatchIds : ReceiveTransfer(x, b)
  \/ \E w \in Warehouses : CreateWarehouse(w) \/ Deactivate(w)
  \/ \E m \in Merges, u \in Users :
       \/ \E w1, w2 \in Warehouses : RequestMerge(m, u, w1, w2)
       \/ ApproveMerge(m, u)
       \/ RejectMerge(m, u)
=============================================================================
