-------------------------- MODULE InventoryProofs ---------------------------
(***************************************************************************)
(* Theorems about the inventory.                                           *)
(*                                                                         *)
(* Types: no bucket of a batch and nothing left of a reservation ever goes *)
(* negative, whatever the warehouses, SKUs, users, stocktakes, transfers,  *)
(* orders, shipments, returns, quantities and tolerances.  The totals of   *)
(* the ledger may be any integers and have no type here.                   *)
(*                                                                         *)
(* Freezes: what an open stocktake has snapshotted stays as it was until   *)
(* that stocktake is decided.  Every command of the other components       *)
(* writes only batches that no stocktake freezes (RespectsFreeze, one      *)
(* lemma per command); the only stocktake command that writes stock, the   *)
(* approval of a variance, writes batches of its own warehouse, which no   *)
(* other open stocktake has.                                               *)
(*                                                                         *)
(* Books: each command's effect on stock is stated once, as what it adds   *)
(* to each batch and to what is locked of it (Effect, one lemma per        *)
(* command).  That locked stock is what reservations hold, that the ledger *)
(* balances, and that goods are conserved each follow from those effects   *)
(* and from how the same command changes the other side of the account.    *)
(*                                                                         *)
(* Pages: the rows a page refers to are there, no order is of nothing, a   *)
(* warehouse is merged once, and no disposition is made of a return not    *)
(* inspected yet (PagesInv). With the types that is all its parser asks,   *)
(* but for the two kinds of row PagesAnswer names.  And what they offer,   *)
(* the guards of the commands accept (OffersFounded).                      *)
(*                                                                         *)
(* Also, that second counts are another's, that closed warehouses stay     *)
(* empty, that quarantine is left once, and that merges of warehouses      *)
(* never lead round in a circle.                                           *)
(***************************************************************************)
EXTENDS StockReads, Sums, TLAPS

-----------------------------------------------------------------------------
(* Types of what the commands write *)

\* A batch inserted with n units in one of its buckets has all five columns.
LEMMA HoldingType ==
  ASSUME NEW k, NEW n \in Nat
  PROVE  Holding(k, n) \in [Buckets -> Nat]
  BY DEF Holding

\* Moving no more than is there from one bucket to another leaves both
\* non-negative.
LEMMA MovedType ==
  ASSUME NEW q \in [BatchIds -> [Buckets -> Nat]], NEW b \in BatchIds,
         NEW from \in Buckets, NEW to \in Buckets, from # to,
         NEW n \in Nat, n =< q[b][from]
  PROVE  Moved(q, b, from, to, n) \in [BatchIds -> [Buckets -> Nat]]
  <1> DEFINE r == [q[b] EXCEPT ![from] = @ - n]
  <1>1. r \in [Buckets -> Nat]
    OBVIOUS
  <1>2. [r EXCEPT ![to] = @ + n] \in [Buckets -> Nat]
    BY <1>1
  <1>3. Moved(q, b, from, to, n) = [q EXCEPT ![b] = [r EXCEPT ![to] = @ + n]]
    BY DEF Moved
  <1> QED BY <1>2, <1>3

\* A new batch is a row of inventory_batches.
LEMMA NewLotType ==
  ASSUME NEW w \in Warehouses, NEW s \in Skus, NEW o \in Owners, NEW c \in Sources
  PROVE  NewLot(w, s, o, c) \in Lots
  BY DEF NewLot, Lots

\* What a walk takes from a row is at most what the row has.
LEMMA TakesWithin ==
  ASSUME NEW d, NEW has, NEW earlier, NEW n \in Int, TakesInOrder(d, has, earlier, n),
         NEW x \in DOMAIN has
  PROVE  d[x] \in Nat /\ d[x] =< has[x]
  BY DEF TakesInOrder

-----------------------------------------------------------------------------
(* Stocktakes *)

\* Opening a stocktake.
LEMMA OpenType ==
  ASSUME TypeOK, NEW t \in Stocktakes, NEW u \in Users, NEW w \in Warehouses,
         NEW scope \in Scopes, NEW sample, OpenStocktake(t, u, w, scope, sample)
  PROVE  StocktakeTypeOK'
  <1> USE DEF TypeOK, StocktakeTypeOK
  <1>1. task' \in [Stocktakes -> [status: Statuses, wh: Warehouses \cup {"none"},
                                  scope: Scopes \cup {"none"}, by: Users \cup {NoUser}]]
    BY DEF OpenStocktake, Statuses, Open
  <1>2. \A b \in BatchIds : [q |-> [k \in Counted |-> qty[b][k]], by |-> u] \in Row
    BY DEF Row, Counts, Counted, StockTypeOK
  <1>3. count' \in [Stocktakes -> [Rounds -> [BatchIds -> Row \cup {NoRow}]]]
    BY <1>2 DEF OpenStocktake, Rounds
  <1>4. UNCHANGED <<adj, outbox>>
    BY DEF OpenStocktake
  <1> QED BY <1>1, <1>3, <1>4

\* Submitting a count.
LEMMA SubmitType ==
  ASSUME TypeOK, NEW t \in Stocktakes, NEW u \in Users, NEW b \in BatchIds,
         NEW q \in Counts, SubmitCount(t, u, b, q)
  PROVE  StocktakeTypeOK'
  <1> USE DEF TypeOK, StocktakeTypeOK
  <1>1. Round(t) \in Rounds
    BY DEF Round, Rounds
  <1>2. [q |-> q, by |-> u] \in Row
    BY DEF Row
  <1>3. count' \in [Stocktakes -> [Rounds -> [BatchIds -> Row \cup {NoRow}]]]
    BY <1>1, <1>2 DEF SubmitCount
  <1>4. outbox' \subseteq KeyTypes \X Stocktakes \X Rounds \X (BatchIds \cup {0})
    BY <1>1 DEF SubmitCount, Enqueue, Key, KeyTypes
  <1>5. UNCHANGED <<task, adj>>
    BY DEF SubmitCount
  <1> QED BY <1>3, <1>4, <1>5

\* Inserting a message of a stocktake.
LEMMA EnqueueType ==
  ASSUME TypeOK, NEW type \in KeyTypes, NEW t \in Stocktakes, NEW r \in Rounds,
         NEW b \in BatchIds \cup {0}, Enqueue(Key(type, t, r, b))
  PROVE  outbox' \subseteq KeyTypes \X Stocktakes \X Rounds \X (BatchIds \cup {0})
  BY DEF TypeOK, StocktakeTypeOK, Enqueue, Key

\* Changing only the status of a stocktake keeps its shape.
LEMMA TaskStatusType ==
  ASSUME TypeOK, NEW t \in Stocktakes, NEW status \in Statuses,
         task' = [task EXCEPT ![t].status = status]
  PROVE  task' \in [Stocktakes -> [status: Statuses, wh: Warehouses \cup {"none"},
                                   scope: Scopes \cup {"none"}, by: Users \cup {NoUser}]]
  BY DEF TypeOK, StocktakeTypeOK

\* Setting the status and the requester of a stocktake keeps its shape.
LEMMA TaskReviewType ==
  ASSUME TypeOK, NEW t \in Stocktakes, NEW status \in Statuses, NEW u \in Users
  PROVE  [task EXCEPT ![t].status = status, ![t].by = u] \in
           [Stocktakes -> [status: Statuses, wh: Warehouses \cup {"none"},
                           scope: Scopes \cup {"none"}, by: Users \cup {NoUser}]]
  <1> DEFINE T == [status: Statuses, wh: Warehouses \cup {"none"},
                   scope: Scopes \cup {"none"}, by: Users \cup {NoUser}]
  <1>1. task \in [Stocktakes -> T]
    BY DEF TypeOK, StocktakeTypeOK
  <1>2. [task EXCEPT ![t].status = status] \in [Stocktakes -> T]
    BY <1>1
  <1> QED BY <1>2, ZenonT(60)

\* Finishing a round with a recount, or completing.
LEMMA FinishType ==
  ASSUME TypeOK, NEW t \in Stocktakes, NEW u \in Users,
         RequireRecount(t, u) \/ CompleteStocktake(t, u)
  PROVE  StocktakeTypeOK'
  <1>1. outbox' \subseteq KeyTypes \X Stocktakes \X Rounds \X (BatchIds \cup {0})
    BY EnqueueType DEF RequireRecount, CompleteStocktake, KeyTypes, Rounds
  <1>2. \E x \in Statuses : task' = [task EXCEPT ![t].status = x]
    BY DEF RequireRecount, CompleteStocktake, Statuses, Open
  <1>3. UNCHANGED <<count, adj>>
    BY DEF RequireRecount, CompleteStocktake
  <1> QED BY <1>1, <1>2, <1>3, TaskStatusType DEF TypeOK, StocktakeTypeOK

\* Turning variances into pending adjustments.
LEMMA RequestVarianceType ==
  ASSUME TypeOK, NEW t \in Stocktakes, NEW u \in Users, RequestVarianceApproval(t, u)
  PROVE  StocktakeTypeOK'
  <1> USE DEF TypeOK, StocktakeTypeOK
  <1> DEFINE D == [decision: {"none", "pending", "approved", "rejected"}, counted: Nat]
  <1>1. \A b \in Targets(t), k \in Counted : count[t][2][b].q[k] \in Nat
    <2> SUFFICES ASSUME NEW b \in Targets(t), NEW k \in Counted
                 PROVE  count[t][2][b].q[k] \in Nat
      OBVIOUS
    <2>1. count[t][2][b] \in Row \cup {NoRow}
      BY DEF Targets, Rounds
    <2>2. count[t][2][b].q \in Counts
      BY <2>1 DEF Row, NoRow, Counts
    <2> QED BY <2>2 DEF Counts
  <1>2. adj' \in [Stocktakes -> [BatchIds -> [Counted -> D]]]
    <2>1. \A b \in BatchIds, k \in Counted : adj[t][b][k] \in D
      OBVIOUS
    <2> DEFINE new == [b \in BatchIds |-> [k \in Counted |->
                  IF b \in Targets(t) /\ k \in Differs(t, 2, b)
                  THEN [decision |-> "pending", counted |-> count[t][2][b].q[k]]
                  ELSE adj[t][b][k]]]
    <2>2. new \in [BatchIds -> [Counted -> D]]
      BY <1>1, <2>1
    <2>3. adj' = [adj EXCEPT ![t] = new]
      BY DEF RequestVarianceApproval
    <2> QED BY <2>2, <2>3
  <1>3. task' \in [Stocktakes -> [status: Statuses, wh: Warehouses \cup {"none"},
                                  scope: Scopes \cup {"none"}, by: Users \cup {NoUser}]]
    BY TaskReviewType DEF RequestVarianceApproval, Statuses, Open
  <1>4. outbox' \subseteq KeyTypes \X Stocktakes \X Rounds \X (BatchIds \cup {0})
    BY EnqueueType DEF RequestVarianceApproval, KeyTypes, Rounds
  <1>5. UNCHANGED count
    BY DEF RequestVarianceApproval
  <1> QED BY <1>2, <1>3, <1>4, <1>5

\* Deciding the adjustments keeps their shape.
LEMMA DecidedType ==
  ASSUME TypeOK, NEW t \in Stocktakes, NEW decision \in {"approved", "rejected"}
  PROVE  Decided(t, decision) \in [Stocktakes -> [BatchIds -> [Counted ->
           [decision: {"none", "pending", "approved", "rejected"}, counted: Nat]]]]
  <1> DEFINE D == [decision: {"none", "pending", "approved", "rejected"}, counted: Nat]
  <1> DEFINE new == [b \in BatchIds |-> [k \in Counted |->
                       IF adj[t][b][k].decision = "pending"
                       THEN [adj[t][b][k] EXCEPT !.decision = decision]
                       ELSE adj[t][b][k]]]
  <1>1. adj \in [Stocktakes -> [BatchIds -> [Counted -> D]]]
    BY DEF TypeOK, StocktakeTypeOK
  <1>2. \A b \in BatchIds, k \in Counted : adj[t][b][k] \in D
    BY <1>1
  <1>3. new \in [BatchIds -> [Counted -> D]]
    BY <1>2
  <1> QED BY <1>1, <1>3 DEF Decided

\* Deciding about the variances of a stocktake.
LEMMA ReviewVarianceType ==
  ASSUME TypeOK, NEW t \in Stocktakes, NEW u \in Users,
         ApproveVariance(t, u) \/ RejectVariance(t, u)
  PROVE  StocktakeTypeOK'
  <1>1. adj' \in [Stocktakes -> [BatchIds -> [Counted ->
           [decision: {"none", "pending", "approved", "rejected"}, counted: Nat]]]]
    BY DecidedType DEF ApproveVariance, RejectVariance
  <1>2. task' \in [Stocktakes -> [status: Statuses, wh: Warehouses \cup {"none"},
                                  scope: Scopes \cup {"none"}, by: Users \cup {NoUser}]]
    BY TaskStatusType DEF ApproveVariance, RejectVariance, Statuses, Open
  <1>3. UNCHANGED <<count, outbox>>
    BY DEF ApproveVariance, RejectVariance
  <1> QED BY <1>1, <1>2, <1>3 DEF TypeOK, StocktakeTypeOK

\* The counted quantities are quantities.
LEMMA AdjustedType ==
  ASSUME TypeOK, NEW t \in Stocktakes
  PROVE  Adjusted(t) \in [BatchIds -> [Buckets -> Nat]]
  <1>1. \A b \in BatchIds, k \in Counted : adj[t][b][k].counted \in Nat
    BY DEF TypeOK, StocktakeTypeOK
  <1>2. \A b \in BatchIds, k \in Buckets : qty[b][k] \in Nat
    BY DEF TypeOK, StockTypeOK
  <1> QED BY <1>1, <1>2 DEF Adjusted

\* A stocktake command other than an approval leaves stock as it is.
LEMMA StocktakeStock ==
  ASSUME TypeOK, StocktakeNext
  PROVE  StockTypeOK'
  <1>1. CASE UNCHANGED stockVars
    BY <1>1 DEF TypeOK, StockTypeOK, stockVars
  <1>2. CASE \E t \in Stocktakes, u \in Users : ApproveVariance(t, u)
    BY <1>2, AdjustedType DEF ApproveVariance, TypeOK, StockTypeOK
  <1> QED BY <1>1, <1>2 DEF StocktakeNext, OpenStocktake, SubmitCount, RequireRecount,
             CompleteStocktake, RequestVarianceApproval, RejectVariance

\* What a counter may report is a count.
LEMMA CountInputsType ==
  ASSUME TypeOK, NEW t \in Stocktakes, NEW b \in Targets(t)
  PROVE  CountInputs(t, b) \subseteq Counts
  <1>1. count[t][0][b].q \in Counts
    <2>1. count[t][0][b] \in Row
      BY DEF Targets, Rounds, TypeOK, StocktakeTypeOK
    <2> QED BY <2>1 DEF Row
  <1>2. \A k \in Counted, n \in 0 .. MaxCount :
          [count[t][0][b].q EXCEPT ![k] = n] \in Counts
    BY <1>1, MaxCountAssumption DEF Counts
  <1> QED BY <1>1, <1>2 DEF CountInputs

\* Every stocktake command keeps the tables of stocktakes well formed.
LEMMA StocktakeStep ==
  ASSUME TypeOK, StocktakeNext
  PROVE  StocktakeTypeOK'
  <1> SUFFICES ASSUME NEW t \in Stocktakes, NEW u \in Users,
                 \/ \E w \in Warehouses, scope \in ScopesTried : \E sample \in Samples(scope) :
                       OpenStocktake(t, u, w, scope, sample)
                 \/ \E b \in Targets(t) : \E q \in CountInputs(t, b) : SubmitCount(t, u, b, q)
                 \/ RequireRecount(t, u)
                 \/ CompleteStocktake(t, u)
                 \/ RequestVarianceApproval(t, u)
                 \/ ApproveVariance(t, u)
                 \/ RejectVariance(t, u)
               PROVE  StocktakeTypeOK'
    BY DEF StocktakeNext
  <1>1. CASE \E w \in Warehouses, scope \in ScopesTried : \E sample \in Samples(scope) :
               OpenStocktake(t, u, w, scope, sample)
    BY <1>1, OpenType, ScopesAssumption DEF Scopes
  <1>2. CASE \E b \in Targets(t) : \E q \in CountInputs(t, b) : SubmitCount(t, u, b, q)
    BY <1>2, SubmitType, CountInputsType DEF Targets
  <1>3. CASE RequireRecount(t, u) \/ CompleteStocktake(t, u)
    BY <1>3, FinishType
  <1>4. CASE RequestVarianceApproval(t, u)
    BY <1>4, RequestVarianceType
  <1>5. CASE ApproveVariance(t, u) \/ RejectVariance(t, u)
    BY <1>5, ReviewVarianceType
  <1> QED BY <1>1, <1>2, <1>3, <1>4, <1>5

-----------------------------------------------------------------------------
(* Warehousing *)

\* Placing a new batch keeps the stock tables well formed.
LEMMA PlacedType ==
  ASSUME TypeOK, NEW b \in BatchIds, NEW l \in Lots, NEW k, NEW n \in Nat,
         lot' = [lot EXCEPT ![b] = l], qty' = [qty EXCEPT ![b] = Holding(k, n)],
         UNCHANGED active
  PROVE  StockTypeOK'
  BY HoldingType DEF TypeOK, StockTypeOK

\* Receiving a purchase order item.
LEMMA ReceivePurchaseType ==
  ASSUME TypeOK, NEW i \in Items, NEW b \in BatchIds, ReceivePurchase(i, b)
  PROVE  StockTypeOK' /\ WarehousingTypeOK'
  <1>1. /\ ItemOf[i].wh \in Warehouses
        /\ ItemOf[i].sku \in Skus
        /\ ItemOf[i].n \in Nat
    BY ItemAssumption
  <1>2. NewLot(ItemOf[i].wh, ItemOf[i].sku, "company", "receipt") \in Lots
    BY <1>1, NewLotType DEF Owners, Sources
  <1>3. StockTypeOK'
    BY <1>1, <1>2, PlacedType DEF ReceivePurchase
  <1>4. WarehousingTypeOK'
    BY DEF ReceivePurchase, TypeOK, WarehousingTypeOK, siteVars
  <1> QED BY <1>3, <1>4

\* Inspecting a batch moves no more than is pending.
LEMMA InspectType ==
  ASSUME TypeOK, NEW b \in BatchIds, NEW bucket \in {"available", "quarantine"},
         InspectBatch(b, bucket)
  PROVE  StockTypeOK' /\ WarehousingTypeOK'
  <1>1. qty[b]["pending"] \in Nat
    BY DEF TypeOK, StockTypeOK, Buckets
  <1>2. qty' \in [BatchIds -> [Buckets -> Nat]]
    BY <1>1, MovedType DEF InspectBatch, TypeOK, StockTypeOK, Buckets
  <1> QED BY <1>2
          DEF InspectBatch, TypeOK, StockTypeOK, WarehousingTypeOK, warehousingVars, siteVars

\* A transfer that is not NoTransfer has a quantity and two warehouses.
LEMMA TransferType ==
  ASSUME TypeOK, NEW x \in Transfers, transfer[x].status # "none"
  PROVE  transfer[x] \in [status: TransferStatuses, from: Warehouses, to: Warehouses,
                          sku: Skus, n: Nat \ {0}, by: Users]
  BY DEF TypeOK, WarehousingTypeOK, NoTransfer

\* Changing only the status of a transfer that exists keeps its shape.
LEMMA StatusType ==
  ASSUME TypeOK, NEW x \in Transfers, transfer[x].status # "none",
         NEW status \in TransferStatuses,
         transfer' = [transfer EXCEPT ![x].status = status], received' = received,
         UNCHANGED siteVars
  PROVE  WarehousingTypeOK'
  BY TransferType DEF TypeOK, WarehousingTypeOK, siteVars

\* Requesting a transfer of at least one unit.
LEMMA RequestTransferType ==
  ASSUME TypeOK, NEW x \in Transfers, NEW u \in Users, NEW v \in Warehouses,
         NEW w \in Warehouses, NEW s \in Skus, NEW n \in 1 .. MaxTransfer,
         RequestTransfer(x, u, v, w, s, n)
  PROVE  StockTypeOK' /\ WarehousingTypeOK'
  BY MaxTransferAssumption
  DEF RequestTransfer, TypeOK, WarehousingTypeOK, StockTypeOK, stockVars, siteVars,
      TransferStatuses

\* Deciding about a transfer.
LEMMA ReviewTransferType ==
  ASSUME TypeOK, NEW x \in Transfers, NEW u \in Users,
         NEW decision \in {"approved", "rejected"}, ReviewTransfer(x, u, decision)
  PROVE  StockTypeOK' /\ WarehousingTypeOK'
  <1>1. WarehousingTypeOK'
    BY StatusType DEF ReviewTransfer, TransferStatuses
  <1>2. StockTypeOK'
    BY DEF ReviewTransfer, TypeOK, StockTypeOK, stockVars
  <1> QED BY <1>1, <1>2

\* Shipping takes from no batch more than it has available.
LEMMA ShipTransferType ==
  ASSUME TypeOK, NEW x \in Transfers, NEW d, ShipTransfer(x, d)
  PROVE  StockTypeOK' /\ WarehousingTypeOK'
  <1> DEFINE source == Shippable(transfer[x].from, transfer[x].sku)
             has == [b \in source |-> qty[b]["available"]]
  <1>1. transfer[x].n \in Int
    BY TransferType DEF ShipTransfer
  <1>2. \A b \in source : d[b] \in Nat /\ d[b] =< qty[b]["available"]
    BY <1>1, TakesWithin DEF ShipTransfer
  <1>3. qty' \in [BatchIds -> [Buckets -> Nat]]
    <2>1. \A b \in BatchIds : qty[b] \in [Buckets -> Nat]
      BY DEF TypeOK, StockTypeOK
    <2>2. \A b \in BatchIds : b \in source =>
            [qty[b] EXCEPT !["available"] = @ - d[b]] \in [Buckets -> Nat]
      BY <1>2, <2>1 DEF Buckets
    <2> QED BY <2>1, <2>2 DEF ShipTransfer
  <1>4. WarehousingTypeOK'
    BY StatusType DEF ShipTransfer, TransferStatuses
  <1> QED BY <1>3, <1>4 DEF ShipTransfer, TypeOK, StockTypeOK

\* Receiving a transfer.
LEMMA ReceiveTransferType ==
  ASSUME TypeOK, NEW x \in Transfers, NEW b \in BatchIds, ReceiveTransfer(x, b)
  PROVE  StockTypeOK' /\ WarehousingTypeOK'
  <1>1. /\ transfer[x].to \in Warehouses
        /\ transfer[x].sku \in Skus
        /\ transfer[x].n \in Nat
    BY TransferType DEF ReceiveTransfer, CanReceive
  <1>2. NewLot(transfer[x].to, transfer[x].sku, "company", "transfer") \in Lots
    BY <1>1, NewLotType DEF Owners, Sources
  <1>3. StockTypeOK'
    BY <1>1, <1>2, PlacedType DEF ReceiveTransfer
  <1>4. WarehousingTypeOK'
    BY StatusType DEF ReceiveTransfer, CanReceive, TransferStatuses
  <1> QED BY <1>3, <1>4

\* Deactivating a warehouse.
LEMMA DeactivateType ==
  ASSUME TypeOK, NEW w \in Warehouses, Deactivate(w)
  PROVE  StockTypeOK' /\ WarehousingTypeOK'
  BY DEF Deactivate, TypeOK, StockTypeOK, WarehousingTypeOK, warehousingVars, siteVars

\* Creating a warehouse.
LEMMA CreateWarehouseType ==
  ASSUME TypeOK, NEW w \in Warehouses, CreateWarehouse(w)
  PROVE  StockTypeOK' /\ WarehousingTypeOK'
  BY DEF CreateWarehouse, TypeOK, StockTypeOK, WarehousingTypeOK

\* Requesting a merge.
LEMMA RequestMergeType ==
  ASSUME TypeOK, NEW m \in Merges, NEW u \in Users, NEW v \in Warehouses, NEW w \in Warehouses,
         RequestMerge(m, u, v, w)
  PROVE  StockTypeOK' /\ WarehousingTypeOK'
  BY DEF RequestMerge, TypeOK, StockTypeOK, WarehousingTypeOK, stockVars

\* Deciding about a merge, which was requested.
LEMMA DecideMergeType ==
  ASSUME TypeOK, NEW m \in Merges, NEW u \in Users, ApproveMerge(m, u) \/ RejectMerge(m, u)
  PROVE  StockTypeOK' /\ WarehousingTypeOK'
  <1>1. PICK decision \in {"approved", "rejected"} : DecidesMerge(m, u, decision)
    BY DEF ApproveMerge, RejectMerge
  <1>2. merge[m] \in [status: {"pending", "approved", "rejected"}, from: Warehouses,
                      to: Warehouses, by: Users]
    BY <1>1 DEF DecidesMerge, TypeOK, WarehousingTypeOK, NoMerge
  <1>3. WarehousingTypeOK'
    BY <1>1, <1>2 DEF DecidesMerge, TypeOK, WarehousingTypeOK
  <1>4. active' \in SUBSET Warehouses
    BY DEF ApproveMerge, RejectMerge, TypeOK, StockTypeOK
  <1> QED BY <1>1, <1>3, <1>4 DEF DecidesMerge, TypeOK, StockTypeOK

\* Every warehousing command keeps the tables it writes well formed.
LEMMA WarehousingStep ==
  ASSUME TypeOK, WarehousingNext
  PROVE  StockTypeOK' /\ WarehousingTypeOK'
  BY ReceivePurchaseType, InspectType, RequestTransferType, ReviewTransferType,
     ShipTransferType, ReceiveTransferType, DeactivateType, CreateWarehouseType,
     RequestMergeType, DecideMergeType
  DEF WarehousingNext

-----------------------------------------------------------------------------
(* Production *)

OrderRow == [status: OrderStatuses \cup {"none"}, planned: Nat, actual: Nat, over: BOOLEAN,
             company: Nat, factory: Nat, by: Users \cup {NoUser}]
LineRow  == [issued: Nat, consumed: Nat, loss: Nat]
ReservationRow == [status: {"active", "consumed", "released"}, batch: BatchIds,
                   for: Orders \cup {Elsewhere}, got: Nat, left: Nat, priority: Int]

\* A reservation that has a status is one that was made.
LEMMA ReservationType ==
  ASSUME TypeOK, NEW r \in Reservations, reservation[r].status # "none"
  PROVE  reservation[r] \in ReservationRow
  BY DEF TypeOK, ProductionTypeOK, NoReservation, ReservationRow

\* Setting one column of an order keeps its shape.
LEMMA OrderColumnType ==
  ASSUME NEW f \in [Orders -> OrderRow], NEW o \in Orders
  PROVE  /\ \A x \in OrderStatuses : [f EXCEPT ![o].status = x] \in [Orders -> OrderRow]
         /\ \A x \in Nat : [f EXCEPT ![o].planned = x] \in [Orders -> OrderRow]
         /\ \A x \in Nat : [f EXCEPT ![o].actual = x] \in [Orders -> OrderRow]
         /\ \A x \in BOOLEAN : [f EXCEPT ![o].over = x] \in [Orders -> OrderRow]
         /\ \A x \in Nat : [f EXCEPT ![o].company = x] \in [Orders -> OrderRow]
         /\ \A x \in Nat : [f EXCEPT ![o].factory = x] \in [Orders -> OrderRow]
         /\ \A x \in Users : [f EXCEPT ![o].by = x] \in [Orders -> OrderRow]
  BY DEF OrderRow

\* A reservation locks no more than is available.
LEMMA GrantedType ==
  ASSUME NEW b \in BatchIds, NEW n \in Nat, qty[b]["available"] \in Nat
  PROVE  Granted(b, n) \in Nat /\ Granted(b, n) =< qty[b]["available"]
  BY DEF Granted

\* Reserving stock.
LEMMA ReserveType ==
  ASSUME TypeOK, NEW r \in Reservations, NEW b \in BatchIds, NEW for \in Orders \cup {Elsewhere},
         NEW n \in Nat, NEW priority \in Int, Reserve(r, b, for, n, priority)
  PROVE  StockTypeOK' /\ ProductionTypeOK'
  <1>1. qty[b]["available"] \in Nat
    BY DEF TypeOK, StockTypeOK, Buckets
  <1>2. Granted(b, n) \in Nat /\ Granted(b, n) =< qty[b]["available"]
    BY <1>1, GrantedType
  <1>3. qty' \in [BatchIds -> [Buckets -> Nat]]
    BY <1>2, MovedType DEF Reserve, TypeOK, StockTypeOK, Buckets
  <1>4. ProductionTypeOK'
    BY <1>2 DEF Reserve, TypeOK, ProductionTypeOK
  <1> QED BY <1>3, <1>4 DEF Reserve, TypeOK, StockTypeOK

\* Creating a production order.
LEMMA CreateOrderType ==
  ASSUME TypeOK, NEW o \in Orders, NEW n \in 1 .. Allocated, CreateOrder(o, n)
  PROVE  StockTypeOK' /\ ProductionTypeOK'
  <1>1. n \in Nat
    BY ProductionAssumption
  <1>2. order' \in [Orders -> OrderRow]
    <2>1. order \in [Orders -> OrderRow]
      BY DEF TypeOK, ProductionTypeOK, OrderRow
    <2>2. [order EXCEPT ![o].status = "planned"] \in [Orders -> OrderRow]
      BY <2>1, OrderColumnType DEF OrderStatuses
    <2>3. [order EXCEPT ![o].status = "planned", ![o].planned = n] \in [Orders -> OrderRow]
      BY <1>1, <2>2, OrderColumnType
    <2> QED BY <2>3 DEF CreateOrder
  <1>3. StockTypeOK'
    BY DEF CreateOrder, TypeOK, StockTypeOK, stockVars
  <1> QED BY <1>2, <1>3 DEF CreateOrder, TypeOK, ProductionTypeOK, OrderRow

\* Starting a production order.
LEMMA StartOrderType ==
  ASSUME TypeOK, NEW o \in Orders, StartOrder(o)
  PROVE  StockTypeOK' /\ ProductionTypeOK'
  <1>1. order' \in [Orders -> OrderRow]
    BY OrderColumnType DEF StartOrder, TypeOK, ProductionTypeOK, OrderRow, OrderStatuses
  <1>2. StockTypeOK'
    BY DEF StartOrder, TypeOK, StockTypeOK, stockVars
  <1> QED BY <1>1, <1>2 DEF StartOrder, TypeOK, ProductionTypeOK, OrderRow

\* What a report of materials takes from a reservation, the reservation has,
\* and what it takes from a batch is locked there.
LEMMA UsesWithin ==
  ASSUME TypeOK, NEW o \in Orders, NEW m \in Reports \cup {NoReport}, NEW d, Uses(o, m, d)
  PROVE  /\ DOMAIN d = MaterialPool(o)
         /\ \A r \in MaterialPool(o) : d[r] \in Nat /\ d[r] =< reservation[r].left
         /\ \A b \in BatchIds : TakenFrom(d, b) \in 0 .. qty[b]["locked"]
  <1>1. \A r \in MaterialPool(o) : reservation[r].left \in Nat
    BY ReservationType DEF MaterialPool, Pool, ReservationRow
  <1>2. CASE m = NoReport
    BY <1>1, <1>2 DEF Uses
  <1>3. CASE m # NoReport
    <2>1. m.consumed \in Int /\ m.loss \in Int
      BY <1>3, ProductionAssumption DEF Reports
    <2>2. NewlyUsed(o, m) \in Int
      BY <2>1 DEF NewlyUsed, TypeOK, ProductionTypeOK
    <2>3. \A r \in MaterialPool(o) : d[r] \in Nat /\ d[r] =< reservation[r].left
      BY <1>3, <2>2, TakesWithin DEF Uses
    <2> QED BY <2>3 DEF Uses
  <1> QED BY <1>2, <1>3

\* The locked stock and the reservations left after a report are quantities.
LEMMA AfterUseType ==
  ASSUME TypeOK, NEW o \in Orders, NEW m \in Reports \cup {NoReport}, NEW d, Uses(o, m, d)
  PROVE  AfterUse(d) \in [BatchIds -> [Buckets -> Nat]]
  <1>1. \A b \in BatchIds : qty[b] \in [Buckets -> Nat]
    BY DEF TypeOK, StockTypeOK
  <1>2. \A b \in BatchIds :
          [qty[b] EXCEPT !["locked"] = @ - TakenFrom(d, b)] \in [Buckets -> Nat]
    BY <1>1, UsesWithin DEF Buckets
  <1> QED BY <1>1, <1>2 DEF AfterUse

\* Consumption leaves no reservation negative.
LEMMA UseReservedType ==
  ASSUME TypeOK, NEW o \in Orders, NEW m \in Reports \cup {NoReport}, NEW d, Uses(o, m, d),
         UseReserved(d)
  PROVE  reservation' \in [Reservations -> ReservationRow \cup {NoReservation}]
  <1>1. \A r \in Reservations : reservation[r] \in ReservationRow \cup {NoReservation}
    BY DEF TypeOK, ProductionTypeOK, ReservationRow
  <1>2. ASSUME NEW r \in DOMAIN d
        PROVE  [reservation[r] EXCEPT
                  !.left = @ - d[r],
                  !.status = IF d[r] > 0 /\ reservation[r].left = d[r] THEN "consumed" ELSE @]
                 \in ReservationRow
    <2>1. r \in MaterialPool(o) /\ d[r] \in Nat /\ d[r] =< reservation[r].left
      BY <1>2, UsesWithin
    <2>2. reservation[r] \in ReservationRow
      BY <2>1, ReservationType DEF MaterialPool, Pool
    <2>3. [reservation[r] EXCEPT !.left = @ - d[r]] \in ReservationRow
      BY <2>1, <2>2 DEF ReservationRow
    <2> QED BY <2>3 DEF ReservationRow
  <1> QED BY <1>1, <1>2 DEF UseReserved

\* A report of materials is a line of quantities.
LEMMA LineAfterType ==
  ASSUME TypeOK, NEW o \in Orders, NEW m \in Reports \cup {NoReport}
  PROVE  LineAfter(o, m) \in [Orders -> LineRow]
  <1>1. m # NoReport => m \in LineRow
    BY ProductionAssumption DEF Reports, LineRow
  <1> QED BY <1>1 DEF LineAfter, TypeOK, ProductionTypeOK, LineRow

\* Reporting materials.
LEMMA ReportMaterialsType ==
  ASSUME TypeOK, NEW o \in Orders, NEW m \in Reports, NEW d, ReportMaterials(o, m, d)
  PROVE  StockTypeOK' /\ ProductionTypeOK'
  <1>1. qty' \in [BatchIds -> [Buckets -> Nat]]
    BY AfterUseType DEF ReportMaterials
  <1>2. reservation' \in [Reservations -> ReservationRow \cup {NoReservation}]
    BY UseReservedType DEF ReportMaterials
  <1>3. line' \in [Orders -> LineRow]
    BY LineAfterType DEF ReportMaterials
  <1>4. UNCHANGED <<lot, active, order>>
    BY DEF ReportMaterials
  <1> QED BY <1>1, <1>2, <1>3, <1>4
       DEF TypeOK, StockTypeOK, ProductionTypeOK, LineRow, ReservationRow

\* Releasing unlocks no more than is locked.
LEMMA ReleaseMaterialsType ==
  ASSUME TypeOK, NEW o \in Orders, ReleaseMaterials(o)
  PROVE  StockTypeOK' /\ ProductionTypeOK'
  <1> DEFINE released == {r \in Pool(o) : reservation[r].left > 0}
             back(b) == Left({r \in released : reservation[r].batch = b})
  <1>1. \A b \in BatchIds : back(b) \in 0 .. qty[b]["locked"]
    BY DEF ReleaseMaterials
  <1>2. qty' \in [BatchIds -> [Buckets -> Nat]]
    <2>1. \A b \in BatchIds : qty[b] \in [Buckets -> Nat]
      BY DEF TypeOK, StockTypeOK
    <2> HIDE DEF back
    <2>2. \A b \in BatchIds :
            [qty[b] EXCEPT !["locked"] = @ - back(b), !["available"] = @ + back(b)]
              \in [Buckets -> Nat]
      BY <1>1, <2>1 DEF Buckets
    <2>3. qty' = [b \in BatchIds |->
            IF b \in Batches(released)
            THEN [qty[b] EXCEPT !["locked"] = @ - back(b), !["available"] = @ + back(b)]
            ELSE qty[b]]
      BY DEF ReleaseMaterials, back
    <2> QED BY <2>1, <2>2, <2>3
  <1>3. reservation' \in [Reservations -> ReservationRow \cup {NoReservation}]
    <2>1. \A r \in Reservations : reservation[r] \in ReservationRow \cup {NoReservation}
      BY DEF TypeOK, ProductionTypeOK, ReservationRow
    <2>2. \A r \in released : reservation[r] \in ReservationRow
      BY ReservationType DEF Pool
    <2>3. \A r \in released :
            [reservation[r] EXCEPT !.status = "released", !.left = 0] \in ReservationRow
      BY <2>2 DEF ReservationRow
    <2> QED BY <2>1, <2>3 DEF ReleaseMaterials
  <1>4. UNCHANGED <<lot, active, order, line>>
    BY DEF ReleaseMaterials
  <1> QED BY <1>2, <1>3, <1>4 DEF TypeOK, StockTypeOK, ProductionTypeOK, ReservationRow

\* What completing an order does to its materials.
LEMMA CompletingType ==
  ASSUME TypeOK, NEW o \in Orders, NEW m \in Reports \cup {NoReport}, NEW d, Completing(o, m, d),
         order' \in [Orders -> OrderRow]
  PROVE  ProductionTypeOK'
  <1>1. reservation' \in [Reservations -> ReservationRow \cup {NoReservation}]
    BY UseReservedType DEF Completing
  <1>2. line' \in [Orders -> LineRow]
    BY LineAfterType DEF Completing
  <1> QED BY <1>1, <1>2 DEF ProductionTypeOK, OrderRow, LineRow, ReservationRow

\* Completing an order that needs no review.
LEMMA CompleteOrderType ==
  ASSUME TypeOK, NEW o \in Orders, NEW actual \in Nat, NEW m \in Reports \cup {NoReport},
         NEW d, NEW b \in BatchIds, CompleteOrder(o, actual, m, d, b)
  PROVE  StockTypeOK' /\ ProductionTypeOK'
  <1>1. AfterUse(d) \in [BatchIds -> [Buckets -> Nat]]
    BY AfterUseType DEF CompleteOrder, Completing
  <1>2. qty' \in [BatchIds -> [Buckets -> Nat]]
    BY <1>1, HoldingType DEF CompleteOrder
  <1>3. NewLot(FactorySite, Finished, "company", "production") \in Lots
    BY NewLotType, ProductionAssumption DEF Owners, Sources
  <1>4. lot' \in [BatchIds -> Lots \cup {NoLot}]
    BY <1>3 DEF CompleteOrder, TypeOK, StockTypeOK
  <1>5. order' \in [Orders -> OrderRow]
    <2>1. order \in [Orders -> OrderRow]
      BY DEF TypeOK, ProductionTypeOK, OrderRow
    <2>2. [order EXCEPT ![o].status = "completed"] \in [Orders -> OrderRow]
      BY <2>1, OrderColumnType DEF OrderStatuses
    <2>3. [order EXCEPT ![o].status = "completed", ![o].actual = actual] \in [Orders -> OrderRow]
      BY <2>2, OrderColumnType
    <2>4. [order EXCEPT ![o].status = "completed", ![o].actual = actual, ![o].company = actual]
            \in [Orders -> OrderRow]
      BY <2>3, OrderColumnType
    <2> QED BY <2>4 DEF CompleteOrder
  <1>6. Completing(o, m, d) /\ UNCHANGED active
    BY DEF CompleteOrder, Completing
  <1> QED BY <1>2, <1>4, <1>5, <1>6, CompletingType DEF TypeOK, StockTypeOK

\* Completing an order that needs one.
LEMMA RequestProductionVarianceType ==
  ASSUME TypeOK, NEW o \in Orders, NEW u \in Users, NEW actual \in Nat,
         NEW m \in Reports \cup {NoReport}, NEW d, RequestProductionVariance(o, u, actual, m, d)
  PROVE  StockTypeOK' /\ ProductionTypeOK'
  <1>1. qty' \in [BatchIds -> [Buckets -> Nat]]
    BY AfterUseType DEF RequestProductionVariance, Completing
  <1>2. order' \in [Orders -> OrderRow]
    <2>1. order \in [Orders -> OrderRow]
      BY DEF TypeOK, ProductionTypeOK, OrderRow
    <2>2. [order EXCEPT ![o].status = "variance_pending"] \in [Orders -> OrderRow]
      BY <2>1, OrderColumnType DEF OrderStatuses
    <2>3. [order EXCEPT ![o].status = "variance_pending", ![o].actual = actual]
            \in [Orders -> OrderRow]
      BY <2>2, OrderColumnType
    <2>4. Over(o, actual) \in BOOLEAN
      BY DEF Over
    <2>5. [order EXCEPT ![o].status = "variance_pending", ![o].actual = actual,
                        ![o].over = Over(o, actual)] \in [Orders -> OrderRow]
      BY <2>3, <2>4, OrderColumnType
    <2>6. [order EXCEPT ![o].status = "variance_pending", ![o].actual = actual,
                        ![o].over = Over(o, actual), ![o].by = u] \in [Orders -> OrderRow]
      BY <2>5, OrderColumnType
    <2> QED BY <2>6 DEF RequestProductionVariance
  <1>3. Completing(o, m, d) /\ UNCHANGED <<lot, active>>
    BY DEF RequestProductionVariance, Completing
  <1> QED BY <1>1, <1>2, <1>3, CompletingType DEF TypeOK, StockTypeOK

\* What a review leaves alone.
LEMMA ReviewsType ==
  ASSUME TypeOK, NEW o \in Orders, NEW u \in Users, Reviews(o, u),
         order' \in [Orders -> OrderRow]
  PROVE  ProductionTypeOK' /\ UNCHANGED active
  BY DEF Reviews, TypeOK, ProductionTypeOK, OrderRow

\* Approving a production variance.
LEMMA ApproveProductionType ==
  ASSUME TypeOK, NEW o \in Orders, NEW u \in Users, NEW b \in BatchIds,
         ApproveProduction(o, u, b)
  PROVE  StockTypeOK' /\ ProductionTypeOK'
  <1>1. order[o].actual \in Nat
    BY DEF TypeOK, ProductionTypeOK
  <1>2. order' \in [Orders -> OrderRow]
    <2>1. order \in [Orders -> OrderRow]
      BY DEF TypeOK, ProductionTypeOK, OrderRow
    <2>2. [order EXCEPT ![o].status = "completed"] \in [Orders -> OrderRow]
      BY <2>1, OrderColumnType DEF OrderStatuses
    <2>3. [order EXCEPT ![o].status = "completed", ![o].company = order[o].actual]
            \in [Orders -> OrderRow]
      BY <1>1, <2>2, OrderColumnType
    <2> QED BY <2>3 DEF ApproveProduction
  <1>3. Reviews(o, u)
    BY DEF ApproveProduction
  <1>4. ProductionTypeOK' /\ UNCHANGED active
    BY <1>2, <1>3, ReviewsType
  <1>5. CASE order[o].actual > 0
    <2>1. NewLot(FactorySite, Finished, "company", "variance") \in Lots
      BY NewLotType, ProductionAssumption DEF Owners, Sources
    <2> QED BY <1>1, <1>4, <1>5, <2>1, PlacedType DEF ApproveProduction
  <1>6. CASE ~(order[o].actual > 0)
    BY <1>4, <1>6 DEF ApproveProduction, TypeOK, StockTypeOK
  <1> QED BY <1>4, <1>5, <1>6

\* An order over its plan finished more than was planned.
OverIsOver ==
  \A o \in Orders : order[o].over => /\ order[o].actual > order[o].planned
                                     /\ order[o].status \notin {"none", "planned", "in_production"}

\* Rejecting an overproduction: the excess over the plan is a quantity only
\* because such an order did finish more than planned.
LEMMA RejectOverproductionType ==
  ASSUME TypeOK, OverIsOver, NEW o \in Orders, NEW u \in Users, NEW b \in BatchIds,
         NEW c \in BatchIds, RejectOverproduction(o, u, b, c)
  PROVE  StockTypeOK' /\ ProductionTypeOK'
  <1> DEFINE n == order[o].planned
             excess == order[o].actual - n
  <1>1. n \in Nat /\ excess \in Nat
    BY DEF TypeOK, ProductionTypeOK, OverIsOver, RejectOverproduction
  <1>2. order' \in [Orders -> OrderRow]
    <2>1. order \in [Orders -> OrderRow]
      BY DEF TypeOK, ProductionTypeOK, OrderRow
    <2>2. [order EXCEPT ![o].status = "completed_factory_owned"] \in [Orders -> OrderRow]
      BY <2>1, OrderColumnType DEF OrderStatuses
    <2>3. [order EXCEPT ![o].status = "completed_factory_owned", ![o].company = n]
            \in [Orders -> OrderRow]
      BY <1>1, <2>2, OrderColumnType
    <2>4. [order EXCEPT ![o].status = "completed_factory_owned", ![o].company = n,
                        ![o].factory = excess] \in [Orders -> OrderRow]
      BY <1>1, <2>3, OrderColumnType
    <2> QED BY <2>4 DEF RejectOverproduction
  <1>3. Reviews(o, u)
    BY DEF RejectOverproduction
  <1>4. ProductionTypeOK' /\ UNCHANGED active
    BY <1>2, <1>3, ReviewsType
  <1>5. lot' \in [BatchIds -> Lots \cup {NoLot}]
    <2>1. /\ NewLot(FactorySite, Finished, "company", "variance") \in Lots
          /\ NewLot(FactorySite, Finished, "factory", "variance") \in Lots
      BY NewLotType, ProductionAssumption DEF Owners, Sources
    <2> QED BY <2>1 DEF RejectOverproduction, TypeOK, StockTypeOK
  <1>6. qty' \in [BatchIds -> [Buckets -> Nat]]
    <2>1. /\ Holding("pending", n) \in [Buckets -> Nat]
          /\ Holding("available", excess) \in [Buckets -> Nat]
      BY <1>1, HoldingType
    <2> QED BY <2>1 DEF RejectOverproduction, TypeOK, StockTypeOK
  <1> QED BY <1>4, <1>5, <1>6 DEF TypeOK, StockTypeOK

\* Rejecting a shortfall or a material deviation.
LEMMA RejectProductionType ==
  ASSUME TypeOK, NEW o \in Orders, NEW u \in Users, RejectProduction(o, u)
  PROVE  StockTypeOK' /\ ProductionTypeOK'
  <1> DEFINE n == IF order[o].actual =< order[o].planned THEN order[o].actual
                                                          ELSE order[o].planned
  <1>1. n \in Nat
    BY DEF TypeOK, ProductionTypeOK
  <1>2. order' \in [Orders -> OrderRow]
    <2>1. order \in [Orders -> OrderRow]
      BY DEF TypeOK, ProductionTypeOK, OrderRow
    <2>2. [order EXCEPT ![o].status = "variance_rejected"] \in [Orders -> OrderRow]
      BY <2>1, OrderColumnType DEF OrderStatuses
    <2> HIDE DEF n
    <2>3. [order EXCEPT ![o].status = "variance_rejected", ![o].company = n]
            \in [Orders -> OrderRow]
      BY <1>1, <2>2, OrderColumnType
    <2> QED BY <2>3 DEF RejectProduction, n
  <1>3. Reviews(o, u) /\ UNCHANGED <<lot, qty>>
    BY DEF RejectProduction
  <1> QED BY <1>2, <1>3, ReviewsType DEF TypeOK, StockTypeOK

\* Every production command keeps the tables it writes well formed.
LEMMA ProductionStep ==
  ASSUME TypeOK, OverIsOver, ProductionNext
  PROVE  StockTypeOK' /\ ProductionTypeOK'
  <1>1. 1 .. MaxReport \subseteq Nat /\ 0 .. MaxReport \subseteq Nat /\ Priorities \subseteq Int
    BY ProductionAssumption
  <1> QED BY <1>1, ReserveType, CreateOrderType, StartOrderType, ReleaseMaterialsType,
             ReportMaterialsType, CompleteOrderType, RequestProductionVarianceType,
             ApproveProductionType, RejectOverproductionType, RejectProductionType
          DEF ProductionNext

\* No order is over its plan at first.
LEMMA OverInit == ASSUME Init PROVE OverIsOver
  BY DEF Init, ProductionInit, NoOrder, OverIsOver

\* Only a report of more than was planned makes an order an overproduction, and
\* neither quantity changes afterwards.
LEMMA OverProduction ==
  ASSUME TypeOK, OverIsOver, ProductionNext
  PROVE  OverIsOver'
  <1>1. ASSUME NEW o \in Orders, NEW n, CreateOrder(o, n)
        PROVE  OverIsOver'
    <2>1. order[o].over = FALSE
      BY <1>1 DEF CreateOrder, NoOrder
    <2> QED BY <1>1, <2>1 DEF CreateOrder, OverIsOver, TypeOK, ProductionTypeOK
  <1>2. ASSUME NEW o \in Orders, NEW u, NEW actual, NEW m, NEW d,
               RequestProductionVariance(o, u, actual, m, d)
        PROVE  OverIsOver'
    <2>1. Over(o, actual) => actual > order[o].planned
      BY DEF Over
    <2>2. /\ order'[o].over = Over(o, actual)
          /\ order'[o].actual = actual
          /\ order'[o].planned = order[o].planned
          /\ order'[o].status = "variance_pending"
      BY <1>2 DEF RequestProductionVariance, TypeOK, ProductionTypeOK
    <2>3. \A x \in Orders : x # o => order'[x] = order[x]
      BY <1>2 DEF RequestProductionVariance, TypeOK, ProductionTypeOK
    <2> QED BY <2>1, <2>2, <2>3 DEF OverIsOver
  <1>3. ASSUME NEW o \in Orders, NEW actual, NEW m, NEW d, NEW b, CompleteOrder(o, actual, m, d, b)
        PROVE  OverIsOver'
    <2>1. ~order[o].over
      BY <1>3 DEF CompleteOrder, Completing, OverIsOver
    <2>2. order'[o].over = order[o].over
      BY <1>3 DEF CompleteOrder, TypeOK, ProductionTypeOK
    <2>3. \A x \in Orders : x # o => order'[x] = order[x]
      BY <1>3 DEF CompleteOrder, TypeOK, ProductionTypeOK
    <2> QED BY <2>1, <2>2, <2>3 DEF OverIsOver
  <1>4. ASSUME NEW o \in Orders, NEW u, NEW b, ApproveProduction(o, u, b)
        PROVE  OverIsOver'
    <2>1. /\ order'[o].over = order[o].over
          /\ order'[o].actual = order[o].actual
          /\ order'[o].planned = order[o].planned
          /\ order'[o].status = "completed"
      BY <1>4 DEF ApproveProduction, TypeOK, ProductionTypeOK
    <2>2. \A x \in Orders : x # o => order'[x] = order[x]
      BY <1>4 DEF ApproveProduction, TypeOK, ProductionTypeOK
    <2> QED BY <2>1, <2>2 DEF OverIsOver
  <1>5. ASSUME NEW o \in Orders, NEW u, NEW b, NEW c, RejectOverproduction(o, u, b, c)
        PROVE  OverIsOver'
    <2>1. /\ order'[o].over = order[o].over
          /\ order'[o].actual = order[o].actual
          /\ order'[o].planned = order[o].planned
          /\ order'[o].status = "completed_factory_owned"
      BY <1>5 DEF RejectOverproduction, TypeOK, ProductionTypeOK
    <2>2. \A x \in Orders : x # o => order'[x] = order[x]
      BY <1>5 DEF RejectOverproduction, TypeOK, ProductionTypeOK
    <2> QED BY <2>1, <2>2 DEF OverIsOver
  <1>6. ASSUME NEW o \in Orders, NEW u, RejectProduction(o, u)
        PROVE  OverIsOver'
    <2>1. ~order[o].over /\ order'[o].over = order[o].over
      BY <1>6 DEF RejectProduction, TypeOK, ProductionTypeOK
    <2>2. \A x \in Orders : x # o => order'[x] = order[x]
      BY <1>6 DEF RejectProduction, TypeOK, ProductionTypeOK
    <2> QED BY <2>1, <2>2 DEF OverIsOver
  <1>7. ASSUME NEW o \in Orders, StartOrder(o)
        PROVE  OverIsOver'
    <2>1. ~order[o].over /\ order'[o].over = order[o].over
      BY <1>7 DEF StartOrder, OverIsOver, TypeOK, ProductionTypeOK
    <2>2. \A x \in Orders : x # o => order'[x] = order[x]
      BY <1>7 DEF StartOrder, TypeOK, ProductionTypeOK
    <2> QED BY <2>1, <2>2 DEF OverIsOver
  <1>8. CASE UNCHANGED order
    BY <1>8 DEF OverIsOver
  <1>9. ASSUME NEW o, NEW r, NEW b, NEW for, NEW n, NEW priority, NEW m, NEW d,
               \/ Reserve(r, b, for, n, priority) \/ ReleaseMaterials(o) \/ ReportMaterials(o, m, d)
        PROVE  UNCHANGED order
    BY <1>9, Zenon DEF Reserve, ReleaseMaterials, ReportMaterials
  <1> QED BY <1>1, <1>2, <1>3, <1>4, <1>5, <1>6, <1>7, <1>8, <1>9, ZenonT(60) DEF ProductionNext

-----------------------------------------------------------------------------
(* Delivery *)

ShipmentRow == [status: ShipmentStatuses, for: Orders, n: Nat \ {0}, by: Users \cup {NoUser},
                got: Nat, exception: {"none", "pending_supply_chain", "resolved"}]
ReturnRow == [status: ReturnStatuses, from: Shipments, wh: Warehouses, n: Nat \ {0},
              batch: BatchIds, passed: Nat, by: Users \cup {NoUser}]

\* A shipment that has a status is one that was planned; its quantity and
\* what was received of it are quantities even if it was not.
LEMMA ShipmentType ==
  ASSUME TypeOK, NEW x \in Shipments
  PROVE  /\ shipment[x].status # "none" => shipment[x] \in ShipmentRow
         /\ shipment[x].n \in Nat /\ shipment[x].got \in Nat
  BY DEF TypeOK, DeliveryTypeOK, NoShipment, ShipmentRow

\* Likewise a return.
LEMMA ReturnType ==
  ASSUME TypeOK, NEW y \in Returns
  PROVE  /\ returned[y].status # "none" => returned[y] \in ReturnRow
         /\ returned[y].n \in Nat /\ returned[y].passed \in Nat
         /\ returned[y].passed =< returned[y].n
  BY DEF TypeOK, DeliveryTypeOK, NoReturn, ReturnRow

\* Writing one shipment.
LEMMA ShipmentWritten ==
  ASSUME TypeOK, NEW x \in Shipments, NEW row \in ShipmentRow,
         shipment' = [shipment EXCEPT ![x] = row], UNCHANGED returned
  PROVE  DeliveryTypeOK'
  BY DEF TypeOK, DeliveryTypeOK, ShipmentRow

\* Writing one return, of which no more passes than came back.
LEMMA ReturnWritten ==
  ASSUME TypeOK, NEW y \in Returns, NEW row \in ReturnRow, row.passed =< row.n,
         returned' = [returned EXCEPT ![y] = row], UNCHANGED shipment
  PROVE  DeliveryTypeOK'
  <1>1. \A z \in Returns : z # y => returned'[z] = returned[z]
    BY DEF TypeOK, DeliveryTypeOK
  <1>2. returned'[y] = row
    BY DEF TypeOK, DeliveryTypeOK
  <1>3. returned' \in [Returns -> ReturnRow \cup {NoReturn}]
    BY DEF TypeOK, DeliveryTypeOK, ReturnRow
  <1>4. \A z \in Returns : returned'[z].passed =< returned'[z].n
    BY <1>1, <1>2 DEF TypeOK, DeliveryTypeOK
  <1> QED BY <1>3, <1>4 DEF TypeOK, DeliveryTypeOK, ReturnRow

\* Planning a shipment of at least one unit.
LEMMA PlanShipmentType ==
  ASSUME TypeOK, NEW x \in Shipments, NEW o \in Orders, NEW n \in 1 .. MadeAtMost(o),
         PlanShipment(x, o, n)
  PROVE  StockTypeOK' /\ DeliveryTypeOK'
  <1>1. MadeAtMost(o) \in Nat
    BY DEF MadeAtMost, Completed, TypeOK, ProductionTypeOK
  <1>2. n \in Nat \ {0}
    BY <1>1
  <1> DEFINE row == [NoShipment EXCEPT !.for = o, !.n = n,
                                       !.status = "pending_factory_confirmation"]
  <1>3. row \in ShipmentRow
    BY <1>2 DEF NoShipment, ShipmentRow, ShipmentStatuses
  <1>4. shipment' = [shipment EXCEPT ![x] = row] /\ UNCHANGED returned
    BY DEF PlanShipment
  <1> HIDE DEF row
  <1>5. DeliveryTypeOK'
    BY <1>3, <1>4, ShipmentWritten
  <1> QED BY <1>5 DEF PlanShipment, TypeOK, StockTypeOK, stockVars

\* Confirming one, asking for another day, deciding about it, resolving an
\* exception: a column or two of a shipment that was planned.
LEMMA ConfirmShipmentType ==
  ASSUME TypeOK, NEW x \in Shipments, ConfirmShipment(x)
  PROVE  StockTypeOK' /\ DeliveryTypeOK'
  <1> DEFINE row == [shipment[x] EXCEPT !.status = "planned"]
  <1>1. row \in ShipmentRow
    BY ShipmentType DEF ConfirmShipment, ShipmentRow, ShipmentStatuses
  <1>2. shipment' = [shipment EXCEPT ![x] = row] /\ UNCHANGED returned
    BY DEF ConfirmShipment
  <1> HIDE DEF row
  <1>3. DeliveryTypeOK'
    BY <1>1, <1>2, ShipmentWritten
  <1> QED BY <1>3 DEF ConfirmShipment, TypeOK, StockTypeOK, stockVars

\* A deviation is requested.
LEMMA RequestDeviationType ==
  ASSUME TypeOK, NEW x \in Shipments, NEW u \in Users, RequestDeviation(x, u)
  PROVE  StockTypeOK' /\ DeliveryTypeOK'
  <1> DEFINE row == [shipment[x] EXCEPT !.status = "pending_supply_chain", !.by = u]
  <1>1. row \in ShipmentRow
    BY ShipmentType DEF RequestDeviation, ShipmentRow, ShipmentStatuses
  <1>2. shipment' = [shipment EXCEPT ![x] = row] /\ UNCHANGED returned
    BY DEF RequestDeviation
  <1> HIDE DEF row
  <1>3. DeliveryTypeOK'
    BY <1>1, <1>2, ShipmentWritten
  <1> QED BY <1>3 DEF RequestDeviation, TypeOK, StockTypeOK, stockVars

\* It is decided.
LEMMA DecideDeviationType ==
  ASSUME TypeOK, NEW x \in Shipments, NEW u \in Users,
         NEW decision \in {"approved_to_ship", "deviation_rejected"},
         DecideDeviation(x, u, decision)
  PROVE  StockTypeOK' /\ DeliveryTypeOK'
  <1> DEFINE row == [shipment[x] EXCEPT !.status = decision]
  <1>1. row \in ShipmentRow
    BY ShipmentType DEF DecideDeviation, ShipmentRow, ShipmentStatuses
  <1>2. shipment' = [shipment EXCEPT ![x] = row] /\ UNCHANGED returned
    BY DEF DecideDeviation
  <1> HIDE DEF row
  <1>3. DeliveryTypeOK'
    BY <1>1, <1>2, ShipmentWritten
  <1> QED BY <1>3 DEF DecideDeviation, TypeOK, StockTypeOK, stockVars

\* The exception of a receipt is resolved.
LEMMA ResolveExceptionType ==
  ASSUME TypeOK, NEW x \in Shipments, ResolveException(x)
  PROVE  StockTypeOK' /\ DeliveryTypeOK'
  <1> DEFINE row == [shipment[x] EXCEPT !.exception = "resolved"]
  <1>1. shipment[x].exception # "none"
    BY DEF ResolveException
  <1>2. shipment[x] \in ShipmentRow
    BY <1>1 DEF TypeOK, DeliveryTypeOK, NoShipment, ShipmentRow
  <1>3. row \in ShipmentRow
    BY <1>2 DEF ShipmentRow
  <1>4. shipment' = [shipment EXCEPT ![x] = row] /\ UNCHANGED returned
    BY DEF ResolveException
  <1> HIDE DEF row
  <1>5. DeliveryTypeOK'
    BY <1>3, <1>4, ShipmentWritten
  <1> QED BY <1>5 DEF ResolveException, TypeOK, StockTypeOK, stockVars

\* Dispatching takes from no batch more than it has available.
LEMMA DispatchType ==
  ASSUME TypeOK, NEW x \in Shipments, NEW d, Dispatch(x, d)
  PROVE  StockTypeOK' /\ DeliveryTypeOK'
  <1> DEFINE source == Shippable(FactorySite, Finished)
  <1>1. shipment[x] \in ShipmentRow /\ shipment[x].n \in Int
    BY ShipmentType DEF Dispatch, CanDispatch
  <1>2. \A b \in source : d[b] \in Nat /\ d[b] =< qty[b]["available"]
    BY <1>1, TakesWithin DEF Dispatch
  <1>3. qty' \in [BatchIds -> [Buckets -> Nat]]
    <2>1. \A b \in BatchIds : qty[b] \in [Buckets -> Nat]
      BY DEF TypeOK, StockTypeOK
    <2>2. \A b \in BatchIds : b \in source =>
            [qty[b] EXCEPT !["available"] = @ - d[b]] \in [Buckets -> Nat]
      BY <1>2, <2>1 DEF Buckets
    <2> QED BY <2>1, <2>2 DEF Dispatch
  <1>4. [shipment[x] EXCEPT !.status = "shipped"] \in ShipmentRow
    BY <1>1 DEF ShipmentRow, ShipmentStatuses
  <1>5. DeliveryTypeOK'
    BY <1>4, ShipmentWritten DEF Dispatch
  <1> QED BY <1>3, <1>5 DEF Dispatch, TypeOK, StockTypeOK

\* Receiving a shipment.
LEMMA ReceiveShipmentType ==
  ASSUME TypeOK, NEW x \in Shipments, NEW got \in 0 .. shipment[x].n, NEW damaged \in BOOLEAN,
         ReceiveShipment(x, got, damaged)
  PROVE  StockTypeOK' /\ DeliveryTypeOK'
  <1> DEFINE whole == got = shipment[x].n /\ ~damaged
             status == IF whole THEN "received" ELSE "received_with_exception"
             exception == IF whole THEN "none" ELSE "pending_supply_chain"
  <1>1. shipment[x] \in ShipmentRow /\ got \in Nat
    BY ShipmentType DEF ReceiveShipment
  <1>2. status \in ShipmentStatuses /\ exception \in {"none", "pending_supply_chain", "resolved"}
    BY DEF ShipmentStatuses
  <1>3. /\ shipment' = [shipment EXCEPT ![x] =
              [shipment[x] EXCEPT !.got = got, !.status = status, !.exception = exception]]
        /\ UNCHANGED returned
        /\ UNCHANGED stockVars
    BY DEF ReceiveShipment
  <1> HIDE DEF status, exception
  <1>4. [shipment[x] EXCEPT !.got = got, !.status = status, !.exception = exception]
          \in ShipmentRow
    BY <1>1, <1>2 DEF ShipmentRow
  <1>5. DeliveryTypeOK'
    BY <1>3, <1>4, ShipmentWritten
  <1> QED BY <1>3, <1>5 DEF TypeOK, StockTypeOK, stockVars

\* Receiving a return of at least one unit.
LEMMA ReceiveReturnType ==
  ASSUME TypeOK, NEW y \in Returns, NEW x \in Shipments, NEW w \in Warehouses,
         NEW n \in 1 .. shipment[x].got, NEW b \in BatchIds, ReceiveReturn(y, x, w, n, b)
  PROVE  StockTypeOK' /\ DeliveryTypeOK'
  <1> DEFINE row == [status |-> "quarantined", from |-> x, wh |-> w, n |-> n,
                     batch |-> b, passed |-> 0, by |-> NoUser]
  <1>1. n \in Nat \ {0}
    BY ShipmentType
  <1>2. row \in ReturnRow /\ row.passed =< row.n
    BY <1>1 DEF ReturnRow, ReturnStatuses
  <1>3. DeliveryTypeOK'
    BY <1>2, ReturnWritten DEF ReceiveReturn
  <1>4. NewLot(w, Finished, "company", "return") \in Lots
    BY NewLotType, ProductionAssumption DEF Owners, Sources
  <1>5. StockTypeOK'
    BY <1>1, <1>4, PlacedType DEF ReceiveReturn
  <1> QED BY <1>3, <1>5

\* Inspecting a return, proposing a disposition, rejecting it.
LEMMA InspectReturnType ==
  ASSUME TypeOK, NEW y \in Returns, NEW passed \in 0 .. returned[y].n, InspectReturn(y, passed)
  PROVE  StockTypeOK' /\ DeliveryTypeOK'
  <1> DEFINE row == [returned[y] EXCEPT !.status = "pending_supply_chain", !.passed = passed]
  <1>1. passed \in Nat /\ passed =< returned[y].n /\ returned[y] \in ReturnRow
    BY ReturnType DEF InspectReturn
  <1>2. row \in ReturnRow /\ row.passed =< row.n
    BY <1>1 DEF ReturnRow, ReturnStatuses
  <1>3. returned' = [returned EXCEPT ![y] = row] /\ UNCHANGED shipment
    BY DEF InspectReturn
  <1> HIDE DEF row
  <1>4. DeliveryTypeOK'
    BY <1>2, <1>3, ReturnWritten
  <1> QED BY <1>4 DEF InspectReturn, TypeOK, StockTypeOK, stockVars

\* A disposition is proposed.
LEMMA ProposeDispositionType ==
  ASSUME TypeOK, NEW y \in Returns, NEW u \in Users, ProposeDisposition(y, u)
  PROVE  StockTypeOK' /\ DeliveryTypeOK'
  <1> DEFINE row == [returned[y] EXCEPT !.by = u]
  <1>1. row \in ReturnRow /\ row.passed =< row.n
    BY ReturnType DEF ProposeDisposition, ReturnRow
  <1>2. returned' = [returned EXCEPT ![y] = row] /\ UNCHANGED shipment
    BY DEF ProposeDisposition
  <1> HIDE DEF row
  <1>3. DeliveryTypeOK'
    BY <1>1, <1>2, ReturnWritten
  <1> QED BY <1>3 DEF ProposeDisposition, TypeOK, StockTypeOK, stockVars

\* It is rejected.
LEMMA RejectDispositionType ==
  ASSUME TypeOK, NEW y \in Returns, NEW u \in Users, RejectDisposition(y, u)
  PROVE  StockTypeOK' /\ DeliveryTypeOK'
  <1> DEFINE row == [returned[y] EXCEPT !.status = "inspection"]
  <1>1. row \in ReturnRow /\ row.passed =< row.n
    BY ReturnType DEF RejectDisposition, ReviewsReturn, ReturnRow, ReturnStatuses
  <1>2. returned' = [returned EXCEPT ![y] = row] /\ UNCHANGED shipment
    BY DEF RejectDisposition
  <1> HIDE DEF row
  <1>3. DeliveryTypeOK'
    BY <1>1, <1>2, ReturnWritten
  <1> QED BY <1>3 DEF RejectDisposition, TypeOK, StockTypeOK, stockVars

\* Restocking takes no more out of quarantine than is there.
LEMMA ApproveDispositionType ==
  ASSUME TypeOK, NEW y \in Returns, NEW u \in Users, ApproveDisposition(y, u)
  PROVE  StockTypeOK' /\ DeliveryTypeOK'
  <1> DEFINE z == returned[y]
             q == [qty[z.batch] EXCEPT !["quarantine"] = @ - z.n,
                                       !["available"]  = @ + z.passed,
                                       !["defective"]  = @ + (z.n - z.passed)]
             row == [returned[y] EXCEPT !.status = "restocked"]
  <1>1. z \in ReturnRow /\ z.passed =< z.n /\ qty[z.batch]["quarantine"] >= z.n
    BY ReturnType DEF ApproveDisposition, ReviewsReturn
  <1>2. z.batch \in BatchIds /\ z.n \in Nat /\ z.passed \in Nat
    BY <1>1 DEF ReturnRow
  <1>3. qty[z.batch] \in [Buckets -> Nat]
    BY <1>2 DEF TypeOK, StockTypeOK
  <1>4. q \in [Buckets -> Nat]
    BY <1>1, <1>2, <1>3 DEF Buckets
  <1>5. qty' = [qty EXCEPT ![z.batch] = q]
    BY DEF ApproveDisposition, Restocked
  <1>6. StockTypeOK'
    BY <1>2, <1>4, <1>5 DEF ApproveDisposition, TypeOK, StockTypeOK
  <1>7. row \in ReturnRow /\ row.passed =< row.n
    BY <1>1 DEF ReturnRow, ReturnStatuses
  <1>8. DeliveryTypeOK'
    BY <1>7, ReturnWritten DEF ApproveDisposition
  <1> QED BY <1>6, <1>8

\* Every delivery command keeps the tables it writes well formed.
LEMMA DeliveryStep ==
  ASSUME TypeOK, DeliveryNext
  PROVE  StockTypeOK' /\ DeliveryTypeOK' /\ UNCHANGED stocktakeVars
  <1>1. UNCHANGED stocktakeVars
    BY DEF DeliveryNext
  <1>2. ASSUME NEW x \in Shipments,
               \/ \E o \in Orders : \E n \in 1 .. MadeAtMost(o) : PlanShipment(x, o, n)
               \/ \E d : Dispatch(x, d)
               \/ \E got \in 0 .. shipment[x].n, damaged \in BOOLEAN :
                     ReceiveShipment(x, got, damaged)
        PROVE  StockTypeOK' /\ DeliveryTypeOK'
    BY <1>2, PlanShipmentType, DispatchType, ReceiveShipmentType
  <1>3. ASSUME NEW x \in Shipments,
               \/ ConfirmShipment(x)
               \/ \E u \in Users : \/ RequestDeviation(x, u)
                                  \/ \E decision \in {"approved_to_ship", "deviation_rejected"} :
                                        DecideDeviation(x, u, decision)
               \/ ResolveException(x)
        PROVE  StockTypeOK' /\ DeliveryTypeOK'
    BY <1>3, ConfirmShipmentType, RequestDeviationType, DecideDeviationType, ResolveExceptionType
  <1>4. ASSUME NEW y \in Returns,
               \E x \in Shipments : \E w \in Warehouses, n \in 1 .. shipment[x].got,
                    b \in BatchIds : ReceiveReturn(y, x, w, n, b)
        PROVE  StockTypeOK' /\ DeliveryTypeOK'
    BY <1>4, ReceiveReturnType
  <1>5. ASSUME NEW y \in Returns,
               \/ \E passed \in 0 .. returned[y].n : InspectReturn(y, passed)
               \/ \E u \in Users : \/ ProposeDisposition(y, u)
                                  \/ ApproveDisposition(y, u)
                                  \/ RejectDisposition(y, u)
        PROVE  StockTypeOK' /\ DeliveryTypeOK'
    BY <1>5, InspectReturnType, ProposeDispositionType, RejectDispositionType, ApproveDispositionType
  <1> QED BY <1>1, <1>2, <1>3, <1>4, <1>5 DEF DeliveryNext

-----------------------------------------------------------------------------
(* The whole inventory *)

\* Production commands write no table of stocktakes.
LEMMA ProductionLeavesStocktakes ==
  ASSUME ProductionNext
  PROVE  UNCHANGED stocktakeVars
  <1>1. \A r, b, for, n, priority : Reserve(r, b, for, n, priority) => UNCHANGED stocktakeVars
    BY DEF Reserve
  <1>2. \A o : \/ \E n : CreateOrder(o, n)
               \/ StartOrder(o)
               \/ ReleaseMaterials(o)
               => UNCHANGED stocktakeVars
    BY DEF CreateOrder, StartOrder, ReleaseMaterials
  <1>3. \A o, m, d : ReportMaterials(o, m, d) \/ Completing(o, m, d) => UNCHANGED stocktakeVars
    BY DEF ReportMaterials, Completing
  <1>4. \A o, u : Reviews(o, u) => UNCHANGED stocktakeVars
    BY DEF Reviews
  <1>5. \A o, u, actual, m, d, b :
          \/ CompleteOrder(o, actual, m, d, b)
          \/ RequestProductionVariance(o, u, actual, m, d)
          => UNCHANGED stocktakeVars
    BY <1>3 DEF CompleteOrder, RequestProductionVariance
  <1>6. \A o, u, b, c : \/ ApproveProduction(o, u, b)
                        \/ RejectOverproduction(o, u, b, c)
                        \/ RejectProduction(o, u)
                        => UNCHANGED stocktakeVars
    BY <1>4 DEF ApproveProduction, RejectOverproduction, RejectProduction
  <1> QED BY <1>1, <1>2, <1>3, <1>5, <1>6 DEF ProductionNext

\* What a review of an overproduction relies on, besides the types.
TypeInv == TypeOK /\ OverIsOver

\* The tables are empty at first.
LEMMA TypeInit ==
  ASSUME Init
  PROVE  TypeInv
  <1>1. StockTypeOK
    BY FoundedAssumption DEF Init, StockInit, StockTypeOK
  <1>2. StocktakeTypeOK
    BY DEF Init, StocktakeInit, StocktakeTypeOK, NoTask, NoAdj, NoRow, Statuses
  <1>3. WarehousingTypeOK
    BY FoundedAssumption DEF Init, WarehousingInit, WarehousingTypeOK
  <1>4. ProductionTypeOK
    BY DEF Init, ProductionInit, ProductionTypeOK, NoOrder, NoLine
  <1>5. DeliveryTypeOK
    BY DEF Init, DeliveryInit, DeliveryTypeOK, NoReturn
  <1> QED BY <1>1, <1>2, <1>3, <1>4, <1>5, OverInit DEF TypeInv, TypeOK

\* Every command preserves the types: its own tables by the lemmas above, the
\* others because it does not write them.
LEMMA TypeStep ==
  ASSUME TypeInv, [Next]_vars
  PROVE  TypeInv'
  <1> USE DEF TypeInv, TypeOK
  <1>1. UNCHANGED warehousingVars => WarehousingTypeOK'
    BY DEF WarehousingTypeOK, warehousingVars, siteVars
  <1>2. UNCHANGED productionVars => ProductionTypeOK' /\ OverIsOver'
    BY DEF ProductionTypeOK, OverIsOver, productionVars
  <1>3. UNCHANGED deliveryVars => DeliveryTypeOK'
    BY DEF DeliveryTypeOK, deliveryVars
  <1>4. UNCHANGED stocktakeVars => StocktakeTypeOK'
    BY DEF StocktakeTypeOK, stocktakeVars
  <1>5. CASE StocktakeNext /\ UNCHANGED <<warehousingVars, productionVars, deliveryVars>>
    BY <1>1, <1>2, <1>3, <1>5, StocktakeStep, StocktakeStock
  <1>6. CASE WarehousingNext /\ UNCHANGED <<productionVars, deliveryVars>>
    <2>1. UNCHANGED stocktakeVars
      BY <1>6 DEF WarehousingNext, ReceivePurchase, InspectBatch, RequestTransfer, ReviewTransfer,
                  ShipTransfer, ReceiveTransfer, Deactivate, CreateWarehouse, RequestMerge,
                  DecidesMerge, ApproveMerge, RejectMerge
    <2> QED BY <1>2, <1>3, <1>4, <1>6, <2>1, WarehousingStep
  <1>7. CASE ProductionNext /\ UNCHANGED <<warehousingVars, deliveryVars>>
    <2>1. UNCHANGED stocktakeVars
      BY <1>7, ProductionLeavesStocktakes
    <2> QED BY <1>1, <1>3, <1>4, <1>7, <2>1, ProductionStep, OverProduction
  <1>8. CASE DeliveryNext /\ UNCHANGED <<warehousingVars, productionVars>>
    BY <1>1, <1>2, <1>4, <1>8, DeliveryStep
  <1>9. CASE UNCHANGED vars
    BY <1>1, <1>2, <1>3, <1>4, <1>9 DEF vars, stockVars, StockTypeOK
  <1> QED BY <1>5, <1>6, <1>7, <1>8, <1>9 DEF Next

\* The strengthened invariant holds throughout.
LEMMA TypeInvariant == Spec => []TypeInv
  BY TypeInit, TypeStep, PTL DEF Spec

\* No command ever leaves a quantity negative, or a row of any table outside
\* the values its columns and status transitions allow.
THEOREM TypeCorrect == Spec => []TypeOK
  <1>1. TypeInv => TypeOK
    BY DEF TypeInv
  <1> QED BY <1>1, TypeInvariant, PTL

-----------------------------------------------------------------------------
(* Freezes of stocktakes *)

\* A batch under an open stocktake lies in the stocktake's warehouse.
Placed == \A t \in Stocktakes : IsOpen(t) =>
            \A b \in Targets(t) : lot[b] # NoLot /\ lot[b].wh = task[t].wh

\* Adjustments are pending only while their stocktake awaits approval, and
\* only for batches it snapshotted.
AdjustmentsPlaced ==
  \A t \in Stocktakes, b \in BatchIds, k \in Counted :
    adj[t][b][k].decision = "pending" => task[t].status = "pending_approval" /\ b \in Targets(t)

FreezeInv == /\ TypeOK
             /\ OneOpenStocktake
             /\ SnapshotCurrent
             /\ Placed
             /\ AdjustmentsPlaced

\* The batch of a return lies where the return was received, and is of the
\* SKU that is shipped: its freeze is the one its restocking looks up.
ReturnsPlaced ==
  \A y \in Returns : returned[y].status # "none" =>
    LET b == returned[y].batch
    IN /\ b \in BatchIds
       /\ lot[b] # NoLot
       /\ lot[b].wh = returned[y].wh
       /\ lot[b].sku = Finished

\* The action of FrozenStockUntouched.
Untouched ==
  \A t \in Stocktakes, w \in Warehouses, s \in Skus :
    Freezes(t, w, s) /\ IsOpen(t)'
    => RowsOf(w, s)' = RowsOf(w, s) /\ \A b \in RowsOf(w, s) : qty'[b] = qty[b]

\* A command writes no batch that is frozen, and adds none where it would be.
RespectsFreeze ==
  /\ UNCHANGED <<task, count, adj>>
  /\ \A b \in BatchIds :
       \/ lot'[b] = lot[b] /\ qty'[b] = qty[b]
       \/ lot'[b] = lot[b] /\ ~Frozen(lot[b].wh, lot[b].sku)
       \/ lot[b] = NoLot /\ lot'[b] # NoLot /\ ~Frozen(lot'[b].wh, lot'[b].sku)

-----------------------------------------------------------------------------
\* A batch under an open stocktake is frozen.
LEMMA TargetFrozen ==
  ASSUME FreezeInv, NEW t \in Stocktakes, IsOpen(t), NEW b \in Targets(t)
  PROVE  Frozen(lot[b].wh, lot[b].sku)
  BY DEF FreezeInv, Placed, Frozen, Freezes

\* A command that respects the freezes preserves the invariant.
LEMMA RespectfulInv ==
  ASSUME FreezeInv, TypeOK', RespectsFreeze
  PROVE  FreezeInv'
  <1>1. UNCHANGED <<task, count, adj>>
    BY DEF RespectsFreeze
  <1>2. /\ \A t \in Stocktakes : IsOpen(t)' = IsOpen(t) /\ Targets(t)' = Targets(t)
        /\ \A t \in Stocktakes : Targets(t) \subseteq BatchIds
    BY <1>1 DEF IsOpen, Targets
  <1>3. OneOpenStocktake'
    BY <1>1, <1>2 DEF FreezeInv, OneOpenStocktake
  <1>4. ASSUME NEW t \in Stocktakes, IsOpen(t), NEW b \in Targets(t)
        PROVE  lot'[b] = lot[b] /\ qty'[b] = qty[b]
    <2>1. Frozen(lot[b].wh, lot[b].sku) /\ lot[b] # NoLot
      BY <1>4, TargetFrozen DEF FreezeInv, Placed
    <2> QED BY <1>2, <2>1 DEF RespectsFreeze
  <1>5. SnapshotCurrent'
    BY <1>1, <1>2, <1>4 DEF FreezeInv, SnapshotCurrent
  <1>6. Placed'
    BY <1>1, <1>2, <1>4 DEF FreezeInv, Placed
  <1>7. AdjustmentsPlaced'
    BY <1>1, <1>2 DEF FreezeInv, AdjustmentsPlaced
  <1> QED BY <1>3, <1>5, <1>6, <1>7 DEF FreezeInv

\* ... and leaves frozen stock alone.
LEMMA RespectfulUntouched ==
  ASSUME FreezeInv, TypeOK', RespectsFreeze
  PROVE  Untouched
  <1> SUFFICES ASSUME NEW t \in Stocktakes, NEW w \in Warehouses, NEW s \in Skus, Freezes(t, w, s)
               PROVE  RowsOf(w, s)' = RowsOf(w, s) /\ \A b \in RowsOf(w, s) : qty'[b] = qty[b]
    BY DEF Untouched
  <1>1. Frozen(w, s)
    BY DEF Frozen
  <1>2. ASSUME NEW b \in BatchIds, b \in RowsOf(w, s) \/ b \in RowsOf(w, s)'
        PROVE  lot'[b] = lot[b] /\ qty'[b] = qty[b]
    BY <1>1, <1>2 DEF RespectsFreeze, RowsOf, Rows
  <1>3. RowsOf(w, s) \subseteq BatchIds /\ RowsOf(w, s)' \subseteq BatchIds
    BY DEF RowsOf, Rows
  <1>4. \A b \in BatchIds : b \in RowsOf(w, s) <=> b \in RowsOf(w, s)'
    BY <1>2 DEF RowsOf, Rows
  <1> QED BY <1>2, <1>3, <1>4

-----------------------------------------------------------------------------
(* Every command of warehousing and production respects the freezes *)

\* The next batch id is not in use, and a new batch is a row.
LEMMA NextIsFree ==
  ASSUME NEW b, IsNextBatch(b)
  PROVE  b \in BatchIds /\ lot[b] = NoLot
  BY DEF IsNextBatch, Rows

\* A batch that came to be somehow is a row, where and of what it was inserted.
LEMMA NewLotIsRow ==
  ASSUME NEW w, NEW s, NEW o, NEW c, c # "none"
  PROVE  /\ NewLot(w, s, o, c) # NoLot
         /\ NewLot(w, s, o, c).wh = w
         /\ NewLot(w, s, o, c).sku = s
  BY DEF NewLot, NoLot

\* Inserting one batch where nothing is frozen respects the freezes.
LEMMA InsertRespects ==
  ASSUME TypeOK, NEW b, IsNextBatch(b), NEW w, NEW s, NEW o, NEW c \in Sources,
         ~Frozen(w, s), lot' = [lot EXCEPT ![b] = NewLot(w, s, o, c)],
         NEW q, qty' = [qty EXCEPT ![b] = q], UNCHANGED stocktakeVars
  PROVE  RespectsFreeze
  <1>1. NewLot(w, s, o, c) # NoLot /\ NewLot(w, s, o, c).wh = w /\ NewLot(w, s, o, c).sku = s
    BY NewLotIsRow DEF Sources
  <1>2. b \in BatchIds /\ lot[b] = NoLot
    BY NextIsFree
  <1>3. lot'[b] = NewLot(w, s, o, c)
    BY <1>2 DEF TypeOK, StockTypeOK
  <1>4. \A x \in BatchIds : x # b => lot'[x] = lot[x] /\ qty'[x] = qty[x]
    BY DEF TypeOK, StockTypeOK
  <1> QED BY <1>1, <1>2, <1>3, <1>4 DEF RespectsFreeze, stocktakeVars

\* A command that writes no stock table and no stocktake.
LEMMA IdleRespects ==
  ASSUME UNCHANGED stockVars, UNCHANGED stocktakeVars
  PROVE  RespectsFreeze
  BY DEF RespectsFreeze, stockVars, stocktakeVars

\* Receipts, inspections, transfers and deactivation look the freeze up for the
\* very warehouse and SKU they write.
LEMMA WarehousingRespects ==
  ASSUME FreezeInv, WarehousingNext
  PROVE  RespectsFreeze
  <1> USE DEF FreezeInv
  <1>1. ASSUME NEW i \in Items, NEW b \in BatchIds, ReceivePurchase(i, b)
        PROVE  RespectsFreeze
    BY <1>1, InsertRespects DEF ReceivePurchase, Sources
  <1>2. ASSUME NEW b \in BatchIds, NEW bucket, InspectBatch(b, bucket)
        PROVE  RespectsFreeze
    <2>1. \A x \in BatchIds : x # b => qty'[x] = qty[x]
      BY <1>2 DEF InspectBatch, Moved, TypeOK, StockTypeOK
    <2> QED BY <1>2, <2>1 DEF InspectBatch, RespectsFreeze, stocktakeVars
  <1>3. ASSUME NEW x \in Transfers, NEW d, ShipTransfer(x, d)
        PROVE  RespectsFreeze
    <2> DEFINE source == Shippable(transfer[x].from, transfer[x].sku)
    <2>1. \A b \in source : ~Frozen(lot[b].wh, lot[b].sku)
      BY <1>3 DEF ShipTransfer, Shippable, RowsOf
    <2>2. \A b \in BatchIds : b \notin source => qty'[b] = qty[b]
      BY <1>3 DEF ShipTransfer
    <2> QED BY <1>3, <2>1, <2>2 DEF ShipTransfer, RespectsFreeze, stocktakeVars
  <1>4. ASSUME NEW x \in Transfers, NEW b \in BatchIds, ReceiveTransfer(x, b)
        PROVE  RespectsFreeze
    BY <1>4, InsertRespects DEF ReceiveTransfer, CanReceive, Sources
  <1>5. \A x, u, v, w, s, n : RequestTransfer(x, u, v, w, s, n) => RespectsFreeze
    BY IdleRespects DEF RequestTransfer
  <1>6. \A x, u, decision : ReviewTransfer(x, u, decision) => RespectsFreeze
    BY IdleRespects DEF ReviewTransfer
  <1>7. \A w : Deactivate(w) => RespectsFreeze
    BY DEF Deactivate, RespectsFreeze, stocktakeVars
  <1>8. \A w : CreateWarehouse(w) => RespectsFreeze
    BY DEF CreateWarehouse, RespectsFreeze, stocktakeVars
  <1>9. \A m, u, v, w : RequestMerge(m, u, v, w) => RespectsFreeze
    BY IdleRespects DEF RequestMerge
  <1>10. \A m, u : ApproveMerge(m, u) \/ RejectMerge(m, u) => RespectsFreeze
    BY DEF ApproveMerge, RejectMerge, DecidesMerge, RespectsFreeze, stocktakeVars
  <1> QED BY <1>1, <1>2, <1>3, <1>4, <1>5, <1>6, <1>7, <1>8, <1>9, <1>10 DEF WarehousingNext

\* Consumption takes from batches whose freeze was consulted.
LEMMA UseRespects ==
  ASSUME NEW o, NEW m, NEW d, Uses(o, m, d), NEW b \in Used(d)
  PROVE  ~Frozen(lot[b].wh, lot[b].sku)
  <1>1. PICK r \in DOMAIN d : d[r] > 0 /\ reservation[r].batch = b
    BY DEF Used, Batches
  <1>2. r \in MaterialPool(o)
    BY DEF Uses
  <1>3. m # NoReport
    BY <1>1, <1>2 DEF Uses
  <1> QED BY <1>1, <1>2, <1>3 DEF Uses, CanReport, PoolFrozen

\* Consumption writes only the batches it takes from.
LEMMA AfterUseElsewhere ==
  ASSUME NEW d, NEW b \in BatchIds, b \notin Used(d)
  PROVE  AfterUse(d)[b] = qty[b]
  BY DEF AfterUse

\* So do reservation, release, consumption, completion and its review; one
\* freeze lookup per batch reserved from, not one for the order.
LEMMA ProductionRespects ==
  ASSUME FreezeInv, ProductionNext
  PROVE  RespectsFreeze
  <1> USE DEF FreezeInv
  <1>0. UNCHANGED stocktakeVars
    BY ProductionLeavesStocktakes
  <1>1. ASSUME NEW r, NEW b, NEW for, NEW n, NEW priority, Reserve(r, b, for, n, priority)
        PROVE  RespectsFreeze
    <2>1. \A x \in BatchIds : x # b => qty'[x] = qty[x]
      BY <1>1 DEF Reserve, Moved, TypeOK, StockTypeOK
    <2> QED BY <1>0, <1>1, <2>1 DEF Reserve, RespectsFreeze, stocktakeVars
  <1>2. \A o : (\E n : CreateOrder(o, n)) \/ StartOrder(o) => RespectsFreeze
    BY <1>0, IdleRespects DEF CreateOrder, StartOrder
  <1>3. ASSUME NEW o \in Orders, ReleaseMaterials(o)
        PROVE  RespectsFreeze
    <2> DEFINE released == {r \in Pool(o) : reservation[r].left > 0}
    <2>1. \A b \in Batches(released) : ~Frozen(lot[b].wh, lot[b].sku)
      BY <1>3 DEF ReleaseMaterials, Batches, PoolFrozen
    <2>2. \A b \in BatchIds : b \notin Batches(released) => qty'[b] = qty[b]
      BY <1>3 DEF ReleaseMaterials
    <2>3. lot' = lot
      BY <1>3 DEF ReleaseMaterials
    <2> HIDE DEF released
    <2> QED BY <1>0, <2>1, <2>2, <2>3 DEF RespectsFreeze, stocktakeVars
  <1>4. ASSUME NEW o \in Orders, NEW m, NEW d,
               ReportMaterials(o, m, d) \/ \E u, actual : RequestProductionVariance(o, u, actual, m, d)
        PROVE  RespectsFreeze
    <2>1. Uses(o, m, d) /\ lot' = lot /\ qty' = AfterUse(d)
      BY <1>4 DEF ReportMaterials, RequestProductionVariance, Completing
    <2> QED BY <1>0, <2>1, UseRespects, AfterUseElsewhere DEF RespectsFreeze, stocktakeVars
  <1>5. ASSUME NEW o \in Orders, NEW m, NEW d, NEW actual, NEW b, CompleteOrder(o, actual, m, d, b)
        PROVE  RespectsFreeze
    <2> DEFINE l == NewLot(FactorySite, Finished, "company", "production")
    <2>1. Uses(o, m, d) /\ ~Frozen(FactorySite, Finished) /\ IsNextBatch(b)
      BY <1>5 DEF CompleteOrder, Completing, SiteUsable
    <2>2. b \in BatchIds /\ lot[b] = NoLot
      BY <2>1, NextIsFree
    <2>3. l # NoLot /\ l.wh = FactorySite /\ l.sku = Finished
      BY NewLotIsRow
    <2>4. lot'[b] = l
      BY <1>5, <2>2 DEF CompleteOrder, TypeOK, StockTypeOK
    <2>5. \A x \in BatchIds : x # b => lot'[x] = lot[x] /\ qty'[x] = AfterUse(d)[x]
      BY <1>5 DEF CompleteOrder, TypeOK, StockTypeOK, AfterUse
    <2> HIDE DEF l
    <2> QED BY <1>0, <2>1, <2>2, <2>3, <2>4, <2>5, UseRespects, AfterUseElsewhere
            DEF RespectsFreeze, stocktakeVars
  <1>6. ASSUME NEW o \in Orders, NEW u, NEW b, ApproveProduction(o, u, b)
        PROVE  RespectsFreeze
    <2>1. CASE order[o].actual > 0
      BY <1>0, <1>6, <2>1, InsertRespects DEF ApproveProduction, SiteUsable, Sources
    <2>2. CASE ~(order[o].actual > 0)
      BY <1>0, <1>6, <2>2 DEF ApproveProduction, RespectsFreeze, stocktakeVars
    <2> QED BY <2>1, <2>2
  <1>7. ASSUME NEW o \in Orders, NEW u, NEW b \in BatchIds, NEW c \in BatchIds,
               RejectOverproduction(o, u, b, c)
        PROVE  RespectsFreeze
    <2> DEFINE l1 == NewLot(FactorySite, Finished, "company", "variance")
               l2 == NewLot(FactorySite, Finished, "factory", "variance")
    <2>1. ~Frozen(FactorySite, Finished) /\ lot[b] = NoLot /\ lot[c] = NoLot /\ b # c
      BY <1>7, NextIsFree, BatchIdsAssumption DEF RejectOverproduction, SiteUsable, Rows
    <2>2. /\ l1 # NoLot /\ l1.wh = FactorySite /\ l1.sku = Finished
          /\ l2 # NoLot /\ l2.wh = FactorySite /\ l2.sku = Finished
      BY NewLotIsRow
    <2> HIDE DEF l1, l2
    <2>3. lot' = [lot EXCEPT ![b] = l1, ![c] = l2]
      BY <1>7 DEF RejectOverproduction, l1, l2
    <2>4. /\ lot'[b] = l1 /\ lot'[c] = l2
          /\ \A x \in BatchIds : x \notin {b, c} => lot'[x] = lot[x]
      BY <2>1, <2>3 DEF TypeOK, StockTypeOK
    <2>5. \A x \in BatchIds : x \notin {b, c} => qty'[x] = qty[x]
      BY <1>7 DEF RejectOverproduction, TypeOK, StockTypeOK
    <2> QED BY <1>0, <2>1, <2>2, <2>4, <2>5 DEF RespectsFreeze, stocktakeVars
  <1>8. \A o, u : RejectProduction(o, u) => RespectsFreeze
    BY <1>0 DEF RejectProduction, RespectsFreeze, stocktakeVars
  <1> QED BY <1>1, <1>2, <1>3, <1>4, <1>5, <1>6, <1>7, <1>8 DEF ProductionNext

\* Dispatch consults the freeze of the factory's warehouse, the receipt and the
\* restocking of a return that of the return's.
LEMMA DeliveryRespects ==
  ASSUME FreezeInv, ReturnsPlaced, DeliveryNext
  PROVE  RespectsFreeze
  <1> USE DEF FreezeInv
  <1>0. UNCHANGED stocktakeVars
    BY DEF DeliveryNext
  <1>1. \A x, o, n : PlanShipment(x, o, n) => RespectsFreeze
    BY <1>0, IdleRespects DEF PlanShipment
  <1>2. \A x, u, decision : \/ ConfirmShipment(x)
                            \/ RequestDeviation(x, u)
                            \/ DecideDeviation(x, u, decision)
                            \/ ResolveException(x)
                            => RespectsFreeze
    BY <1>0, IdleRespects DEF ConfirmShipment, RequestDeviation, DecideDeviation, ResolveException
  <1>3. ASSUME NEW x \in Shipments, NEW d, Dispatch(x, d)
        PROVE  RespectsFreeze
    <2> DEFINE source == Shippable(FactorySite, Finished)
    <2>1. \A b \in source : ~Frozen(lot[b].wh, lot[b].sku)
      BY <1>3 DEF Dispatch, CanDispatch, SiteUsable, Shippable, RowsOf
    <2>2. \A b \in BatchIds : b \notin source => qty'[b] = qty[b]
      BY <1>3 DEF Dispatch
    <2>3. lot' = lot
      BY <1>3 DEF Dispatch
    <2> HIDE DEF source
    <2> QED BY <1>0, <2>1, <2>2, <2>3 DEF RespectsFreeze, stocktakeVars
  <1>4. \A x, got, damaged : ReceiveShipment(x, got, damaged) => RespectsFreeze
    BY <1>0, IdleRespects DEF ReceiveShipment
  <1>5. ASSUME NEW y \in Returns, NEW x \in Shipments, NEW w, NEW n, NEW b, ReceiveReturn(y, x, w, n, b)
        PROVE  RespectsFreeze
    BY <1>0, <1>5, InsertRespects DEF ReceiveReturn, Sources
  <1>6. \A y, u, passed : \/ InspectReturn(y, passed)
                          \/ ProposeDisposition(y, u)
                          \/ RejectDisposition(y, u)
                          => RespectsFreeze
    BY <1>0, IdleRespects DEF InspectReturn, ProposeDisposition, RejectDisposition
  <1>7. ASSUME NEW y \in Returns, NEW u, ApproveDisposition(y, u)
        PROVE  RespectsFreeze
    <2> DEFINE b == returned[y].batch
    <2>1. ~Frozen(lot[b].wh, lot[b].sku)
      <3>1. returned[y].status # "none" /\ ~Frozen(returned[y].wh, Finished)
        BY <1>7 DEF ApproveDisposition, ReviewsReturn
      <3> QED BY <3>1 DEF ReturnsPlaced
    <2>2. \A x \in BatchIds : x # b => qty'[x] = qty[x]
      BY <1>7 DEF ApproveDisposition, Restocked, TypeOK, StockTypeOK
    <2>3. lot' = lot
      BY <1>7 DEF ApproveDisposition
    <2> HIDE DEF b
    <2> QED BY <1>0, <2>1, <2>2, <2>3 DEF RespectsFreeze, stocktakeVars
  <1> QED BY <1>1, <1>2, <1>3, <1>4, <1>5, <1>6, <1>7 DEF DeliveryNext

-----------------------------------------------------------------------------
(* Stocktake commands *)

\* Opening: no other stocktake of the warehouse is open, and the snapshot is
\* what the batches hold.
LEMMA OpenPreserves ==
  ASSUME FreezeInv, TypeOK', NEW t \in Stocktakes, NEW u \in Users, NEW w \in Warehouses,
         NEW scope, NEW sample, OpenStocktake(t, u, w, scope, sample)
  PROVE  FreezeInv' /\ Untouched
  <1> USE DEF FreezeInv
  <1> DEFINE targets == Sampled(w, scope, sample)
             snapshot == [b \in BatchIds |->
                            IF b \in targets
                            THEN [q |-> [k \in Counted |-> qty[b][k]], by |-> u]
                            ELSE NoRow]
  <1>1. UNCHANGED <<lot, qty, ledger, active, adj>>
    BY DEF OpenStocktake, stockVars
  <1>2. /\ task'[t].status = "first_count" /\ task'[t].wh = w
        /\ \A x \in Stocktakes : x # t => task'[x] = task[x]
    BY DEF OpenStocktake, TypeOK, StocktakeTypeOK
  <1>3. /\ \A b \in BatchIds : count'[t][0][b] = snapshot[b]
        /\ \A x \in Stocktakes : x # t => count'[x] = count[x]
    BY DEF OpenStocktake, TypeOK, StocktakeTypeOK, Rounds
  <1>4. \A x \in Stocktakes : x # t => IsOpen(x)' = IsOpen(x) /\ Targets(x)' = Targets(x)
    BY <1>2, <1>3 DEF IsOpen, Targets
  <1>5. ASSUME NEW b \in Targets(t)'
        PROVE  b \in targets /\ \A k \in Counted : count'[t][0][b].q[k] = qty[b][k]
    <2>1. b \in BatchIds /\ count'[t][0][b] # NoRow
      BY DEF Targets
    <2>2. count'[t][0][b] = snapshot[b]
      BY <1>3, <2>1
    <2>3. b \in targets
      BY <2>1, <2>2
    <2>4. count'[t][0][b].q = [k \in Counted |-> qty[b][k]]
      BY <2>1, <2>2, <2>3
    <2> QED BY <2>3, <2>4
  <1>6. ~IsOpen(t)
    BY DEF OpenStocktake, IsOpen, Open
  <1>7. OneOpenStocktake'
    <2>1. \A x \in Stocktakes : IsOpen(x) => task[x].wh # w
      BY DEF OpenStocktake, NoOpenStocktake
    <2> QED BY <1>2, <1>4, <2>1 DEF OneOpenStocktake
  <1>8. SnapshotCurrent'
    <2>1. \A b \in Targets(t)' : \A k \in Counted : qty'[b][k] = count'[t][0][b].q[k]
      BY <1>1, <1>5
    <2>2. ASSUME NEW x \in Stocktakes, x # t, IsOpen(x)', NEW b \in Targets(x)', NEW k \in Counted
          PROVE  qty'[b][k] = count'[x][0][b].q[k]
      BY <1>1, <1>3, <1>4, <2>2 DEF SnapshotCurrent
    <2> QED BY <2>1, <2>2 DEF SnapshotCurrent
  <1>9. Placed'
    <2>1. \A b \in targets : lot[b] # NoLot /\ lot[b].wh = w
      BY DEF Sampled, Rows
    <2> QED BY <1>1, <1>2, <1>4, <1>5, <2>1 DEF Placed
  <1>10. AdjustmentsPlaced'
    <2>1. \A b \in BatchIds, k \in Counted : adj[t][b][k].decision # "pending"
      BY DEF OpenStocktake, AdjustmentsPlaced
    <2>2. \A x \in Stocktakes : x # t => task'[x].status = task[x].status
      BY <1>2
    <2> QED BY <1>1, <1>4, <2>1, <2>2 DEF AdjustmentsPlaced
  <1>11. Untouched
    BY <1>1 DEF Untouched, RowsOf, Rows
  <1> QED BY <1>7, <1>8, <1>9, <1>10, <1>11

\* Counting a batch writes rounds one and two, never the snapshot.
LEMMA SubmitPreserves ==
  ASSUME FreezeInv, TypeOK', NEW t \in Stocktakes, NEW u, NEW b, NEW q, SubmitCount(t, u, b, q)
  PROVE  FreezeInv' /\ Untouched
  <1> USE DEF FreezeInv
  <1>1. UNCHANGED <<lot, qty, ledger, active, task, adj>>
    BY DEF SubmitCount, stockVars
  <1>2. \A x \in Stocktakes : count'[x][0] = count[x][0]
    BY DEF SubmitCount, Round, TypeOK, StocktakeTypeOK, Rounds
  <1>3. \A x \in Stocktakes : IsOpen(x)' = IsOpen(x) /\ Targets(x)' = Targets(x)
    BY <1>1, <1>2 DEF IsOpen, Targets
  <1>4. OneOpenStocktake' /\ Placed' /\ AdjustmentsPlaced'
    BY <1>1, <1>3 DEF OneOpenStocktake, Placed, AdjustmentsPlaced
  <1>5. SnapshotCurrent'
    BY <1>1, <1>2, <1>3 DEF SnapshotCurrent
  <1>6. Untouched
    BY <1>1 DEF Untouched, RowsOf, Rows
  <1> QED BY <1>4, <1>5, <1>6

\* Moving a stocktake to another open status, or completing it with nothing
\* pending, frees or freezes nothing else.
LEMMA StatusPreserves ==
  ASSUME FreezeInv, TypeOK', UNCHANGED <<lot, qty, active, count>>, NEW t \in Stocktakes, IsOpen(t),
         task'[t].wh = task[t].wh, task'[t].scope = task[t].scope,
         \A x \in Stocktakes : x # t => task'[x] = task[x],
         AdjustmentsPlaced'
  PROVE  FreezeInv' /\ Untouched
  <1> USE DEF FreezeInv
  <1>1. \A x \in Stocktakes : /\ IsOpen(x)' => IsOpen(x)
                              /\ Targets(x)' = Targets(x)
                              /\ task'[x].wh = task[x].wh
    BY DEF IsOpen, Targets
  <1>2. OneOpenStocktake' /\ SnapshotCurrent' /\ Placed'
    BY <1>1 DEF OneOpenStocktake, SnapshotCurrent, Placed
  <1>3. Untouched
    BY DEF Untouched, RowsOf, Rows
  <1> QED BY <1>2, <1>3

\* Finishing a round with a recount, or with nothing to correct.
LEMMA FinishPreserves ==
  ASSUME FreezeInv, TypeOK', NEW t \in Stocktakes, NEW u,
         RequireRecount(t, u) \/ CompleteStocktake(t, u)
  PROVE  FreezeInv' /\ Untouched
  <1> USE DEF FreezeInv
  <1>1. UNCHANGED <<lot, qty, active, count, adj>>
    BY DEF RequireRecount, CompleteStocktake, stockVars
  <1>2. task[t].status \in {"first_count", "recount"}
    BY DEF RequireRecount, CompleteStocktake, CanFinish
  <1>3. /\ task'[t].wh = task[t].wh /\ task'[t].scope = task[t].scope
        /\ \A x \in Stocktakes : x # t => task'[x] = task[x]
    BY DEF RequireRecount, CompleteStocktake, TypeOK, StocktakeTypeOK
  <1>4. \A x \in Stocktakes : Targets(x)' = Targets(x)
    BY <1>1 DEF Targets
  <1>5. AdjustmentsPlaced'
    BY <1>1, <1>2, <1>3, <1>4 DEF AdjustmentsPlaced
  <1> QED BY <1>1, <1>2, <1>3, <1>5, StatusPreserves DEF IsOpen, Open

\* Putting variances to a reviewer makes adjustments of snapshotted batches only.
LEMMA RequestPreserves ==
  ASSUME FreezeInv, TypeOK', NEW t \in Stocktakes, NEW u, RequestVarianceApproval(t, u)
  PROVE  FreezeInv' /\ Untouched
  <1> USE DEF FreezeInv
  <1>1. UNCHANGED <<lot, qty, active, count>>
    BY DEF RequestVarianceApproval, stockVars
  <1>2. task[t].status \in {"first_count", "recount"}
    BY DEF RequestVarianceApproval, CanFinish
  <1>3. /\ task'[t].wh = task[t].wh /\ task'[t].scope = task[t].scope
        /\ task'[t].status = "pending_approval"
        /\ \A x \in Stocktakes : x # t => task'[x] = task[x]
    BY DEF RequestVarianceApproval, TypeOK, StocktakeTypeOK
  <1>4. \A x \in Stocktakes : Targets(x)' = Targets(x)
    BY <1>1 DEF Targets
  <1>5. ASSUME NEW b \in BatchIds, NEW k \in Counted, adj'[t][b][k].decision = "pending"
        PROVE  b \in Targets(t)
    <2>1. adj'[t][b][k] = IF b \in Targets(t) /\ k \in Differs(t, 2, b)
                          THEN [decision |-> "pending", counted |-> count[t][2][b].q[k]]
                          ELSE adj[t][b][k]
      BY DEF RequestVarianceApproval, TypeOK, StocktakeTypeOK
    <2> QED BY <1>5, <2>1 DEF AdjustmentsPlaced
  <1>6. \A x \in Stocktakes : x # t => adj'[x] = adj[x]
    BY DEF RequestVarianceApproval, TypeOK, StocktakeTypeOK
  <1>7. AdjustmentsPlaced'
    BY <1>3, <1>4, <1>5, <1>6 DEF AdjustmentsPlaced
  <1> QED BY <1>1, <1>2, <1>3, <1>7, StatusPreserves DEF IsOpen, Open

\* Once decided, nothing of the stocktake is pending.
LEMMA DecidedPlaced ==
  ASSUME FreezeInv, NEW t \in Stocktakes, NEW decision \in {"approved", "rejected"},
         adj' = Decided(t, decision), UNCHANGED count,
         \A x \in Stocktakes : x # t => task'[x] = task[x]
  PROVE  AdjustmentsPlaced'
  <1>1. \A b \in BatchIds, k \in Counted : adj'[t][b][k].decision # "pending"
    <2> SUFFICES ASSUME NEW b \in BatchIds, NEW k \in Counted
                 PROVE  adj'[t][b][k].decision # "pending"
      OBVIOUS
    <2>1. adj'[t][b][k] = IF adj[t][b][k].decision = "pending"
                          THEN [adj[t][b][k] EXCEPT !.decision = decision]
                          ELSE adj[t][b][k]
      BY DEF Decided, FreezeInv, TypeOK, StocktakeTypeOK
    <2>2. adj[t][b][k] \in [decision: {"none", "pending", "approved", "rejected"}, counted: Nat]
      BY DEF FreezeInv, TypeOK, StocktakeTypeOK
    <2> QED BY <2>1, <2>2
  <1>2. \A x \in Stocktakes : x # t => adj'[x] = adj[x]
    BY DEF Decided, FreezeInv, TypeOK, StocktakeTypeOK
  <1>3. \A x \in Stocktakes : Targets(x)' = Targets(x)
    BY DEF Targets
  <1> QED BY <1>1, <1>2, <1>3 DEF FreezeInv, AdjustmentsPlaced

\* A rejection reopens the recount and leaves stock alone.
LEMMA RejectPreserves ==
  ASSUME FreezeInv, TypeOK', NEW t \in Stocktakes, NEW u, RejectVariance(t, u)
  PROVE  FreezeInv' /\ Untouched
  <1>1. UNCHANGED <<lot, qty, active, count>> /\ task[t].status = "pending_approval"
    BY DEF RejectVariance, stockVars
  <1>2. /\ task'[t].wh = task[t].wh /\ task'[t].scope = task[t].scope
        /\ \A x \in Stocktakes : x # t => task'[x] = task[x]
    BY DEF RejectVariance, FreezeInv, TypeOK, StocktakeTypeOK
  <1>3. AdjustmentsPlaced'
    BY <1>2, DecidedPlaced DEF RejectVariance
  <1> QED BY <1>1, <1>2, <1>3, StatusPreserves DEF IsOpen, Open

\* Approving: the batches written are the stocktake's own, so they are under
\* no other open stocktake, and this one ends.
LEMMA ApprovePreserves ==
  ASSUME FreezeInv, TypeOK', NEW t \in Stocktakes, NEW u, ApproveVariance(t, u)
  PROVE  FreezeInv' /\ Untouched
  <1> USE DEF FreezeInv
  <1>1. UNCHANGED <<lot, active, count>> /\ task[t].status = "pending_approval"
    BY DEF ApproveVariance
  <1>2. /\ task'[t].status = "completed"
        /\ \A x \in Stocktakes : x # t => task'[x] = task[x]
    BY DEF ApproveVariance, TypeOK, StocktakeTypeOK
  <1>3. AdjustmentsPlaced'
    BY <1>1, <1>2, DecidedPlaced DEF ApproveVariance
  <1>4. IsOpen(t) /\ ~IsOpen(t)'
    BY <1>1, <1>2 DEF IsOpen, Open
  <1>5. \A x \in Stocktakes : x # t => IsOpen(x)' = IsOpen(x)
    BY <1>2 DEF IsOpen
  <1>6. \A x \in Stocktakes : Targets(x)' = Targets(x)
    BY <1>1 DEF Targets
  <1>7. ASSUME NEW b \in BatchIds, lot[b].wh # task[t].wh
        PROVE  qty'[b] = qty[b]
    <2>1. b \notin Targets(t)
      BY <1>4, <1>7 DEF Placed
    <2>2. \A k \in Counted : adj[t][b][k].decision # "pending"
      BY <2>1 DEF AdjustmentsPlaced
    <2>3. \A k \in Buckets : qty'[b][k] = qty[b][k]
      BY <2>2 DEF ApproveVariance, Adjusted
    <2> QED BY <2>3 DEF TypeOK, StockTypeOK
  <1>8. \A x \in Stocktakes : x # t /\ IsOpen(x) => task[x].wh # task[t].wh
    BY <1>4 DEF OneOpenStocktake
  <1>9. OneOpenStocktake'
    BY <1>2, <1>4, <1>5 DEF OneOpenStocktake
  <1>10. Placed'
    BY <1>1, <1>2, <1>4, <1>5, <1>6 DEF Placed
  <1>11. SnapshotCurrent'
    <2> SUFFICES ASSUME NEW x \in Stocktakes, x # t, IsOpen(x), NEW b \in Targets(x),
                        NEW k \in Counted
                 PROVE  qty'[b][k] = count'[x][0][b].q[k]
      BY <1>4, <1>5, <1>6 DEF SnapshotCurrent
    <2>1. lot[b].wh # task[t].wh /\ b \in BatchIds
      BY <1>8 DEF Placed, Targets
    <2> QED BY <1>1, <1>7, <2>1 DEF SnapshotCurrent
  <1>12. Untouched
    <2> SUFFICES ASSUME NEW x \in Stocktakes, NEW w \in Warehouses, NEW s \in Skus,
                        Freezes(x, w, s), IsOpen(x)'
                 PROVE  RowsOf(w, s)' = RowsOf(w, s) /\ \A b \in RowsOf(w, s) : qty'[b] = qty[b]
      BY DEF Untouched
    <2>1. x # t /\ task[x].wh = w /\ IsOpen(x)
      BY <1>4 DEF Freezes
    <2>2. \A b \in RowsOf(w, s) : b \in BatchIds /\ lot[b].wh # task[t].wh
      BY <1>8, <2>1 DEF RowsOf, Rows
    <2> QED BY <1>1, <1>7, <2>2 DEF RowsOf, Rows
  <1> QED BY <1>3, <1>9, <1>10, <1>11, <1>12

-----------------------------------------------------------------------------
\* Nothing is open and nothing pending at first.
LEMMA FreezeInit ==
  ASSUME Init
  PROVE  FreezeInv
  <1>1. \A t \in Stocktakes : ~IsOpen(t)
    BY DEF Init, StocktakeInit, IsOpen, Open, NoTask
  <1>2. \A t \in Stocktakes, b \in BatchIds, k \in Counted : adj[t][b][k].decision # "pending"
    BY DEF Init, StocktakeInit, NoAdj
  <1> QED BY <1>1, <1>2, TypeInit
          DEF FreezeInv, TypeInv, OneOpenStocktake, SnapshotCurrent, Placed, AdjustmentsPlaced

\* Every command preserves the invariant and leaves frozen stock alone.
LEMMA FreezeStep ==
  ASSUME FreezeInv, ReturnsPlaced, TypeOK', [Next]_vars
  PROVE  FreezeInv' /\ Untouched
  <1>1. CASE StocktakeNext
    <2> SUFFICES ASSUME NEW t \in Stocktakes, NEW u \in Users,
                   \/ \E w \in Warehouses, scope \in ScopesTried : \E sample \in Samples(scope) :
                         OpenStocktake(t, u, w, scope, sample)
                   \/ \E b \in Targets(t) : \E q \in CountInputs(t, b) : SubmitCount(t, u, b, q)
                   \/ RequireRecount(t, u)
                   \/ CompleteStocktake(t, u)
                   \/ RequestVarianceApproval(t, u)
                   \/ ApproveVariance(t, u)
                   \/ RejectVariance(t, u)
                 PROVE  FreezeInv' /\ Untouched
      BY <1>1 DEF StocktakeNext
    <2> QED BY OpenPreserves, SubmitPreserves, FinishPreserves, RequestPreserves,
               ApprovePreserves, RejectPreserves
  <1>2. CASE WarehousingNext
    BY <1>2, WarehousingRespects, RespectfulInv, RespectfulUntouched
  <1>3. CASE ProductionNext
    BY <1>3, ProductionRespects, RespectfulInv, RespectfulUntouched
  <1>4. CASE DeliveryNext
    BY <1>4, DeliveryRespects, RespectfulInv, RespectfulUntouched
  <1>5. CASE UNCHANGED vars
    BY <1>5, IdleRespects, RespectfulInv, RespectfulUntouched DEF vars
  <1> QED BY <1>1, <1>2, <1>3, <1>4, <1>5 DEF Next

-----------------------------------------------------------------------------
(* The batches of returns stay where they are *)

\* No stocktake command changes what a batch is or where it lies.
LEMMA StocktakeLeavesLots ==
  ASSUME StocktakeNext
  PROVE  UNCHANGED lot
  <1>1. ASSUME NEW t, NEW u, NEW w, NEW scope, NEW sample, NEW b, NEW q,
               \/ OpenStocktake(t, u, w, scope, sample) \/ SubmitCount(t, u, b, q)
               \/ RequireRecount(t, u) \/ CompleteStocktake(t, u)
        PROVE  UNCHANGED lot
    BY <1>1 DEF OpenStocktake, SubmitCount, RequireRecount, CompleteStocktake, stockVars
  <1>2. ASSUME NEW t, NEW u, \/ RequestVarianceApproval(t, u) \/ ApproveVariance(t, u)
                             \/ RejectVariance(t, u)
        PROVE  UNCHANGED lot
    BY <1>2 DEF RequestVarianceApproval, ApproveVariance, RejectVariance, stockVars
  <1> QED BY <1>1, <1>2 DEF StocktakeNext

\* Nor does any command: batches are inserted, and written in their buckets.
LEMMA LotsStay ==
  ASSUME FreezeInv, ReturnsPlaced, [Next]_vars, NEW b \in BatchIds, lot[b] # NoLot
  PROVE  lot'[b] = lot[b]
  <1>1. StocktakeNext \/ UNCHANGED vars => UNCHANGED lot
    BY StocktakeLeavesLots DEF vars, stockVars
  <1>2. WarehousingNext \/ ProductionNext \/ DeliveryNext => RespectsFreeze
    BY WarehousingRespects, ProductionRespects, DeliveryRespects
  <1>3. RespectsFreeze => lot'[b] = lot[b]
    BY DEF RespectsFreeze
  <1> QED BY <1>1, <1>2, <1>3 DEF Next

\* A return's row points at the batch its receipt inserted, whatever else
\* becomes of the return.
LEMMA ReturnsStep ==
  ASSUME FreezeInv, ReturnsPlaced, [Next]_vars
  PROVE  ReturnsPlaced'
  <1> USE DEF FreezeInv
  <1>1. CASE \A y \in Returns : /\ returned[y].status = "none" => returned'[y].status = "none"
                                /\ returned'[y].batch = returned[y].batch
                                /\ returned'[y].wh = returned[y].wh
    <2> SUFFICES ASSUME NEW y \in Returns, returned'[y].status # "none"
                 PROVE  LET b == returned[y].batch
                        IN /\ b \in BatchIds
                           /\ lot'[b] # NoLot
                           /\ lot'[b].wh = returned[y].wh
                           /\ lot'[b].sku = Finished
      BY <1>1 DEF ReturnsPlaced
    <2> DEFINE b == returned[y].batch
    <2>1. b \in BatchIds /\ lot[b] # NoLot /\ lot[b].wh = returned[y].wh /\ lot[b].sku = Finished
      BY <1>1 DEF ReturnsPlaced
    <2>2. lot'[b] = lot[b]
      BY <2>1, LotsStay
    <2> QED BY <2>1, <2>2
  <1>2. ASSUME NEW y \in Returns, NEW x, NEW w, NEW n, NEW c, ReceiveReturn(y, x, w, n, c)
        PROVE  ReturnsPlaced'
    <2> DEFINE l == NewLot(w, Finished, "company", "return")
    <2>1. c \in BatchIds /\ lot[c] = NoLot
      BY <1>2, NextIsFree DEF ReceiveReturn
    <2>2. l # NoLot /\ l.wh = w /\ l.sku = Finished
      BY NewLotIsRow
    <2> HIDE DEF l
    <2>3. lot' = [lot EXCEPT ![c] = l]
      BY <1>2 DEF ReceiveReturn, l
    <2>4. lot'[c] = l /\ \A b \in BatchIds : b # c => lot'[b] = lot[b]
      BY <2>1, <2>3 DEF TypeOK, StockTypeOK
    <2>5. /\ returned'[y].batch = c /\ returned'[y].wh = w
          /\ \A z \in Returns : z # y => returned'[z] = returned[z]
      BY <1>2 DEF ReceiveReturn, TypeOK, DeliveryTypeOK
    <2>6. ASSUME NEW z \in Returns, z # y, returned'[z].status # "none"
          PROVE  /\ returned'[z].batch \in BatchIds
                 /\ lot'[returned'[z].batch] # NoLot
                 /\ lot'[returned'[z].batch].wh = returned'[z].wh
                 /\ lot'[returned'[z].batch].sku = Finished
      <3>1. returned'[z] = returned[z] /\ returned[z].status # "none"
        BY <2>5, <2>6
      <3>2. /\ returned[z].batch \in BatchIds /\ lot[returned[z].batch] # NoLot
            /\ lot[returned[z].batch].wh = returned[z].wh
            /\ lot[returned[z].batch].sku = Finished
        BY <3>1 DEF ReturnsPlaced
      <3>3. lot'[returned[z].batch] = lot[returned[z].batch]
        BY <2>1, <2>4, <3>2
      <3> QED BY <3>1, <3>2, <3>3
    <2> QED BY <2>1, <2>2, <2>4, <2>5, <2>6 DEF ReturnsPlaced
  <1>3. CASE UNCHANGED returned
    BY <1>1, <1>3
  <1>4. CASE DeliveryNext /\ ~UNCHANGED returned
    <2>1. PICK y \in Returns :
            \/ \E x \in Shipments : \E w \in Warehouses, n \in 1 .. shipment[x].got,
                    c \in BatchIds : ReceiveReturn(y, x, w, n, c)
            \/ \E passed \in 0 .. returned[y].n : InspectReturn(y, passed)
            \/ \E u \in Users : \/ ProposeDisposition(y, u)
                               \/ ApproveDisposition(y, u)
                               \/ RejectDisposition(y, u)
      BY <1>4 DEF DeliveryNext, PlanShipment, ConfirmShipment, RequestDeviation, DecideDeviation,
                  Dispatch, ReceiveShipment, ResolveException
    <2>2. ASSUME \/ \E passed : InspectReturn(y, passed)
                 \/ \E u : \/ ProposeDisposition(y, u)
                           \/ ApproveDisposition(y, u)
                           \/ RejectDisposition(y, u)
          PROVE  ReturnsPlaced'
      <3>1. returned[y] \in ReturnRow /\ returned[y].status # "none"
        BY <2>2, ReturnType DEF InspectReturn, ProposeDisposition, ApproveDisposition,
                                RejectDisposition, ReviewsReturn
      <3>2. returned \in [Returns -> ReturnRow \cup {NoReturn}]
        BY DEF TypeOK, DeliveryTypeOK, ReturnRow
      <3>3. /\ returned'[y].batch = returned[y].batch
            /\ returned'[y].wh = returned[y].wh
            /\ \A z \in Returns : z # y => returned'[z] = returned[z]
        <4>1. ASSUME NEW passed, InspectReturn(y, passed) PROVE <3>3!:
          BY <3>1, <3>2, <4>1 DEF InspectReturn, ReturnRow
        <4>2. ASSUME NEW u, ProposeDisposition(y, u) PROVE <3>3!:
          BY <3>1, <3>2, <4>2 DEF ProposeDisposition, ReturnRow
        <4>3. ASSUME NEW u, ApproveDisposition(y, u) PROVE <3>3!:
          BY <3>1, <3>2, <4>3 DEF ApproveDisposition, ReturnRow
        <4>4. ASSUME NEW u, RejectDisposition(y, u) PROVE <3>3!:
          BY <3>1, <3>2, <4>4 DEF RejectDisposition, ReturnRow
        <4> QED BY <2>2, <4>1, <4>2, <4>3, <4>4
      <3>4. \A z \in Returns : /\ returned[z].status = "none" => returned'[z].status = "none"
                               /\ returned'[z].batch = returned[z].batch
                               /\ returned'[z].wh = returned[z].wh
        BY <3>1, <3>3
      <3> QED BY <1>1, <3>4
    <2> QED BY <1>2, <2>1, <2>2
  <1> QED BY <1>3, <1>4 DEF Next, vars, deliveryVars

\* The invariant holds throughout.
LEMMA FreezeInvariant == Spec => [](FreezeInv /\ ReturnsPlaced)
  <1>1. Init => ReturnsPlaced
    BY DEF Init, DeliveryInit, ReturnsPlaced, NoReturn
  <1> QED BY <1>1, FreezeInit, FreezeStep, ReturnsStep, TypeCorrect, PTL DEF Spec

\* Two stocktakes are never open in one warehouse, however the opening of one
\* and the counting, recounting and review of another interleave.
THEOREM OneOpenAtATime == Spec => []OneOpenStocktake
  <1>1. FreezeInv => OneOpenStocktake
    BY DEF FreezeInv
  <1> QED BY <1>1, FreezeInvariant, PTL

\* An open stocktake's snapshot never goes stale: the counted buckets of each
\* batch it covers are what they were when it was opened.
THEOREM SnapshotStaysCurrent == Spec => []SnapshotCurrent
  <1>1. FreezeInv => SnapshotCurrent
    BY DEF FreezeInv
  <1> QED BY <1>1, FreezeInvariant, PTL

\* Until it is decided, a stocktake keeps every other command away from the
\* stock it froze, batches it did not snapshot included.
THEOREM FreezeHolds == Spec => FrozenStockUntouched
  <1>1. FreezeInv /\ ReturnsPlaced /\ TypeOK' /\ [Next]_vars => [Untouched]_vars
    BY FreezeStep
  <1>2. Spec => [][Untouched]_vars
    BY <1>1, FreezeInvariant, TypeCorrect, PTL DEF Spec
  <1> QED BY <1>2 DEF FrozenStockUntouched, Untouched

-----------------------------------------------------------------------------
(* Merges *)

\* A merged warehouse is not active any more, and never will be: only a new
\* warehouse becomes active. Nothing is merged into itself.
MergedAreClosed ==
  /\ active \subseteq founded
  /\ \A m \in Merges :
       /\ merge[m].status # "none" => merge[m].from # merge[m].to /\ merge[m].from \in founded
       /\ merge[m].status = "approved" => merge[m].from \notin active

\* Only commands about warehouses change which of them are active.
LEMMA OthersLeaveSites ==
  ASSUME StocktakeNext \/ ProductionNext \/ DeliveryNext
  PROVE  UNCHANGED active
  <1>1. StocktakeNext => UNCHANGED active
    <2>1. \A t, u : \/ \E w, scope, sample : OpenStocktake(t, u, w, scope, sample)
                    \/ \E b, q : SubmitCount(t, u, b, q)
                    \/ RequireRecount(t, u)
                    \/ CompleteStocktake(t, u)
                    => UNCHANGED active
      BY DEF OpenStocktake, SubmitCount, RequireRecount, CompleteStocktake, stockVars
    <2>2. \A t, u : \/ RequestVarianceApproval(t, u)
                    \/ ApproveVariance(t, u)
                    \/ RejectVariance(t, u)
                    => UNCHANGED active
      BY DEF RequestVarianceApproval, ApproveVariance, RejectVariance, stockVars
    <2> QED BY <2>1, <2>2 DEF StocktakeNext
  <1>2. ProductionNext => UNCHANGED active
    <2>1. \A o : \/ \E n : CreateOrder(o, n)
                 \/ StartOrder(o)
                 \/ ReleaseMaterials(o)
                 => UNCHANGED active
      BY DEF CreateOrder, StartOrder, ReleaseMaterials, stockVars
    <2>2. \A r, b, for, n, priority : Reserve(r, b, for, n, priority) => UNCHANGED active
      BY DEF Reserve
    <2>3. \A o, m, d : ReportMaterials(o, m, d) \/ Completing(o, m, d) => UNCHANGED active
      BY DEF ReportMaterials, Completing
    <2>4. \A o, u : Reviews(o, u) => UNCHANGED active
      BY DEF Reviews
    <2>5. \A o, u, actual, m, d, b : \/ CompleteOrder(o, actual, m, d, b)
                                     \/ RequestProductionVariance(o, u, actual, m, d)
                                     => UNCHANGED active
      BY <2>3 DEF CompleteOrder, RequestProductionVariance
    <2>6. \A o, u, b, c : \/ ApproveProduction(o, u, b)
                          \/ RejectOverproduction(o, u, b, c)
                          \/ RejectProduction(o, u)
                          => UNCHANGED active
      BY <2>4 DEF ApproveProduction, RejectOverproduction, RejectProduction
    <2> QED BY <2>1, <2>2, <2>3, <2>5, <2>6 DEF ProductionNext
  <1>3. DeliveryNext => UNCHANGED active
    <2>1. \A x, o, n : PlanShipment(x, o, n) => UNCHANGED active
      BY DEF PlanShipment, stockVars
    <2>2. \A x, u, decision : \/ ConfirmShipment(x)
                             \/ RequestDeviation(x, u)
                             \/ DecideDeviation(x, u, decision)
                             => UNCHANGED active
      BY DEF ConfirmShipment, RequestDeviation, DecideDeviation, stockVars
    <2>3. \A x, d : Dispatch(x, d) => UNCHANGED active
      BY DEF Dispatch
    <2>4. \A x, got, damaged : \/ ReceiveShipment(x, got, damaged)
                              \/ ResolveException(x)
                              => UNCHANGED active
      BY DEF ReceiveShipment, ResolveException, stockVars
    <2>5. \A y, x, w, n, b : ReceiveReturn(y, x, w, n, b) => UNCHANGED active
      BY DEF ReceiveReturn
    <2>6. \A y, u, passed : \/ InspectReturn(y, passed)
                           \/ ProposeDisposition(y, u)
                           \/ ApproveDisposition(y, u)
                           \/ RejectDisposition(y, u)
                           => UNCHANGED active
      BY DEF InspectReturn, ProposeDisposition, ApproveDisposition, RejectDisposition, stockVars
    <2> QED BY <2>1, <2>2, <2>3, <2>4, <2>5, <2>6 DEF DeliveryNext
  <1> QED BY <1>1, <1>2, <1>3

\* Approving a merge m of one warehouse into another: the row says so, and the
\* source is closed while the target, looked at again, is active.
LEMMA ApproveMergeEffect ==
  ASSUME TypeOK, MergedAreClosed, NEW m \in Merges, NEW u, ApproveMerge(m, u)
  PROVE  /\ merge'[m].status = "approved"
         /\ merge'[m].from = merge[m].from /\ merge'[m].to = merge[m].to
         /\ \A z \in Merges : z # m => merge'[z] = merge[z]
         /\ merge[m].from # merge[m].to /\ merge[m].to \in active'
         /\ active' = active \ {merge[m].from} /\ founded' = founded
  <1>1. merge[m].status = "pending" /\ merge' = [merge EXCEPT ![m].status = "approved"]
    BY DEF ApproveMerge, DecidesMerge
  <1>2. merge[m] \in [status: {"pending", "approved", "rejected"}, from: Warehouses,
                      to: Warehouses, by: Users]
    BY <1>1 DEF TypeOK, WarehousingTypeOK, NoMerge
  <1>3. merge[m].from # merge[m].to
    BY <1>1 DEF MergedAreClosed
  <1>4. merge[m].to \in active /\ active' = active \ {merge[m].from} /\ founded' = founded
    BY DEF ApproveMerge, Mergeable, DecidesMerge
  <1> QED BY <1>1, <1>2, <1>3, <1>4 DEF TypeOK, WarehousingTypeOK

\* Every other step: no merge becomes approved, and what was approved stays.
LEMMA OtherMergeSteps ==
  ASSUME TypeOK, MergedAreClosed, [Next]_vars,
         ~ \E m \in Merges, u \in Users : ApproveMerge(m, u)
  PROVE  /\ MergedAreClosed'
         /\ \A m \in Merges : merge'[m].status = "approved" => merge'[m] = merge[m]
  <1>1. CASE UNCHANGED <<active, merge, founded>>
    BY <1>1 DEF MergedAreClosed
  <1>2. ASSUME NEW w \in Warehouses, CreateWarehouse(w) \/ Deactivate(w)
        PROVE  /\ MergedAreClosed'
               /\ \A m \in Merges : merge'[m].status = "approved" => merge'[m] = merge[m]
    <2>1. merge' = merge
      BY <1>2 DEF CreateWarehouse, Deactivate, warehousingVars, siteVars
    <2>2. MergedAreClosed'
      <3>1. CASE CreateWarehouse(w)
        BY <2>1, <3>1 DEF CreateWarehouse, MergedAreClosed, TypeOK, WarehousingTypeOK, NoMerge
      <3>2. CASE Deactivate(w)
        BY <2>1, <3>2 DEF Deactivate, MergedAreClosed, warehousingVars, siteVars
      <3> QED BY <1>2, <3>1, <3>2
    <2> QED BY <2>1, <2>2
  <1>3. ASSUME NEW m \in Merges, NEW u \in Users, NEW v \in Warehouses, NEW w \in Warehouses,
               RequestMerge(m, u, v, w)
        PROVE  /\ MergedAreClosed'
               /\ \A z \in Merges : merge'[z].status = "approved" => merge'[z] = merge[z]
    <2>1. /\ merge'[m] = [status |-> "pending", from |-> v, to |-> w, by |-> u]
          /\ \A z \in Merges : z # m => merge'[z] = merge[z]
          /\ UNCHANGED <<active, founded>>
      BY <1>3 DEF RequestMerge, stockVars, TypeOK, WarehousingTypeOK
    <2>2. v # w /\ v \in active
      BY <1>3 DEF RequestMerge
    <2> QED BY <2>1, <2>2 DEF MergedAreClosed
  <1>4. ASSUME NEW m \in Merges, NEW u \in Users, RejectMerge(m, u)
        PROVE  /\ MergedAreClosed'
               /\ \A z \in Merges : merge'[z].status = "approved" => merge'[z] = merge[z]
    <2>1. merge[m].status = "pending" /\ merge' = [merge EXCEPT ![m].status = "rejected"]
      BY <1>4 DEF RejectMerge, DecidesMerge
    <2>2. merge[m] \in [status: {"pending", "approved", "rejected"}, from: Warehouses,
                        to: Warehouses, by: Users]
      BY <2>1 DEF TypeOK, WarehousingTypeOK, NoMerge
    <2>3. /\ merge'[m].status = "rejected"
          /\ merge'[m].from = merge[m].from /\ merge'[m].to = merge[m].to
          /\ \A z \in Merges : z # m => merge'[z] = merge[z]
      BY <2>1, <2>2 DEF TypeOK, WarehousingTypeOK
    <2>4. UNCHANGED <<active, founded>>
      BY <1>4 DEF RejectMerge, DecidesMerge
    <2> QED BY <2>1, <2>3, <2>4 DEF MergedAreClosed
  <1>5. WarehousingNext =>
          \/ UNCHANGED <<active, merge, founded>>
          \/ \E w \in Warehouses : CreateWarehouse(w) \/ Deactivate(w)
          \/ \E m \in Merges, u \in Users :
               \/ \E v, w \in Warehouses : RequestMerge(m, u, v, w)
               \/ RejectMerge(m, u)
    BY DEF WarehousingNext, ReceivePurchase, InspectBatch, RequestTransfer, ReviewTransfer,
           ShipTransfer, ReceiveTransfer, stockVars, warehousingVars, siteVars
  <1>6. WarehousingNext \/ UNCHANGED <<active, merge, founded>>
    BY OthersLeaveSites DEF Next, vars, stockVars, warehousingVars, siteVars
  <1> QED BY <1>1, <1>2, <1>3, <1>4, <1>5, <1>6

\* A merge is only ever approved into a warehouse that is still active, from
\* which none was approved: the set the new merge points into ends there.
LEMMA MergesEndStep ==
  ASSUME TypeOK, MergedAreClosed, MergesEnd, [Next]_vars
  PROVE  MergedAreClosed' /\ MergesEnd'
  <1>1. ASSUME NEW m \in Merges, NEW u, ApproveMerge(m, u)
        PROVE  MergedAreClosed' /\ MergesEnd'
    <2>1. /\ merge'[m].status = "approved"
          /\ merge'[m].from = merge[m].from /\ merge'[m].to = merge[m].to
          /\ \A z \in Merges : z # m => merge'[z] = merge[z]
          /\ merge[m].from # merge[m].to /\ merge[m].to \in active'
          /\ active' = active \ {merge[m].from} /\ founded' = founded
      BY <1>1, ApproveMergeEffect
    <2>2. merge[m].status # "none"
      BY <1>1 DEF ApproveMerge, DecidesMerge
    <2>3. MergedAreClosed'
      BY <2>1, <2>2 DEF MergedAreClosed
    <2>4. ASSUME NEW S \in (SUBSET Warehouses) \ {{}}
          PROVE  \E w \in S : \A z \in Merges :
                   merge'[z].status = "approved" /\ merge'[z].from = w => merge'[z].to \notin S
      <3>1. CASE merge[m].to \in S
        BY <2>1, <2>3, <3>1 DEF MergedAreClosed
      <3>2. CASE merge[m].to \notin S
        <4>1. PICK w \in S : \A z \in Merges :
                merge[z].status = "approved" /\ merge[z].from = w => merge[z].to \notin S
          BY DEF MergesEnd
        <4>2. \A z \in Merges :
                merge'[z].status = "approved" /\ merge'[z].from = w => merge'[z].to \notin S
          BY <2>1, <3>2, <4>1
        <4> QED BY <4>2
      <3> QED BY <3>1, <3>2
    <2> QED BY <2>3, <2>4 DEF MergesEnd
  <1>2. CASE ~ \E m \in Merges, u \in Users : ApproveMerge(m, u)
    <2>1. /\ MergedAreClosed'
          /\ \A m \in Merges : merge'[m].status = "approved" => merge'[m] = merge[m]
      BY <1>2, OtherMergeSteps
    <2>2. ASSUME NEW S \in (SUBSET Warehouses) \ {{}}
          PROVE  \E w \in S : \A m \in Merges :
                   merge'[m].status = "approved" /\ merge'[m].from = w => merge'[m].to \notin S
      <3>1. PICK w \in S : \A m \in Merges :
              merge[m].status = "approved" /\ merge[m].from = w => merge[m].to \notin S
        BY DEF MergesEnd
      <3>2. \A m \in Merges :
              merge'[m].status = "approved" /\ merge'[m].from = w => merge'[m].to \notin S
        BY <2>1, <3>1
      <3> QED BY <3>2
    <2> QED BY <2>1, <2>2 DEF MergesEnd
  <1> QED BY <1>1, <1>2

LEMMA MergesInvariant == Spec => [](MergedAreClosed /\ MergesEnd)
  <1>1. Init => MergedAreClosed /\ MergesEnd
    BY FoundedAssumption DEF Init, StockInit, WarehousingInit, NoMerge, MergedAreClosed, MergesEnd
  <1> QED BY <1>1, MergesEndStep, TypeCorrect, PTL DEF Spec

\* However many merges of however many warehouses wait, and in whatever order
\* they are approved, following them from a warehouse ends at one that is
\* still there.
THEOREM MergesTerminate == Spec => []MergesEnd
  BY MergesInvariant, PTL

-----------------------------------------------------------------------------
(* Second counts *)

\* Second counts are of batches that the stocktake snapshotted, once it is in
\* its second round.
RecountsPlaced ==
  \A t \in Stocktakes, b \in BatchIds :
    count[t][2][b] # NoRow => b \in Targets(t) /\ task[t].status \notin {"none", "first_count"}

RecountInv == RecountsPlaced /\ RecountIsIndependent

\* A step of one stocktake t that writes no count.
LEMMA StatusRecount ==
  ASSUME TypeOK, RecountInv, NEW t \in Stocktakes, UNCHANGED count,
         \A x \in Stocktakes : x # t => task'[x] = task[x],
         task[t].status \notin {"none", "first_count"} => task'[t].status \notin {"none", "first_count"},
         task'[t].status \in {"pending_approval", "completed"} =>
           \A b \in BatchIds : count[t][2][b] # NoRow => count[t][2][b].by # count[t][1][b].by
  PROVE  RecountInv'
  <1>1. \A x \in Stocktakes : Targets(x)' = Targets(x)
    BY DEF Targets
  <1>2. RecountsPlaced'
    BY <1>1 DEF RecountInv, RecountsPlaced
  <1>3. RecountIsIndependent'
    BY DEF RecountInv, RecountIsIndependent
  <1> QED BY <1>2, <1>3 DEF RecountInv

\* Every command of a stocktake preserves the invariant.
LEMMA StocktakeRecounts ==
  ASSUME TypeOK, RecountInv, StocktakeNext
  PROVE  RecountInv'
  <1>1. ASSUME NEW t \in Stocktakes, NEW u \in Users, NEW w \in Warehouses, NEW scope, NEW sample,
               OpenStocktake(t, u, w, scope, sample)
        PROVE  RecountInv'
    <2>1. /\ task[t].status = "none" /\ task'[t].status = "first_count"
          /\ \A x \in Stocktakes : x # t => task'[x] = task[x] /\ count'[x] = count[x]
          /\ count'[t][2] = count[t][2]
      BY <1>1 DEF OpenStocktake, TypeOK, StocktakeTypeOK, Rounds
    <2>2. \A b \in BatchIds : count'[t][2][b] = NoRow
      BY <2>1 DEF RecountInv, RecountsPlaced
    <2>3. \A x \in Stocktakes : x # t => Targets(x)' = Targets(x)
      BY <2>1 DEF Targets
    <2>4. RecountsPlaced'
      BY <2>1, <2>2, <2>3 DEF RecountInv, RecountsPlaced
    <2>5. RecountIsIndependent'
      BY <2>1, <2>2 DEF RecountInv, RecountIsIndependent
    <2> QED BY <2>4, <2>5 DEF RecountInv
  <1>2. ASSUME NEW t \in Stocktakes, NEW u \in Users, NEW b \in Targets(t), NEW q,
               SubmitCount(t, u, b, q)
        PROVE  RecountInv'
    <2>1. /\ UNCHANGED task /\ task[t].status \in {"first_count", "recount"}
          /\ \A x \in Stocktakes : x # t => count'[x] = count[x]
          /\ count'[t][0] = count[t][0]
          /\ \A c \in BatchIds : c # b => count'[t][2][c] = count[t][2][c]
      BY <1>2 DEF SubmitCount, Round, TypeOK, StocktakeTypeOK, Rounds
    <2>2. task[t].status = "first_count" => count'[t][2] = count[t][2]
      BY <1>2 DEF SubmitCount, Round, TypeOK, StocktakeTypeOK, Rounds
    <2>3. \A x \in Stocktakes : Targets(x)' = Targets(x)
      BY <2>1 DEF Targets
    <2>4. RecountsPlaced'
      BY <2>1, <2>2, <2>3 DEF RecountInv, RecountsPlaced
    <2>5. RecountIsIndependent'
      BY <2>1 DEF RecountInv, RecountIsIndependent
    <2> QED BY <2>4, <2>5 DEF RecountInv
  <1>3. ASSUME NEW t \in Stocktakes, NEW u \in Users, CanFinish(t, u)
        PROVE  \A b \in BatchIds : count[t][2][b] # NoRow => count[t][2][b].by # count[t][1][b].by
    BY <1>3 DEF CanFinish, Round, RecountInv, RecountsPlaced
  <1>4. ASSUME NEW t \in Stocktakes, NEW u \in Users,
               RequireRecount(t, u) \/ CompleteStocktake(t, u) \/ RequestVarianceApproval(t, u)
        PROVE  RecountInv'
    <2>1. CanFinish(t, u) /\ UNCHANGED count
      BY <1>4 DEF RequireRecount, CompleteStocktake, RequestVarianceApproval
    <2>2. /\ \A x \in Stocktakes : x # t => task'[x] = task[x]
          /\ task'[t].status \in {"recount", "completed", "pending_approval"}
      BY <1>4 DEF RequireRecount, CompleteStocktake, RequestVarianceApproval, TypeOK, StocktakeTypeOK
    <2> QED BY <1>3, <2>1, <2>2, StatusRecount
  <1>5. ASSUME NEW t \in Stocktakes, NEW u \in Users, ApproveVariance(t, u) \/ RejectVariance(t, u)
        PROVE  RecountInv'
    <2>1. task[t].status = "pending_approval" /\ UNCHANGED count
      BY <1>5 DEF ApproveVariance, RejectVariance
    <2>2. /\ \A x \in Stocktakes : x # t => task'[x] = task[x]
          /\ task'[t].status \in {"recount", "completed"}
      BY <1>5 DEF ApproveVariance, RejectVariance, TypeOK, StocktakeTypeOK
    <2>3. \A b \in BatchIds : count[t][2][b] # NoRow => count[t][2][b].by # count[t][1][b].by
      BY <2>1 DEF RecountInv, RecountIsIndependent
    <2> QED BY <2>1, <2>2, <2>3, StatusRecount
  <1> QED BY <1>1, <1>2, <1>4, <1>5 DEF StocktakeNext

\* Whoever counted first made no second count that a reviewer is asked about,
\* or that was accepted (RecountIsIndependent), recounts revised included.
THEOREM RecountsAreIndependent == Spec => []RecountIsIndependent
  <1>1. Init => RecountInv
    BY DEF Init, StocktakeInit, RecountInv, RecountsPlaced, RecountIsIndependent, NoTask, Rounds
  <1>2. ASSUME FreezeInv, ReturnsPlaced, RecountInv, [Next]_vars
        PROVE  RecountInv'
    <2>1. StocktakeNext => RecountInv'
      BY <1>2, StocktakeRecounts DEF FreezeInv
    <2>2. WarehousingNext \/ ProductionNext \/ DeliveryNext => UNCHANGED <<task, count>>
      BY <1>2, WarehousingRespects, ProductionRespects, DeliveryRespects DEF RespectsFreeze
    <2>3. UNCHANGED <<task, count>> => RecountInv'
      BY <1>2 DEF RecountInv, RecountsPlaced, RecountIsIndependent, Targets
    <2> QED BY <1>2, <2>1, <2>2, <2>3 DEF Next, vars, stocktakeVars
  <1>3. RecountInv => RecountIsIndependent
    BY DEF RecountInv
  <1> QED BY <1>1, <1>2, <1>3, FreezeInvariant, PTL DEF Spec

-----------------------------------------------------------------------------
(* What is closed stays empty *)

\* A transfer that is not finished runs between active warehouses.
CarriesOpen ==
  \A x \in Transfers :
    transfer[x].status \in {"pending_supply_chain", "approved", "shipped"}
    => {transfer[x].from, transfer[x].to} \subseteq active

\* The action of ClosedWarehouseSealed.
Sealed ==
  \A b \in BatchIds : lot'[b] # lot[b] /\ lot'[b].source # "return" => lot'[b].wh \in active

\* Inserting a batch into an active warehouse.
LEMMA InsertSealed ==
  ASSUME TypeOK, NEW b, NEW w \in active, NEW s, NEW o, NEW c,
         lot' = [lot EXCEPT ![b] = NewLot(w, s, o, c)]
  PROVE  Sealed
  BY DEF Sealed, NewLot, TypeOK, StockTypeOK

\* A command of warehousing.
LEMMA WarehousingSealed ==
  ASSUME TypeOK, CarriesOpen, WarehousingNext
  PROVE  CarriesOpen' /\ Sealed
  <1>1. ASSUME NEW i \in Items, NEW b \in BatchIds, ReceivePurchase(i, b)
        PROVE  CarriesOpen' /\ Sealed
    <2>1. UNCHANGED <<active, transfer>>
      BY <1>1 DEF ReceivePurchase
    <2>2. Sealed
      BY <1>1, InsertSealed DEF ReceivePurchase
    <2> QED BY <2>1, <2>2 DEF CarriesOpen
  <1>2. ASSUME NEW b \in BatchIds, NEW bucket, InspectBatch(b, bucket)
        PROVE  CarriesOpen' /\ Sealed
    BY <1>2 DEF InspectBatch, CarriesOpen, Sealed, warehousingVars
  <1>3. ASSUME NEW x \in Transfers, NEW u \in Users, NEW w1 \in Warehouses, NEW w2 \in Warehouses,
               NEW s \in Skus, NEW n \in 1 .. MaxTransfer, RequestTransfer(x, u, w1, w2, s, n)
        PROVE  CarriesOpen' /\ Sealed
    <2>1. /\ UNCHANGED <<lot, active>> /\ {w1, w2} \subseteq active
          /\ transfer'[x].from = w1 /\ transfer'[x].to = w2
          /\ \A z \in Transfers : z # x => transfer'[z] = transfer[z]
      BY <1>3 DEF RequestTransfer, stockVars, TypeOK, WarehousingTypeOK
    <2> QED BY <2>1 DEF CarriesOpen, Sealed
  <1>4. ASSUME NEW x \in Transfers, UNCHANGED active,
               transfer[x].status \in {"pending_supply_chain", "approved", "shipped"},
               NEW status, transfer' = [transfer EXCEPT ![x].status = status]
        PROVE  CarriesOpen'
    <2>1. /\ \A z \in Transfers : transfer'[z].from = transfer[z].from
          /\ \A z \in Transfers : transfer'[z].to = transfer[z].to
          /\ \A z \in Transfers : z # x => transfer'[z].status = transfer[z].status
      BY <1>4 DEF TypeOK, WarehousingTypeOK, NoTransfer
    <2> QED BY <1>4, <2>1 DEF CarriesOpen
  <1>5. ASSUME NEW x \in Transfers, NEW u \in Users, NEW decision, ReviewTransfer(x, u, decision)
        PROVE  CarriesOpen' /\ Sealed
    BY <1>4, <1>5 DEF ReviewTransfer, stockVars, Sealed
  <1>6. ASSUME NEW x \in Transfers, NEW d, ShipTransfer(x, d)
        PROVE  CarriesOpen' /\ Sealed
    BY <1>4, <1>6 DEF ShipTransfer, Sealed
  <1>7. ASSUME NEW x \in Transfers, NEW b \in BatchIds, ReceiveTransfer(x, b)
        PROVE  CarriesOpen' /\ Sealed
    <2>1. transfer[x].to \in active
      BY <1>7 DEF ReceiveTransfer, CanReceive, CarriesOpen
    <2>2. Sealed
      BY <1>7, <2>1, InsertSealed DEF ReceiveTransfer
    <2> QED BY <1>4, <1>7, <2>2 DEF ReceiveTransfer, CanReceive
  <1>8. ASSUME NEW w \in Warehouses, active' = active \ {w}, ~Blocked(w), UNCHANGED <<lot, transfer>>
        PROVE  CarriesOpen' /\ Sealed
    BY <1>8 DEF Blocked, InTransfer, CarriesOpen, Sealed
  <1>9. ASSUME NEW w \in Warehouses, CreateWarehouse(w) \/ Deactivate(w)
        PROVE  CarriesOpen' /\ Sealed
    BY <1>8, <1>9 DEF CreateWarehouse, Deactivate, warehousingVars, CarriesOpen, Sealed
  <1>10. ASSUME NEW m \in Merges, NEW u \in Users,
                \/ \E w1, w2 \in Warehouses : RequestMerge(m, u, w1, w2)
                \/ RejectMerge(m, u)
         PROVE  CarriesOpen' /\ Sealed
    BY <1>10 DEF RequestMerge, RejectMerge, DecidesMerge, stockVars, CarriesOpen, Sealed
  <1>11. ASSUME NEW m \in Merges, NEW u \in Users, ApproveMerge(m, u)
         PROVE  CarriesOpen' /\ Sealed
    <2>1. merge[m].from \in Warehouses
      BY <1>11 DEF ApproveMerge, DecidesMerge, TypeOK, WarehousingTypeOK, NoMerge
    <2> QED BY <1>8, <1>11, <2>1 DEF ApproveMerge, DecidesMerge, Mergeable
  <1> QED BY <1>1, <1>2, <1>3, <1>5, <1>6, <1>7, <1>9, <1>10, <1>11 DEF WarehousingNext

\* A production command: what is finished is stocked at the factory's site if
\* that is active.
LEMMA ProductionSealed ==
  ASSUME TypeOK, ProductionNext
  PROVE  Sealed
  <1>1. \A r, b, for, n, priority : Reserve(r, b, for, n, priority) => UNCHANGED lot
    BY DEF Reserve
  <1>2. \A o : (\E n : CreateOrder(o, n)) \/ StartOrder(o) \/ ReleaseMaterials(o) => UNCHANGED lot
    BY DEF CreateOrder, StartOrder, ReleaseMaterials, stockVars
  <1>3. \A o, u, actual, m, d : \/ ReportMaterials(o, m, d)
                                \/ RequestProductionVariance(o, u, actual, m, d)
                                => UNCHANGED lot
    BY DEF ReportMaterials, RequestProductionVariance
  <1>4. ASSUME NEW o \in Orders, NEW actual, NEW m, NEW d, NEW b, CompleteOrder(o, actual, m, d, b)
        PROVE  Sealed
    BY <1>4, InsertSealed DEF CompleteOrder, SiteUsable
  <1>5. ASSUME NEW o \in Orders, NEW u, NEW b, ApproveProduction(o, u, b)
        PROVE  Sealed
    <2>1. UNCHANGED lot => Sealed
      BY DEF Sealed
    <2>2. \/ UNCHANGED lot
          \/ lot' = [lot EXCEPT ![b] = NewLot(FactorySite, Finished, "company", "variance")]
      BY <1>5 DEF ApproveProduction
    <2>3. FactorySite \in active
      BY <1>5 DEF ApproveProduction, SiteUsable
    <2>4. ASSUME lot' = [lot EXCEPT ![b] = NewLot(FactorySite, Finished, "company", "variance")]
          PROVE  Sealed
      BY <2>3, <2>4, InsertSealed
    <2> QED BY <2>1, <2>2, <2>4
  <1>6. ASSUME NEW o \in Orders, NEW u, NEW b, NEW c, RejectOverproduction(o, u, b, c)
        PROVE  Sealed
    <2>1. \A x \in BatchIds : \/ lot'[x] = lot[x]
                              \/ lot'[x] = NewLot(FactorySite, Finished, "company", "variance")
                              \/ lot'[x] = NewLot(FactorySite, Finished, "factory", "variance")
      BY <1>6 DEF RejectOverproduction, TypeOK, StockTypeOK
    <2>2. FactorySite \in active
      BY <1>6 DEF RejectOverproduction, SiteUsable
    <2> QED BY <2>1, <2>2 DEF Sealed, NewLot
  <1>7. \A o, u : RejectProduction(o, u) => UNCHANGED lot
    BY DEF RejectProduction
  <1>8. UNCHANGED lot => Sealed
    BY DEF Sealed
  <1> QED BY <1>1, <1>2, <1>3, <1>4, <1>5, <1>6, <1>7, <1>8 DEF ProductionNext

\* A command of delivery places no batch, but of a return.
LEMMA DeliverySealed ==
  ASSUME TypeOK, DeliveryNext
  PROVE  Sealed
  <1>1. ASSUME NEW y, NEW x, NEW w, NEW n, NEW b, ReceiveReturn(y, x, w, n, b)
        PROVE  Sealed
    <2>1. \A c \in BatchIds : lot'[c] = lot[c] \/ lot'[c] = NewLot(w, Finished, "company", "return")
      BY <1>1 DEF ReceiveReturn, TypeOK, StockTypeOK
    <2> QED BY <2>1 DEF Sealed, NewLot
  <1>2. UNCHANGED lot => Sealed
    BY DEF Sealed
  <1>3. \A x, o, n, d, got, damaged :
          \/ PlanShipment(x, o, n) \/ Dispatch(x, d) \/ ReceiveShipment(x, got, damaged)
          => UNCHANGED lot
    BY DEF PlanShipment, Dispatch, ReceiveShipment, stockVars
  <1>4. \A x, u, decision :
          \/ ConfirmShipment(x) \/ RequestDeviation(x, u) \/ DecideDeviation(x, u, decision)
          \/ ResolveException(x)
          => UNCHANGED lot
    BY DEF ConfirmShipment, RequestDeviation, DecideDeviation, ResolveException, stockVars
  <1>5. \A y, u, passed :
          \/ InspectReturn(y, passed) \/ ProposeDisposition(y, u) \/ ApproveDisposition(y, u)
          \/ RejectDisposition(y, u)
          => UNCHANGED lot
    BY DEF InspectReturn, ProposeDisposition, ApproveDisposition, RejectDisposition, stockVars
  <1> QED BY <1>1, <1>2, <1>3, <1>4, <1>5 DEF DeliveryNext

\* A step of the others changes neither transfers nor which warehouses are
\* active.
LEMMA OthersCarry ==
  ASSUME StocktakeNext \/ ProductionNext \/ DeliveryNext, UNCHANGED transfer, CarriesOpen
  PROVE  CarriesOpen'
  BY OthersLeaveSites DEF CarriesOpen

\* No batch is placed in a warehouse that is not active, but of a return
\* (ClosedWarehouseSealed): a transfer that is not finished keeps both its ends
\* from being deactivated or merged away.
THEOREM ClosedWarehousesStayEmpty == Spec => ClosedWarehouseSealed
  <1>1. Init => CarriesOpen
    BY DEF Init, WarehousingInit, NoTransfer, CarriesOpen
  <1>2. ASSUME TypeOK, CarriesOpen, [Next]_vars
        PROVE  CarriesOpen' /\ [Sealed]_vars
    <2>1. CASE StocktakeNext /\ UNCHANGED <<warehousingVars, productionVars, deliveryVars>>
      <3>1. UNCHANGED <<lot, transfer>>
        BY <2>1, StocktakeLeavesLots DEF warehousingVars
      <3> QED BY <1>2, <2>1, <3>1, OthersCarry DEF Sealed
    <2>2. CASE WarehousingNext
      BY <1>2, <2>2, WarehousingSealed
    <2>3. CASE ProductionNext /\ UNCHANGED <<warehousingVars, deliveryVars>>
      BY <1>2, <2>3, ProductionSealed, OthersCarry DEF warehousingVars
    <2>4. CASE DeliveryNext /\ UNCHANGED <<warehousingVars, productionVars>>
      BY <1>2, <2>4, DeliverySealed, OthersCarry DEF warehousingVars
    <2>5. CASE UNCHANGED vars
      BY <1>2, <2>5 DEF vars, stockVars, warehousingVars, CarriesOpen
    <2> QED BY <1>2, <2>1, <2>2, <2>3, <2>4, <2>5 DEF Next
  <1>3. Spec => [][Sealed]_vars
    BY <1>1, <1>2, TypeCorrect, PTL DEF Spec
  <1> QED BY <1>3 DEF ClosedWarehouseSealed, Sealed

-----------------------------------------------------------------------------
(* What the commands do to the buckets of each batch *)

\* Where there is no batch there is nothing.
Blank == \A b \in BatchIds : lot[b] = NoLot => qty[b] = [k \in Buckets |-> 0]

\* A command changes what each batch holds by h and what is locked of it by l;
\* batches stay what they are.
Effect(h, l) ==
  /\ h \in [BatchIds -> Int] /\ l \in [BatchIds -> Int]
  /\ \A b \in BatchIds : OnHand(b)' = OnHand(b) + h[b]
  /\ \A b \in BatchIds : qty'[b]["locked"] = qty[b]["locked"] + l[b]
  /\ \A b \in BatchIds : lot[b] # NoLot => lot'[b] = lot[b]
  /\ Blank'

\* Nothing leaves quarantine, and nothing is added to that of a return.
Quarantines ==
  \A b \in BatchIds : /\ qty[b]["quarantine"] =< qty'[b]["quarantine"]
                      /\ lot[b].source = "return" => qty'[b]["quarantine"] = qty[b]["quarantine"]

Zero == [b \in BatchIds |-> 0]
Only(b, n) == [c \in BatchIds |-> IF c = b THEN n ELSE 0]

\* What a walk over batches, or a use of reservations, takes from each batch.
Drained(d) == [b \in BatchIds |-> IF b \in DOMAIN d THEN -d[b] ELSE 0]
Spent(d)   == [b \in BatchIds |-> -TakenFrom(d, b)]

\* The quantities of a batch are natural numbers.
LEMMA BucketsOf ==
  ASSUME TypeOK, NEW b \in BatchIds
  PROVE  /\ qty[b] \in [Buckets -> Nat]
         /\ qty[b]["available"] \in Nat /\ qty[b]["locked"] \in Nat /\ qty[b]["defective"] \in Nat
         /\ qty[b]["pending"] \in Nat /\ qty[b]["quarantine"] \in Nat
         /\ OnHand(b) \in Nat
  <1>1. qty[b] \in [Buckets -> Nat]
    BY DEF TypeOK, StockTypeOK
  <1>2. /\ qty[b]["available"] \in Nat /\ qty[b]["locked"] \in Nat /\ qty[b]["defective"] \in Nat
        /\ qty[b]["pending"] \in Nat /\ qty[b]["quarantine"] \in Nat
    BY <1>1 DEF Buckets
  <1> QED BY <1>1, <1>2 DEF OnHand

\* A batch that is blank has nothing in any bucket.
LEMMA BlankIsEmpty ==
  ASSUME Blank, NEW b \in BatchIds, lot[b] = NoLot
  PROVE  /\ qty[b]["available"] = 0 /\ qty[b]["locked"] = 0 /\ qty[b]["defective"] = 0
         /\ qty[b]["pending"] = 0 /\ qty[b]["quarantine"] = 0 /\ OnHand(b) = 0
  BY DEF Blank, Buckets, OnHand

\* What a new batch holds.
LEMMA HoldingAmounts ==
  ASSUME NEW k \in {"available", "pending", "quarantine"}, NEW n \in Nat, NEW q, q = Holding(k, n)
  PROVE  /\ q["available"] + q["locked"] + q["defective"] + q["pending"] + q["quarantine"] = n
         /\ q["locked"] = 0 /\ q["quarantine"] \in Nat
  BY DEF Holding, Buckets

\* A batch is inserted.
LEMMA InsertEffect ==
  ASSUME TypeOK, Blank, NEW b, IsNextBatch(b), NEW l, l # NoLot,
         NEW k \in {"available", "pending", "quarantine"}, NEW n \in Nat,
         lot' = [lot EXCEPT ![b] = l], qty' = [qty EXCEPT ![b] = Holding(k, n)]
  PROVE  Effect(Only(b, n), Zero) /\ Quarantines
  <1>1. b \in BatchIds /\ lot[b] = NoLot
    BY NextIsFree
  <1>2. /\ lot'[b] = l /\ qty'[b] = Holding(k, n)
        /\ \A c \in BatchIds : c # b => lot'[c] = lot[c] /\ qty'[c] = qty[c]
    BY <1>1 DEF TypeOK, StockTypeOK
  <1>3. Only(b, n) \in [BatchIds -> Int] /\ Zero \in [BatchIds -> Int]
    BY DEF Only, Zero
  <1>4. ASSUME NEW c \in BatchIds
        PROVE  /\ OnHand(c)' = OnHand(c) + Only(b, n)[c]
               /\ qty'[c]["locked"] = qty[c]["locked"] + Zero[c]
               /\ qty[c]["quarantine"] =< qty'[c]["quarantine"]
               /\ lot[c].source = "return" => qty'[c]["quarantine"] = qty[c]["quarantine"]
    <2>1. CASE c = b
      <3>1. OnHand(b)' = n /\ qty'[b]["locked"] = 0 /\ qty'[b]["quarantine"] \in Nat
        BY <1>2, HoldingAmounts DEF OnHand
      <3>2. OnHand(b) = 0 /\ qty[b]["locked"] = 0 /\ qty[b]["quarantine"] = 0
        BY <1>1, BlankIsEmpty
      <3>3. lot[b].source # "return"
        BY <1>1 DEF NoLot
      <3> QED BY <1>1, <2>1, <3>1, <3>2, <3>3 DEF Only, Zero
    <2>2. CASE c # b
      <3>1. OnHand(c)' = OnHand(c)
        BY <1>2, <2>2 DEF OnHand
      <3> QED BY <1>2, <2>2, <3>1, BucketsOf DEF Only, Zero
    <2> QED BY <2>1, <2>2
  <1>5. Blank'
    BY <1>2 DEF Blank
  <1>6. \A c \in BatchIds : lot[c] # NoLot => lot'[c] = lot[c]
    BY <1>1, <1>2
  <1>7. Quarantines
    BY <1>4 DEF Quarantines
  <1> QED BY <1>3, <1>4, <1>5, <1>6, <1>7 DEF Effect

\* The effect of a command that inserts no batch, read off each batch.
LEMMA WriteEffect ==
  ASSUME TypeOK, Blank, UNCHANGED lot, NEW h \in [BatchIds -> Int], NEW l \in [BatchIds -> Int],
         \A b \in BatchIds : /\ OnHand(b)' = OnHand(b) + h[b]
                             /\ qty'[b]["locked"] = qty[b]["locked"] + l[b],
         \A b \in BatchIds : lot[b] = NoLot => qty'[b] = qty[b]
  PROVE  Effect(h, l)
  <1>1. Blank'
    BY DEF Blank
  <1> QED BY <1>1 DEF Effect

\* What no command has touched.
LEMMA IdleEffect ==
  ASSUME TypeOK, Blank, UNCHANGED <<lot, qty>>
  PROVE  Effect(Zero, Zero) /\ Quarantines
  <1>1. Zero \in [BatchIds -> Int]
    BY DEF Zero
  <1>2. \A b \in BatchIds : /\ OnHand(b)' = OnHand(b) + Zero[b]
                            /\ qty'[b]["locked"] = qty[b]["locked"] + Zero[b]
    BY BucketsOf DEF Zero, OnHand
  <1>3. Quarantines
    BY BucketsOf DEF Quarantines
  <1> QED BY <1>1, <1>2, <1>3, WriteEffect

\* Units are moved from one bucket of a batch to another.
LEMMA MovedAmounts ==
  ASSUME TypeOK, NEW b \in BatchIds, NEW n \in Nat, NEW from \in Buckets, NEW to \in Buckets,
         from # to, qty' = Moved(qty, b, from, to, n)
  PROVE  /\ \A c \in BatchIds : c # b => qty'[c] = qty[c]
         /\ qty'[b][from] = qty[b][from] - n
         /\ qty'[b][to] = qty[b][to] + n
         /\ \A k \in Buckets \ {from, to} : qty'[b][k] = qty[b][k]
         /\ OnHand(b)' = OnHand(b)
  <1>1. qty[b] \in [Buckets -> Nat] /\ DOMAIN qty = BatchIds
    BY DEF TypeOK, StockTypeOK
  <1>2. /\ \A c \in BatchIds : c # b => qty'[c] = qty[c]
        /\ qty'[b] = [qty[b] EXCEPT ![from] = @ - n, ![to] = @ + n]
    BY <1>1 DEF Moved, TypeOK, StockTypeOK
  <1>3. /\ qty'[b][from] = qty[b][from] - n
        /\ qty'[b][to] = qty[b][to] + n
        /\ \A k \in Buckets \ {from, to} : qty'[b][k] = qty[b][k]
    BY <1>1, <1>2
  <1>4. OnHand(b)' = OnHand(b)
    BY <1>1, <1>3 DEF OnHand, Buckets
  <1> QED BY <1>2, <1>3, <1>4

\* A batch is inspected.
LEMMA InspectEffect ==
  ASSUME TypeOK, Blank, NEW b \in BatchIds, NEW bucket \in {"available", "quarantine"},
         InspectBatch(b, bucket)
  PROVE  Effect(Zero, Zero) /\ Quarantines
  <1>1. /\ UNCHANGED lot /\ lot[b] # NoLot /\ lot[b].source # "return"
        /\ qty' = Moved(qty, b, "pending", bucket, qty[b]["pending"])
    BY DEF InspectBatch, Rows, Traceable
  <1>2. qty[b]["pending"] \in Nat
    BY BucketsOf
  <1>3. /\ \A c \in BatchIds : c # b => qty'[c] = qty[c]
        /\ qty'[b][bucket] = qty[b][bucket] + qty[b]["pending"]
        /\ \A k \in Buckets \ {"pending", bucket} : qty'[b][k] = qty[b][k]
        /\ OnHand(b)' = OnHand(b)
    BY <1>1, <1>2, MovedAmounts DEF Buckets
  <1>4. qty'[b]["locked"] = qty[b]["locked"] /\ qty[b]["quarantine"] =< qty'[b]["quarantine"]
    BY <1>2, <1>3, BucketsOf DEF Buckets
  <1>5. Zero \in [BatchIds -> Int]
    BY DEF Zero
  <1>6. \A c \in BatchIds : /\ OnHand(c)' = OnHand(c) + Zero[c]
                            /\ qty'[c]["locked"] = qty[c]["locked"] + Zero[c]
    <2> TAKE c \in BatchIds
    <2>1. OnHand(c)' = OnHand(c)
      BY <1>3 DEF OnHand
    <2> QED BY <1>3, <1>4, <2>1, BucketsOf DEF Zero
  <1>7. Quarantines
    BY <1>1, <1>3, <1>4, BucketsOf DEF Quarantines
  <1> QED BY <1>1, <1>3, <1>5, <1>6, <1>7, WriteEffect

\* A walk over batches takes what is available of them.
LEMMA DrainEffect ==
  ASSUME TypeOK, Blank, NEW source, NEW d, DOMAIN d = source, UNCHANGED lot,
         \A b \in source : b \in BatchIds /\ lot[b] # NoLot /\ d[b] \in Nat,
         qty' = [b \in BatchIds |->
                   IF b \in source THEN [qty[b] EXCEPT !["available"] = @ - d[b]] ELSE qty[b]]
  PROVE  Effect(Drained(d), Zero) /\ Quarantines
  <1>1. Drained(d) \in [BatchIds -> Int] /\ Zero \in [BatchIds -> Int]
    BY DEF Drained, Zero
  <1>2. ASSUME NEW b \in BatchIds
        PROVE  /\ OnHand(b)' = OnHand(b) + Drained(d)[b]
               /\ qty'[b]["locked"] = qty[b]["locked"]
               /\ qty'[b]["quarantine"] = qty[b]["quarantine"]
    <2>1. CASE b \in source
      <3>1. qty'[b] = [qty[b] EXCEPT !["available"] = @ - d[b]] /\ d[b] \in Nat
        BY <2>1
      <3>2. /\ qty'[b]["available"] = qty[b]["available"] - d[b]
            /\ qty'[b]["locked"] = qty[b]["locked"]
            /\ qty'[b]["defective"] = qty[b]["defective"]
            /\ qty'[b]["pending"] = qty[b]["pending"]
            /\ qty'[b]["quarantine"] = qty[b]["quarantine"]
        BY <3>1, BucketsOf DEF Buckets
      <3>3. OnHand(b)' = OnHand(b) - d[b]
        BY <3>1, <3>2, BucketsOf DEF OnHand
      <3> QED BY <2>1, <3>1, <3>2, <3>3, BucketsOf DEF Drained
    <2>2. CASE b \notin source
      <3>1. qty'[b] = qty[b]
        BY <2>2
      <3>2. OnHand(b)' = OnHand(b)
        BY <3>1 DEF OnHand
      <3> QED BY <2>2, <3>1, <3>2, BucketsOf DEF Drained
    <2> QED BY <2>1, <2>2
  <1>3. \A b \in BatchIds : lot[b] = NoLot => qty'[b] = qty[b]
    OBVIOUS
  <1>4. \A b \in BatchIds : qty'[b]["locked"] = qty[b]["locked"] + Zero[b]
    BY <1>2, BucketsOf DEF Zero
  <1>5. Quarantines
    BY <1>2, BucketsOf DEF Quarantines
  <1> QED BY <1>1, <1>2, <1>3, <1>4, <1>5, WriteEffect

\* What uses of reservations add up to on a batch.
LEMMA TakenType ==
  ASSUME TypeOK, NEW o \in Orders, NEW m \in Reports \cup {NoReport}, NEW d, Uses(o, m, d)
  PROVE  /\ IsFiniteSet(DOMAIN d) /\ DOMAIN d \subseteq Reservations /\ d \in [DOMAIN d -> Int]
         /\ Spent(d) \in [BatchIds -> Int]
         /\ \A b \in BatchIds : TakenFrom(d, b) \in Nat /\ TakenFrom(d, b) =< qty[b]["locked"]
         /\ \A b \in BatchIds : b \notin Used(d) => TakenFrom(d, b) = 0
  <1>1. DOMAIN d = MaterialPool(o) /\ \A r \in DOMAIN d : d[r] \in Nat
    BY UsesWithin
  <1>2. DOMAIN d \subseteq Reservations
    BY <1>1 DEF MaterialPool, Pool
  <1>3. IsFiniteSet(DOMAIN d)
    BY <1>2, ReservationsAssumption, FS_Subset
  <1>4. d \in [DOMAIN d -> Int]
    BY <1>1 DEF Uses
  <1>5. \A b \in BatchIds : TakenFrom(d, b) \in Nat /\ TakenFrom(d, b) =< qty[b]["locked"]
    BY UsesWithin, BucketsOf
  <1>6. Spent(d) \in [BatchIds -> Int]
    BY <1>5 DEF Spent
  <1>7. ASSUME NEW b \in BatchIds, b \notin Used(d)
        PROVE  TakenFrom(d, b) = 0
    <2> DEFINE K == {r \in DOMAIN d : reservation[r].batch = b}
    <2>1. \A r \in K : d[r] = 0
      BY <1>1, <1>7 DEF Used, Batches
    <2>2. K \in SUBSET DOMAIN d /\ {} \in SUBSET K /\ \A r \in K \ {} : d[r] = 0
      BY <2>1
    <2> HIDE DEF K
    <2>3. SumOf(d, K) = SumOf(d, {})
      BY <1>3, <1>4, <2>2, SumZeroOutside
    <2>4. SumOf(d, K) = 0
      BY <2>3, SumEmpty
    <2> QED BY <2>4 DEF TakenFrom, Sum, SumOf, K
  <1> QED BY <1>2, <1>3, <1>4, <1>5, <1>6, <1>7

\* The buckets after a use of reservations.
LEMMA UsedAmounts ==
  ASSUME TypeOK, NEW o \in Orders, NEW m \in Reports \cup {NoReport}, NEW d, Uses(o, m, d),
         NEW b \in BatchIds
  PROVE  /\ AfterUse(d)[b]["available"] = qty[b]["available"]
         /\ AfterUse(d)[b]["locked"] = qty[b]["locked"] - TakenFrom(d, b)
         /\ AfterUse(d)[b]["defective"] = qty[b]["defective"]
         /\ AfterUse(d)[b]["pending"] = qty[b]["pending"]
         /\ AfterUse(d)[b]["quarantine"] = qty[b]["quarantine"]
  <1>1. AfterUse(d)[b] = IF b \in Used(d)
                         THEN [qty[b] EXCEPT !["locked"] = @ - TakenFrom(d, b)] ELSE qty[b]
    BY DEF AfterUse
  <1>2. CASE b \in Used(d)
    BY <1>1, <1>2, BucketsOf DEF Buckets
  <1>3. CASE b \notin Used(d)
    <2>1. TakenFrom(d, b) = 0
      BY <1>3, TakenType
    <2> QED BY <1>1, <1>3, <2>1, BucketsOf
  <1> QED BY <1>2, <1>3

\* Materials are used.
LEMMA UseEffect ==
  ASSUME TypeOK, Blank, NEW o \in Orders, NEW m \in Reports \cup {NoReport}, NEW d, Uses(o, m, d),
         UNCHANGED lot, qty' = AfterUse(d)
  PROVE  Effect(Spent(d), Spent(d)) /\ Quarantines
  <1>1. ASSUME NEW b \in BatchIds
        PROVE  /\ OnHand(b)' = OnHand(b) + Spent(d)[b]
               /\ qty'[b]["locked"] = qty[b]["locked"] + Spent(d)[b]
               /\ qty'[b]["quarantine"] = qty[b]["quarantine"]
    <2>1. /\ qty'[b]["available"] = qty[b]["available"]
          /\ qty'[b]["locked"] = qty[b]["locked"] - TakenFrom(d, b)
          /\ qty'[b]["defective"] = qty[b]["defective"]
          /\ qty'[b]["pending"] = qty[b]["pending"]
          /\ qty'[b]["quarantine"] = qty[b]["quarantine"]
      BY UsedAmounts
    <2>2. TakenFrom(d, b) \in Nat
      BY TakenType
    <2>3. OnHand(b)' = OnHand(b) - TakenFrom(d, b)
      BY <2>1, <2>2, BucketsOf DEF OnHand
    <2> QED BY <2>1, <2>2, <2>3, BucketsOf DEF Spent
  <1>2. ASSUME NEW b \in BatchIds, lot[b] = NoLot
        PROVE  qty'[b] = qty[b]
    <2>1. TakenFrom(d, b) = 0
      BY <1>2, TakenType, BlankIsEmpty
    <2>2. [qty[b] EXCEPT !["locked"] = @ - TakenFrom(d, b)] = qty[b]
      BY <2>1, BucketsOf DEF Buckets
    <2> QED BY <2>2 DEF AfterUse
  <1>3. Spent(d) \in [BatchIds -> Int]
    BY TakenType
  <1>4. Quarantines
    BY <1>1, BucketsOf DEF Quarantines
  <1> QED BY <1>1, <1>2, <1>3, <1>4, WriteEffect

\* What completing an order adds to each batch: what was finished, less what
\* was used.
Made(d, b, n) == [c \in BatchIds |-> IF c = b THEN n ELSE -TakenFrom(d, c)]

\* Materials are used, and what was finished is inserted.
LEMMA CompleteEffect ==
  ASSUME TypeOK, Blank, NEW o \in Orders, NEW actual \in Nat, NEW m \in Reports \cup {NoReport},
         NEW d, NEW b \in BatchIds, CompleteOrder(o, actual, m, d, b)
  PROVE  Effect(Made(d, b, actual), Spent(d)) /\ Quarantines
  <1>1. /\ Uses(o, m, d) /\ IsNextBatch(b)
        /\ lot' = [lot EXCEPT ![b] = NewLot(FactorySite, Finished, "company", "production")]
        /\ qty' = [AfterUse(d) EXCEPT ![b] = Holding("pending", actual)]
    BY DEF CompleteOrder, Completing
  <1>2. lot[b] = NoLot /\ TakenFrom(d, b) = 0 /\ TakenFrom(d, b) \in Nat
    BY <1>1, NextIsFree, TakenType, BlankIsEmpty
  <1>3. NewLot(FactorySite, Finished, "company", "production") # NoLot
    BY NewLotIsRow
  <1>4. \A c \in BatchIds : TakenFrom(d, c) \in Nat
    BY <1>1, TakenType
  <1>5. Made(d, b, actual) \in [BatchIds -> Int] /\ Spent(d) \in [BatchIds -> Int]
    BY <1>4 DEF Made, Spent
  <1>6. /\ qty'[b] = Holding("pending", actual)
        /\ \A c \in BatchIds : c # b => qty'[c] = AfterUse(d)[c]
    BY <1>1 DEF AfterUse
  <1>7. /\ lot'[b] # NoLot
        /\ \A c \in BatchIds : c # b => lot'[c] = lot[c]
    BY <1>1, <1>3 DEF TypeOK, StockTypeOK
  <1>8. ASSUME NEW c \in BatchIds
        PROVE  /\ OnHand(c)' = OnHand(c) + Made(d, b, actual)[c]
               /\ qty'[c]["locked"] = qty[c]["locked"] + Spent(d)[c]
               /\ qty[c]["quarantine"] =< qty'[c]["quarantine"]
               /\ lot[c].source = "return" => qty'[c]["quarantine"] = qty[c]["quarantine"]
    <2>1. CASE c = b
      <3>1. OnHand(b)' = actual /\ qty'[b]["locked"] = 0 /\ qty'[b]["quarantine"] \in Nat
        BY <1>6, HoldingAmounts DEF OnHand
      <3>2. OnHand(b) = 0 /\ qty[b]["locked"] = 0 /\ qty[b]["quarantine"] = 0
        BY <1>2, BlankIsEmpty
      <3>3. lot[b].source # "return"
        BY <1>2 DEF NoLot
      <3> QED BY <1>2, <2>1, <3>1, <3>2, <3>3 DEF Made, Spent
    <2>2. CASE c # b
      <3>1. /\ qty'[c]["available"] = qty[c]["available"]
            /\ qty'[c]["locked"] = qty[c]["locked"] - TakenFrom(d, c)
            /\ qty'[c]["defective"] = qty[c]["defective"]
            /\ qty'[c]["pending"] = qty[c]["pending"]
            /\ qty'[c]["quarantine"] = qty[c]["quarantine"]
        BY <1>1, <1>6, <2>2, UsedAmounts
      <3>2. OnHand(c)' = OnHand(c) - TakenFrom(d, c)
        BY <1>4, <3>1, BucketsOf DEF OnHand
      <3> QED BY <1>4, <2>2, <3>1, <3>2, BucketsOf DEF Made, Spent
    <2> QED BY <2>1, <2>2
  <1>9. ASSUME NEW c \in BatchIds, c # b, lot[c] = NoLot
        PROVE  qty'[c] = qty[c]
    <2>1. TakenFrom(d, c) = 0
      BY <1>1, <1>9, TakenType, BlankIsEmpty
    <2>2. [qty[c] EXCEPT !["locked"] = @ - TakenFrom(d, c)] = qty[c]
      BY <2>1, BucketsOf DEF Buckets
    <2> QED BY <1>6, <1>9, <2>2 DEF AfterUse
  <1>10. Blank'
    BY <1>7, <1>9 DEF Blank
  <1>11. Quarantines
    BY <1>8 DEF Quarantines
  <1>12. \A c \in BatchIds : lot[c] # NoLot => lot'[c] = lot[c]
    BY <1>2, <1>7
  <1> QED BY <1>5, <1>8, <1>10, <1>11, <1>12 DEF Effect

\* Stock is reserved.
LEMMA ReserveEffect ==
  ASSUME TypeOK, Blank, NEW r \in Reservations, NEW b \in BatchIds,
         NEW for \in Orders \cup {Elsewhere}, NEW n \in Nat, NEW priority,
         Reserve(r, b, for, n, priority)
  PROVE  Effect(Zero, Only(b, Granted(b, n))) /\ Quarantines
  <1>1. /\ UNCHANGED lot /\ lot[b] # NoLot
        /\ qty' = Moved(qty, b, "available", "locked", Granted(b, n))
    BY DEF Reserve, Rows
  <1>2. Granted(b, n) \in Nat
    BY GrantedType, BucketsOf
  <1>3. /\ \A c \in BatchIds : c # b => qty'[c] = qty[c]
        /\ qty'[b]["locked"] = qty[b]["locked"] + Granted(b, n)
        /\ qty'[b]["quarantine"] = qty[b]["quarantine"]
        /\ OnHand(b)' = OnHand(b)
    BY <1>1, <1>2, MovedAmounts DEF Buckets
  <1>4. Zero \in [BatchIds -> Int] /\ Only(b, Granted(b, n)) \in [BatchIds -> Int]
    BY <1>2 DEF Zero, Only
  <1>5. \A c \in BatchIds : /\ OnHand(c)' = OnHand(c) + Zero[c]
                            /\ qty'[c]["locked"] = qty[c]["locked"] + Only(b, Granted(b, n))[c]
    <2> TAKE c \in BatchIds
    <2>1. OnHand(c)' = OnHand(c)
      BY <1>3 DEF OnHand
    <2> QED BY <1>2, <1>3, <2>1, BucketsOf DEF Zero, Only
  <1>6. Quarantines
    BY <1>3, BucketsOf DEF Quarantines
  <1> QED BY <1>1, <1>3, <1>4, <1>5, <1>6, WriteEffect

\* What is released of each batch.
Freed(o)      == {r \in Pool(o) : reservation[r].left > 0}
FreedOf(o, b) == Left({r \in Freed(o) : reservation[r].batch = b})
Unlocked(o)   == [b \in BatchIds |-> -FreedOf(o, b)]

\* What reservations hold, as a function.
Lefts == [r \in Reservations |-> reservation[r].left]

\* What is left is a natural number.
LEMMA LeftsType ==
  ASSUME TypeOK
  PROVE  Lefts \in [Reservations -> Nat] /\ Lefts \in [Reservations -> Int]
  BY DEF Lefts, TypeOK, ProductionTypeOK, NoReservation

\* A batch of which nothing is released.
LEMMA NothingFreed ==
  ASSUME NEW o, NEW b, b \notin Batches(Freed(o))
  PROVE  FreedOf(o, b) = 0
  <1>1. {r \in Freed(o) : reservation[r].batch = b} = {}
    BY DEF Batches
  <1>2. SumOf(Lefts, {}) = 0
    BY SumEmpty
  <1> QED BY <1>1, <1>2 DEF FreedOf, Left, Lefts, Sum, SumOf

\* What is reserved for an order is released.
LEMMA ReleaseEffect ==
  ASSUME TypeOK, Blank, NEW o \in Orders, ReleaseMaterials(o)
  PROVE  Effect(Zero, Unlocked(o)) /\ Quarantines
  <1>1. /\ UNCHANGED lot
        /\ \A b \in BatchIds : FreedOf(o, b) \in 0 .. qty[b]["locked"]
        /\ qty' = [b \in BatchIds |->
             IF b \in Batches(Freed(o))
             THEN [qty[b] EXCEPT !["locked"] = @ - FreedOf(o, b), !["available"] = @ + FreedOf(o, b)]
             ELSE qty[b]]
    BY DEF ReleaseMaterials, Freed, FreedOf
  <1>2. \A b \in BatchIds : FreedOf(o, b) \in Nat /\ FreedOf(o, b) =< qty[b]["locked"]
    BY <1>1, BucketsOf
  <1>3. ASSUME NEW b \in BatchIds
        PROVE  /\ OnHand(b)' = OnHand(b)
               /\ qty'[b]["locked"] = qty[b]["locked"] - FreedOf(o, b)
               /\ qty'[b]["quarantine"] = qty[b]["quarantine"]
    <2>1. CASE b \in Batches(Freed(o))
      <3>1. qty'[b] = [qty[b] EXCEPT !["locked"] = @ - FreedOf(o, b),
                                     !["available"] = @ + FreedOf(o, b)]
        BY <1>1, <2>1
      <3>2. /\ qty'[b]["available"] = qty[b]["available"] + FreedOf(o, b)
            /\ qty'[b]["locked"] = qty[b]["locked"] - FreedOf(o, b)
            /\ qty'[b]["defective"] = qty[b]["defective"]
            /\ qty'[b]["pending"] = qty[b]["pending"]
            /\ qty'[b]["quarantine"] = qty[b]["quarantine"]
        BY <3>1, BucketsOf DEF Buckets
      <3> QED BY <1>2, <3>2, BucketsOf DEF OnHand
    <2>2. CASE b \notin Batches(Freed(o))
      <3>1. qty'[b] = qty[b] /\ FreedOf(o, b) = 0
        BY <1>1, <2>2, NothingFreed
      <3> QED BY <3>1, BucketsOf DEF OnHand
    <2> QED BY <2>1, <2>2
  <1>4. ASSUME NEW b \in BatchIds, lot[b] = NoLot
        PROVE  qty'[b] = qty[b]
    <2>1. FreedOf(o, b) = 0
      BY <1>2, <1>4, BlankIsEmpty
    <2>2. [qty[b] EXCEPT !["locked"] = @ - 0, !["available"] = @ + 0] = qty[b]
      BY BucketsOf DEF Buckets
    <2> QED BY <1>1, <2>1, <2>2
  <1>5. Zero \in [BatchIds -> Int] /\ Unlocked(o) \in [BatchIds -> Int]
    BY <1>2 DEF Zero, Unlocked
  <1>6. \A b \in BatchIds : /\ OnHand(b)' = OnHand(b) + Zero[b]
                            /\ qty'[b]["locked"] = qty[b]["locked"] + Unlocked(o)[b]
    BY <1>2, <1>3, BucketsOf DEF Zero, Unlocked
  <1>7. Quarantines
    BY <1>3, BucketsOf DEF Quarantines
  <1> QED BY <1>1, <1>4, <1>5, <1>6, <1>7, WriteEffect

\* The counted buckets are four.
LEMMA SumCounted ==
  ASSUME NEW f \in [Counted -> Int]
  PROVE  /\ IsFiniteSet(Counted)
         /\ SumOf(f, Counted) = f["available"] + f["locked"] + f["defective"] + f["pending"]
  <1>1. Counted = {"available"} \cup {"locked"} \cup {"defective"} \cup {"pending"}
    BY DEF Counted, Buckets
  <1>2. IsFiniteSet(Counted)
    BY <1>1, FS_Singleton, FS_Union
  <1>3. /\ {"available"} \in SUBSET Counted /\ {"locked"} \in SUBSET Counted
        /\ {"defective"} \in SUBSET Counted /\ {"pending"} \in SUBSET Counted
        /\ {"available"} \cup {"locked"} \in SUBSET Counted
        /\ {"available"} \cup {"locked"} \cup {"defective"} \in SUBSET Counted
    BY <1>1
  <1>4. /\ f["available"] \in Int /\ f["locked"] \in Int
        /\ f["defective"] \in Int /\ f["pending"] \in Int
    BY <1>1
  <1>5. SumOf(f, {"available"} \cup {"locked"}) = SumOf(f, {"available"}) + SumOf(f, {"locked"})
    BY <1>2, <1>3, SumUnion
  <1>6. SumOf(f, {"available"} \cup {"locked"} \cup {"defective"})
          = SumOf(f, {"available"} \cup {"locked"}) + SumOf(f, {"defective"})
    BY <1>2, <1>3, SumUnion
  <1>7. SumOf(f, {"available"} \cup {"locked"} \cup {"defective"} \cup {"pending"})
          = SumOf(f, {"available"} \cup {"locked"} \cup {"defective"}) + SumOf(f, {"pending"})
    BY <1>2, <1>3, SumUnion
  <1>8. /\ SumOf(f, {"available"}) = f["available"] /\ SumOf(f, {"locked"}) = f["locked"]
        /\ SumOf(f, {"defective"}) = f["defective"] /\ SumOf(f, {"pending"}) = f["pending"]
    BY <1>4, SumOne
  <1>9. SumOf(f, Counted) = SumOf(f, {"available"} \cup {"locked"} \cup {"defective"} \cup {"pending"})
    BY <1>1
  <1> QED BY <1>2, <1>4, <1>5, <1>6, <1>7, <1>8, <1>9

\* What a stocktake corrects: of a bucket, of a batch, of what is locked.
Corrections(t) == [x \in BatchIds \X Counted |->
                     adj[t][x[1]][x[2]].counted - count[t][0][x[1]].q[x[2]]]
PendingOf(t, b) == {x \in Pending(t) : x[1] = b}
Corrected(t) == [b \in BatchIds |-> Sum(Corrections(t), PendingOf(t, b))]
IsPending(t, b, k) == adj[t][b][k].decision = "pending"
Off(t, b) == [k \in Counted |-> IF IsPending(t, b, k) THEN Corrections(t)[<<b, k>>] ELSE 0]
Relocked(t) == [b \in BatchIds |-> Off(t, b)["locked"]]

\* Corrections are integers, of finitely many buckets.
LEMMA CorrectionsType ==
  ASSUME TypeOK, NEW t \in Stocktakes
  PROVE  /\ Corrections(t) \in [BatchIds \X Counted -> Int]
         /\ IsFiniteSet(BatchIds \X Counted) /\ IsFiniteSet(Pending(t))
         /\ Pending(t) \subseteq BatchIds \X Counted
  <1>1. ASSUME NEW b \in BatchIds, NEW k \in Counted
        PROVE  adj[t][b][k].counted \in Nat /\ count[t][0][b].q[k] \in Nat
    <2>1. adj[t][b][k].counted \in Nat
      BY DEF TypeOK, StocktakeTypeOK
    <2>2. count[t][0][b] \in Row \cup {NoRow}
      BY DEF TypeOK, StocktakeTypeOK, Rounds
    <2>3. count[t][0][b] \in Row => count[t][0][b].q[k] \in Nat
      BY DEF Row, Counts
    <2>4. count[t][0][b] = NoRow => count[t][0][b].q[k] \in Nat
      BY DEF NoRow
    <2> QED BY <2>1, <2>2, <2>3, <2>4
  <1>2. \A x \in BatchIds \X Counted : Corrections(t)[x] \in Int
    BY <1>1 DEF Corrections
  <1>3. [k \in Counted |-> 0] \in [Counted -> Int]
    OBVIOUS
  <1>4. IsFiniteSet(Counted)
    BY <1>3, SumCounted
  <1>5. IsFiniteSet(BatchIds \X Counted)
    BY <1>4, BatchIdsAssumption, FS_Product
  <1>6. Pending(t) \subseteq BatchIds \X Counted
    BY DEF Pending
  <1>7. Corrections(t) \in [BatchIds \X Counted -> Int]
    BY <1>2 DEF Corrections
  <1> QED BY <1>5, <1>6, <1>7, FS_Subset

\* What is corrected of a batch is corrected in its buckets.
LEMMA CorrectedIs ==
  ASSUME TypeOK, NEW t \in Stocktakes, NEW b \in BatchIds
  PROVE  /\ Off(t, b) \in [Counted -> Int]
         /\ Corrected(t)[b] = SumOf(Off(t, b), Counted)
         /\ Corrected(t)[b] \in Int
  <1> DEFINE P == PendingOf(t, b)
             f == [x \in P |-> Corrections(t)[x]]
             p == [x \in P |-> x[2]]
  <1>1. /\ P \subseteq BatchIds \X Counted /\ IsFiniteSet(P)
        /\ Corrections(t) \in [BatchIds \X Counted -> Int]
    BY CorrectionsType, FS_Subset DEF PendingOf
  <1>2. \A k \in Counted : <<b, k>> \in P <=> IsPending(t, b, k)
    BY DEF PendingOf, Pending, IsPending
  <1>3. \A k \in Counted : Corrections(t)[<<b, k>>] \in Int
    BY <1>1
  <1>4. Off(t, b) \in [Counted -> Int]
    BY <1>3 DEF Off
  <1>5. f \in [P -> Int] /\ p \in [P -> Counted]
    BY <1>1
  <1>6. \A k \in Counted : Off(t, b)[k] = SumOf(f, {x \in P : p[x] = k})
    <2> TAKE k \in Counted
    <2>1. {x \in P : p[x] = k} = IF IsPending(t, b, k) THEN {<<b, k>>} ELSE {}
      BY <1>1, <1>2 DEF PendingOf
    <2>2. CASE IsPending(t, b, k)
      <3>1. <<b, k>> \in P /\ f[<<b, k>>] = Corrections(t)[<<b, k>>] /\ f[<<b, k>>] \in Int
        BY <1>2, <1>3, <2>2
      <3> HIDE DEF f
      <3>2. SumOf(f, {<<b, k>>}) = f[<<b, k>>]
        BY <3>1, SumOne
      <3> QED BY <2>1, <2>2, <3>1, <3>2 DEF Off
    <2>3. CASE ~IsPending(t, b, k)
      <3> HIDE DEF f
      <3> QED BY <2>1, <2>3, SumEmpty DEF Off
    <2> QED BY <2>2, <2>3
  <1>7. Parts(f, p, Off(t, b))
    <2>1. DOMAIN f = P /\ DOMAIN Off(t, b) = Counted
      BY DEF Off
    <2> HIDE DEF f, p
    <2> QED BY <1>5, <1>6, <2>1 DEF Parts
  <1>8. Same(f, Corrections(t), P)
    BY <1>1 DEF Same
  <1> HIDE DEF f, p, P
  <1>9. IsFiniteSet(Counted) /\ SumOf(Off(t, b), Counted) \in Int
    BY <1>4, SumCounted, SumType
  <1>10. SumOf(f, P) = SumOf(Off(t, b), Counted)
    BY <1>1, <1>4, <1>5, <1>7, <1>9, SumParts
  <1>11. SumOf(Corrections(t), P) = SumOf(f, P)
    BY <1>8, SumSame
  <1>12. Corrected(t)[b] = SumOf(Corrections(t), P)
    BY DEF Corrected, Sum, SumOf, P
  <1> QED BY <1>4, <1>9, <1>10, <1>11, <1>12

\* The counted quantities are written.
LEMMA AdjustEffect ==
  ASSUME FreezeInv, Blank, NEW t \in Stocktakes, NEW u, ApproveVariance(t, u)
  PROVE  Effect(Corrected(t), Relocked(t)) /\ Quarantines
  <1>0. TypeOK
    BY DEF FreezeInv
  <1>1. /\ UNCHANGED lot /\ qty' = Adjusted(t)
        /\ \A x \in Pending(t) : qty[x[1]][x[2]] = count[t][0][x[1]].q[x[2]]
    BY DEF ApproveVariance
  <1>2. ASSUME NEW b \in BatchIds, NEW k \in Counted
        PROVE  qty'[b][k] = qty[b][k] + Off(t, b)[k]
    <2>1. k \in Buckets
      BY DEF Counted
    <2>2. adj[t][b][k].counted \in Nat /\ qty[b][k] \in Nat
      BY <1>0, <2>1 DEF TypeOK, StocktakeTypeOK, StockTypeOK
    <2>3. CASE IsPending(t, b, k)
      <3>1. <<b, k>> \in Pending(t)
        BY <2>3 DEF Pending, IsPending
      <3>2. qty[b][k] = count[t][0][b].q[k]
        BY <1>1, <3>1
      <3>3. Off(t, b)[k] = adj[t][b][k].counted - qty[b][k]
        BY <2>3, <3>2 DEF Off, Corrections
      <3>4. qty'[b][k] = adj[t][b][k].counted
        BY <1>1, <2>1, <2>3 DEF Adjusted, IsPending
      <3> QED BY <2>2, <3>3, <3>4
    <2>4. CASE ~IsPending(t, b, k)
      <3>1. qty'[b][k] = qty[b][k] /\ Off(t, b)[k] = 0
        BY <1>1, <2>1, <2>4 DEF Adjusted, IsPending, Off
      <3> QED BY <2>2, <3>1
    <2> QED BY <2>3, <2>4
  <1>3. ASSUME NEW b \in BatchIds
        PROVE  /\ OnHand(b)' = OnHand(b) + Corrected(t)[b]
               /\ qty'[b]["locked"] = qty[b]["locked"] + Relocked(t)[b]
               /\ qty'[b]["quarantine"] = qty[b]["quarantine"]
               /\ Relocked(t)[b] \in Int
    <2>1. qty'[b]["quarantine"] = qty[b]["quarantine"]
      BY <1>1 DEF Adjusted, Counted, Buckets
    <2>2. Off(t, b) \in [Counted -> Int]
      BY <1>0, CorrectedIs
    <2>3. /\ Off(t, b)["available"] \in Int /\ Off(t, b)["locked"] \in Int
          /\ Off(t, b)["defective"] \in Int /\ Off(t, b)["pending"] \in Int
      BY <2>2 DEF Counted, Buckets
    <2>4. Corrected(t)[b] = Off(t, b)["available"] + Off(t, b)["locked"] + Off(t, b)["defective"]
                            + Off(t, b)["pending"]
      BY <1>0, <2>2, CorrectedIs, SumCounted
    <2>5. /\ qty'[b]["available"] = qty[b]["available"] + Off(t, b)["available"]
          /\ qty'[b]["locked"] = qty[b]["locked"] + Off(t, b)["locked"]
          /\ qty'[b]["defective"] = qty[b]["defective"] + Off(t, b)["defective"]
          /\ qty'[b]["pending"] = qty[b]["pending"] + Off(t, b)["pending"]
      BY <1>2 DEF Counted, Buckets
    <2>6. OnHand(b)' = OnHand(b) + Corrected(t)[b]
      BY <1>0, <2>1, <2>3, <2>4, <2>5, BucketsOf DEF OnHand
    <2> QED BY <2>1, <2>3, <2>5, <2>6 DEF Relocked
  <1>4. ASSUME NEW b \in BatchIds, lot[b] = NoLot
        PROVE  qty'[b] = qty[b]
    <2>1. \A k \in Counted : adj[t][b][k].decision # "pending"
      <3>1. IsOpen(t) /\ b \notin Targets(t)
        BY <1>4 DEF ApproveVariance, FreezeInv, Placed, IsOpen, Open
      <3> QED BY <3>1 DEF FreezeInv, AdjustmentsPlaced
    <2>2. qty'[b] = [k \in Buckets |-> qty[b][k]]
      BY <1>1, <2>1 DEF Adjusted
    <2> QED BY <1>0, <2>2, BucketsOf
  <1>5. Corrected(t) \in [BatchIds -> Int] /\ Relocked(t) \in [BatchIds -> Int]
    <2>1. \A b \in BatchIds : Corrected(t)[b] \in Int
      BY <1>0, CorrectedIs
    <2> QED BY <1>3, <2>1 DEF Corrected, Relocked
  <1>6. Quarantines
    BY <1>0, <1>3, BucketsOf DEF Quarantines
  <1> QED BY <1>0, <1>1, <1>3, <1>4, <1>5, <1>6, WriteEffect

\* Two batches are inserted at once.
Both(b, n, c, m) == [x \in BatchIds |-> IF x = b THEN n ELSE IF x = c THEN m ELSE 0]

\* An overproduction is divided.
LEMMA DivideEffect ==
  ASSUME TypeOK, TypeInv, Blank, NEW o \in Orders, NEW u, NEW b \in BatchIds, NEW c \in BatchIds,
         RejectOverproduction(o, u, b, c)
  PROVE  /\ Effect(Both(b, order[o].planned, c, order[o].actual - order[o].planned), Zero)
         /\ Quarantines
  <1> DEFINE n == order[o].planned
             m == order[o].actual - order[o].planned
  <1>1. n \in Nat /\ m \in Nat
    BY DEF RejectOverproduction, Reviews, TypeInv, OverIsOver, TypeOK, ProductionTypeOK
  <1>2. /\ lot[b] = NoLot /\ lot[c] = NoLot /\ b # c
        /\ lot' = [lot EXCEPT ![b] = NewLot(FactorySite, Finished, "company", "variance"),
                              ![c] = NewLot(FactorySite, Finished, "factory", "variance")]
        /\ qty' = [qty EXCEPT ![b] = Holding("pending", n), ![c] = Holding("available", m)]
    <2>1. b \in BatchIds /\ c \in BatchIds \ Rows /\ b < c /\ IsNextBatch(b)
      BY DEF RejectOverproduction
    <2>2. b # c
      BY <2>1, BatchIdsAssumption
    <2> QED BY <2>1, <2>2, NextIsFree DEF RejectOverproduction, Rows
  <1> HIDE DEF n, m
  <1>3. /\ NewLot(FactorySite, Finished, "company", "variance") # NoLot
        /\ NewLot(FactorySite, Finished, "factory", "variance") # NoLot
    BY NewLotIsRow
  <1>4. /\ lot'[b] # NoLot /\ lot'[c] # NoLot
        /\ \A x \in BatchIds : x # b /\ x # c => lot'[x] = lot[x] /\ qty'[x] = qty[x]
        /\ qty'[b] = Holding("pending", n) /\ qty'[c] = Holding("available", m)
    BY <1>2, <1>3 DEF TypeOK, StockTypeOK
  <1>5. ASSUME NEW x \in BatchIds
        PROVE  /\ OnHand(x)' = OnHand(x) + Both(b, n, c, m)[x]
               /\ qty'[x]["locked"] = qty[x]["locked"] + Zero[x]
               /\ qty[x]["quarantine"] =< qty'[x]["quarantine"]
               /\ lot[x].source = "return" => qty'[x]["quarantine"] = qty[x]["quarantine"]
    <2>1. CASE x = b
      <3>1. OnHand(b)' = n /\ qty'[b]["locked"] = 0 /\ qty'[b]["quarantine"] \in Nat
        BY <1>1, <1>4, HoldingAmounts DEF OnHand
      <3>2. OnHand(b) = 0 /\ qty[b]["locked"] = 0 /\ qty[b]["quarantine"] = 0
        BY <1>2, BlankIsEmpty
      <3>3. lot[b].source # "return"
        BY <1>2 DEF NoLot
      <3> QED BY <1>1, <2>1, <3>1, <3>2, <3>3 DEF Both, Zero
    <2>2. CASE x = c
      <3>1. OnHand(c)' = m /\ qty'[c]["locked"] = 0 /\ qty'[c]["quarantine"] \in Nat
        BY <1>1, <1>4, HoldingAmounts DEF OnHand
      <3>2. OnHand(c) = 0 /\ qty[c]["locked"] = 0 /\ qty[c]["quarantine"] = 0
        BY <1>2, BlankIsEmpty
      <3>3. lot[c].source # "return"
        BY <1>2 DEF NoLot
      <3> QED BY <1>1, <1>2, <2>2, <3>1, <3>2, <3>3 DEF Both, Zero
    <2>3. CASE x # b /\ x # c
      <3>1. OnHand(x)' = OnHand(x)
        BY <1>4, <2>3 DEF OnHand
      <3> QED BY <1>4, <2>3, <3>1, BucketsOf DEF Both, Zero
    <2> QED BY <2>1, <2>2, <2>3
  <1>6. Both(b, n, c, m) \in [BatchIds -> Int] /\ Zero \in [BatchIds -> Int]
    BY <1>1 DEF Both, Zero
  <1>7. Blank'
    BY <1>4 DEF Blank
  <1>8. \A x \in BatchIds : lot[x] # NoLot => lot'[x] = lot[x]
    BY <1>2, <1>4
  <1>9. Quarantines
    BY <1>5 DEF Quarantines
  <1> QED BY <1>5, <1>6, <1>7, <1>8, <1>9 DEF Effect, n, m

\* A return is put back into stock.
LEMMA RestockEffect ==
  ASSUME FreezeInv, ReturnsPlaced, Blank, NEW y \in Returns, NEW u, ApproveDisposition(y, u),
         NEW b, b = returned[y].batch
  PROVE  /\ Effect(Zero, Zero)
         /\ b \in BatchIds /\ returned[y].n \in Nat
         /\ qty'[b]["quarantine"] = qty[b]["quarantine"] - returned[y].n
         /\ \A c \in BatchIds : c # b => qty'[c] = qty[c]
  <1>0. TypeOK
    BY DEF FreezeInv
  <1>1. returned[y] \in ReturnRow /\ returned[y].passed =< returned[y].n
    BY <1>0, ReturnType DEF ApproveDisposition, ReviewsReturn
  <1>2. PICK n, p : n = returned[y].n /\ p = returned[y].passed
    OBVIOUS
  <1>3. /\ b \in BatchIds /\ n \in Nat /\ p \in Nat /\ n - p \in Nat
        /\ lot[b] # NoLot /\ UNCHANGED lot
    BY <1>1, <1>2 DEF ReturnRow, ReturnsPlaced, ApproveDisposition, ReviewsReturn
  <1>4. /\ qty'[b] = [qty[b] EXCEPT !["quarantine"] = @ - n,
                                    !["available"]  = @ + p,
                                    !["defective"]  = @ + (n - p)]
        /\ \A c \in BatchIds : c # b => qty'[c] = qty[c]
    BY <1>0, <1>2, <1>3 DEF ApproveDisposition, Restocked, TypeOK, StockTypeOK
  <1>5. /\ qty'[b]["quarantine"] = qty[b]["quarantine"] - n
        /\ qty'[b]["available"] = qty[b]["available"] + p
        /\ qty'[b]["defective"] = qty[b]["defective"] + (n - p)
        /\ qty'[b]["locked"] = qty[b]["locked"]
        /\ qty'[b]["pending"] = qty[b]["pending"]
    BY <1>0, <1>3, <1>4, BucketsOf DEF Buckets
  <1>6. OnHand(b)' = OnHand(b)
    BY <1>0, <1>3, <1>5, BucketsOf DEF OnHand
  <1>7. \A c \in BatchIds : /\ OnHand(c)' = OnHand(c) + Zero[c]
                            /\ qty'[c]["locked"] = qty[c]["locked"] + Zero[c]
    <2> TAKE c \in BatchIds
    <2>1. OnHand(c)' = OnHand(c)
      BY <1>4, <1>6 DEF OnHand
    <2>2. qty'[c]["locked"] = qty[c]["locked"]
      BY <1>4, <1>5
    <2> QED BY <1>0, <2>1, <2>2, BucketsOf DEF Zero
  <1>8. Zero \in [BatchIds -> Int]
    BY DEF Zero
  <1>9. \A c \in BatchIds : lot[c] = NoLot => qty'[c] = qty[c]
    BY <1>3, <1>4
  <1>10. Effect(Zero, Zero)
    BY <1>0, <1>3, <1>7, <1>8, <1>9, WriteEffect
  <1> QED BY <1>2, <1>3, <1>4, <1>5, <1>10

\* A walk over batches that may be shipped takes units that are there.
LEMMA WalkTakes ==
  ASSUME NEW w, NEW s, NEW d, NEW earlier, NEW n \in Nat,
         TakesInOrder(d, [b \in Shippable(w, s) |-> qty[b]["available"]], earlier, n)
  PROVE  /\ DOMAIN d = Shippable(w, s) /\ d \in [Shippable(w, s) -> Int]
         /\ Shippable(w, s) \subseteq RowsOf(w, s) /\ Shippable(w, s) \subseteq BatchIds
         /\ \A b \in Shippable(w, s) : b \in BatchIds /\ lot[b] # NoLot /\ d[b] \in Nat
         /\ SumOf(d, Shippable(w, s)) = n
  <1> DEFINE A == Shippable(w, s)
             has == [b \in A |-> qty[b]["available"]]
  <1>1. DOMAIN has = A
    OBVIOUS
  <1>2. d \in [A -> 0 .. n] /\ Total(d) = n
    BY <1>1 DEF TakesInOrder
  <1>3. DOMAIN d = A /\ \A b \in A : d[b] \in Nat
    BY <1>2
  <1>4. d \in [A -> Int]
    BY <1>2
  <1>5. A \subseteq RowsOf(w, s) /\ \A b \in A : b \in BatchIds /\ lot[b] # NoLot
    BY DEF Shippable, RowsOf, Rows
  <1>6. SumOf(d, A) = n
    BY <1>2, <1>3 DEF Total, Sum, SumOf
  <1> QED BY <1>3, <1>4, <1>5, <1>6

\* A purchase order item is received.
LEMMA ReceiptEffect ==
  ASSUME TypeOK, Blank, NEW i \in Items, NEW b \in BatchIds, ReceivePurchase(i, b)
  PROVE  Effect(Only(b, ItemOf[i].n), Zero) /\ Quarantines
  <1>1. ItemOf[i].n \in Nat
    BY ItemAssumption
  <1>2. NewLot(ItemOf[i].wh, ItemOf[i].sku, "company", "receipt") # NoLot
    BY NewLotIsRow
  <1> QED BY <1>1, <1>2, InsertEffect DEF ReceivePurchase

\* A transfer is shipped.
LEMMA ShipEffect ==
  ASSUME TypeOK, Blank, NEW x \in Transfers, NEW d, ShipTransfer(x, d)
  PROVE  Effect(Drained(d), Zero) /\ Quarantines
  <1> DEFINE A == Shippable(transfer[x].from, transfer[x].sku)
  <1>1. transfer[x].n \in Nat
    BY TransferType DEF ShipTransfer
  <1>2. DOMAIN d = A /\ \A b \in A : b \in BatchIds /\ lot[b] # NoLot /\ d[b] \in Nat
    <2>1. \E earlier :
            TakesInOrder(d, [b \in A |-> qty[b]["available"]], earlier, transfer[x].n)
      BY DEF ShipTransfer
    <2> QED BY <1>1, <2>1, WalkTakes
  <1>3. UNCHANGED lot
    BY DEF ShipTransfer
  <1>4. qty' = [b \in BatchIds |->
                  IF b \in A THEN [qty[b] EXCEPT !["available"] = @ - d[b]] ELSE qty[b]]
    BY DEF ShipTransfer
  <1> HIDE DEF A
  <1> QED BY <1>2, <1>3, <1>4, DrainEffect

\* A transfer is received.
LEMMA ArrivalEffect ==
  ASSUME TypeOK, Blank, NEW x \in Transfers, NEW b \in BatchIds, ReceiveTransfer(x, b)
  PROVE  Effect(Only(b, transfer[x].n), Zero) /\ Quarantines
  <1>1. transfer[x].n \in Nat
    BY TransferType DEF ReceiveTransfer, CanReceive
  <1>2. NewLot(transfer[x].to, transfer[x].sku, "company", "transfer") # NoLot
    BY NewLotIsRow
  <1> QED BY <1>1, <1>2, InsertEffect DEF ReceiveTransfer

\* A shipment leaves.
LEMMA DispatchEffect ==
  ASSUME TypeOK, Blank, NEW x \in Shipments, NEW d, Dispatch(x, d)
  PROVE  Effect(Drained(d), Zero) /\ Quarantines
  <1> DEFINE A == Shippable(FactorySite, Finished)
  <1>1. shipment[x].n \in Nat
    BY ShipmentType DEF Dispatch, CanDispatch, ShipmentRow
  <1>2. DOMAIN d = A /\ \A b \in A : b \in BatchIds /\ lot[b] # NoLot /\ d[b] \in Nat
    BY <1>1, WalkTakes DEF Dispatch
  <1>3. UNCHANGED lot
    BY DEF Dispatch
  <1>4. qty' = [b \in BatchIds |->
                  IF b \in A THEN [qty[b] EXCEPT !["available"] = @ - d[b]] ELSE qty[b]]
    BY DEF Dispatch
  <1> HIDE DEF A
  <1> QED BY <1>2, <1>3, <1>4, DrainEffect

\* A return comes in.
LEMMA ReturnEffect ==
  ASSUME TypeOK, Blank, NEW y \in Returns, NEW x, NEW w, NEW n \in Nat, NEW b,
         ReceiveReturn(y, x, w, n, b)
  PROVE  Effect(Only(b, n), Zero) /\ Quarantines
  <1>1. NewLot(w, Finished, "company", "return") # NoLot
    BY NewLotIsRow
  <1> QED BY <1>1, InsertEffect DEF ReceiveReturn

\* What was made with a deviation is approved.
LEMMA ApproveEffect ==
  ASSUME TypeOK, Blank, NEW o \in Orders, NEW u, NEW b \in BatchIds, ApproveProduction(o, u, b)
  PROVE  Effect(Only(b, order[o].actual), Zero) /\ Quarantines
  <1>1. order[o].actual \in Nat
    BY DEF TypeOK, ProductionTypeOK
  <1>2. CASE order[o].actual > 0
    <2>1. NewLot(FactorySite, Finished, "company", "variance") # NoLot
      BY NewLotIsRow
    <2> QED BY <1>1, <1>2, <2>1, InsertEffect DEF ApproveProduction
  <1>3. CASE ~(order[o].actual > 0)
    <2>1. order[o].actual = 0 /\ UNCHANGED <<lot, qty>>
      BY <1>1, <1>3 DEF ApproveProduction
    <2>2. Only(b, order[o].actual) = Zero
      BY <2>1 DEF Only, Zero
    <2> QED BY <2>1, <2>2, IdleEffect
  <1> QED BY <1>2, <1>3

-----------------------------------------------------------------------------
(* Quarantine *)

\* A command leaves the quarantine of returns alone.
Quiet == Blank' /\ Quarantines

\* An effect keeps what is blank blank.
LEMMA EffectQuiet ==
  ASSUME NEW h, NEW l, Effect(h, l), Quarantines
  PROVE  Quiet
  BY DEF Effect, Quiet

\* A command that writes neither batches nor quantities.
LEMMA IdleQuiet ==
  ASSUME TypeOK, Blank, UNCHANGED <<lot, qty>>
  PROVE  Quiet
  BY IdleEffect, EffectQuiet

\* The commands of stocktakes.
LEMMA StocktakeQuiet ==
  ASSUME FreezeInv, Blank, StocktakeNext
  PROVE  Quiet
  <1>0. TypeOK
    BY DEF FreezeInv
  <1>1. \/ \E t \in Stocktakes, u \in Users : ApproveVariance(t, u)
        \/ UNCHANGED <<lot, qty>>
    BY DEF StocktakeNext, OpenStocktake, SubmitCount, RequireRecount, CompleteStocktake,
           RequestVarianceApproval, RejectVariance, stockVars
  <1>2. ASSUME NEW t \in Stocktakes, NEW u, ApproveVariance(t, u)
        PROVE  Quiet
    BY <1>2, AdjustEffect, EffectQuiet
  <1> QED BY <1>0, <1>1, <1>2, IdleQuiet

\* The commands of warehousing.
LEMMA WarehousingQuiet ==
  ASSUME TypeOK, Blank, WarehousingNext
  PROVE  Quiet
  <1>1. ASSUME NEW i \in Items, NEW b \in BatchIds, ReceivePurchase(i, b) PROVE Quiet
    BY <1>1, ReceiptEffect, EffectQuiet
  <1>2. ASSUME NEW b \in BatchIds, NEW bucket \in {"available", "quarantine"}, InspectBatch(b, bucket)
        PROVE  Quiet
    BY <1>2, InspectEffect, EffectQuiet
  <1>3. ASSUME NEW x \in Transfers, NEW d, ShipTransfer(x, d) PROVE Quiet
    BY <1>3, ShipEffect, EffectQuiet
  <1>4. ASSUME NEW x \in Transfers, NEW b \in BatchIds, ReceiveTransfer(x, b) PROVE Quiet
    BY <1>4, ArrivalEffect, EffectQuiet
  <1>5. ASSUME NEW x, NEW u, NEW w1, NEW w2, NEW s, NEW n, NEW decision,
               \/ RequestTransfer(x, u, w1, w2, s, n) \/ ReviewTransfer(x, u, decision)
        PROVE  UNCHANGED <<lot, qty>>
    BY <1>5 DEF RequestTransfer, ReviewTransfer, stockVars
  <1>6. ASSUME NEW m, NEW u, NEW w1, NEW w2,
               \/ CreateWarehouse(w1) \/ Deactivate(w1) \/ RequestMerge(m, u, w1, w2)
               \/ ApproveMerge(m, u) \/ RejectMerge(m, u)
        PROVE  UNCHANGED <<lot, qty>>
    BY <1>6 DEF CreateWarehouse, Deactivate, RequestMerge, ApproveMerge, RejectMerge, DecidesMerge,
                stockVars
  <1>7. UNCHANGED <<lot, qty>> => Quiet
    BY IdleQuiet
  <1> QED BY <1>1, <1>2, <1>3, <1>4, <1>5, <1>6, <1>7 DEF WarehousingNext

\* The commands of production.
LEMMA ProductionQuiet ==
  ASSUME TypeOK, TypeInv, Blank, ProductionNext
  PROVE  Quiet
  <1>1. ASSUME NEW r \in Reservations, NEW b \in BatchIds, NEW for \in Orders \cup {Elsewhere},
               NEW n \in 1 .. MaxReport, NEW priority, Reserve(r, b, for, n, priority)
        PROVE  Quiet
    <2>1. n \in Nat
      BY ProductionAssumption
    <2> QED BY <1>1, <2>1, ReserveEffect, EffectQuiet
  <1>2. ASSUME NEW o \in Orders, ReleaseMaterials(o) PROVE Quiet
    BY <1>2, ReleaseEffect, EffectQuiet
  <1>3. ASSUME NEW o \in Orders, NEW m \in Reports \cup {NoReport}, NEW d, Uses(o, m, d),
               UNCHANGED lot, qty' = AfterUse(d)
        PROVE  Quiet
    BY <1>3, UseEffect, EffectQuiet
  <1>4. ASSUME NEW o \in Orders, NEW m \in Reports, NEW d, ReportMaterials(o, m, d) PROVE Quiet
    BY <1>3, <1>4 DEF ReportMaterials
  <1>5. ASSUME NEW o \in Orders, NEW m \in Reports \cup {NoReport}, NEW d, NEW u, NEW actual,
               RequestProductionVariance(o, u, actual, m, d)
        PROVE  Quiet
    BY <1>3, <1>5 DEF RequestProductionVariance, Completing
  <1>6. ASSUME NEW o \in Orders, NEW m \in Reports \cup {NoReport}, NEW d,
               NEW actual \in 0 .. MaxReport, NEW b \in BatchIds, CompleteOrder(o, actual, m, d, b)
        PROVE  Quiet
    <2>1. actual \in Nat
      BY ProductionAssumption
    <2> QED BY <1>6, <2>1, CompleteEffect, EffectQuiet
  <1>7. ASSUME NEW o \in Orders, NEW u, NEW b \in BatchIds, ApproveProduction(o, u, b) PROVE Quiet
    BY <1>7, ApproveEffect, EffectQuiet
  <1>8. ASSUME NEW o \in Orders, NEW u, NEW b \in BatchIds, NEW c \in BatchIds,
               RejectOverproduction(o, u, b, c)
        PROVE  Quiet
    BY <1>8, DivideEffect, EffectQuiet
  <1>9. ASSUME NEW o, NEW n, NEW u, CreateOrder(o, n) \/ StartOrder(o) \/ RejectProduction(o, u)
        PROVE  UNCHANGED <<lot, qty>>
    BY <1>9 DEF CreateOrder, StartOrder, RejectProduction, stockVars
  <1>10. UNCHANGED <<lot, qty>> => Quiet
    BY IdleQuiet
  <1> QED BY <1>1, <1>2, <1>4, <1>5, <1>6, <1>7, <1>8, <1>9, <1>10 DEF ProductionNext

\* The batch of a return was inserted for it, for no other return, and holds
\* under quarantine all that was returned until its disposition is decided.
Waiting == {"quarantined", "pending_supply_chain"}

ReturnsHeld ==
  /\ \A y \in Returns : returned[y].status # "none" => lot[returned[y].batch].source = "return"
  /\ \A y, z \in Returns : /\ returned[y].status # "none" /\ returned[z].status # "none"
                           /\ returned[y].batch = returned[z].batch
                           => y = z
  /\ \A y \in Returns : returned[y].status \in Waiting =>
                           qty[returned[y].batch]["quarantine"] = returned[y].n

QuarantineInv == Blank /\ ReturnsHeld

\* No return is received, and none goes back to waiting.
NoneReceived ==
  \A y \in Returns : /\ returned'[y].batch = returned[y].batch
                     /\ returned'[y].n = returned[y].n
                     /\ returned'[y].status # "none" => returned[y].status # "none"
                     /\ returned'[y].status \in Waiting => returned[y].status \in Waiting

\* A command that leaves the quarantine of returns alone.
LEMMA QuietKeeps ==
  ASSUME ReturnsPlaced, QuarantineInv, Quiet, NoneReceived,
         \A b \in BatchIds : lot[b] # NoLot => lot'[b] = lot[b]
  PROVE  QuarantineInv'
  <1>1. ASSUME NEW y \in Returns, returned'[y].status # "none"
        PROVE  /\ returned[y].status # "none" /\ returned'[y].batch = returned[y].batch
               /\ returned[y].batch \in BatchIds
               /\ lot'[returned[y].batch] = lot[returned[y].batch]
               /\ lot[returned[y].batch].source = "return"
    BY <1>1 DEF NoneReceived, ReturnsPlaced, QuarantineInv, ReturnsHeld
  <1>2. ASSUME NEW y \in Returns, returned'[y].status \in Waiting
        PROVE  qty'[returned'[y].batch]["quarantine"] = returned'[y].n
    <2>1. returned'[y].status # "none"
      BY <1>2 DEF Waiting
    <2>2. returned[y].status \in Waiting /\ returned'[y].n = returned[y].n
      BY <1>2 DEF NoneReceived
    <2>3. qty'[returned[y].batch]["quarantine"] = qty[returned[y].batch]["quarantine"]
      BY <1>1, <2>1 DEF Quiet, Quarantines
    <2> QED BY <1>1, <2>1, <2>2, <2>3 DEF QuarantineInv, ReturnsHeld
  <1>3. \A y, z \in Returns : /\ returned'[y].status # "none" /\ returned'[z].status # "none"
                              /\ returned'[y].batch = returned'[z].batch
                              => y = z
    BY <1>1 DEF QuarantineInv, ReturnsHeld
  <1>4. \A y \in Returns : returned'[y].status # "none" =>
                              lot'[returned'[y].batch].source = "return"
    BY <1>1
  <1>5. ReturnsHeld'
    BY <1>2, <1>3, <1>4 DEF ReturnsHeld
  <1> QED BY <1>5 DEF Quiet, QuarantineInv

\* A change of one return's status.
LEMMA OneReturn ==
  ASSUME TypeOK, NEW y \in Returns, returned[y].status # "none",
         returned[y].status \in Waiting \/ returned'[y].status \notin Waiting,
         \/ \E passed : InspectReturn(y, passed)
         \/ \E u : \/ ProposeDisposition(y, u)
                   \/ ApproveDisposition(y, u)
                   \/ RejectDisposition(y, u)
  PROVE  NoneReceived
  <1>1. returned[y] \in ReturnRow
    BY ReturnType
  <1>2. returned \in [Returns -> ReturnRow \cup {NoReturn}]
    BY DEF TypeOK, DeliveryTypeOK, ReturnRow
  <1>3. /\ returned'[y].batch = returned[y].batch
        /\ returned'[y].n = returned[y].n
        /\ \A z \in Returns : z # y => returned'[z] = returned[z]
    <2>1. ASSUME NEW passed, InspectReturn(y, passed) PROVE <1>3!:
      BY <1>1, <1>2, <2>1 DEF InspectReturn, ReturnRow
    <2>2. ASSUME NEW u, ProposeDisposition(y, u) PROVE <1>3!:
      BY <1>1, <1>2, <2>2 DEF ProposeDisposition, ReturnRow
    <2>3. ASSUME NEW u, ApproveDisposition(y, u) PROVE <1>3!:
      BY <1>1, <1>2, <2>3 DEF ApproveDisposition, ReturnRow
    <2>4. ASSUME NEW u, RejectDisposition(y, u) PROVE <1>3!:
      BY <1>1, <1>2, <2>4 DEF RejectDisposition, ReturnRow
    <2> QED BY <2>1, <2>2, <2>3, <2>4
  <1> QED BY <1>3 DEF NoneReceived

\* A return comes in, into a batch of its own.
LEMMA ReceiveHeld ==
  ASSUME TypeOK, ReturnsPlaced, QuarantineInv, NEW y \in Returns, NEW x, NEW w, NEW n \in Nat,
         NEW b, ReceiveReturn(y, x, w, n, b)
  PROVE  QuarantineInv' /\ Quarantines
  <1>1. b \in BatchIds /\ lot[b] = NoLot
    BY NextIsFree DEF ReceiveReturn
  <1>2. Quarantines /\ Blank'
    BY ReturnEffect DEF QuarantineInv, Effect
  <1>3. /\ lot'[b].source = "return" /\ qty'[b]["quarantine"] = n
        /\ \A c \in BatchIds : c # b => lot'[c] = lot[c] /\ qty'[c] = qty[c]
    BY <1>1 DEF ReceiveReturn, NewLot, Holding, Buckets, TypeOK, StockTypeOK
  <1>4. /\ returned'[y].batch = b /\ returned'[y].n = n
        /\ \A z \in Returns : z # y => returned'[z] = returned[z]
    BY DEF ReceiveReturn, TypeOK, DeliveryTypeOK
  <1>5. \A z \in Returns : returned[z].status # "none" =>
                             returned[z].batch \in BatchIds /\ returned[z].batch # b
    BY <1>1 DEF ReturnsPlaced
  <1>6. ASSUME NEW z \in Returns, returned'[z].status # "none"
        PROVE  lot'[returned'[z].batch].source = "return"
    BY <1>3, <1>4, <1>5, <1>6 DEF QuarantineInv, ReturnsHeld
  <1>7. ASSUME NEW z \in Returns, returned'[z].status \in Waiting
        PROVE  qty'[returned'[z].batch]["quarantine"] = returned'[z].n
    <2>1. CASE z = y
      BY <1>3, <1>4, <2>1
    <2>2. CASE z # y
      <3>1. returned'[z] = returned[z] /\ returned[z].status # "none"
        BY <1>4, <1>7, <2>2 DEF Waiting
      <3>2. qty'[returned[z].batch] = qty[returned[z].batch]
        BY <1>3, <1>5, <3>1
      <3> QED BY <1>7, <3>1, <3>2 DEF QuarantineInv, ReturnsHeld
    <2> QED BY <2>1, <2>2
  <1>8. \A a, z \in Returns : /\ returned'[a].status # "none" /\ returned'[z].status # "none"
                              /\ returned'[a].batch = returned'[z].batch
                              => a = z
    BY <1>4, <1>5 DEF QuarantineInv, ReturnsHeld
  <1>9. ReturnsHeld'
    BY <1>6, <1>7, <1>8 DEF ReturnsHeld
  <1> QED BY <1>2, <1>9 DEF QuarantineInv

\* The action of LeavesQuarantineOnce.
Leaves ==
  \A b \in BatchIds : qty'[b]["quarantine"] < qty[b]["quarantine"] =>
    /\ qty'[b]["quarantine"] = 0
    /\ \E y \in Returns : /\ returned[y].batch = b
                          /\ returned[y].status = "pending_supply_chain"
                          /\ returned'[y].status = "restocked"

\* Where nothing leaves quarantine.
LEMMA NothingLeaves ==
  ASSUME TypeOK, TypeOK', Quarantines
  PROVE  Leaves
  <1> SUFFICES ASSUME NEW b \in BatchIds, qty'[b]["quarantine"] < qty[b]["quarantine"]
               PROVE  FALSE
    BY DEF Leaves
  <1>1. qty[b]["quarantine"] =< qty'[b]["quarantine"]
    BY DEF Quarantines
  <1>2. qty[b]["quarantine"] \in Nat
    BY BucketsOf
  <1>3. qty'[b]["quarantine"] \in Nat
    BY DEF TypeOK, StockTypeOK, Buckets
  <1> QED BY <1>1, <1>2, <1>3

\* A disposition is approved: all the return held leaves quarantine.
LEMMA RestockLeaves ==
  ASSUME FreezeInv, ReturnsPlaced, QuarantineInv, NEW y \in Returns, NEW u,
         ApproveDisposition(y, u)
  PROVE  QuarantineInv' /\ Leaves
  <1>0. TypeOK /\ Blank
    BY DEF FreezeInv, QuarantineInv
  <1>1. PICK b : b = returned[y].batch
    OBVIOUS
  <1>2. /\ Effect(Zero, Zero) /\ b \in BatchIds /\ returned[y].n \in Nat
        /\ qty'[b]["quarantine"] = qty[b]["quarantine"] - returned[y].n
        /\ \A c \in BatchIds : c # b => qty'[c] = qty[c]
    BY <1>0, <1>1, RestockEffect
  <1>3. returned[y].status = "pending_supply_chain" /\ UNCHANGED lot
    BY DEF ApproveDisposition, ReviewsReturn
  <1>4. returned[y] \in ReturnRow /\ returned \in [Returns -> ReturnRow \cup {NoReturn}]
    BY <1>0, <1>3, ReturnType DEF TypeOK, DeliveryTypeOK, ReturnRow
  <1>5. returned'[y].status = "restocked" /\ \A z \in Returns : z # y => returned'[z] = returned[z]
    BY <1>4 DEF ApproveDisposition, ReturnRow
  <1>6. qty[b]["quarantine"] = returned[y].n
    BY <1>1, <1>3 DEF QuarantineInv, ReturnsHeld, Waiting
  <1>7. qty'[b]["quarantine"] = 0
    BY <1>2, <1>6
  <1>8. Leaves
    <2> SUFFICES ASSUME NEW c \in BatchIds, qty'[c]["quarantine"] < qty[c]["quarantine"]
                 PROVE  c = b
      BY <1>1, <1>3, <1>5, <1>7 DEF Leaves
    <2>1. qty[c]["quarantine"] \in Nat
      BY <1>0, BucketsOf
    <2> QED BY <1>2, <2>1
  <1>9. NoneReceived
    BY <1>0, <1>3, <1>5, OneReturn DEF Waiting
  <1>10. ASSUME NEW z \in Returns, returned'[z].status # "none"
         PROVE  /\ returned[z].status # "none" /\ returned'[z].batch = returned[z].batch
                /\ lot[returned[z].batch].source = "return"
    BY <1>9, <1>10 DEF NoneReceived, QuarantineInv, ReturnsHeld
  <1>11. ASSUME NEW z \in Returns, returned'[z].status \in Waiting
         PROVE  qty'[returned'[z].batch]["quarantine"] = returned'[z].n
    <2>1. z # y /\ returned'[z].status # "none"
      BY <1>5, <1>11 DEF Waiting
    <2>2. returned'[z] = returned[z] /\ returned[z].status # "none"
      BY <1>5, <2>1
    <2>3. returned[z].batch # b /\ returned[z].batch \in BatchIds
      BY <1>1, <1>3, <2>1, <2>2 DEF QuarantineInv, ReturnsHeld, ReturnsPlaced
    <2> QED BY <1>2, <1>11, <2>2, <2>3 DEF QuarantineInv, ReturnsHeld
  <1>12. \A a, z \in Returns : /\ returned'[a].status # "none" /\ returned'[z].status # "none"
                               /\ returned'[a].batch = returned'[z].batch
                               => a = z
    BY <1>10 DEF QuarantineInv, ReturnsHeld
  <1>13. ReturnsHeld'
    BY <1>3, <1>10, <1>11, <1>12 DEF ReturnsHeld
  <1> QED BY <1>2, <1>8, <1>13 DEF QuarantineInv, Effect

\* The commands of delivery.
LEMMA DeliveryLeaves ==
  ASSUME FreezeInv, ReturnsPlaced, QuarantineInv, DeliveryNext, TypeOK',
         \A b \in BatchIds : lot[b] # NoLot => lot'[b] = lot[b]
  PROVE  QuarantineInv' /\ Leaves
  <1>0. TypeOK /\ Blank
    BY DEF FreezeInv, QuarantineInv
  <1>1. ASSUME Quiet, NoneReceived PROVE QuarantineInv' /\ Leaves
    BY <1>0, <1>1, QuietKeeps, NothingLeaves DEF Quiet
  <1>2. ASSUME UNCHANGED returned PROVE NoneReceived
    BY <1>2 DEF NoneReceived
  <1>3. ASSUME NEW x \in Shipments, NEW d, Dispatch(x, d) PROVE QuarantineInv' /\ Leaves
    <2>1. Quiet
      BY <1>0, <1>3, DispatchEffect, EffectQuiet
    <2>2. UNCHANGED returned
      BY <1>3 DEF Dispatch
    <2> QED BY <1>1, <1>2, <2>1, <2>2
  <1>4. ASSUME NEW x, NEW o, NEW n, NEW u, NEW decision, NEW got, NEW damaged,
               \/ PlanShipment(x, o, n) \/ ConfirmShipment(x) \/ RequestDeviation(x, u)
               \/ DecideDeviation(x, u, decision) \/ ReceiveShipment(x, got, damaged)
               \/ ResolveException(x)
        PROVE  QuarantineInv' /\ Leaves
    <2>1. UNCHANGED <<lot, qty, returned>>
      BY <1>4 DEF PlanShipment, ConfirmShipment, RequestDeviation, DecideDeviation,
                  ReceiveShipment, ResolveException, stockVars
    <2> QED BY <1>0, <1>1, <1>2, <2>1, IdleQuiet
  <1>5. ASSUME NEW y \in Returns, NEW x, NEW w, NEW n \in Nat, NEW b, ReceiveReturn(y, x, w, n, b)
        PROVE  QuarantineInv' /\ Leaves
    BY <1>0, <1>5, ReceiveHeld, NothingLeaves
  <1>6. ASSUME NEW y \in Returns, NEW u, NEW passed,
               \/ InspectReturn(y, passed) \/ ProposeDisposition(y, u) \/ RejectDisposition(y, u)
        PROVE  QuarantineInv' /\ Leaves
    <2>1. UNCHANGED <<lot, qty>> /\ returned[y].status \in Waiting /\ returned[y].status # "none"
      BY <1>6 DEF InspectReturn, ProposeDisposition, RejectDisposition, ReviewsReturn, stockVars,
                  Waiting
    <2>2. NoneReceived
      BY <1>0, <1>6, <2>1, OneReturn
    <2> QED BY <1>0, <1>1, <2>1, <2>2, IdleQuiet
  <1>7. ASSUME NEW y \in Returns, NEW u, ApproveDisposition(y, u) PROVE QuarantineInv' /\ Leaves
    BY <1>7, RestockLeaves
  <1>8. ASSUME NEW x \in Shipments, NEW n \in 1 .. shipment[x].got PROVE n \in Nat
    <2>1. shipment[x].got \in Nat
      BY <1>0, ShipmentType DEF TypeOK, DeliveryTypeOK, NoShipment
    <2> QED BY <2>1
  <1> QED BY <1>3, <1>4, <1>5, <1>6, <1>7, <1>8 DEF DeliveryNext

\* Every command preserves the invariant, and takes from quarantine only what a
\* return held.
LEMMA QuarantineStep ==
  ASSUME FreezeInv, TypeInv, ReturnsPlaced, QuarantineInv, [Next]_vars
  PROVE  QuarantineInv' /\ (Leaves \/ UNCHANGED vars)
  <1>0. TypeOK /\ Blank /\ TypeOK'
    BY TypeStep DEF FreezeInv, QuarantineInv, TypeInv
  <1>1. \A b \in BatchIds : lot[b] # NoLot => lot'[b] = lot[b]
    BY LotsStay
  <1>2. ASSUME Quiet, UNCHANGED returned PROVE QuarantineInv' /\ Leaves
    <2>1. NoneReceived
      BY <1>2 DEF NoneReceived
    <2> QED BY <1>0, <1>1, <1>2, <2>1, QuietKeeps, NothingLeaves DEF Quiet
  <1>3. CASE StocktakeNext /\ UNCHANGED <<warehousingVars, productionVars, deliveryVars>>
    BY <1>0, <1>2, <1>3, StocktakeQuiet DEF deliveryVars
  <1>4. CASE WarehousingNext /\ UNCHANGED <<productionVars, deliveryVars>>
    BY <1>0, <1>2, <1>4, WarehousingQuiet DEF deliveryVars
  <1>5. CASE ProductionNext /\ UNCHANGED <<warehousingVars, deliveryVars>>
    BY <1>0, <1>2, <1>5, ProductionQuiet DEF deliveryVars
  <1>6. CASE DeliveryNext
    BY <1>0, <1>1, <1>6, DeliveryLeaves
  <1>7. CASE UNCHANGED vars
    BY <1>7 DEF QuarantineInv, Blank, ReturnsHeld, vars, stockVars, deliveryVars
  <1> QED BY <1>3, <1>4, <1>5, <1>6, <1>7 DEF Next

\* The invariants so far, together.
BooksInv == FreezeInv /\ TypeInv /\ ReturnsPlaced /\ QuarantineInv

\* They hold throughout.
LEMMA BooksInvariant == Spec => []BooksInv
  <1>1. Init => QuarantineInv
    BY DEF Init, StockInit, DeliveryInit, NoReturn, QuarantineInv, Blank, ReturnsHeld, Waiting
  <1>2. QuarantineInv /\ FreezeInv /\ TypeInv /\ ReturnsPlaced /\ [Next]_vars => QuarantineInv'
    BY QuarantineStep
  <1>3. Spec => [](FreezeInv /\ ReturnsPlaced /\ TypeInv)
    BY FreezeInvariant, TypeInvariant, PTL
  <1>4. Spec => []QuarantineInv
    BY <1>1, <1>2, <1>3, PTL DEF Spec
  <1> QED BY <1>3, <1>4, PTL DEF BooksInv

\* Goods leave quarantine only as the return they came in by is restocked, all
\* of them, out of a pending disposition (LeavesQuarantineOnce).
THEOREM QuarantineIsLeftOnce == Spec => LeavesQuarantineOnce
  <1>1. BooksInv /\ [Next]_vars => [Leaves]_vars
    BY QuarantineStep DEF BooksInv
  <1>2. Spec => [][Leaves]_vars
    BY <1>1, BooksInvariant, PTL DEF Spec
  <1> QED BY <1>2 DEF LeavesQuarantineOnce, Leaves

-----------------------------------------------------------------------------
(* Reservations *)

\* What each reservation holds of a batch.
HoldsOf(b) == [r \in Reservations |->
                 IF reservation[r].status = "active" /\ reservation[r].batch = b
                 THEN reservation[r].left ELSE 0]

\* A batch reserved from is a row.
ReservedRows ==
  \A r \in Reservations : reservation[r].status = "active" => lot[reservation[r].batch] # NoLot

\* No stocktake has corrected what is locked of b.
Uncorrected(b) == \A t \in Stocktakes : adj[t][b]["locked"].decision # "approved"

LockedOf(b) == Uncorrected(b) => qty[b]["locked"] = SumOf(HoldsOf(b), Reservations)

LockedInv == ReservedRows /\ \A b \in BatchIds : LockedOf(b)

\* What reservations hold of a batch are integers.
LEMMA HoldsType ==
  ASSUME TypeOK, NEW b
  PROVE  HoldsOf(b) \in [Reservations -> Int] /\ SumOf(HoldsOf(b), Reservations) \in Int
  <1>1. \A r \in Reservations : reservation[r].left \in Nat
    BY DEF TypeOK, ProductionTypeOK, NoReservation
  <1>2. HoldsOf(b) \in [Reservations -> Int]
    BY <1>1 DEF HoldsOf
  <1> QED BY <1>2, SumType, ReservationsAssumption

\* It is what the active reservations on it hold.
LEMMA HoldsAreActive ==
  ASSUME TypeOK, NEW b
  PROVE  Left(ActiveOn(b)) = SumOf(HoldsOf(b), Reservations)
  <1>2. Extends(HoldsOf(b), Lefts, ActiveOn(b))
    BY DEF Extends, ActiveOn, HoldsOf, Lefts
  <1>3. HoldsOf(b) \in [Reservations -> Int]
    BY HoldsType
  <1>4. IsFiniteSet(Reservations)
    BY ReservationsAssumption
  <1>5. SumOf(HoldsOf(b), Reservations) = SumOf(Lefts, ActiveOn(b))
    BY ONLY <1>2, <1>3, <1>4, SumPicked
  <1> QED BY <1>5 DEF Left, Lefts, Sum, SumOf

\* Corrections that were approved stay so.
StayCorrected == \A b \in BatchIds : Uncorrected(b)' => Uncorrected(b)

\* What is held changes by e, and what is locked by n in all.
HeldBy(b, e, n) ==
  /\ e \in [Reservations -> Int] /\ SumOf(e, Reservations) = n
  /\ \A r \in Reservations : HoldsOf(b)'[r] = HoldsOf(b)[r] + e[r]
  /\ qty'[b]["locked"] = qty[b]["locked"] + n

\* Then the two still agree.
LEMMA LockedMoves ==
  ASSUME TypeOK, TypeOK', LockedInv, StayCorrected, NEW b \in BatchIds, NEW e, NEW n, HeldBy(b, e, n)
  PROVE  LockedOf(b)'
  <1>1. HoldsOf(b) \in [Reservations -> Int] /\ SumOf(HoldsOf(b), Reservations) \in Int
    BY HoldsType
  <1>2. HoldsOf(b)' \in [Reservations -> Int]
    <2>1. \A r \in Reservations : reservation'[r].left \in Nat
      BY DEF TypeOK, ProductionTypeOK, NoReservation
    <2> QED BY <2>1 DEF HoldsOf
  <1>3. e \in [Reservations -> Int] /\ SumOf(e, Reservations) = n
    BY DEF HeldBy
  <1>4. \A r \in Reservations : HoldsOf(b)'[r] = HoldsOf(b)[r] + e[r]
    BY DEF HeldBy
  <1>5. SumOf(HoldsOf(b)', Reservations) = SumOf(HoldsOf(b), Reservations) + n
    <2> DEFINE f == HoldsOf(b)
               g == HoldsOf(b)'
    <2>1. f \in [Reservations -> Int] /\ g \in [Reservations -> Int]
      BY <1>1, <1>2
    <2>2. (\A r \in Reservations : g[r] = f[r] + e[r]) /\ IsFiniteSet(Reservations)
      BY <1>4, ReservationsAssumption
    <2> HIDE DEF f, g
    <2>3. SumOf(g, Reservations) = SumOf(f, Reservations) + SumOf(e, Reservations)
      BY ONLY <1>3, <2>1, <2>2, SumPlus
    <2> QED BY <1>3, <2>3 DEF f, g
  <1>6. SumOf(HoldsOf(b), Reservations)' = SumOf(HoldsOf(b)', Reservations)
    BY DEF SumOf
  <1>7. Uncorrected(b)' => qty[b]["locked"] = SumOf(HoldsOf(b), Reservations)
    BY DEF StayCorrected, LockedInv, LockedOf
  <1>8. qty'[b]["locked"] = qty[b]["locked"] + n
    BY DEF HeldBy
  <1> QED BY <1>5, <1>6, <1>7, <1>8 DEF LockedOf

\* No reservation changes.
NoneHeld == [r \in Reservations |-> 0]

\* A batch of which nothing is reserved, used or released.
LEMMA HeldSame ==
  ASSUME TypeOK, UNCHANGED reservation, NEW b \in BatchIds, qty'[b]["locked"] = qty[b]["locked"]
  PROVE  HeldBy(b, NoneHeld, 0)
  <1>1. NoneHeld \in [Reservations -> Int]
    BY DEF NoneHeld
  <1>2. SumOf(NoneHeld, Reservations) = 0
    <2>1. IsFiniteSet(Reservations) /\ {} \in SUBSET Reservations
      BY ReservationsAssumption
    <2>2. \A r \in Reservations \ {} : NoneHeld[r] = 0
      BY DEF NoneHeld
    <2>3. SumOf(NoneHeld, Reservations) = SumOf(NoneHeld, {})
      BY ONLY <1>1, <2>1, <2>2, SumElsewhereZero
    <2> QED BY <2>3, SumEmpty
  <1>3. ASSUME NEW r \in Reservations
        PROVE  HoldsOf(b)'[r] = HoldsOf(b)[r] + NoneHeld[r]
    <2>1. HoldsOf(b)'[r] = HoldsOf(b)[r]
      BY DEF HoldsOf
    <2>2. HoldsOf(b)[r] \in Int
      BY HoldsType
    <2> QED BY <2>1, <2>2 DEF NoneHeld
  <1>4. qty[b]["locked"] \in Nat
    BY BucketsOf
  <1> QED BY <1>1, <1>2, <1>3, <1>4 DEF HeldBy

\* A command that changes no reservation and locks nothing.
LEMMA LockedSame ==
  ASSUME TypeOK, TypeOK', LockedInv, StayCorrected, UNCHANGED reservation, NEW h, Effect(h, Zero)
  PROVE  LockedInv'
  <1>1. ASSUME NEW b \in BatchIds PROVE LockedOf(b)'
    <2>1. qty'[b]["locked"] = qty[b]["locked"]
      BY BucketsOf DEF Effect, Zero
    <2> QED BY <2>1, HeldSame, LockedMoves
  <1>2. ReservedRows'
    BY DEF ReservedRows, LockedInv, Effect, TypeOK, ProductionTypeOK, NoReservation
  <1> QED BY <1>1, <1>2 DEF LockedInv

\* What a use of reservations takes from a batch, reservation by reservation.
Using(d, b) == [r \in Reservations |->
                  IF r \in DOMAIN d /\ reservation[r].batch = b THEN -d[r] ELSE 0]

\* It is what is taken from the batch.
LEMMA UsingSum ==
  ASSUME TypeOK, NEW o \in Orders, NEW m \in Reports \cup {NoReport}, NEW d, Uses(o, m, d),
         NEW b \in BatchIds
  PROVE  /\ Using(d, b) \in [Reservations -> Int]
         /\ SumOf(Using(d, b), Reservations) = -TakenFrom(d, b)
  <1> DEFINE K == {r \in DOMAIN d : reservation[r].batch = b}
             f == [r \in Reservations |-> IF r \in K THEN d[r] ELSE 0]
  <1>1. /\ DOMAIN d \subseteq Reservations
        /\ \A r \in DOMAIN d : d[r] \in Int
    BY TakenType
  <1>2. f \in [Reservations -> Int] /\ Using(d, b) \in [Reservations -> Int]
    BY <1>1 DEF Using
  <1>3. \A r \in Reservations : Using(d, b)[r] = -f[r]
    BY <1>1 DEF Using
  <1>4. Extends(f, d, K)
    BY <1>1 DEF Extends
  <1>5. TakenFrom(d, b) = SumOf(d, K)
    BY DEF TakenFrom, Sum, SumOf
  <1>6. IsFiniteSet(Reservations) /\ Reservations \in SUBSET Reservations
    BY ReservationsAssumption
  <1> HIDE DEF K, f
  <1>7. SumOf(f, Reservations) = SumOf(d, K)
    BY ONLY <1>2, <1>4, <1>6, SumPicked
  <1>8. SumOf(Using(d, b), Reservations) = -SumOf(f, Reservations)
    BY ONLY <1>2, <1>3, <1>6, SumNegated
  <1> QED BY <1>2, <1>5, <1>7, <1>8

\* A reservation after a use.
LEMMA UsedReservation ==
  ASSUME TypeOK, NEW o \in Orders, NEW m \in Reports \cup {NoReport}, NEW d, Uses(o, m, d),
         UseReserved(d), NEW r \in Reservations
  PROVE  /\ reservation'[r].batch = reservation[r].batch
         /\ reservation'[r].status = "active" => reservation[r].status = "active"
         /\ r \notin DOMAIN d => reservation'[r] = reservation[r]
         /\ r \in DOMAIN d =>
              /\ reservation[r].status = "active" /\ d[r] \in Nat /\ reservation[r].left \in Nat
              /\ reservation'[r].left = reservation[r].left - d[r]
              /\ \/ reservation'[r].status = "active"
                 \/ reservation'[r].status # "active" /\ reservation[r].left = d[r]
  <1>1. DOMAIN d = MaterialPool(o) /\ \A x \in MaterialPool(o) : d[x] \in Nat
    BY UsesWithin
  <1>2. CASE r \notin DOMAIN d
    BY <1>2 DEF UseReserved
  <1>3. CASE r \in DOMAIN d
    <2>1. reservation[r].status = "active"
      BY <1>1, <1>3 DEF MaterialPool, Pool
    <2>2. reservation[r] \in ReservationRow
      BY <2>1, ReservationType
    <2>3. reservation'[r] = [reservation[r] EXCEPT
            !.left = @ - d[r],
            !.status = IF d[r] > 0 /\ reservation[r].left = d[r] THEN "consumed" ELSE @]
      BY <1>3 DEF UseReserved
    <2>4. /\ reservation'[r].batch = reservation[r].batch
          /\ reservation'[r].left = reservation[r].left - d[r]
          /\ reservation'[r].status = IF d[r] > 0 /\ reservation[r].left = d[r] THEN "consumed"
                                                                              ELSE "active"
      BY <2>1, <2>2, <2>3 DEF ReservationRow
    <2> QED BY <1>1, <1>3, <2>1, <2>2, <2>4 DEF ReservationRow
  <1> QED BY <1>2, <1>3

\* Materials are used: reservations and locked stock shrink alike.
LEMMA LockedUse ==
  ASSUME TypeOK, TypeOK', LockedInv, StayCorrected, NEW o \in Orders,
         NEW m \in Reports \cup {NoReport}, NEW d, Uses(o, m, d), UseReserved(d),
         NEW h, Effect(h, Spent(d))
  PROVE  LockedInv'
  <1>1. ASSUME NEW b \in BatchIds PROVE LockedOf(b)'
    <2>1. /\ Using(d, b) \in [Reservations -> Int]
          /\ SumOf(Using(d, b), Reservations) = -TakenFrom(d, b)
      BY UsingSum
    <2>2. ASSUME NEW r \in Reservations
          PROVE  HoldsOf(b)'[r] = HoldsOf(b)[r] + Using(d, b)[r]
      <3>1. HoldsOf(b)[r] \in Int
        BY HoldsType
      <3>2. CASE r \notin DOMAIN d
        <4>1. HoldsOf(b)'[r] = HoldsOf(b)[r]
          BY <3>2, UsedReservation DEF HoldsOf
        <4> QED BY <3>1, <3>2, <4>1 DEF Using
      <3>3. CASE r \in DOMAIN d /\ reservation[r].batch # b
        <4>1. HoldsOf(b)'[r] = 0 /\ HoldsOf(b)[r] = 0
          BY <3>3, UsedReservation DEF HoldsOf
        <4> QED BY <3>3, <4>1 DEF Using
      <3>4. CASE r \in DOMAIN d /\ reservation[r].batch = b
        <4>1. /\ reservation[r].status = "active" /\ d[r] \in Nat /\ reservation[r].left \in Nat
              /\ reservation'[r].left = reservation[r].left - d[r]
              /\ reservation'[r].batch = b
              /\ \/ reservation'[r].status = "active"
                 \/ reservation'[r].status # "active" /\ reservation[r].left = d[r]
          BY <3>4, UsedReservation
        <4>2. HoldsOf(b)[r] = reservation[r].left
          BY <3>4, <4>1 DEF HoldsOf
        <4>3. HoldsOf(b)'[r] = reservation[r].left - d[r]
          BY <4>1 DEF HoldsOf
        <4>4. Using(d, b)[r] = -d[r]
          BY <3>4 DEF Using
        <4> QED BY <4>1, <4>2, <4>3, <4>4
      <3> QED BY <3>2, <3>3, <3>4
    <2>3. qty'[b]["locked"] = qty[b]["locked"] + (-TakenFrom(d, b))
      BY DEF Effect, Spent
    <2>4. HeldBy(b, Using(d, b), -TakenFrom(d, b))
      BY <2>1, <2>2, <2>3 DEF HeldBy
    <2> QED BY <2>4, LockedMoves
  <1>2. ReservedRows'
    <2> SUFFICES ASSUME NEW r \in Reservations, reservation'[r].status = "active"
                 PROVE  lot'[reservation'[r].batch] # NoLot
      BY DEF ReservedRows
    <2>1. reservation'[r].batch = reservation[r].batch /\ reservation[r].status = "active"
      BY UsedReservation
    <2>2. reservation[r].batch \in BatchIds
      BY <2>1, ReservationType DEF ReservationRow
    <2> QED BY <2>1, <2>2 DEF ReservedRows, LockedInv, Effect
  <1> QED BY <1>1, <1>2 DEF LockedInv

\* What one reservation adds to a batch.
Granting(r, b, n, c) == [x \in Reservations |-> IF x = r /\ c = b THEN n ELSE 0]

\* Stock is reserved: a new reservation holds what is locked for it.
LEMMA LockedReserve ==
  ASSUME TypeOK, TypeOK', LockedInv, StayCorrected, Blank, NEW r \in Reservations,
         NEW b \in BatchIds, NEW for \in Orders \cup {Elsewhere}, NEW n \in Nat, NEW priority,
         Reserve(r, b, for, n, priority)
  PROVE  LockedInv'
  <1> DEFINE g == Granted(b, n)
  <1>1. Effect(Zero, Only(b, g))
    BY ReserveEffect
  <1>2. g \in Nat
    BY GrantedType, BucketsOf
  <1>3. /\ reservation[r].status # "active" /\ lot[b] # NoLot
        /\ reservation'[r].status = "active" /\ reservation'[r].batch = b
        /\ reservation'[r].left = g
        /\ \A x \in Reservations : x # r => reservation'[x] = reservation[x]
    BY DEF Reserve, NoReservation, Rows, TypeOK, ProductionTypeOK
  <1> HIDE DEF g
  <1>4. ASSUME NEW c \in BatchIds PROVE LockedOf(c)'
    <2> DEFINE e == Granting(r, b, g, c)
    <2>1. e \in [Reservations -> Int] /\ IsFiniteSet(Reservations)
          /\ Reservations \in SUBSET Reservations
      BY <1>2, ReservationsAssumption DEF Granting
    <2>2. \A x \in Reservations : x # r => e[x] = 0
      BY DEF Granting
    <2>3. e[r] = IF c = b THEN g ELSE 0
      BY DEF Granting
    <2> HIDE DEF e
    <2>4. SumOf(e, Reservations) = e[r]
      BY ONLY <2>1, <2>2, SumPoint, r \in Reservations
    <2>5. \A x \in Reservations : HoldsOf(c)'[x] = HoldsOf(c)[x] + e[x]
      <3> TAKE x \in Reservations
      <3>1. HoldsOf(c)[x] \in Int
        BY HoldsType
      <3>2. CASE x # r
        <4>1. HoldsOf(c)'[x] = HoldsOf(c)[x]
          BY <1>3, <3>2 DEF HoldsOf
        <4> QED BY <2>2, <3>1, <3>2, <4>1
      <3>3. CASE x = r
        <4>1. HoldsOf(c)[r] = 0
          BY <1>3 DEF HoldsOf
        <4>2. HoldsOf(c)'[r] = IF c = b THEN g ELSE 0
          BY <1>3 DEF HoldsOf
        <4> QED BY <1>2, <2>3, <3>3, <4>1, <4>2
      <3> QED BY <3>2, <3>3
    <2>6. qty'[c]["locked"] = qty[c]["locked"] + e[r]
      BY <1>1, <2>3 DEF Effect, Only
    <2>7. HeldBy(c, e, e[r])
      BY <2>1, <2>4, <2>5, <2>6 DEF HeldBy
    <2> QED BY <2>7, LockedMoves
  <1>5. ReservedRows'
    <2> SUFFICES ASSUME NEW x \in Reservations, reservation'[x].status = "active"
                 PROVE  lot'[reservation'[x].batch] # NoLot
      BY DEF ReservedRows
    <2>1. CASE x = r
      BY <1>1, <1>3, <2>1 DEF Effect
    <2>2. CASE x # r
      <3>1. reservation'[x] = reservation[x]
        BY <1>3, <2>2
      <3>2. reservation[x].batch \in BatchIds
        BY <3>1, ReservationType DEF ReservationRow
      <3> QED BY <1>1, <3>1, <3>2 DEF Effect, ReservedRows, LockedInv
    <2> QED BY <2>1, <2>2
  <1> QED BY <1>4, <1>5 DEF LockedInv

\* What is released of a batch, reservation by reservation.
Freeing(o, b) == [r \in Reservations |->
                    IF r \in Freed(o) /\ reservation[r].batch = b THEN -reservation[r].left ELSE 0]

\* It is what is released of the batch.
LEMMA FreeingSum ==
  ASSUME TypeOK, NEW o, NEW b
  PROVE  /\ Freeing(o, b) \in [Reservations -> Int]
         /\ SumOf(Freeing(o, b), Reservations) = -FreedOf(o, b)
  <1> DEFINE K == {r \in Freed(o) : reservation[r].batch = b}
             f == [r \in Reservations |-> IF r \in K THEN Lefts[r] ELSE 0]
  <1>1. K \subseteq Reservations
    BY DEF Freed, Pool
  <1>2. \A r \in Reservations : reservation[r].left \in Int /\ Lefts[r] = reservation[r].left
    BY LeftsType DEF Lefts
  <1>3. f \in [Reservations -> Int] /\ Freeing(o, b) \in [Reservations -> Int]
    BY <1>2 DEF Freeing
  <1>4. \A r \in Reservations : Freeing(o, b)[r] = -f[r]
    BY <1>2 DEF Freeing
  <1>5. Extends(f, Lefts, K)
    BY <1>1 DEF Extends
  <1>6. FreedOf(o, b) = SumOf(Lefts, K)
    BY DEF FreedOf, Left, Lefts, Sum, SumOf
  <1>7. IsFiniteSet(Reservations) /\ Reservations \in SUBSET Reservations
    BY ReservationsAssumption
  <1> HIDE DEF K, f
  <1>8. SumOf(f, Reservations) = SumOf(Lefts, K)
    BY ONLY <1>3, <1>5, <1>7, SumPicked
  <1>9. SumOf(Freeing(o, b), Reservations) = -SumOf(f, Reservations)
    BY ONLY <1>3, <1>4, <1>7, SumNegated
  <1> QED BY <1>3, <1>6, <1>8, <1>9

\* What is reserved for an order is released.
LEMMA LockedRelease ==
  ASSUME TypeOK, TypeOK', LockedInv, StayCorrected, Blank, NEW o \in Orders, ReleaseMaterials(o)
  PROVE  LockedInv'
  <1>1. Effect(Zero, Unlocked(o))
    BY ReleaseEffect
  <1>2. ASSUME NEW r \in Reservations
        PROVE  /\ reservation'[r].batch = reservation[r].batch
               /\ reservation'[r].status = "active" => reservation[r].status = "active"
               /\ r \notin Freed(o) => reservation'[r] = reservation[r]
               /\ r \in Freed(o) => /\ reservation[r].status = "active"
                                    /\ reservation'[r].status # "active"
    <2>1. CASE r \notin Freed(o)
      BY <2>1 DEF ReleaseMaterials, Freed
    <2>2. CASE r \in Freed(o)
      <3>1. reservation[r].status = "active"
        BY <2>2 DEF Freed, Pool
      <3>2. reservation[r] \in ReservationRow
        BY <3>1, ReservationType
      <3>3. reservation'[r] = [reservation[r] EXCEPT !.status = "released", !.left = 0]
        BY <2>2 DEF ReleaseMaterials, Freed
      <3> QED BY <2>2, <3>1, <3>2, <3>3 DEF ReservationRow
    <2> QED BY <2>1, <2>2
  <1>3. ASSUME NEW b \in BatchIds PROVE LockedOf(b)'
    <2>1. ASSUME NEW r \in Reservations
          PROVE  HoldsOf(b)'[r] = HoldsOf(b)[r] + Freeing(o, b)[r]
      <3>1. HoldsOf(b)[r] \in Int
        BY HoldsType
      <3>2. CASE r \notin Freed(o)
        <4>1. HoldsOf(b)'[r] = HoldsOf(b)[r]
          BY <1>2, <3>2 DEF HoldsOf
        <4> QED BY <3>1, <3>2, <4>1 DEF Freeing
      <3>3. CASE r \in Freed(o)
        <4>1. HoldsOf(b)'[r] = 0
          BY <1>2, <3>3 DEF HoldsOf
        <4>2. HoldsOf(b)[r] = IF reservation[r].batch = b THEN reservation[r].left ELSE 0
          BY <1>2, <3>3 DEF HoldsOf
        <4>3. Freeing(o, b)[r] = IF reservation[r].batch = b THEN -reservation[r].left ELSE 0
          BY <3>3 DEF Freeing
        <4> QED BY <3>1, <4>1, <4>2, <4>3
      <3> QED BY <3>2, <3>3
    <2>2. qty'[b]["locked"] = qty[b]["locked"] + (-FreedOf(o, b))
      BY <1>1 DEF Effect, Unlocked
    <2>3. HeldBy(b, Freeing(o, b), -FreedOf(o, b))
      BY <2>1, <2>2, FreeingSum DEF HeldBy
    <2> QED BY <2>3, LockedMoves
  <1>4. ReservedRows'
    <2> SUFFICES ASSUME NEW r \in Reservations, reservation'[r].status = "active"
                 PROVE  lot'[reservation'[r].batch] # NoLot
      BY DEF ReservedRows
    <2>1. reservation'[r].batch = reservation[r].batch /\ reservation[r].status = "active"
      BY <1>2
    <2>2. reservation[r].batch \in BatchIds
      BY <2>1, ReservationType DEF ReservationRow
    <2> QED BY <1>1, <2>1, <2>2 DEF ReservedRows, LockedInv, Effect
  <1> QED BY <1>3, <1>4 DEF LockedInv

\* A variance is approved: what it does not correct stays as it was.
LEMMA LockedApprove ==
  ASSUME FreezeInv, TypeOK', LockedInv, StayCorrected, Blank, UNCHANGED reservation,
         NEW t \in Stocktakes, NEW u, ApproveVariance(t, u)
  PROVE  LockedInv'
  <1>0. TypeOK
    BY DEF FreezeInv
  <1>1. Effect(Corrected(t), Relocked(t))
    BY AdjustEffect
  <1>2. ASSUME NEW b \in BatchIds PROVE LockedOf(b)'
    <2>1. CASE IsPending(t, b, "locked")
      <3>1. adj'[t][b]["locked"].decision = "approved"
        BY <1>0, <2>1 DEF ApproveVariance, Decided, IsPending, TypeOK, StocktakeTypeOK, Counted, Buckets
      <3> QED BY <3>1 DEF LockedOf, Uncorrected
    <2>2. CASE ~IsPending(t, b, "locked")
      <3>1. Relocked(t)[b] = 0
        BY <2>2 DEF Relocked, Off, Counted, Buckets
      <3>2. qty'[b]["locked"] = qty[b]["locked"]
        BY <1>0, <1>1, <3>1, BucketsOf DEF Effect
      <3> QED BY <1>0, <3>2, HeldSame, LockedMoves
    <2> QED BY <2>1, <2>2
  <1>3. ReservedRows'
    <2> SUFFICES ASSUME NEW r \in Reservations, reservation[r].status = "active"
                 PROVE  lot'[reservation[r].batch] # NoLot
      BY DEF ReservedRows
    <2>1. reservation[r].batch \in BatchIds
      BY <1>0, ReservationType DEF ReservationRow
    <2> QED BY <1>1, <2>1 DEF ReservedRows, LockedInv, Effect
  <1> QED BY <1>2, <1>3 DEF LockedInv

\* An adjustment that was approved is not written again.
ApprovedStay ==
  \A t \in Stocktakes, b \in BatchIds, k \in Counted :
    adj[t][b][k].decision = "approved" => adj'[t][b][k] = adj[t][b][k]

\* No command of a stocktake writes one.
LEMMA StocktakeApprovals ==
  ASSUME TypeOK, StocktakeNext
  PROVE  ApprovedStay
  <1>1. ASSUME NEW t \in Stocktakes, NEW u, RequestVarianceApproval(t, u)
        PROVE  ApprovedStay
    <2>1. /\ \A x \in Stocktakes : x # t => adj'[x] = adj[x]
          /\ \A b \in BatchIds, k \in Counted :
               \/ b \in Targets(t) /\ k \in Differs(t, 2, b)
               \/ adj'[t][b][k] = adj[t][b][k]
      BY <1>1 DEF RequestVarianceApproval, TypeOK, StocktakeTypeOK
    <2>2. \A b \in Targets(t) : \A k \in Differs(t, 2, b) : adj[t][b][k].decision # "approved"
      BY <1>1 DEF RequestVarianceApproval
    <2> QED BY <2>1, <2>2 DEF ApprovedStay
  <1>2. ASSUME NEW t \in Stocktakes, NEW decision, adj' = Decided(t, decision)
        PROVE  ApprovedStay
    <2>1. /\ \A x \in Stocktakes : x # t => adj'[x] = adj[x]
          /\ \A b \in BatchIds, k \in Counted :
               \/ adj[t][b][k].decision = "pending"
               \/ adj'[t][b][k] = adj[t][b][k]
      BY <1>2 DEF Decided, TypeOK, StocktakeTypeOK
    <2> QED BY <2>1 DEF ApprovedStay
  <1>3. UNCHANGED adj => ApprovedStay
    BY DEF ApprovedStay
  <1>4. ASSUME NEW t \in Stocktakes, NEW u, ApproveVariance(t, u) \/ RejectVariance(t, u)
        PROVE  ApprovedStay
    BY <1>2, <1>4 DEF ApproveVariance, RejectVariance
  <1> QED BY <1>1, <1>3, <1>4 DEF StocktakeNext, OpenStocktake, SubmitCount, RequireRecount,
                                 CompleteStocktake

\* Nor does any other.
LEMMA ApprovalsStay ==
  ASSUME FreezeInv, ReturnsPlaced, [Next]_vars
  PROVE  ApprovedStay /\ StayCorrected
  <1>0. TypeOK
    BY DEF FreezeInv
  <1>1. WarehousingNext \/ ProductionNext \/ DeliveryNext => UNCHANGED adj
    BY WarehousingRespects, ProductionRespects, DeliveryRespects DEF RespectsFreeze
  <1>2. UNCHANGED vars => UNCHANGED adj
    BY DEF vars, stocktakeVars
  <1>3. UNCHANGED adj => ApprovedStay
    BY DEF ApprovedStay
  <1>4. ApprovedStay
    BY <1>0, <1>1, <1>2, <1>3, StocktakeApprovals DEF Next
  <1>5. "locked" \in Counted
    BY DEF Counted, Buckets
  <1>6. StayCorrected
    <2> SUFFICES ASSUME NEW b \in BatchIds, Uncorrected(b)', NEW t \in Stocktakes,
                        adj[t][b]["locked"].decision = "approved"
                 PROVE  FALSE
      BY DEF StayCorrected, Uncorrected
    <2>1. adj'[t][b]["locked"] = adj[t][b]["locked"]
      BY <1>4, <1>5 DEF ApprovedStay
    <2> QED BY <2>1 DEF Uncorrected
  <1> QED BY <1>4, <1>6

\* Warehousing and delivery lock nothing.
LEMMA LocksNothing ==
  ASSUME FreezeInv, ReturnsPlaced, Blank, WarehousingNext \/ DeliveryNext
  PROVE  \E h : Effect(h, Zero)
  <1>0. TypeOK
    BY DEF FreezeInv
  <1>1. ASSUME UNCHANGED <<lot, qty>> PROVE \E h : Effect(h, Zero)
    BY <1>0, <1>1, IdleEffect
  <1>2. CASE WarehousingNext
    <2>1. ASSUME NEW i \in Items, NEW b \in BatchIds, ReceivePurchase(i, b)
          PROVE  \E h : Effect(h, Zero)
      BY <1>0, <2>1, ReceiptEffect
    <2>2. ASSUME NEW b \in BatchIds, NEW bucket \in {"available", "quarantine"},
                 InspectBatch(b, bucket)
          PROVE  \E h : Effect(h, Zero)
      BY <1>0, <2>2, InspectEffect
    <2>3. ASSUME NEW x \in Transfers, NEW d, ShipTransfer(x, d) PROVE \E h : Effect(h, Zero)
      BY <1>0, <2>3, ShipEffect
    <2>4. ASSUME NEW x \in Transfers, NEW b \in BatchIds, ReceiveTransfer(x, b)
          PROVE  \E h : Effect(h, Zero)
      BY <1>0, <2>4, ArrivalEffect
    <2>5. ASSUME NEW x, NEW u, NEW w1, NEW w2, NEW s, NEW n, NEW decision,
                 \/ RequestTransfer(x, u, w1, w2, s, n) \/ ReviewTransfer(x, u, decision)
          PROVE  UNCHANGED <<lot, qty>>
      BY <2>5 DEF RequestTransfer, ReviewTransfer, stockVars
    <2>6. ASSUME NEW m, NEW u, NEW w1, NEW w2,
                 \/ CreateWarehouse(w1) \/ Deactivate(w1) \/ RequestMerge(m, u, w1, w2)
                 \/ ApproveMerge(m, u) \/ RejectMerge(m, u)
          PROVE  UNCHANGED <<lot, qty>>
      BY <2>6 DEF CreateWarehouse, Deactivate, RequestMerge, ApproveMerge, RejectMerge,
                  DecidesMerge, stockVars
    <2> QED BY <1>1, <1>2, <2>1, <2>2, <2>3, <2>4, <2>5, <2>6 DEF WarehousingNext
  <1>3. CASE DeliveryNext
    <2>1. ASSUME NEW x \in Shipments, NEW d, Dispatch(x, d) PROVE \E h : Effect(h, Zero)
      BY <1>0, <2>1, DispatchEffect
    <2>2. ASSUME NEW x, NEW o, NEW n, NEW u, NEW decision, NEW got, NEW damaged,
                 \/ PlanShipment(x, o, n) \/ ConfirmShipment(x) \/ RequestDeviation(x, u)
                 \/ DecideDeviation(x, u, decision) \/ ReceiveShipment(x, got, damaged)
                 \/ ResolveException(x)
          PROVE  UNCHANGED <<lot, qty>>
      BY <2>2 DEF PlanShipment, ConfirmShipment, RequestDeviation, DecideDeviation,
                  ReceiveShipment, ResolveException, stockVars
    <2>3. ASSUME NEW x \in Shipments, NEW n \in 1 .. shipment[x].got, NEW y \in Returns, NEW w,
                 NEW b, ReceiveReturn(y, x, w, n, b)
          PROVE  \E h : Effect(h, Zero)
      <3>1. shipment[x].got \in Nat
        BY <1>0, ShipmentType DEF TypeOK, DeliveryTypeOK, NoShipment
      <3>2. n \in Nat
        BY <3>1
      <3> QED BY <1>0, <2>3, <3>2, ReturnEffect
    <2>4. ASSUME NEW y, NEW u, NEW passed,
                 \/ InspectReturn(y, passed) \/ ProposeDisposition(y, u) \/ RejectDisposition(y, u)
          PROVE  UNCHANGED <<lot, qty>>
      BY <2>4 DEF InspectReturn, ProposeDisposition, RejectDisposition, stockVars
    <2>5. ASSUME NEW y \in Returns, NEW u, ApproveDisposition(y, u) PROVE \E h : Effect(h, Zero)
      BY <2>5, RestockEffect
    <2> QED BY <1>1, <1>3, <2>1, <2>2, <2>3, <2>4, <2>5 DEF DeliveryNext
  <1> QED BY <1>2, <1>3

\* The commands of production.
LEMMA ProductionLocks ==
  ASSUME TypeOK, TypeOK', TypeInv, Blank, LockedInv, StayCorrected, ProductionNext
  PROVE  LockedInv'
  <1>1. ASSUME NEW r \in Reservations, NEW b \in BatchIds, NEW for \in Orders \cup {Elsewhere},
               NEW n \in 1 .. MaxReport, NEW priority, Reserve(r, b, for, n, priority)
        PROVE  LockedInv'
    <2>1. n \in Nat
      BY ProductionAssumption
    <2> QED BY <1>1, <2>1, LockedReserve
  <1>2. ASSUME NEW o \in Orders, ReleaseMaterials(o) PROVE LockedInv'
    BY <1>2, LockedRelease
  <1>3. ASSUME NEW o \in Orders, NEW m \in Reports \cup {NoReport}, NEW d, Uses(o, m, d),
               UseReserved(d), UNCHANGED lot, qty' = AfterUse(d)
        PROVE  LockedInv'
    <2>1. Effect(Spent(d), Spent(d))
      BY <1>3, UseEffect
    <2> QED BY <1>3, <2>1, LockedUse
  <1>4. ASSUME NEW o \in Orders, NEW m \in Reports, NEW d, ReportMaterials(o, m, d)
        PROVE  LockedInv'
    BY <1>3, <1>4 DEF ReportMaterials
  <1>5. ASSUME NEW o \in Orders, NEW m \in Reports \cup {NoReport}, NEW d, NEW u, NEW actual,
               RequestProductionVariance(o, u, actual, m, d)
        PROVE  LockedInv'
    BY <1>3, <1>5 DEF RequestProductionVariance, Completing
  <1>6. ASSUME NEW o \in Orders, NEW m \in Reports \cup {NoReport}, NEW d,
               NEW actual \in 0 .. MaxReport, NEW b \in BatchIds, CompleteOrder(o, actual, m, d, b)
        PROVE  LockedInv'
    <2>1. actual \in Nat
      BY ProductionAssumption
    <2>2. Effect(Made(d, b, actual), Spent(d))
      BY <1>6, <2>1, CompleteEffect
    <2> QED BY <1>6, <2>2, LockedUse DEF CompleteOrder, Completing
  <1>7. ASSUME NEW o \in Orders, NEW u, NEW b \in BatchIds, ApproveProduction(o, u, b)
        PROVE  LockedInv'
    <2>1. Effect(Only(b, order[o].actual), Zero)
      BY <1>7, ApproveEffect
    <2> QED BY <1>7, <2>1, LockedSame DEF ApproveProduction, Reviews
  <1>8. ASSUME NEW o \in Orders, NEW u, NEW b \in BatchIds, NEW c \in BatchIds,
               RejectOverproduction(o, u, b, c)
        PROVE  LockedInv'
    <2>1. Effect(Both(b, order[o].planned, c, order[o].actual - order[o].planned), Zero)
      BY <1>8, DivideEffect
    <2> QED BY <1>8, <2>1, LockedSame DEF RejectOverproduction, Reviews
  <1>9. ASSUME NEW o, NEW n, NEW u, CreateOrder(o, n) \/ StartOrder(o) \/ RejectProduction(o, u)
        PROVE  UNCHANGED <<lot, qty, reservation>>
    BY <1>9 DEF CreateOrder, StartOrder, RejectProduction, Reviews, stockVars
  <1>10. UNCHANGED <<lot, qty, reservation>> => LockedInv'
    BY IdleEffect, LockedSame
  <1> QED BY <1>1, <1>2, <1>4, <1>5, <1>6, <1>7, <1>8, <1>9, <1>10 DEF ProductionNext

\* Every command preserves the agreement.
LEMMA LockedStep ==
  ASSUME BooksInv, LockedInv, [Next]_vars
  PROVE  LockedInv'
  <1>0. /\ FreezeInv /\ ReturnsPlaced /\ TypeInv /\ Blank /\ TypeOK /\ TypeOK' /\ StayCorrected
    BY TypeStep, ApprovalsStay DEF BooksInv, FreezeInv, QuarantineInv, TypeInv
  <1>1. ASSUME UNCHANGED reservation, \E h : Effect(h, Zero) PROVE LockedInv'
    BY <1>0, <1>1, LockedSame
  <1>2. CASE StocktakeNext /\ UNCHANGED <<warehousingVars, productionVars, deliveryVars>>
    <2>1. UNCHANGED reservation
      BY <1>2 DEF productionVars
    <2>2. \/ \E t \in Stocktakes, u \in Users : ApproveVariance(t, u)
          \/ UNCHANGED <<lot, qty>>
      BY <1>2 DEF StocktakeNext, OpenStocktake, SubmitCount, RequireRecount, CompleteStocktake,
                  RequestVarianceApproval, RejectVariance, stockVars
    <2>3. UNCHANGED <<lot, qty>> => \E h : Effect(h, Zero)
      BY <1>0, IdleEffect
    <2> QED BY <1>0, <1>1, <2>1, <2>2, <2>3, LockedApprove
  <1>3. CASE WarehousingNext /\ UNCHANGED <<productionVars, deliveryVars>>
    BY <1>0, <1>1, <1>3, LocksNothing DEF productionVars
  <1>4. CASE ProductionNext /\ UNCHANGED <<warehousingVars, deliveryVars>>
    BY <1>0, <1>4, ProductionLocks
  <1>5. CASE DeliveryNext /\ UNCHANGED <<warehousingVars, productionVars>>
    BY <1>0, <1>1, <1>5, LocksNothing DEF productionVars
  <1>6. CASE UNCHANGED vars
    <2>1. UNCHANGED <<lot, qty, reservation>>
      BY <1>6 DEF vars, stockVars, productionVars
    <2> QED BY <1>0, <1>1, <2>1, IdleEffect
  <1> QED BY <1>2, <1>3, <1>4, <1>5, <1>6 DEF Next

\* Locked stock is what reservations hold, and those are of batches that are there.
LEMMA LockedInvariant == Spec => []LockedInv
  <1>1. Init => LockedInv
    <2> SUFFICES ASSUME Init PROVE LockedInv
      OBVIOUS
    <2>1. \A r \in Reservations : reservation[r].status # "active"
      BY DEF Init, ProductionInit, NoReservation
    <2>2. TypeOK
      BY TypeInit DEF TypeInv
    <2>3. ASSUME NEW b \in BatchIds PROVE LockedOf(b)
      <3>1. ActiveOn(b) = {}
        BY <2>1 DEF ActiveOn
      <3>2. SumOf(HoldsOf(b), Reservations) = Left({})
        BY <2>2, <3>1, HoldsAreActive
      <3>3. Left({}) = 0
        BY SumEmpty DEF Left, Sum, SumOf
      <3>4. qty[b]["locked"] = 0
        BY DEF Init, StockInit, Buckets
      <3> QED BY <3>2, <3>3, <3>4 DEF LockedOf
    <2> QED BY <2>1, <2>3 DEF LockedInv, ReservedRows
  <1>2. BooksInv /\ LockedInv /\ [Next]_vars => LockedInv'
    BY LockedStep
  <1> QED BY <1>1, <1>2, BooksInvariant, PTL DEF Spec

\* Locked stock is exactly what active reservations hold (LockedIsReserved): no
\* use, release, receipt or shipment makes the two differ.
THEOREM LockedStockIsReserved == Spec => []LockedIsReserved
  <1>1. BooksInv /\ LockedInv => LockedIsReserved
    <2> SUFFICES ASSUME BooksInv, LockedInv, NEW b \in Rows, Uncorrected(b)
                 PROVE  qty[b]["locked"] = Left(ActiveOn(b))
      BY DEF LockedIsReserved, Uncorrected
    <2>1. TypeOK /\ b \in BatchIds
      BY DEF BooksInv, FreezeInv, Rows
    <2> QED BY <2>1, HoldsAreActive DEF LockedInv, LockedOf
  <1> QED BY <1>1, LockedInvariant, BooksInvariant, PTL

-----------------------------------------------------------------------------
(* The ledger *)

AtHand == [b \in BatchIds |-> OnHand(b)]

\* The excess left to the factory, which no movement records.
FactoryOwned == [o \in Orders |-> order[o].factory]
Owed(w, s) == IF w = FactorySite /\ s = Finished THEN SumOf(FactoryOwned, Orders) ELSE 0

\* Only a rejected overproduction leaves any.
OwnedByFactory ==
  \A o \in Orders : order[o].status # "completed_factory_owned" => order[o].factory = 0

Ledgers == [Warehouses -> [Skus -> Int]]

LedgerInv == /\ ledger \in Ledgers
             /\ OwnedByFactory
             /\ \A w \in Warehouses, s \in Skus : SumOf(AtHand, RowsOf(w, s)) = ledger[w][s] + Owed(w, s)

\* What batches hold are integers, of finitely many batches.
LEMMA AtHandType ==
  ASSUME TypeOK
  PROVE  IsFiniteSet(BatchIds) /\ AtHand \in [BatchIds -> Int]
  BY BucketsOf, BatchIdsAssumption DEF AtHand

\* What a set of batches holds changes by what the command adds to it, batches
\* inserted included.
LEMMA HeldMoves ==
  ASSUME TypeOK, TypeOK', Blank, NEW h, NEW l, Effect(h, l),
         NEW K \in SUBSET BatchIds, NEW Q \in SUBSET BatchIds, K \subseteq Q,
         \A b \in Q \ K : lot[b] = NoLot
  PROVE  SumOf(AtHand', Q) = SumOf(AtHand, K) + SumOf(h, Q)
  <1> DEFINE f == AtHand
             g == AtHand'
  <1>1. IsFiniteSet(BatchIds) /\ f \in [BatchIds -> Int]
    BY AtHandType
  <1>2. \A b \in BatchIds : OnHand(b)' \in Int
    BY DEF TypeOK, StockTypeOK, OnHand, Buckets
  <1>3. g \in [BatchIds -> Int]
    BY <1>2 DEF AtHand
  <1>4. h \in [BatchIds -> Int]
    BY DEF Effect
  <1>5. \A b \in BatchIds : h[b] = g[b] - f[b]
    <2> TAKE b \in BatchIds
    <2>1. g[b] = OnHand(b)' /\ f[b] = OnHand(b)
      BY DEF AtHand
    <2>2. OnHand(b)' = OnHand(b) + h[b]
      BY DEF Effect
    <2>3. f[b] \in Int /\ g[b] \in Int /\ h[b] \in Int
      BY <1>1, <1>3, <1>4
    <2> HIDE DEF f, g
    <2> QED BY <2>1, <2>2, <2>3
  <1>6. \A b \in Q \ K : f[b] = 0
    BY BlankIsEmpty DEF AtHand
  <1>7. K \in SUBSET Q
    OBVIOUS
  <1> HIDE DEF f, g
  <1>8. SumOf(g, Q) = SumOf(f, K) + SumOf(h, Q)
    BY <1>1, <1>3, <1>4, <1>5, <1>6, <1>7, SumMoved
  <1> QED BY <1>8 DEF f, g

\* The batches of a warehouse and SKU, after a command.
LEMMA RowsAfter ==
  ASSUME NEW h, NEW l, Effect(h, l), NEW w, NEW s
  PROVE  /\ RowsOf(w, s) \in SUBSET BatchIds /\ RowsOf(w, s)' \in SUBSET BatchIds
         /\ RowsOf(w, s) \subseteq RowsOf(w, s)'
         /\ \A b \in RowsOf(w, s)' \ RowsOf(w, s) : lot[b] = NoLot
  <1>1. \A b \in BatchIds : lot[b] # NoLot => lot'[b] = lot[b]
    BY DEF Effect
  <1> QED BY <1>1 DEF RowsOf, Rows

\* The ledger, and what is the factory's, change by what is added in stock.
Booked(h) == \A w \in Warehouses, s \in Skus :
               ledger'[w][s] + Owed(w, s)' = ledger[w][s] + Owed(w, s) + SumOf(h, RowsOf(w, s)')

\* What is the factory's is an integer.
LEMMA OwedType ==
  ASSUME TypeOK
  PROVE  FactoryOwned \in [Orders -> Int] /\ \A w, s : Owed(w, s) \in Int
  <1>1. FactoryOwned \in [Orders -> Int]
    BY DEF FactoryOwned, TypeOK, ProductionTypeOK
  <1>2. SumOf(FactoryOwned, Orders) \in Int
    BY <1>1, OrdersAssumption, SumType
  <1> QED BY <1>1, <1>2 DEF Owed

\* Then the ledger still balances.
LEMMA LedgerMoves ==
  ASSUME TypeOK, TypeOK', Blank, LedgerInv, NEW h, NEW l, Effect(h, l), Booked(h),
         ledger' \in Ledgers, OwnedByFactory'
  PROVE  LedgerInv'
  <1>1. ASSUME NEW w \in Warehouses, NEW s \in Skus
        PROVE  SumOf(AtHand', RowsOf(w, s)') = ledger'[w][s] + Owed(w, s)'
    <2> DEFINE Q == RowsOf(w, s)'
    <2>1. SumOf(AtHand', Q) = SumOf(AtHand, RowsOf(w, s)) + SumOf(h, Q)
      BY RowsAfter, HeldMoves
    <2>2. SumOf(AtHand, RowsOf(w, s)) = ledger[w][s] + Owed(w, s)
      BY DEF LedgerInv
    <2>3. ledger'[w][s] + Owed(w, s)' = ledger[w][s] + Owed(w, s) + SumOf(h, Q)
      BY DEF Booked
    <2> QED BY <2>1, <2>2, <2>3
  <1>2. \A w \in Warehouses, s \in Skus :
          SumOf(AtHand, RowsOf(w, s))' = ledger'[w][s] + Owed(w, s)'
    BY <1>1 DEF SumOf
  <1> QED BY <1>2 DEF LedgerInv

\* No order's share of the factory changes.
OwedStays ==
  \A o \in Orders : /\ order'[o].factory = order[o].factory
                    /\ order[o].status = "completed_factory_owned"
                       => order'[o].status = "completed_factory_owned"

\* The factory's share stays as it was.
LEMMA OwedSame ==
  ASSUME TypeOK, OwedStays, NEW w, NEW s
  PROVE  Owed(w, s)' = Owed(w, s) /\ Owed(w, s) \in Int
  <1>1. FactoryOwned' = FactoryOwned
    BY DEF OwedStays, FactoryOwned
  <1> QED BY <1>1, OwedType DEF Owed, SumOf

\* Nothing is added up where nothing changes.
LEMMA ZeroSum ==
  ASSUME NEW Q \in SUBSET BatchIds
  PROVE  SumOf(Zero, Q) = 0
  <1>1. IsFiniteSet(BatchIds) /\ Zero \in [BatchIds -> Int] /\ {} \in SUBSET Q
    BY BatchIdsAssumption DEF Zero
  <1>2. \A b \in Q \ {} : Zero[b] = 0
    BY DEF Zero
  <1>3. SumOf(Zero, Q) = SumOf(Zero, {})
    BY ONLY <1>1, <1>2, SumZeroOutside, Q \in SUBSET BatchIds
  <1> QED BY <1>3, SumEmpty

\* One batch changes.
LEMMA OnlySum ==
  ASSUME NEW b \in BatchIds, NEW n \in Int, NEW Q \in SUBSET BatchIds
  PROVE  SumOf(Only(b, n), Q) = IF b \in Q THEN n ELSE 0
  <1>1. IsFiniteSet(BatchIds) /\ Only(b, n) \in [BatchIds -> Int]
    BY BatchIdsAssumption DEF Only
  <1>2. /\ \A c \in Q : c # b => Only(b, n)[c] = 0
        /\ Only(b, n)[b] = n
    BY DEF Only
  <1>3. SumOf(Only(b, n), Q) = IF b \in Q THEN Only(b, n)[b] ELSE 0
    BY ONLY <1>1, <1>2, SumPoint, Q \in SUBSET BatchIds, b \in BatchIds
  <1> QED BY <1>2, <1>3

\* A walk takes from sets of batches it walks through, or from none of them.
LEMMA WalkSum ==
  ASSUME NEW A \in SUBSET BatchIds, NEW d \in [A -> Int], NEW Q \in SUBSET BatchIds
  PROVE  /\ A \subseteq Q => SumOf(Drained(d), Q) = -SumOf(d, A)
         /\ A \cap Q = {} => SumOf(Drained(d), Q) = 0
  <1> DEFINE f == [b \in BatchIds |-> IF b \in A THEN d[b] ELSE 0]
  <1>1. f \in [BatchIds -> Int] /\ Drained(d) \in [BatchIds -> Int] /\ IsFiniteSet(BatchIds)
    BY BatchIdsAssumption DEF Drained
  <1>2. \A b \in BatchIds : Drained(d)[b] = -f[b]
    BY DEF Drained
  <1>3. SumOf(Drained(d), Q) = -SumOf(f, Q)
    <2> HIDE DEF f
    <2> QED BY ONLY <1>1, <1>2, SumNegated, Q \in SUBSET BatchIds
  <1>4. Same(f, d, A)
    BY <1>1, FS_Subset DEF Same
  <1>5. ASSUME A \subseteq Q PROVE SumOf(f, Q) = SumOf(d, A)
    <2>1. A \in SUBSET Q /\ \A b \in Q \ A : f[b] = 0
      BY <1>5
    <2> HIDE DEF f
    <2>2. SumOf(f, Q) = SumOf(f, A)
      BY ONLY <1>1, <2>1, SumZeroOutside, Q \in SUBSET BatchIds
    <2> QED BY <1>4, <2>2, SumSame
  <1>6. ASSUME A \cap Q = {} PROVE SumOf(f, Q) = 0
    <2>1. {} \in SUBSET Q /\ \A b \in Q \ {} : f[b] = 0
      BY <1>6
    <2> HIDE DEF f
    <2>2. SumOf(f, Q) = SumOf(f, {})
      BY ONLY <1>1, <2>1, SumZeroOutside, Q \in SUBSET BatchIds
    <2> QED BY <2>2, SumEmpty
  <1> HIDE DEF f
  <1> QED BY <1>3, <1>5, <1>6

\* Then only rejected overproductions still leave any.
LEMMA OwnedStays ==
  ASSUME OwnedByFactory, OwedStays
  PROVE  OwnedByFactory'
  BY DEF OwnedByFactory, OwedStays

\* What uses take, as a function of the batch.
Taken(d) == [b \in BatchIds |-> TakenFrom(d, b)]

\* What is spent is what is taken.
LEMMA SpentSum ==
  ASSUME NEW d, \A b \in BatchIds : TakenFrom(d, b) \in Nat, NEW Q \in SUBSET BatchIds
  PROVE  /\ Taken(d) \in [BatchIds -> Int] /\ Spent(d) \in [BatchIds -> Int]
         /\ SumOf(Taken(d), Q) \in Int
         /\ SumOf(Spent(d), Q) = -SumOf(Taken(d), Q)
  <1>1. IsFiniteSet(BatchIds) /\ Taken(d) \in [BatchIds -> Int] /\ Spent(d) \in [BatchIds -> Int]
    BY BatchIdsAssumption DEF Taken, Spent
  <1>2. \A b \in BatchIds : Spent(d)[b] = -Taken(d)[b]
    BY DEF Taken, Spent
  <1>3. SumOf(Spent(d), Q) = -SumOf(Taken(d), Q)
    BY ONLY <1>1, <1>2, SumNegated, Q \in SUBSET BatchIds
  <1>4. SumOf(Taken(d), Q) \in Int
    BY ONLY <1>1, SumType, Q \in SUBSET BatchIds
  <1> QED BY <1>1, <1>3, <1>4

\* What completing an order adds to a set of batches: what was finished, if it
\* is among them, less what was taken from those that were there before.
LEMMA MadeSum ==
  ASSUME NEW d, \A c \in BatchIds : TakenFrom(d, c) \in Nat, NEW b \in BatchIds,
         TakenFrom(d, b) = 0, NEW n \in Nat,
         NEW Q \in SUBSET BatchIds, NEW R \in SUBSET Q, \A c \in Q \ R : c = b
  PROVE  SumOf(Made(d, b, n), Q) = (IF b \in Q THEN n ELSE 0) - SumOf(Taken(d), R)
  <1>1. IsFiniteSet(BatchIds) /\ Only(b, n) \in [BatchIds -> Int] /\ Spent(d) \in [BatchIds -> Int]
        /\ Made(d, b, n) \in [BatchIds -> Int]
    BY BatchIdsAssumption DEF Only, Spent, Made
  <1>2. \A c \in BatchIds : Only(b, n)[c] = Made(d, b, n)[c] - Spent(d)[c]
    BY DEF Only, Made, Spent
  <1>3. \A c \in Q \ R : Spent(d)[c] = 0
    BY DEF Spent
  <1>4. SumOf(Made(d, b, n), Q) = SumOf(Spent(d), R) + SumOf(Only(b, n), Q)
    BY ONLY <1>1, <1>2, <1>3, SumMoved, Q \in SUBSET BatchIds, R \in SUBSET Q
  <1>5. R \in SUBSET BatchIds
    OBVIOUS
  <1>6. SumOf(Spent(d), R) = -SumOf(Taken(d), R) /\ SumOf(Taken(d), R) \in Int
    BY <1>5, SpentSum
  <1>7. SumOf(Only(b, n), Q) = IF b \in Q THEN n ELSE 0
    BY OnlySum
  <1> QED BY <1>4, <1>6, <1>7

\* What dividing an overproduction adds to a set of batches.
LEMMA BothSum ==
  ASSUME NEW b \in BatchIds, NEW c \in BatchIds, b # c, NEW n \in Nat, NEW m \in Nat,
         NEW Q \in SUBSET BatchIds
  PROVE  SumOf(Both(b, n, c, m), Q) = (IF b \in Q THEN n ELSE 0) + (IF c \in Q THEN m ELSE 0)
  <1>1. /\ IsFiniteSet(BatchIds) /\ Only(b, n) \in [BatchIds -> Int] /\ Only(c, m) \in [BatchIds -> Int]
        /\ Both(b, n, c, m) \in [BatchIds -> Int]
    BY BatchIdsAssumption DEF Only, Both
  <1>2. \A x \in BatchIds : Only(c, m)[x] = Both(b, n, c, m)[x] - Only(b, n)[x]
    BY DEF Only, Both
  <1>3. Q \in SUBSET Q /\ \A x \in Q \ Q : Only(b, n)[x] = 0
    OBVIOUS
  <1>4. SumOf(Both(b, n, c, m), Q) = SumOf(Only(b, n), Q) + SumOf(Only(c, m), Q)
    BY ONLY <1>1, <1>2, <1>3, SumMoved, Q \in SUBSET BatchIds
  <1> QED BY <1>4, OnlySum

\* What a stocktake corrects of a set of batches, bucket by bucket.
CorrectedIn(t, Q) == {x \in Pending(t) : x[1] \in Q}

\* It is the sum of its corrections.
LEMMA CorrectedSum ==
  ASSUME TypeOK, NEW t \in Stocktakes, NEW Q \in SUBSET BatchIds
  PROVE  /\ SumOf(Corrected(t), Q) = SumOf(Corrections(t), CorrectedIn(t, Q))
         /\ SumOf(Corrected(t), Q) \in Int
  <1> DEFINE P == CorrectedIn(t, Q)
             f == [x \in P |-> Corrections(t)[x]]
             g == [b \in Q |-> Corrected(t)[b]]
             p == [x \in P |-> x[1]]
  <1>1. /\ P \subseteq BatchIds \X Counted /\ IsFiniteSet(P)
        /\ Corrections(t) \in [BatchIds \X Counted -> Int]
    BY CorrectionsType, FS_Subset DEF CorrectedIn
  <1>2. IsFiniteSet(Q) /\ IsFiniteSet(BatchIds)
    BY BatchIdsAssumption, FS_Subset
  <1>3. f \in [P -> Int] /\ p \in [P -> Q]
    BY <1>1 DEF CorrectedIn
  <1>4. \A b \in BatchIds : Corrected(t)[b] \in Int
    BY CorrectedIs
  <1>5. g \in [Q -> Int] /\ Corrected(t) \in [BatchIds -> Int]
    BY <1>4 DEF Corrected
  <1>6. \A b \in Q : g[b] = SumOf(f, {x \in P : p[x] = b})
    <2> TAKE b \in Q
    <2>1. {x \in P : p[x] = b} = PendingOf(t, b)
      BY DEF PendingOf, CorrectedIn
    <2>2. PendingOf(t, b) \subseteq P
      BY DEF PendingOf, CorrectedIn
    <2>3. IsFiniteSet(PendingOf(t, b))
      BY <1>1, <2>2, FS_Subset
    <2>4. Same(f, Corrections(t), PendingOf(t, b))
      BY <2>2, <2>3 DEF Same
    <2>5. g[b] = SumOf(Corrections(t), PendingOf(t, b))
      BY DEF Corrected, Sum, SumOf
    <2> HIDE DEF f, g, p, P
    <2> QED BY <2>1, <2>4, <2>5, SumSame
  <1>7. Parts(f, p, g)
    <2>1. DOMAIN f = P /\ DOMAIN g = Q
      OBVIOUS
    <2> HIDE DEF f, g, p, P
    <2> QED BY <1>3, <1>6, <2>1 DEF Parts
  <1>8. Same(f, Corrections(t), P) /\ Same(g, Corrected(t), Q)
    BY <1>1, <1>2 DEF Same
  <1> HIDE DEF f, g, p, P
  <1>9. SumOf(f, P) = SumOf(g, Q)
    BY ONLY <1>1, <1>2, <1>3, <1>5, <1>7, SumParts
  <1>10. SumOf(Corrections(t), P) = SumOf(f, P) /\ SumOf(Corrected(t), Q) = SumOf(g, Q)
    BY <1>8, SumSame
  <1>11. SumOf(Corrected(t), Q) \in Int
    BY <1>2, <1>5, SumType
  <1> QED BY <1>9, <1>10, <1>11 DEF P

\* A movement of n units is written in ledger g, which becomes h.
Posts(g, h, v, r, n) == h = [g EXCEPT ![v][r] = @ + n]

\* Then that warehouse and SKU change, and no other.
LEMMA PostType ==
  ASSUME NEW g \in Ledgers, NEW h, NEW v, NEW r, NEW n \in Int, Posts(g, h, v, r, n)
  PROVE  /\ h \in Ledgers
         /\ \A w \in Warehouses, s \in Skus :
              h[w][s] = g[w][s] + (IF w = v /\ s = r THEN n ELSE 0)
  <1>1. \A w \in Warehouses : g[w] \in [Skus -> Int]
    BY DEF Ledgers
  <1>2. \A w \in Warehouses : h[w] = IF w = v THEN [g[w] EXCEPT ![r] = @ + n] ELSE g[w]
    BY DEF Ledgers, Posts
  <1>3. ASSUME NEW w \in Warehouses
        PROVE  /\ [g[w] EXCEPT ![r] = @ + n] \in [Skus -> Int]
               /\ \A s \in Skus : [g[w] EXCEPT ![r] = @ + n][s]
                                  = g[w][s] + (IF s = r THEN n ELSE 0)
    <2> DEFINE e == g[w]
               f == [e EXCEPT ![r] = @ + n]
    <2>1. e \in [Skus -> Int]
      BY <1>1
    <2> HIDE DEF e
    <2>2. f = [s \in Skus |-> IF s = r THEN e[s] + n ELSE e[s]]
      BY <2>1
    <2>3. \A s \in Skus : e[s] \in Int
      BY <2>1
    <2> HIDE DEF f
    <2>4. \A s \in Skus : f[s] = e[s] + (IF s = r THEN n ELSE 0)
      BY <2>2, <2>3
    <2>5. \A s \in Skus : (IF s = r THEN e[s] + n ELSE e[s]) \in Int
      BY <2>3
    <2>6. f \in [Skus -> Int]
      BY <2>2, <2>5
    <2> QED BY <2>4, <2>6 DEF e, f
  <1>4. h \in Ledgers
    <2>1. ASSUME NEW w \in Warehouses PROVE h[w] \in [Skus -> Int]
      <3>1. CASE w = v
        BY <1>2, <1>3, <3>1
      <3>2. CASE w # v
        BY <1>1, <1>2, <3>2
      <3> QED BY <3>1, <3>2
    <2>2. h = [w \in Warehouses |-> h[w]]
      BY DEF Ledgers, Posts
    <2> QED BY <2>1, <2>2 DEF Ledgers
  <1>5. ASSUME NEW w \in Warehouses, NEW s \in Skus
        PROVE  h[w][s] = g[w][s] + (IF w = v /\ s = r THEN n ELSE 0)
    <2>1. CASE w = v
      BY <1>2, <1>3, <2>1
    <2>2. CASE w # v
      <3>1. g[w][s] \in Int /\ h[w] = g[w]
        BY <1>1, <1>2, <2>2
      <3> QED BY <2>2, <3>1
    <2> QED BY <2>1, <2>2
  <1> QED BY <1>4, <1>5

\* A movement of n units, written in the ledger.
LEMMA PostedType ==
  ASSUME ledger \in Ledgers, NEW v, NEW r, NEW n \in Int
  PROVE  /\ Posted(v, r, n) \in Ledgers
         /\ \A w \in Warehouses, s \in Skus :
              Posted(v, r, n)[w][s] = ledger[w][s] + (IF w = v /\ s = r THEN n ELSE 0)
  <1>1. Posts(ledger, Posted(v, r, n), v, r, n)
    BY DEF Posted, Posts
  <1> QED BY <1>1, PostType

\* A command that writes no movement and changes no totals.
LEMMA LedgerIdle ==
  ASSUME TypeOK, TypeOK', Blank, LedgerInv, UNCHANGED ledger, OwedStays,
         NEW l, Effect(Zero, l)
  PROVE  LedgerInv'
  <1>1. ASSUME NEW w \in Warehouses, NEW s \in Skus
        PROVE  ledger'[w][s] + Owed(w, s)' = ledger[w][s] + Owed(w, s) + SumOf(Zero, RowsOf(w, s)')
    <2>1. SumOf(Zero, RowsOf(w, s)') = 0
      BY RowsAfter, ZeroSum
    <2>2. ledger[w][s] \in Int /\ Owed(w, s)' = Owed(w, s) /\ Owed(w, s) \in Int
      BY OwedSame DEF LedgerInv, Ledgers
    <2> QED BY <2>1, <2>2
  <1>2. Booked(Zero)
    BY <1>1 DEF Booked
  <1> QED BY <1>2, LedgerMoves, OwnedStays DEF LedgerInv

\* A batch is inserted, with a movement for what it holds.
LEMMA LedgerInsert ==
  ASSUME TypeOK, TypeOK', Blank, LedgerInv, OwedStays,
         NEW b, IsNextBatch(b), NEW v, NEW r, NEW n \in Nat, NEW c, NEW d \in Sources,
         lot' = [lot EXCEPT ![b] = NewLot(v, r, c, d)],
         Effect(Only(b, n), Zero), ledger' = Posted(v, r, n)
  PROVE  LedgerInv'
  <1>1. b \in BatchIds /\ n \in Int
    BY NextIsFree
  <1>2. /\ lot'[b] # NoLot /\ lot'[b].wh = v /\ lot'[b].sku = r
    <2>1. lot'[b] = NewLot(v, r, c, d)
      BY <1>1 DEF TypeOK, StockTypeOK
    <2> QED BY <2>1, NewLotIsRow DEF Sources
  <1>3. ASSUME NEW w \in Warehouses, NEW s \in Skus
        PROVE  ledger'[w][s] + Owed(w, s)'
                 = ledger[w][s] + Owed(w, s) + SumOf(Only(b, n), RowsOf(w, s)')
    <2>1. SumOf(Only(b, n), RowsOf(w, s)') = IF b \in RowsOf(w, s)' THEN n ELSE 0
      BY <1>1, RowsAfter, OnlySum
    <2>2. b \in RowsOf(w, s)' <=> w = v /\ s = r
      BY <1>1, <1>2 DEF RowsOf, Rows
    <2>3. ledger'[w][s] = ledger[w][s] + (IF w = v /\ s = r THEN n ELSE 0)
      BY <1>1, PostedType DEF LedgerInv
    <2>4. ledger[w][s] \in Int /\ Owed(w, s)' = Owed(w, s) /\ Owed(w, s) \in Int
      BY OwedSame DEF LedgerInv, Ledgers
    <2> QED BY <2>1, <2>2, <2>3, <2>4
  <1>4. Booked(Only(b, n)) /\ ledger' \in Ledgers
    BY <1>1, <1>3, PostedType DEF Booked, LedgerInv
  <1> QED BY <1>4, LedgerMoves, OwnedStays DEF LedgerInv

\* Batches of a warehouse and SKU are walked through, with one movement.
LEMMA LedgerWalk ==
  ASSUME TypeOK, TypeOK', Blank, LedgerInv, OwedStays, UNCHANGED lot,
         NEW v, NEW r, NEW n \in Nat, NEW d, NEW earlier,
         TakesInOrder(d, [b \in Shippable(v, r) |-> qty[b]["available"]], earlier, n),
         Effect(Drained(d), Zero), ledger' = Posted(v, r, -n)
  PROVE  LedgerInv'
  <1> DEFINE A == Shippable(v, r)
  <1>1. /\ d \in [A -> Int] /\ A \subseteq RowsOf(v, r) /\ A \subseteq BatchIds
        /\ SumOf(d, A) = n /\ -n \in Int
    BY WalkTakes
  <1>2. \A w, s : RowsOf(w, s)' = RowsOf(w, s)
    BY DEF RowsOf, Rows
  <1> HIDE DEF A
  <1>3. ASSUME NEW w \in Warehouses, NEW s \in Skus
        PROVE  ledger'[w][s] + Owed(w, s)'
                 = ledger[w][s] + Owed(w, s) + SumOf(Drained(d), RowsOf(w, s)')
    <2>1. RowsOf(w, s) \in SUBSET BatchIds /\ A \in SUBSET BatchIds
      BY <1>1 DEF RowsOf, Rows
    <2>2. SumOf(Drained(d), RowsOf(w, s)) = IF w = v /\ s = r THEN -n ELSE 0
      <3>1. CASE w = v /\ s = r
        BY <1>1, <2>1, <3>1, WalkSum
      <3>2. CASE ~(w = v /\ s = r)
        <4>1. A \cap RowsOf(w, s) = {}
          BY <1>1, <3>2 DEF RowsOf
        <4> QED BY <1>1, <2>1, <3>2, <4>1, WalkSum
      <3> QED BY <3>1, <3>2
    <2>3. ledger'[w][s] = ledger[w][s] + (IF w = v /\ s = r THEN -n ELSE 0)
      BY <1>1, PostedType DEF LedgerInv
    <2>4. ledger[w][s] \in Int /\ Owed(w, s)' = Owed(w, s) /\ Owed(w, s) \in Int
      BY OwedSame DEF LedgerInv, Ledgers
    <2>5. SumOf(Drained(d), RowsOf(w, s)') = SumOf(Drained(d), RowsOf(w, s))
      BY <1>2
    <2> QED BY <2>2, <2>3, <2>4, <2>5
  <1>4. Booked(Drained(d)) /\ ledger' \in Ledgers
    BY <1>1, <1>3, PostedType DEF Booked, LedgerInv
  <1> QED BY <1>4, LedgerMoves, OwnedStays DEF LedgerInv

\* The ledger after a use, of the batches there were.
LEMMA SpentLedger ==
  ASSUME ledger \in Ledgers, NEW d, \A b \in BatchIds : TakenFrom(d, b) \in Nat
  PROVE  /\ LedgerAfterUse(d) \in Ledgers
         /\ \A w \in Warehouses, s \in Skus :
              /\ LedgerAfterUse(d)[w][s] = ledger[w][s] - SumOf(Taken(d), RowsOf(w, s))
              /\ SumOf(Taken(d), RowsOf(w, s)) \in Int
  <1>1. \A w \in Warehouses, s \in Skus : ledger[w][s] \in Int
    BY DEF Ledgers
  <1>2. \A w \in Warehouses, s \in Skus : SumOf(Taken(d), RowsOf(w, s)) \in Int
    <2> TAKE w \in Warehouses, s \in Skus
    <2>1. RowsOf(w, s) \in SUBSET BatchIds
      BY DEF RowsOf, Rows
    <2> QED BY <2>1, SpentSum
  <1>3. \A w \in Warehouses, s \in Skus :
          LedgerAfterUse(d)[w][s] = ledger[w][s] - SumOf(Taken(d), RowsOf(w, s))
    BY DEF LedgerAfterUse, Sum, SumOf, Taken
  <1>4. LedgerAfterUse(d) = [w \in Warehouses |-> [s \in Skus |->
                               ledger[w][s] - SumOf(Taken(d), RowsOf(w, s))]]
    BY DEF LedgerAfterUse, Sum, SumOf, Taken
  <1>5. LedgerAfterUse(d) \in Ledgers
    BY <1>1, <1>2, <1>4 DEF Ledgers
  <1> QED BY <1>2, <1>3, <1>5

\* Materials are used, with a movement for each batch.
LEMMA LedgerUse ==
  ASSUME TypeOK, TypeOK', Blank, LedgerInv, OwedStays, UNCHANGED lot,
         NEW d, \A b \in BatchIds : TakenFrom(d, b) \in Nat,
         Effect(Spent(d), Spent(d)), ledger' = LedgerAfterUse(d)
  PROVE  LedgerInv'
  <1>1. \A w, s : RowsOf(w, s)' = RowsOf(w, s)
    BY DEF RowsOf, Rows
  <1>2. ASSUME NEW w \in Warehouses, NEW s \in Skus
        PROVE  ledger'[w][s] + Owed(w, s)'
                 = ledger[w][s] + Owed(w, s) + SumOf(Spent(d), RowsOf(w, s)')
    <2>1. RowsOf(w, s) \in SUBSET BatchIds
      BY DEF RowsOf, Rows
    <2>2. /\ SumOf(Spent(d), RowsOf(w, s)) = -SumOf(Taken(d), RowsOf(w, s))
          /\ SumOf(Taken(d), RowsOf(w, s)) \in Int
      BY <2>1, SpentSum
    <2>3. ledger'[w][s] = ledger[w][s] - SumOf(Taken(d), RowsOf(w, s))
      BY SpentLedger DEF LedgerInv
    <2>4. ledger[w][s] \in Int /\ Owed(w, s)' = Owed(w, s) /\ Owed(w, s) \in Int
      BY OwedSame DEF LedgerInv, Ledgers
    <2>5. SumOf(Spent(d), RowsOf(w, s)') = SumOf(Spent(d), RowsOf(w, s))
      BY <1>1
    <2> QED BY <2>2, <2>3, <2>4, <2>5
  <1>3. Booked(Spent(d)) /\ ledger' \in Ledgers
    BY <1>2, SpentLedger DEF Booked, LedgerInv
  <1> QED BY <1>3, LedgerMoves, OwnedStays DEF LedgerInv

\* An order is completed: materials are used, and what was made is stocked.
LEMMA LedgerComplete ==
  ASSUME TypeOK, TypeOK', Blank, LedgerInv, OwedStays, NEW o \in Orders, NEW actual \in Nat,
         NEW m \in Reports \cup {NoReport}, NEW d, NEW b \in BatchIds,
         CompleteOrder(o, actual, m, d, b)
  PROVE  LedgerInv'
  <1>1. /\ Uses(o, m, d) /\ IsNextBatch(b)
        /\ lot' = [lot EXCEPT ![b] = NewLot(FactorySite, Finished, "company", "production")]
        /\ ledger' = [LedgerAfterUse(d) EXCEPT ![FactorySite][Finished] = @ + actual]
    BY DEF CompleteOrder, Completing
  <1>2. /\ \A c \in BatchIds : TakenFrom(d, c) \in Nat
        /\ TakenFrom(d, b) = 0
    <2>1. \A c \in BatchIds : TakenFrom(d, c) \in Nat /\ TakenFrom(d, c) =< qty[c]["locked"]
      BY <1>1, TakenType
    <2>2. qty[b]["locked"] = 0
      BY <1>1, NextIsFree, BlankIsEmpty
    <2> QED BY <2>1, <2>2
  <1>3. Effect(Made(d, b, actual), Spent(d))
    BY CompleteEffect
  <1>4. /\ lot'[b] # NoLot /\ lot'[b].wh = FactorySite /\ lot'[b].sku = Finished
        /\ \A c \in BatchIds : c # b => lot'[c] = lot[c]
    <2>1. /\ lot'[b] = NewLot(FactorySite, Finished, "company", "production")
          /\ \A c \in BatchIds : c # b => lot'[c] = lot[c]
      BY <1>1 DEF TypeOK, StockTypeOK
    <2> QED BY <2>1, NewLotIsRow
  <1>5. /\ LedgerAfterUse(d) \in Ledgers
        /\ \A w \in Warehouses, s \in Skus :
             /\ LedgerAfterUse(d)[w][s] = ledger[w][s] - SumOf(Taken(d), RowsOf(w, s))
             /\ SumOf(Taken(d), RowsOf(w, s)) \in Int
    BY <1>2, SpentLedger DEF LedgerInv
  <1>6. /\ ledger' \in Ledgers
        /\ \A w \in Warehouses, s \in Skus :
             ledger'[w][s] = LedgerAfterUse(d)[w][s]
                             + (IF w = FactorySite /\ s = Finished THEN actual ELSE 0)
    <2>1. actual \in Int
      OBVIOUS
    <2>2. Posts(LedgerAfterUse(d), ledger', FactorySite, Finished, actual)
      BY <1>1 DEF Posts
    <2> QED BY ONLY <1>5, <2>1, <2>2, PostType
  <1>7. ASSUME NEW w \in Warehouses, NEW s \in Skus
        PROVE  ledger'[w][s] + Owed(w, s)'
                 = ledger[w][s] + Owed(w, s) + SumOf(Made(d, b, actual), RowsOf(w, s)')
    <2> DEFINE Q == RowsOf(w, s)'
               R == RowsOf(w, s)
    <2>1. Q \in SUBSET BatchIds /\ R \in SUBSET Q
      BY <1>3, RowsAfter
    <2>2. \A c \in Q \ R : c = b
      BY <1>4 DEF RowsOf, Rows
    <2>3. b \in Q <=> w = FactorySite /\ s = Finished
      BY <1>4 DEF RowsOf, Rows
    <2> HIDE DEF Q, R
    <2>4. SumOf(Made(d, b, actual), Q) = (IF b \in Q THEN actual ELSE 0) - SumOf(Taken(d), R)
      BY <1>2, <2>1, <2>2, MadeSum
    <2>5. ledger[w][s] \in Int /\ Owed(w, s)' = Owed(w, s) /\ Owed(w, s) \in Int
      BY OwedSame DEF LedgerInv, Ledgers
    <2>6. /\ ledger'[w][s] = ledger[w][s] - SumOf(Taken(d), R)
                             + (IF w = FactorySite /\ s = Finished THEN actual ELSE 0)
          /\ SumOf(Taken(d), R) \in Int
      BY <1>5, <1>6 DEF R
    <2> QED BY <2>3, <2>4, <2>5, <2>6 DEF Q
  <1>8. Booked(Made(d, b, actual))
    BY <1>7 DEF Booked
  <1> QED BY <1>3, <1>6, <1>8, LedgerMoves, OwnedStays DEF LedgerInv

\* What an overproduction leaves to the factory is owed from then on.
LEMMA ExcessOwed ==
  ASSUME TypeOK, TypeOK', OwnedByFactory, NEW o \in Orders, NEW e,
         order[o].status = "variance_pending",
         order'[o].factory = e, order'[o].status = "completed_factory_owned",
         \A x \in Orders : x # o => order'[x] = order[x]
  PROVE  /\ OwnedByFactory'
         /\ SumOf(FactoryOwned', Orders) = SumOf(FactoryOwned, Orders) + e
         /\ SumOf(FactoryOwned, Orders) \in Int
  <1> DEFINE f == FactoryOwned
             g == FactoryOwned'
  <1>1. f \in [Orders -> Int]
    BY OwedType
  <1>2. g \in [Orders -> Int]
    BY DEF FactoryOwned, TypeOK, ProductionTypeOK
  <1>3. /\ f[o] = 0 /\ g[o] = e
        /\ \A x \in Orders : x # o => g[x] = f[x]
    BY DEF FactoryOwned, OwnedByFactory
  <1>4. OwnedByFactory'
    BY DEF OwnedByFactory
  <1> HIDE DEF f, g
  <1>5. Changed(f, g, o, Orders)
    BY <1>1, <1>2, <1>3, OrdersAssumption DEF Changed
  <1>6. SumOf(f, Orders) \in Int /\ SumOf(g, Orders) = SumOf(f, Orders) - f[o] + g[o]
    BY <1>5, SumChanged
  <1>7. g[o] \in Int
    BY <1>2
  <1>8. SumOf(g, Orders) = SumOf(f, Orders) + e
    BY <1>3, <1>6, <1>7
  <1> QED BY <1>4, <1>6, <1>8 DEF f, g

\* An overproduction is divided: only the company's share has a movement.
LEMMA LedgerDivide ==
  ASSUME TypeOK, TypeOK', TypeInv, Blank, LedgerInv, NEW o \in Orders, NEW u,
         NEW b \in BatchIds, NEW c \in BatchIds, RejectOverproduction(o, u, b, c)
  PROVE  LedgerInv'
  <1> DEFINE n == order[o].planned
             e == order[o].actual - order[o].planned
  <1>1. n \in Nat /\ e \in Nat
    BY DEF RejectOverproduction, Reviews, TypeInv, OverIsOver, TypeOK, ProductionTypeOK
  <1>2. /\ IsNextBatch(b) /\ c \in BatchIds \ Rows /\ b < c
        /\ lot' = [lot EXCEPT ![b] = NewLot(FactorySite, Finished, "company", "variance"),
                              ![c] = NewLot(FactorySite, Finished, "factory", "variance")]
        /\ ledger' = Posted(FactorySite, Finished, n)
        /\ order[o].status = "variance_pending"
    BY DEF RejectOverproduction, Reviews
  <1>3. Effect(Both(b, n, c, e), Zero)
    BY DivideEffect
  <1>4. /\ order'[o].factory = e /\ order'[o].status = "completed_factory_owned"
        /\ \A x \in Orders : x # o => order'[x] = order[x]
    BY DEF RejectOverproduction, TypeOK, ProductionTypeOK
  <1> HIDE DEF n, e
  <1>5. b # c
    BY <1>2, BatchIdsAssumption
  <1>6. /\ lot'[b] # NoLot /\ lot'[b].wh = FactorySite /\ lot'[b].sku = Finished
        /\ lot'[c] # NoLot /\ lot'[c].wh = FactorySite /\ lot'[c].sku = Finished
    <2>1. /\ lot'[b] = NewLot(FactorySite, Finished, "company", "variance")
          /\ lot'[c] = NewLot(FactorySite, Finished, "factory", "variance")
      BY <1>2, <1>5 DEF TypeOK, StockTypeOK
    <2> QED BY <2>1, NewLotIsRow
  <1>7. /\ OwnedByFactory'
        /\ SumOf(FactoryOwned', Orders) = SumOf(FactoryOwned, Orders) + e
        /\ SumOf(FactoryOwned, Orders) \in Int
    BY <1>2, <1>4, ExcessOwed DEF LedgerInv
  <1>8. /\ ledger' \in Ledgers
        /\ \A w \in Warehouses, s \in Skus :
             ledger'[w][s] = ledger[w][s] + (IF w = FactorySite /\ s = Finished THEN n ELSE 0)
    <2>1. n \in Int
      BY <1>1
    <2> QED BY <1>2, <2>1, PostedType DEF LedgerInv
  <1>9. ASSUME NEW w \in Warehouses, NEW s \in Skus
        PROVE  ledger'[w][s] + Owed(w, s)'
                 = ledger[w][s] + Owed(w, s) + SumOf(Both(b, n, c, e), RowsOf(w, s)')
    <2> DEFINE Q == RowsOf(w, s)'
    <2>1. Q \in SUBSET BatchIds
      BY <1>3, RowsAfter
    <2>2. /\ b \in Q <=> w = FactorySite /\ s = Finished
          /\ c \in Q <=> w = FactorySite /\ s = Finished
      BY <1>6 DEF RowsOf, Rows
    <2> HIDE DEF Q
    <2>3. SumOf(Both(b, n, c, e), Q) = (IF b \in Q THEN n ELSE 0) + (IF c \in Q THEN e ELSE 0)
      BY <1>1, <1>5, <2>1, BothSum
    <2>4. ledger[w][s] \in Int
      BY DEF LedgerInv, Ledgers
    <2>5. CASE w = FactorySite /\ s = Finished
      <3>1. Owed(w, s) = SumOf(FactoryOwned, Orders) /\ Owed(w, s)' = SumOf(FactoryOwned', Orders)
        BY <2>5 DEF Owed, SumOf
      <3>2. ledger'[w][s] = ledger[w][s] + n /\ SumOf(Both(b, n, c, e), Q) = n + e
        BY <1>8, <2>2, <2>3, <2>5
      <3> QED BY <1>1, <1>7, <2>4, <3>1, <3>2 DEF Q
    <2>6. CASE ~(w = FactorySite /\ s = Finished)
      <3>1. Owed(w, s) = 0 /\ Owed(w, s)' = 0
        BY <2>6 DEF Owed
      <3>2. ledger'[w][s] = ledger[w][s] + 0 /\ SumOf(Both(b, n, c, e), Q) = 0
        BY <1>8, <2>2, <2>3, <2>6
      <3> QED BY <2>4, <3>1, <3>2 DEF Q
    <2> QED BY <2>5, <2>6
  <1>10. Booked(Both(b, n, c, e))
    BY <1>9 DEF Booked
  <1> QED BY <1>3, <1>7, <1>8, <1>10, LedgerMoves DEF n, e

\* The batches a stocktake corrects lie in its warehouse.
LEMMA CorrectedRows ==
  ASSUME FreezeInv, NEW t \in Stocktakes, NEW w, NEW s
  PROVE  CorrectedIn(t, RowsOf(w, s))
           = IF w = task[t].wh THEN {x \in Pending(t) : lot[x[1]].sku = s} ELSE {}
  <1>1. ASSUME NEW x \in Pending(t)
        PROVE  /\ x[1] \in BatchIds
               /\ lot[x[1]] # NoLot /\ lot[x[1]].wh = task[t].wh
    <2>1. /\ x[1] \in BatchIds /\ x[2] \in Counted
          /\ adj[t][x[1]][x[2]].decision = "pending"
      BY DEF Pending
    <2>2. task[t].status = "pending_approval" /\ x[1] \in Targets(t)
      BY <2>1 DEF FreezeInv, AdjustmentsPlaced
    <2> QED BY <2>1, <2>2 DEF FreezeInv, Placed, IsOpen, Open
  <1>2. \A x \in Pending(t) :
          x[1] \in RowsOf(w, s) <=> w = task[t].wh /\ lot[x[1]].sku = s
    BY <1>1 DEF RowsOf, Rows
  <1> QED BY <1>2 DEF CorrectedIn

\* A variance is approved: one movement per correction.
LEMMA LedgerApprove ==
  ASSUME FreezeInv, TypeOK', Blank, LedgerInv, OwedStays, NEW t \in Stocktakes, NEW u,
         ApproveVariance(t, u)
  PROVE  LedgerInv'
  <1>0. TypeOK /\ Effect(Corrected(t), Relocked(t))
    BY AdjustEffect DEF FreezeInv
  <1>1. /\ UNCHANGED lot
        /\ ledger' = [ledger EXCEPT ![task[t].wh] = [s \in Skus |-> @[s] + VarianceOf(t, s)]]
    BY DEF ApproveVariance
  <1>2. ASSUME NEW w \in Warehouses, NEW s \in Skus
        PROVE  /\ SumOf(Corrected(t), RowsOf(w, s)) = IF w = task[t].wh THEN VarianceOf(t, s) ELSE 0
               /\ SumOf(Corrected(t), RowsOf(w, s)) \in Int
    <2>1. RowsOf(w, s) \in SUBSET BatchIds
      BY DEF RowsOf, Rows
    <2>2. /\ SumOf(Corrected(t), RowsOf(w, s))
                = SumOf(Corrections(t), CorrectedIn(t, RowsOf(w, s)))
          /\ SumOf(Corrected(t), RowsOf(w, s)) \in Int
      BY <1>0, <2>1, CorrectedSum
    <2>3. VarianceOf(t, s) = SumOf(Corrections(t), {x \in Pending(t) : lot[x[1]].sku = s})
      BY DEF VarianceOf, Corrections, Sum, SumOf
    <2>4. CASE w = task[t].wh
      BY <2>2, <2>3, <2>4, CorrectedRows
    <2>5. CASE w # task[t].wh
      BY <2>2, <2>5, CorrectedRows, SumEmpty
    <2> QED BY <2>4, <2>5
  <1>3. ASSUME NEW w \in Warehouses
        PROVE  /\ ledger'[w] \in [Skus -> Int]
               /\ \A s \in Skus : ledger'[w][s] = ledger[w][s] + SumOf(Corrected(t), RowsOf(w, s))
    <2>1. ledger[w] \in [Skus -> Int] /\ \A s \in Skus : ledger[w][s] \in Int
      BY DEF LedgerInv, Ledgers
    <2>2. ledger'[w] = IF w = task[t].wh THEN [s \in Skus |-> ledger[w][s] + VarianceOf(t, s)]
                                         ELSE ledger[w]
      BY <1>1 DEF LedgerInv, Ledgers
    <2>3. CASE w = task[t].wh
      <3>1. \A s \in Skus : /\ VarianceOf(t, s) = SumOf(Corrected(t), RowsOf(w, s))
                            /\ VarianceOf(t, s) \in Int
        BY <1>2, <2>3
      <3>2. \A s \in Skus : ledger[w][s] + VarianceOf(t, s) \in Int
        BY <2>1, <3>1
      <3> QED BY <2>2, <2>3, <3>1, <3>2
    <2>4. CASE w # task[t].wh
      BY <1>2, <2>1, <2>2, <2>4
    <2> QED BY <2>3, <2>4
  <1>4. ledger' \in Ledgers
    <2>1. ledger' = [w \in Warehouses |-> ledger'[w]]
      BY <1>1 DEF LedgerInv, Ledgers
    <2> QED BY <1>3, <2>1 DEF Ledgers
  <1>5. ASSUME NEW w \in Warehouses, NEW s \in Skus
        PROVE  ledger'[w][s] + Owed(w, s)'
                 = ledger[w][s] + Owed(w, s) + SumOf(Corrected(t), RowsOf(w, s)')
    <2>1. ledger[w][s] \in Int /\ Owed(w, s)' = Owed(w, s) /\ Owed(w, s) \in Int
      BY <1>0, OwedSame DEF LedgerInv, Ledgers
    <2>2. RowsOf(w, s)' = RowsOf(w, s)
      BY <1>1 DEF RowsOf, Rows
    <2> QED BY <1>2, <1>3, <2>1, <2>2
  <1>6. Booked(Corrected(t))
    BY <1>5 DEF Booked
  <1> QED BY <1>0, <1>4, <1>6, LedgerMoves, OwnedStays DEF LedgerInv

\* What commands of production do to the factory's share.
LEMMA OrdersKeep ==
  ASSUME TypeOK, NEW o \in Orders, NEW n, NEW u, NEW m, NEW d, NEW b,
         \/ CreateOrder(o, n) \/ StartOrder(o) \/ CompleteOrder(o, n, m, d, b)
         \/ RequestProductionVariance(o, u, n, m, d) \/ ApproveProduction(o, u, b)
         \/ RejectProduction(o, u)
  PROVE  OwedStays
  <1>1. /\ order'[o].factory = order[o].factory
        /\ order[o].status # "completed_factory_owned"
        /\ \A x \in Orders : x # o => order'[x] = order[x]
    <2>1. CASE CreateOrder(o, n)
      BY <2>1 DEF CreateOrder, NoOrder, TypeOK, ProductionTypeOK
    <2>2. CASE StartOrder(o)
      BY <2>2 DEF StartOrder, TypeOK, ProductionTypeOK
    <2>3. CASE CompleteOrder(o, n, m, d, b)
      BY <2>3 DEF CompleteOrder, Completing, TypeOK, ProductionTypeOK
    <2>4. CASE RequestProductionVariance(o, u, n, m, d)
      BY <2>4 DEF RequestProductionVariance, Completing, TypeOK, ProductionTypeOK
    <2>5. CASE ApproveProduction(o, u, b)
      BY <2>5 DEF ApproveProduction, Reviews, TypeOK, ProductionTypeOK
    <2>6. CASE RejectProduction(o, u)
      BY <2>6 DEF RejectProduction, Reviews, TypeOK, ProductionTypeOK
    <2> QED BY <2>1, <2>2, <2>3, <2>4, <2>5, <2>6
  <1> QED BY <1>1 DEF OwedStays

\* The commands of stocktakes.
LEMMA StocktakeLedger ==
  ASSUME FreezeInv, TypeOK', Blank, LedgerInv, OwedStays, StocktakeNext
  PROVE  LedgerInv'
  <1>0. TypeOK
    BY DEF FreezeInv
  <1>1. \/ \E t \in Stocktakes, u \in Users : ApproveVariance(t, u)
        \/ UNCHANGED <<lot, qty, ledger>>
    BY DEF StocktakeNext, OpenStocktake, SubmitCount, RequireRecount, CompleteStocktake,
           RequestVarianceApproval, RejectVariance, stockVars
  <1>2. ASSUME UNCHANGED <<lot, qty, ledger>> PROVE LedgerInv'
    BY <1>0, <1>2, IdleEffect, LedgerIdle
  <1> QED BY <1>1, <1>2, LedgerApprove

\* The commands of warehousing.
LEMMA WarehousingLedger ==
  ASSUME TypeOK, TypeOK', Blank, LedgerInv, OwedStays, WarehousingNext
  PROVE  LedgerInv'
  <1>1. ASSUME NEW i \in Items, NEW b \in BatchIds, ReceivePurchase(i, b) PROVE LedgerInv'
    <2>1. Effect(Only(b, ItemOf[i].n), Zero) /\ ItemOf[i].n \in Nat
      BY <1>1, ReceiptEffect, ItemAssumption
    <2>2. "company" \in Owners /\ "receipt" \in Sources
      BY DEF Owners, Sources
    <2> QED BY <1>1, <2>1, <2>2, LedgerInsert DEF ReceivePurchase
  <1>2. ASSUME NEW b \in BatchIds, NEW bucket \in {"available", "quarantine"}, InspectBatch(b, bucket)
        PROVE  LedgerInv'
    <2>1. UNCHANGED ledger
      BY <1>2 DEF InspectBatch
    <2> QED BY <1>2, <2>1, InspectEffect, LedgerIdle
  <1>3. ASSUME NEW x \in Transfers, NEW d, ShipTransfer(x, d) PROVE LedgerInv'
    <2>1. Effect(Drained(d), Zero) /\ transfer[x].n \in Nat
      BY <1>3, ShipEffect, TransferType DEF ShipTransfer
    <2>2. PICK v, r, n, earlier :
            /\ n = transfer[x].n
            /\ TakesInOrder(d, [b \in Shippable(v, r) |-> qty[b]["available"]], earlier, n)
            /\ ledger' = Posted(v, r, -n)
      BY <1>3 DEF ShipTransfer
    <2>3. UNCHANGED lot /\ n \in Nat
      BY <1>3, <2>1, <2>2 DEF ShipTransfer
    <2> QED BY <2>1, <2>2, <2>3, LedgerWalk
  <1>4. ASSUME NEW x \in Transfers, NEW b \in BatchIds, ReceiveTransfer(x, b) PROVE LedgerInv'
    <2>1. Effect(Only(b, transfer[x].n), Zero) /\ transfer[x].n \in Nat
      BY <1>4, ArrivalEffect, TransferType DEF ReceiveTransfer, CanReceive
    <2>2. "transfer" \in Sources
      BY DEF Sources
    <2> QED BY <1>4, <2>1, <2>2, LedgerInsert DEF ReceiveTransfer
  <1>5. ASSUME NEW x, NEW u, NEW w1, NEW w2, NEW s, NEW n, NEW decision,
               \/ RequestTransfer(x, u, w1, w2, s, n) \/ ReviewTransfer(x, u, decision)
        PROVE  UNCHANGED <<lot, qty, ledger>>
    BY <1>5 DEF RequestTransfer, ReviewTransfer, stockVars
  <1>6. ASSUME NEW m, NEW u, NEW w1, NEW w2,
               \/ CreateWarehouse(w1) \/ Deactivate(w1) \/ RequestMerge(m, u, w1, w2)
               \/ ApproveMerge(m, u) \/ RejectMerge(m, u)
        PROVE  UNCHANGED <<lot, qty, ledger>>
    BY <1>6 DEF CreateWarehouse, Deactivate, RequestMerge, ApproveMerge, RejectMerge, DecidesMerge,
                stockVars
  <1>7. ASSUME UNCHANGED <<lot, qty, ledger>> PROVE LedgerInv'
    BY <1>7, IdleEffect, LedgerIdle
  <1> QED BY <1>1, <1>2, <1>3, <1>4, <1>5, <1>6, <1>7 DEF WarehousingNext

\* The commands of production.
LEMMA ProductionLedger ==
  ASSUME TypeOK, TypeOK', TypeInv, Blank, LedgerInv, ProductionNext
  PROVE  LedgerInv'
  <1>0. UNCHANGED order => OwedStays
    BY DEF OwedStays
  <1>1. ASSUME NEW r \in Reservations, NEW b \in BatchIds, NEW for \in Orders \cup {Elsewhere},
               NEW n \in 1 .. MaxReport, NEW priority, Reserve(r, b, for, n, priority)
        PROVE  LedgerInv'
    <2>1. n \in Nat
      BY ProductionAssumption
    <2>2. Effect(Zero, Only(b, Granted(b, n))) /\ UNCHANGED <<ledger, order>>
      BY <1>1, <2>1, ReserveEffect DEF Reserve
    <2> QED BY <1>0, <2>2, LedgerIdle
  <1>2. ASSUME NEW o \in Orders, ReleaseMaterials(o) PROVE LedgerInv'
    <2>1. Effect(Zero, Unlocked(o)) /\ UNCHANGED <<ledger, order>>
      BY <1>2, ReleaseEffect DEF ReleaseMaterials
    <2> QED BY <1>0, <2>1, LedgerIdle
  <1>3. ASSUME NEW o \in Orders, NEW m \in Reports \cup {NoReport}, NEW d, Uses(o, m, d), OwedStays,
               UNCHANGED lot, qty' = AfterUse(d), ledger' = LedgerAfterUse(d)
        PROVE  LedgerInv'
    <2>1. Effect(Spent(d), Spent(d))
      BY <1>3, UseEffect
    <2>2. \A b \in BatchIds : TakenFrom(d, b) \in Nat
      BY <1>3, TakenType
    <2> QED BY <1>3, <2>1, <2>2, LedgerUse
  <1>4. ASSUME NEW o \in Orders, NEW m \in Reports, NEW d, ReportMaterials(o, m, d)
        PROVE  LedgerInv'
    BY <1>0, <1>3, <1>4 DEF ReportMaterials
  <1>5. ASSUME NEW o \in Orders, NEW m \in Reports \cup {NoReport}, NEW d, NEW u, NEW actual,
               RequestProductionVariance(o, u, actual, m, d)
        PROVE  LedgerInv'
    <2>1. OwedStays
      BY <1>5, OrdersKeep
    <2> QED BY <1>3, <1>5, <2>1 DEF RequestProductionVariance, Completing
  <1>6. ASSUME NEW o \in Orders, NEW m \in Reports \cup {NoReport}, NEW d,
               NEW actual \in 0 .. MaxReport, NEW b \in BatchIds, CompleteOrder(o, actual, m, d, b)
        PROVE  LedgerInv'
    <2>1. actual \in Nat
      BY ProductionAssumption
    <2>2. OwedStays
      BY <1>6, OrdersKeep
    <2> QED BY <1>6, <2>1, <2>2, LedgerComplete
  <1>7. ASSUME NEW o \in Orders, NEW u, NEW b \in BatchIds, ApproveProduction(o, u, b)
        PROVE  LedgerInv'
    <2>1. OwedStays
      BY <1>7, OrdersKeep
    <2>2. Effect(Only(b, order[o].actual), Zero) /\ order[o].actual \in Nat
      BY <1>7, ApproveEffect DEF TypeOK, ProductionTypeOK
    <2>3. CASE order[o].actual > 0
      <3>1. "variance" \in Sources
        BY DEF Sources
      <3> QED BY <1>7, <2>1, <2>2, <2>3, <3>1, LedgerInsert DEF ApproveProduction
    <2>4. CASE ~(order[o].actual > 0)
      <3>1. UNCHANGED <<lot, qty, ledger>>
        BY <1>7, <2>4 DEF ApproveProduction
      <3> QED BY <2>1, <3>1, IdleEffect, LedgerIdle
    <2> QED BY <2>3, <2>4
  <1>8. ASSUME NEW o \in Orders, NEW u, NEW b \in BatchIds, NEW c \in BatchIds,
               RejectOverproduction(o, u, b, c)
        PROVE  LedgerInv'
    BY <1>8, LedgerDivide
  <1>9. ASSUME NEW o \in Orders, NEW n, NEW u,
               CreateOrder(o, n) \/ StartOrder(o) \/ RejectProduction(o, u)
        PROVE  LedgerInv'
    <2>1. OwedStays
      BY <1>9, OrdersKeep
    <2>2. UNCHANGED <<lot, qty, ledger>>
      BY <1>9 DEF CreateOrder, StartOrder, RejectProduction, stockVars
    <2> QED BY <2>1, <2>2, IdleEffect, LedgerIdle
  <1> QED BY <1>1, <1>2, <1>4, <1>5, <1>6, <1>7, <1>8, <1>9 DEF ProductionNext

\* The commands of delivery.
LEMMA DeliveryLedger ==
  ASSUME FreezeInv, ReturnsPlaced, TypeOK', Blank, LedgerInv, OwedStays, DeliveryNext
  PROVE  LedgerInv'
  <1>0. TypeOK
    BY DEF FreezeInv
  <1>1. ASSUME NEW x \in Shipments, NEW d, Dispatch(x, d) PROVE LedgerInv'
    <2>1. Effect(Drained(d), Zero) /\ shipment[x].n \in Nat /\ UNCHANGED lot
      BY <1>0, <1>1, DispatchEffect, ShipmentType DEF Dispatch
    <2>2. PICK v, r, n, earlier :
            /\ n = shipment[x].n
            /\ TakesInOrder(d, [b \in Shippable(v, r) |-> qty[b]["available"]], earlier, n)
            /\ ledger' = Posted(v, r, -n)
      BY <1>1 DEF Dispatch
    <2>3. n \in Nat
      BY <2>1, <2>2
    <2> QED BY <1>0, <2>1, <2>2, <2>3, LedgerWalk
  <1>2. ASSUME NEW x, NEW o, NEW n, NEW u, NEW decision, NEW got, NEW damaged,
               \/ PlanShipment(x, o, n) \/ ConfirmShipment(x) \/ RequestDeviation(x, u)
               \/ DecideDeviation(x, u, decision) \/ ReceiveShipment(x, got, damaged)
               \/ ResolveException(x)
        PROVE  UNCHANGED <<lot, qty, ledger>>
    BY <1>2 DEF PlanShipment, ConfirmShipment, RequestDeviation, DecideDeviation,
                ReceiveShipment, ResolveException, stockVars
  <1>3. ASSUME NEW y \in Returns, NEW x, NEW w, NEW n \in Nat, NEW b, ReceiveReturn(y, x, w, n, b)
        PROVE  LedgerInv'
    <2>1. Effect(Only(b, n), Zero) /\ "return" \in Sources
      BY <1>0, <1>3, ReturnEffect DEF Sources
    <2> QED BY <1>0, <1>3, <2>1, LedgerInsert DEF ReceiveReturn
  <1>4. ASSUME NEW y \in Returns, NEW u, NEW passed,
               \/ InspectReturn(y, passed) \/ ProposeDisposition(y, u) \/ RejectDisposition(y, u)
        PROVE  UNCHANGED <<lot, qty, ledger>>
    BY <1>4 DEF InspectReturn, ProposeDisposition, RejectDisposition, stockVars
  <1>5. ASSUME NEW y \in Returns, NEW u, ApproveDisposition(y, u) PROVE LedgerInv'
    <2>1. Effect(Zero, Zero) /\ UNCHANGED ledger
      BY <1>5, RestockEffect DEF ApproveDisposition
    <2> QED BY <1>0, <2>1, LedgerIdle
  <1>6. ASSUME UNCHANGED <<lot, qty, ledger>> PROVE LedgerInv'
    BY <1>0, <1>6, IdleEffect, LedgerIdle
  <1>7. ASSUME NEW x \in Shipments, NEW n \in 1 .. shipment[x].got PROVE n \in Nat
    <2>1. shipment[x].got \in Nat
      BY <1>0, ShipmentType
    <2> QED BY <2>1
  <1> QED BY <1>1, <1>2, <1>3, <1>4, <1>5, <1>6, <1>7 DEF DeliveryNext

\* Every command keeps the ledger balanced.
LEMMA LedgerStep ==
  ASSUME BooksInv, LedgerInv, [Next]_vars
  PROVE  LedgerInv'
  <1>0. /\ FreezeInv /\ ReturnsPlaced /\ TypeInv /\ Blank /\ TypeOK /\ TypeOK'
        /\ (UNCHANGED order => OwedStays)
    BY TypeStep DEF BooksInv, FreezeInv, QuarantineInv, TypeInv, OwedStays
  <1>1. CASE StocktakeNext /\ UNCHANGED <<warehousingVars, productionVars, deliveryVars>>
    BY <1>0, <1>1, StocktakeLedger DEF productionVars
  <1>2. CASE WarehousingNext /\ UNCHANGED <<productionVars, deliveryVars>>
    BY <1>0, <1>2, WarehousingLedger DEF productionVars
  <1>3. CASE ProductionNext /\ UNCHANGED <<warehousingVars, deliveryVars>>
    BY <1>0, <1>3, ProductionLedger
  <1>4. CASE DeliveryNext /\ UNCHANGED <<warehousingVars, productionVars>>
    BY <1>0, <1>4, DeliveryLedger DEF productionVars
  <1>5. CASE UNCHANGED vars
    <2>1. UNCHANGED <<lot, qty, ledger, order>>
      BY <1>5 DEF vars, stockVars, productionVars
    <2> QED BY <1>0, <2>1, IdleEffect, LedgerIdle
  <1> QED BY <1>1, <1>2, <1>3, <1>4, <1>5 DEF Next

\* The ledger and what is the factory's account for what is in stock.
LEMMA LedgerInvariant == Spec => []LedgerInv
  <1>1. Init => LedgerInv
    <2> SUFFICES ASSUME Init PROVE LedgerInv
      OBVIOUS
    <2>1. TypeOK
      BY TypeInit DEF TypeInv
    <2>2. /\ \A b \in BatchIds : lot[b] = NoLot
          /\ ledger \in Ledgers /\ \A w \in Warehouses, s \in Skus : ledger[w][s] = 0
          /\ \A o \in Orders : order[o].factory = 0
      BY DEF Init, StockInit, ProductionInit, NoOrder, Ledgers
    <2>3. ASSUME NEW w \in Warehouses, NEW s \in Skus
          PROVE  SumOf(AtHand, RowsOf(w, s)) = ledger[w][s] + Owed(w, s)
      <3>1. RowsOf(w, s) = {}
        BY <2>2 DEF RowsOf, Rows
      <3>2. SumOf(AtHand, RowsOf(w, s)) = 0
        BY <3>1, SumEmpty
      <3>3. SumOf(FactoryOwned, Orders) = 0
        <4> DEFINE f == FactoryOwned
        <4>1. f \in [Orders -> Int] /\ IsFiniteSet(Orders) /\ {} \in SUBSET Orders
          BY <2>1, OwedType, OrdersAssumption
        <4>2. \A o \in Orders \ {} : f[o] = 0
          BY <2>2 DEF FactoryOwned
        <4> HIDE DEF f
        <4>3. SumOf(f, Orders) = SumOf(f, {})
          BY ONLY <4>1, <4>2, SumElsewhereZero
        <4> QED BY <4>3, SumEmpty DEF f
      <3> QED BY <2>2, <3>2, <3>3 DEF Owed
    <2> QED BY <2>2, <2>3 DEF LedgerInv, OwnedByFactory
  <1>2. BooksInv /\ LedgerInv /\ [Next]_vars => LedgerInv'
    BY LedgerStep
  <1> QED BY <1>1, <1>2, BooksInvariant, PTL DEF Spec

\* Stock is what its movements add up to, apart from the excess left to the
\* factory (LedgerBalances).
THEOREM StockMatchesLedger == Spec => []LedgerBalances
  <1>1. LedgerInv => LedgerBalances
    <2>1. \A w \in Warehouses, s \in Skus :
            /\ Held(RowsOf(w, s)) = SumOf(AtHand, RowsOf(w, s))
            /\ (IF w = FactorySite /\ s = Finished
                THEN Sum([o \in Orders |-> order[o].factory], Orders) ELSE 0) = Owed(w, s)
      BY DEF Held, AtHand, Owed, FactoryOwned, Sum, SumOf
    <2> QED BY <2>1 DEF LedgerInv, LedgerBalances
  <1> QED BY <1>1, LedgerInvariant, PTL

-----------------------------------------------------------------------------
(* Where goods are and come from *)

SkuRows(s) == {b \in Rows : lot[b].sku = s}
Triples == Stocktakes \X BatchIds \X Counted

\* Of SKU s: what each transfer has on its way and each receipt brought, and
\* what each approved correction changed.
OnWay(s) == [x \in Transfers |->
               IF transfer[x].status = "shipped" /\ transfer[x].sku = s THEN transfer[x].n ELSE 0]
Bought(s) == [i \in Items |-> IF i \in received /\ ItemOf[i].sku = s THEN ItemOf[i].n ELSE 0]
Change(y) == adj[y[1]][y[2]][y[3]].counted - count[y[1]][0][y[2]].q[y[3]]
Fixes(s) == [y \in Triples |-> IF y \in Approved(s) THEN Change(y) ELSE 0]

\* What each order stocked and used, each shipment took and each return brought.
IsMade(o) == order[o].status \in {"completed", "completed_factory_owned"}
MadeOf == [o \in Orders |-> IF IsMade(o) THEN order[o].company + order[o].factory ELSE 0]
UsedOf == [o \in Orders |-> line[o].consumed + line[o].loss]
SentIn == [x \in Shipments |-> IF Gone(x) THEN shipment[x].n ELSE 0]
BackIn == [y \in Returns |-> returned[y].n]

\* These are integers, of finitely many.
LEMMA AccountTypes ==
  ASSUME TypeOK, NEW s
  PROVE  /\ OnWay(s) \in [Transfers -> Int] /\ Bought(s) \in [Items -> Int]
         /\ Fixes(s) \in [Triples -> Int] /\ MadeOf \in [Orders -> Int]
         /\ UsedOf \in [Orders -> Int] /\ SentIn \in [Shipments -> Int]
         /\ BackIn \in [Returns -> Int]
  <1>1. \A x \in Transfers : transfer[x].n \in Int
    BY DEF TypeOK, WarehousingTypeOK, NoTransfer
  <1>2. \A i \in Items : ItemOf[i].n \in Int
    BY ItemAssumption
  <1>3. \A o \in Orders : /\ order[o].company + order[o].factory \in Int
                          /\ line[o].consumed + line[o].loss \in Int
    <2> TAKE o \in Orders
    <2>1. /\ order[o].company \in Nat /\ order[o].factory \in Nat
          /\ line[o].consumed \in Nat /\ line[o].loss \in Nat
      BY DEF TypeOK, ProductionTypeOK
    <2> QED BY <2>1
  <1>4. \A x \in Shipments : shipment[x].n \in Int
    BY ShipmentType
  <1>5. \A y \in Returns : returned[y].n \in Int
    BY DEF TypeOK, DeliveryTypeOK, NoReturn
  <1>6. ASSUME NEW y \in Triples
        PROVE  Change(y) \in Int
    <2>1. y[1] \in Stocktakes /\ <<y[2], y[3]>> \in BatchIds \X Counted
      BY DEF Triples
    <2>2. Corrections(y[1])[<<y[2], y[3]>>] \in Int
      BY <2>1, CorrectionsType
    <2> QED BY <2>1, <2>2 DEF Corrections, Change
  <1>7. OnWay(s) \in [Transfers -> Int]
    BY <1>1 DEF OnWay
  <1>8. Bought(s) \in [Items -> Int]
    BY <1>2 DEF Bought
  <1>9. MadeOf \in [Orders -> Int] /\ UsedOf \in [Orders -> Int]
    BY <1>3 DEF MadeOf, UsedOf
  <1>10. SentIn \in [Shipments -> Int] /\ BackIn \in [Returns -> Int]
    BY <1>4, <1>5 DEF SentIn, BackIn
  <1>11. Fixes(s) \in [Triples -> Int]
    BY <1>6 DEF Fixes
  <1> QED BY <1>7, <1>8, <1>9, <1>10, <1>11

\* There are finitely many ids of each kind.
LEMMA FiniteIds ==
  /\ IsFiniteSet(Transfers) /\ IsFiniteSet(Items) /\ IsFiniteSet(Orders)
  /\ IsFiniteSet(Shipments) /\ IsFiniteSet(Returns) /\ IsFiniteSet(Triples)
  <1>1. IsFiniteSet(BatchIds \X Counted) /\ IsFiniteSet(Counted)
    <2>1. [k \in Counted |-> 0] \in [Counted -> Int]
      OBVIOUS
    <2>2. IsFiniteSet(Counted)
      BY <2>1, SumCounted
    <2> QED BY <2>2, BatchIdsAssumption, FS_Product
  <1>2. IsFiniteSet(Stocktakes \X (BatchIds \X Counted))
    BY <1>1, StocktakesAssumption, FS_Product
  <1>3. IsFiniteSet(Triples)
    <2> DEFINE f == [x \in Stocktakes \X (BatchIds \X Counted) |-> <<x[1], x[2][1], x[2][2]>>]
    <2>1. f \in Surjection(Stocktakes \X (BatchIds \X Counted), Triples)
      <3>1. f \in [Stocktakes \X (BatchIds \X Counted) -> Triples]
        BY DEF Triples
      <3>2. ASSUME NEW y \in Triples
            PROVE  \E x \in Stocktakes \X (BatchIds \X Counted) : f[x] = y
        <4>1. <<y[1], <<y[2], y[3]>>>> \in Stocktakes \X (BatchIds \X Counted)
          BY DEF Triples
        <4>2. f[<<y[1], <<y[2], y[3]>>>>] = y
          BY <4>1 DEF Triples
        <4> QED BY <4>1, <4>2
      <3> HIDE DEF f
      <3> QED BY <3>1, <3>2 DEF Surjection
    <2> HIDE DEF f
    <2> QED BY <1>2, <2>1, FS_Surjection
  <1> QED BY <1>3, TransfersAssumption, ItemAssumption, OrdersAssumption, DeliveryAssumption

Transit(s) == SumOf(OnWay(s), Transfers)
Came(s)    == SumOf(Bought(s), Items)
Fixed(s)   == SumOf(Fixes(s), Triples)
MadeAll    == SumOf(MadeOf, Orders)
UsedAll    == SumOf(UsedOf, Orders)
SentAll    == SumOf(SentIn, Shipments)
BackAll    == SumOf(BackIn, Returns)

\* What there should be in stock of an SKU.
Own(s) == (IF s = Finished THEN MadeAll - SentAll + BackAll ELSE 0)
          - (IF s = Component THEN UsedAll ELSE 0)
Due(s) == Came(s) + Own(s) + Fixed(s) - Transit(s)

\* What is accounted for adds up to integers.
LEMMA AllInts ==
  ASSUME TypeOK, NEW s
  PROVE  /\ Transit(s) \in Int /\ Came(s) \in Int /\ Fixed(s) \in Int
         /\ MadeAll \in Int /\ UsedAll \in Int /\ SentAll \in Int /\ BackAll \in Int
         /\ Own(s) \in Int
  <1>1. /\ Transit(s) \in Int /\ Came(s) \in Int /\ Fixed(s) \in Int
    BY AccountTypes, FiniteIds, SumType DEF Transit, Came, Fixed
  <1>2. MadeAll \in Int /\ UsedAll \in Int /\ SentAll \in Int /\ BackAll \in Int
    BY AccountTypes, FiniteIds, SumType DEF MadeAll, UsedAll, SentAll, BackAll
  <1> QED BY <1>1, <1>2 DEF Own

\* An adjustment is of a stocktake that was opened and a batch that is there.
Adjusts ==
  \A t \in Stocktakes, b \in BatchIds, k \in Counted :
    adj[t][b][k].decision # "none" => task[t].status # "none" /\ lot[b] # NoLot

GoodsInv == Adjusts /\ \A s \in Skus : SumOf(AtHand, SkuRows(s)) = Due(s)

\* The batches of an SKU, after a command.
LEMMA SkuRowsAfter ==
  ASSUME NEW h, NEW l, Effect(h, l), NEW s
  PROVE  /\ SkuRows(s) \in SUBSET BatchIds /\ SkuRows(s)' \in SUBSET BatchIds
         /\ SkuRows(s) \subseteq SkuRows(s)'
         /\ \A b \in SkuRows(s)' \ SkuRows(s) : lot[b] = NoLot
  <1>1. \A b \in BatchIds : lot[b] # NoLot => lot'[b] = lot[b]
    BY DEF Effect
  <1> QED BY <1>1 DEF SkuRows, Rows

\* What there should be changes by what the command adds to stock.
Accounted(h) == \A s \in Skus : Due(s)' = Due(s) + SumOf(h, SkuRows(s)')

\* Then there is still what there should be.
LEMMA GoodsMove ==
  ASSUME TypeOK, TypeOK', Blank, GoodsInv, NEW h, NEW l, Effect(h, l), Accounted(h), Adjusts'
  PROVE  GoodsInv'
  <1>1. ASSUME NEW s \in Skus
        PROVE  SumOf(AtHand', SkuRows(s)') = Due(s)'
    <2> DEFINE Q == SkuRows(s)'
    <2>1. SumOf(AtHand', Q) = SumOf(AtHand, SkuRows(s)) + SumOf(h, Q)
      BY SkuRowsAfter, HeldMoves
    <2>2. SumOf(AtHand, SkuRows(s)) = Due(s)
      BY DEF GoodsInv
    <2>3. Due(s)' = Due(s) + SumOf(h, Q)
      BY DEF Accounted
    <2> QED BY <2>1, <2>2, <2>3
  <1>2. \A s \in Skus : SumOf(AtHand, SkuRows(s))' = Due(s)'
    BY <1>1 DEF SumOf
  <1> QED BY <1>2 DEF GoodsInv

\* One of them changes.
LEMMA OneChanges ==
  ASSUME NEW S, IsFiniteSet(S), NEW f \in [S -> Int], NEW g \in [S -> Int], NEW x \in S,
         \A y \in S : y # x => g[y] = f[y]
  PROVE  SumOf(g, S) = SumOf(f, S) + (g[x] - f[x]) /\ SumOf(f, S) \in Int
  <1>1. Changed(f, g, x, S)
    BY DEF Changed
  <1>2. SumOf(f, S) \in Int /\ SumOf(g, S) = SumOf(f, S) - f[x] + g[x]
    BY <1>1, SumChanged
  <1>3. f[x] \in Int /\ g[x] \in Int
    OBVIOUS
  <1> QED BY <1>2, <1>3

\* Approved corrections stay what they are, and no others are approved.
FixesStay ==
  \A t \in Stocktakes, b \in BatchIds, k \in Counted :
    /\ adj'[t][b][k].decision = "approved" <=> adj[t][b][k].decision = "approved"
    /\ adj[t][b][k].decision = "approved" => /\ adj'[t][b][k].counted = adj[t][b][k].counted
                                             /\ count'[t][0][b] = count[t][0][b]

BatchesStay == \A b \in BatchIds : lot[b] # NoLot => lot'[b] = lot[b]

\* Then what they correct stays too.
LEMMA FixedSame ==
  ASSUME Adjusts, BatchesStay, FixesStay, NEW s
  PROVE  Fixed(s)' = Fixed(s)
  <1>1. ASSUME NEW y \in Triples
        PROVE  /\ y \in Approved(s)' <=> y \in Approved(s)
               /\ y \in Approved(s) => Change(y)' = Change(y)
    <2>1. /\ y[1] \in Stocktakes /\ y[2] \in BatchIds /\ y[3] \in Counted
          /\ y \in Stocktakes \X BatchIds \X Counted
      BY DEF Triples
    <2>2. adj[y[1]][y[2]][y[3]].decision = "approved" => lot'[y[2]] = lot[y[2]]
      BY <2>1 DEF Adjusts, BatchesStay
    <2>3. y \in Approved(s)' <=> y \in Approved(s)
      BY <2>1, <2>2 DEF Approved, FixesStay
    <2>4. y \in Approved(s) => Change(y)' = Change(y)
      BY <2>1 DEF Approved, FixesStay, Change
    <2> QED BY <2>3, <2>4
  <1>2. Fixes(s)' = Fixes(s)
    BY <1>1 DEF Fixes
  <1> QED BY <1>2 DEF Fixed, SumOf

\* Nothing is adjusted.
LEMMA NothingAdjusted ==
  ASSUME Adjusts, BatchesStay, UNCHANGED stocktakeVars
  PROVE  Adjusts' /\ \A s : Fixed(s)' = Fixed(s)
  <1>1. FixesStay
    BY DEF FixesStay, stocktakeVars
  <1>2. Adjusts'
    BY DEF Adjusts, BatchesStay, stocktakeVars
  <1> QED BY <1>1, <1>2, FixedSame

\* Neither do the commands of stocktakes that approve nothing.
LEMMA CountsFixNothing ==
  ASSUME FreezeInv, Adjusts, NEW t \in Stocktakes, NEW u, NEW w, NEW scope, NEW sample, NEW b, NEW q,
         \/ OpenStocktake(t, u, w, scope, sample) \/ SubmitCount(t, u, b, q)
         \/ RequireRecount(t, u) \/ CompleteStocktake(t, u)
         \/ RequestVarianceApproval(t, u) \/ RejectVariance(t, u)
  PROVE  /\ UNCHANGED <<lot, qty>> /\ Adjusts' /\ \A s : Fixed(s)' = Fixed(s)
  <1>0. /\ TypeOK
        /\ task \in [Stocktakes -> [status: Statuses, wh: Warehouses \cup {"none"},
                                    scope: Scopes \cup {"none"}, by: Users \cup {NoUser}]]
    BY DEF FreezeInv, TypeOK, StocktakeTypeOK
  <1>1. UNCHANGED <<lot, qty>>
    BY DEF OpenStocktake, SubmitCount, RequireRecount, CompleteStocktake,
           RequestVarianceApproval, RejectVariance, stockVars
  <1>2. BatchesStay
    BY <1>1 DEF BatchesStay
  <1>3. CASE OpenStocktake(t, u, w, scope, sample)
    <2>1. /\ \A x \in Stocktakes : x # t => count'[x][0] = count[x][0]
          /\ UNCHANGED adj /\ task[t].status = "none"
          /\ \A x \in Stocktakes : task[x].status # "none" => task'[x].status # "none"
      BY <1>0, <1>3 DEF OpenStocktake, TypeOK, StocktakeTypeOK
    <2>2. FixesStay
      BY <2>1 DEF FixesStay, Adjusts
    <2>3. Adjusts'
      BY <1>1, <2>1 DEF Adjusts
    <2> QED BY <1>1, <1>2, <2>2, <2>3, FixedSame
  <1>4. CASE SubmitCount(t, u, b, q)
    <2>1. \A x \in Stocktakes : count'[x][0] = count[x][0]
      <3>1. Round(t) \in {1, 2}
        BY DEF Round
      <3> QED BY <1>0, <1>4, <3>1 DEF SubmitCount, TypeOK, StocktakeTypeOK, Rounds
    <2>2. UNCHANGED <<adj, task>>
      BY <1>4 DEF SubmitCount
    <2>3. FixesStay
      BY <2>1, <2>2 DEF FixesStay
    <2>4. Adjusts'
      BY <1>1, <2>2 DEF Adjusts
    <2> QED BY <1>1, <1>2, <2>3, <2>4, FixedSame
  <1>5. CASE RequireRecount(t, u) \/ CompleteStocktake(t, u)
    <2>1. /\ UNCHANGED <<adj, count>>
          /\ \A x \in Stocktakes : task[x].status # "none" => task'[x].status # "none"
      BY <1>0, <1>5 DEF RequireRecount, CompleteStocktake
    <2>2. FixesStay
      BY <2>1 DEF FixesStay
    <2>3. Adjusts'
      BY <1>1, <2>1 DEF Adjusts
    <2> QED BY <1>1, <1>2, <2>2, <2>3, FixedSame
  <1>6. CASE RequestVarianceApproval(t, u)
    <2>1. /\ UNCHANGED count /\ task'[t].status # "none" /\ IsOpen(t)
          /\ \A x \in Stocktakes : x # t => task'[x] = task[x]
      BY <1>0, <1>6 DEF RequestVarianceApproval, CanFinish, IsOpen, Open
    <2>2. ASSUME NEW x \in Stocktakes, NEW c \in BatchIds, NEW k \in Counted
          PROVE  \/ adj'[x][c][k] = adj[x][c][k]
                 \/ /\ x = t /\ c \in Targets(t)
                    /\ adj[x][c][k].decision \in {"none", "rejected"}
                    /\ adj'[x][c][k].decision = "pending"
      BY <1>0, <1>6, <2>2 DEF RequestVarianceApproval, TypeOK, StocktakeTypeOK
    <2>3. FixesStay
      BY <2>1, <2>2 DEF FixesStay
    <2>4. \A c \in Targets(t) : lot[c] # NoLot
      BY <2>1 DEF FreezeInv, Placed
    <2>5. Adjusts'
      BY <1>1, <2>1, <2>2, <2>4 DEF Adjusts
    <2> QED BY <1>1, <1>2, <2>3, <2>5, FixedSame
  <1>7. CASE RejectVariance(t, u)
    <2>1. /\ UNCHANGED count /\ task'[t].status # "none"
          /\ \A x \in Stocktakes : x # t => task'[x] = task[x]
      BY <1>0, <1>7 DEF RejectVariance
    <2>2. ASSUME NEW x \in Stocktakes, NEW c \in BatchIds, NEW k \in Counted
          PROVE  \/ adj'[x][c][k] = adj[x][c][k]
                 \/ /\ adj[x][c][k].decision = "pending"
                    /\ adj'[x][c][k].decision = "rejected"
      BY <1>0, <1>7, <2>2 DEF RejectVariance, Decided, TypeOK, StocktakeTypeOK
    <2>3. FixesStay
      BY <2>1, <2>2 DEF FixesStay
    <2>4. Adjusts'
      BY <1>1, <2>1, <2>2 DEF Adjusts
    <2> QED BY <1>1, <1>2, <2>3, <2>4, FixedSame
  <1> QED BY <1>3, <1>4, <1>5, <1>6, <1>7

\* A stocktake's corrections, among all there are.
Fixing(t, s) == [y \in Triples |->
                   IF y[1] = t /\ <<y[2], y[3]>> \in CorrectedIn(t, SkuRows(s)) THEN Change(y) ELSE 0]

\* They add up to what the stocktake corrects of the SKU.
LEMMA FixingSum ==
  ASSUME TypeOK, NEW t \in Stocktakes, NEW s
  PROVE  /\ Fixing(t, s) \in [Triples -> Int]
         /\ SumOf(Fixing(t, s), Triples) = SumOf(Corrected(t), SkuRows(s))
         /\ SumOf(Corrected(t), SkuRows(s)) \in Int
  <1> DEFINE P == CorrectedIn(t, SkuRows(s))
             f == [x \in P |-> Corrections(t)[x]]
             g == Fixing(t, s)
             p == [x \in P |-> <<t, x[1], x[2]>>]
  <1>1. /\ P \subseteq BatchIds \X Counted /\ IsFiniteSet(P)
        /\ Corrections(t) \in [BatchIds \X Counted -> Int]
    BY CorrectionsType, FS_Subset DEF CorrectedIn
  <1>2. \A y \in Triples : y[1] = t /\ <<y[2], y[3]>> \in P =>
                             /\ Change(y) = Corrections(t)[<<y[2], y[3]>>]
                             /\ Corrections(t)[<<y[2], y[3]>>] \in Int
    BY <1>1 DEF Change, Corrections
  <1>3. g \in [Triples -> Int]
    BY <1>2 DEF Fixing
  <1>4. f \in [P -> Int] /\ p \in [P -> Triples]
    BY <1>1 DEF Triples
  <1>5. \A y \in Triples : g[y] = SumOf(f, {x \in P : p[x] = y})
    <2> TAKE y \in Triples
    <2>1. y = <<y[1], y[2], y[3]>>
      BY DEF Triples
    <2>2. CASE y[1] = t /\ <<y[2], y[3]>> \in P
      <3>1. {x \in P : p[x] = y} = {<<y[2], y[3]>>}
        BY <1>1, <2>1, <2>2
      <3>2. f[<<y[2], y[3]>>] \in Int /\ g[y] = f[<<y[2], y[3]>>]
        BY <1>2, <2>2 DEF Fixing
      <3> HIDE DEF f, g, p
      <3> QED BY <3>1, <3>2, SumOne
    <2>3. CASE ~(y[1] = t /\ <<y[2], y[3]>> \in P)
      <3>1. {x \in P : p[x] = y} = {}
        BY <1>1, <2>1, <2>3
      <3>2. g[y] = 0
        BY <2>3 DEF Fixing
      <3> HIDE DEF f, g, p
      <3> QED BY <3>1, <3>2, SumEmpty
    <2> QED BY <2>2, <2>3
  <1>6. Parts(f, p, g)
    <2>1. DOMAIN f = P /\ DOMAIN g = Triples
      BY DEF Fixing
    <2> HIDE DEF f, g, p, P
    <2> QED BY <1>4, <1>5, <2>1 DEF Parts
  <1>7. Same(f, Corrections(t), P)
    BY <1>1 DEF Same
  <1>8. SkuRows(s) \in SUBSET BatchIds
    BY DEF SkuRows, Rows
  <1>9. SumOf(Corrected(t), SkuRows(s)) = SumOf(Corrections(t), P)
        /\ SumOf(Corrected(t), SkuRows(s)) \in Int
    BY <1>8, CorrectedSum
  <1> HIDE DEF f, g, p, P
  <1>10. SumOf(f, P) = SumOf(g, Triples)
    BY ONLY <1>1, <1>3, <1>4, <1>6, FiniteIds, SumParts
  <1>11. SumOf(Corrections(t), P) = SumOf(f, P)
    BY <1>7, SumSame
  <1> QED BY <1>3, <1>9, <1>10, <1>11 DEF g

\* A stocktake is approved: its corrections are fixes from then on.
LEMMA ApproveFixes ==
  ASSUME TypeOK, TypeOK', Adjusts, NEW t \in Stocktakes, NEW u, ApproveVariance(t, u), NEW s
  PROVE  /\ Fixed(s)' = Fixed(s) + SumOf(Corrected(t), SkuRows(s))
         /\ Adjusts'
  <1>1. UNCHANGED <<lot, count>> /\ adj' = Decided(t, "approved")
    BY DEF ApproveVariance
  <1>2. ASSUME NEW x \in Stocktakes, NEW c \in BatchIds, NEW k \in Counted
        PROVE  /\ adj'[x][c][k].counted = adj[x][c][k].counted
               /\ adj'[x][c][k].decision = IF x = t /\ adj[x][c][k].decision = "pending"
                                           THEN "approved" ELSE adj[x][c][k].decision
    <2>0. adj[x][c][k] \in [decision: {"none", "pending", "approved", "rejected"}, counted: Nat]
      BY DEF TypeOK, StocktakeTypeOK
    <2>1. adj'[x][c][k] = IF x = t /\ adj[x][c][k].decision = "pending"
                          THEN [adj[x][c][k] EXCEPT !.decision = "approved"] ELSE adj[x][c][k]
      BY <1>1 DEF Decided, TypeOK, StocktakeTypeOK
    <2> QED BY <2>0, <2>1
  <1>3. ASSUME NEW y \in Triples
        PROVE  Fixes(s)'[y] = Fixes(s)[y] + Fixing(t, s)[y]
    <2>1. /\ y[1] \in Stocktakes /\ y[2] \in BatchIds /\ y[3] \in Counted
          /\ y \in Stocktakes \X BatchIds \X Counted
      BY DEF Triples
    <2>2. Change(y)' = Change(y)
      BY <1>1, <1>2, <2>1 DEF Change
    <2>3. Fixes(s)[y] \in Int /\ Fixing(t, s)[y] \in Int
      BY AccountTypes, FixingSum
    <2>4. CASE y[1] = t /\ adj[y[1]][y[2]][y[3]].decision = "pending"
      <3>1. lot[y[2]] # NoLot
        BY <2>1, <2>4 DEF Adjusts
      <3>2. y \notin Approved(s) /\ (y \in Approved(s)' <=> lot[y[2]].sku = s)
        BY <1>1, <1>2, <2>1, <2>4 DEF Approved
      <3>3. <<y[2], y[3]>> \in CorrectedIn(t, SkuRows(s)) <=> lot[y[2]].sku = s
        BY <2>1, <2>4, <3>1 DEF CorrectedIn, Pending, SkuRows, Rows
      <3>4. Fixes(s)[y] = 0
        BY <3>2 DEF Fixes
      <3>5. Fixes(s)'[y] = Fixing(t, s)[y]
        BY <2>2, <2>4, <3>2, <3>3 DEF Fixes, Fixing
      <3> QED BY <2>3, <3>4, <3>5
    <2>5. CASE ~(y[1] = t /\ adj[y[1]][y[2]][y[3]].decision = "pending")
      <3>1. y \in Approved(s)' <=> y \in Approved(s)
        BY <1>1, <1>2, <2>1, <2>5 DEF Approved
      <3>2. Fixing(t, s)[y] = 0
        BY <2>5 DEF Fixing, CorrectedIn, Pending
      <3>3. Fixes(s)'[y] = Fixes(s)[y]
        BY <2>2, <3>1 DEF Fixes
      <3> QED BY <2>3, <3>2, <3>3
    <2> QED BY <2>4, <2>5
  <1>4. /\ Fixes(s) \in [Triples -> Int] /\ Fixes(s)' \in [Triples -> Int]
        /\ Fixing(t, s) \in [Triples -> Int] /\ IsFiniteSet(Triples)
    <2>1. Fixes(s)' \in [Triples -> Int]
      <3>1. \A y \in Triples : Fixes(s)'[y] \in Int
        BY <1>3, AccountTypes, FixingSum
      <3> QED BY <3>1 DEF Fixes
    <2> QED BY <2>1, AccountTypes, FixingSum, FiniteIds
  <1>5. SumOf(Fixes(s)', Triples) = SumOf(Fixes(s), Triples) + SumOf(Fixing(t, s), Triples)
    BY ONLY <1>3, <1>4, SumPlus
  <1>6. Fixed(s)' = SumOf(Fixes(s)', Triples)
    BY DEF Fixed, SumOf
  <1>7. Adjusts'
    <2>1. task'[t].status # "none" /\ \A x \in Stocktakes : x # t => task'[x] = task[x]
      BY DEF ApproveVariance, TypeOK, StocktakeTypeOK
    <2> QED BY <1>1, <1>2, <2>1 DEF Adjusts
  <1> QED BY <1>5, <1>6, <1>7, FixingSum DEF Fixed

\* Batches materials are used from are of the component.
LEMMA UsedOfComponent ==
  ASSUME TypeOK, ReservedRows, NEW o \in Orders, NEW m \in Reports \cup {NoReport}, NEW d,
         Uses(o, m, d), NEW s
  PROVE  SumOf(Taken(d), SkuRows(s)) = IF s = Component THEN Total(d) ELSE 0
  <1> DEFINE Q == SkuRows(s)
             g == [b \in Q |-> Taken(d)[b]]
             p == [r \in DOMAIN d |-> reservation[r].batch]
  <1>1. /\ IsFiniteSet(DOMAIN d) /\ d \in [DOMAIN d -> Int]
        /\ DOMAIN d = MaterialPool(o)
        /\ \A b \in BatchIds : TakenFrom(d, b) \in Nat
    BY TakenType, UsesWithin
  <1>2. \A r \in DOMAIN d : /\ reservation[r].batch \in Rows
                            /\ lot[reservation[r].batch].sku = Component
    <2> TAKE r \in DOMAIN d
    <2>1. /\ r \in Reservations /\ reservation[r].status = "active"
          /\ lot[reservation[r].batch].sku = Component
      BY <1>1 DEF MaterialPool, Pool
    <2>2. reservation[r].batch \in BatchIds
      BY <2>1, ReservationType DEF ReservationRow
    <2> QED BY <2>1, <2>2 DEF ReservedRows, Rows
  <1>3. Q \in SUBSET BatchIds /\ IsFiniteSet(Q) /\ IsFiniteSet(BatchIds)
    <2>1. Q \in SUBSET BatchIds
      BY DEF SkuRows, Rows
    <2> QED BY <2>1, BatchIdsAssumption, FS_Subset
  <1>4. Taken(d) \in [BatchIds -> Int]
    BY <1>1 DEF Taken
  <1>5. g \in [Q -> Int]
    BY <1>3, <1>4
  <1>6. CASE s = Component
    <2>1. p \in [DOMAIN d -> Q]
      BY <1>2, <1>6 DEF SkuRows
    <2>2. \A b \in Q : g[b] = SumOf(d, {r \in DOMAIN d : p[r] = b})
      BY <1>3 DEF Taken, TakenFrom, Sum, SumOf
    <2>3. Parts(d, p, g)
      <3>1. DOMAIN g = Q
        OBVIOUS
      <3> HIDE DEF g, p, Q
      <3> QED BY <2>1, <2>2, <3>1 DEF Parts
    <2>4. Same(g, Taken(d), Q)
      BY <1>3 DEF Same
    <2> HIDE DEF g, p, Q
    <2>5. SumOf(d, DOMAIN d) = SumOf(g, Q)
      BY ONLY <1>1, <1>3, <1>5, <2>3, SumParts
    <2>6. SumOf(Taken(d), Q) = SumOf(g, Q)
      BY <2>4, SumSame
    <2> QED BY <1>6, <2>5, <2>6 DEF Total, Sum, SumOf, Q
  <1>7. CASE s # Component
    <2>1. ASSUME NEW b \in Q PROVE Taken(d)[b] = 0
      <3>1. {r \in DOMAIN d : reservation[r].batch = b} = {} /\ b \in BatchIds
        BY <1>2, <1>3, <1>7 DEF SkuRows
      <3>2. TakenFrom(d, b) = SumOf(d, {})
        BY <3>1 DEF TakenFrom, Sum, SumOf
      <3> QED BY <3>1, <3>2, SumEmpty DEF Taken
    <2>2. {} \in SUBSET Q /\ \A b \in Q \ {} : Taken(d)[b] = 0
      BY <2>1
    <2> HIDE DEF Q
    <2>3. SumOf(Taken(d), Q) = SumOf(Taken(d), {})
      BY ONLY <1>3, <1>4, <2>2, SumZeroOutside
    <2> QED BY <1>7, <2>3, SumEmpty DEF Q
  <1> QED BY <1>6, <1>7

\* What is taken is what is newly reported.
LEMMA UsedIsReported ==
  ASSUME TypeOK, TypeOK', NEW o \in Orders, NEW m \in Reports \cup {NoReport}, NEW d,
         Uses(o, m, d), line' = LineAfter(o, m)
  PROVE  UsedAll' = UsedAll + Total(d) /\ Total(d) \in Int
  <1>1. IsFiniteSet(DOMAIN d) /\ d \in [DOMAIN d -> Int]
    BY TakenType
  <1>2. DOMAIN d \in SUBSET DOMAIN d /\ Total(d) = SumOf(d, DOMAIN d)
    BY DEF Total, Sum, SumOf
  <1>3. Total(d) \in Int
    BY ONLY <1>1, <1>2, SumType
  <1>4. UsedAll \in Int
    BY AllInts
  <1>5. CASE m = NoReport
    <2>1. DOMAIN d = MaterialPool(o) /\ \A r \in DOMAIN d : d[r] = 0
      BY <1>5, UsesWithin DEF Uses
    <2>2. {} \in SUBSET DOMAIN d /\ \A r \in DOMAIN d \ {} : d[r] = 0
      BY <2>1
    <2>3. SumOf(d, DOMAIN d) = SumOf(d, {})
      BY ONLY <1>1, <1>2, <2>2, SumZeroOutside
    <2>4. Total(d) = 0
      BY <1>2, <2>3, SumEmpty
    <2>5. UNCHANGED line
      BY <1>5 DEF LineAfter
    <2>6. UsedAll' = UsedAll
      BY <2>5 DEF UsedAll, UsedOf, SumOf
    <2> QED BY <1>3, <1>4, <2>4, <2>6
  <1>6. CASE m # NoReport
    <2>1. Total(d) = NewlyUsed(o, m)
      BY <1>6 DEF Uses, TakesInOrder
    <2>2. line' = [line EXCEPT ![o] = m]
      BY <1>6 DEF LineAfter
    <2>3. /\ UsedOf'[o] = m.consumed + m.loss
          /\ UsedOf[o] = line[o].consumed + line[o].loss
          /\ \A x \in Orders : x # o => UsedOf'[x] = UsedOf[x]
      BY <2>2 DEF UsedOf, TypeOK, ProductionTypeOK
    <2>4. /\ m.consumed \in Int /\ m.loss \in Int
          /\ line[o].consumed \in Int /\ line[o].loss \in Int
      BY <1>6, ProductionAssumption DEF Reports, TypeOK, ProductionTypeOK
    <2>5. UsedOf'[o] - UsedOf[o] = Total(d)
      BY <2>1, <2>3, <2>4 DEF NewlyUsed
    <2>6. UsedOf \in [Orders -> Int] /\ UsedOf' \in [Orders -> Int]
      <3>1. \A x \in Orders : line'[x].consumed \in Nat /\ line'[x].loss \in Nat
        BY DEF TypeOK, ProductionTypeOK
      <3>2. UsedOf' \in [Orders -> Int]
        BY <3>1 DEF UsedOf
      <3> QED BY <3>2, AccountTypes
    <2>7. SumOf(UsedOf', Orders) = SumOf(UsedOf, Orders) + (UsedOf'[o] - UsedOf[o])
      BY <2>3, <2>6, OrdersAssumption, OneChanges
    <2>8. UsedAll' = SumOf(UsedOf', Orders)
      BY DEF UsedAll, SumOf
    <2> QED BY <1>3, <2>5, <2>7, <2>8 DEF UsedAll
  <1> QED BY <1>5, <1>6

\* What a table adds up to stays where the table does.
LEMMA Unmoved ==
  ASSUME NEW s
  PROVE  /\ UNCHANGED transfer => Transit(s)' = Transit(s)
         /\ UNCHANGED received => Came(s)' = Came(s)
         /\ UNCHANGED order => MadeAll' = MadeAll
         /\ UNCHANGED line => UsedAll' = UsedAll
         /\ UNCHANGED shipment => SentAll' = SentAll
         /\ UNCHANGED returned => BackAll' = BackAll
         /\ UNCHANGED productionVars /\ UNCHANGED deliveryVars => Own(s)' = Own(s)
  <1>1. UNCHANGED transfer => Transit(s)' = Transit(s)
    BY DEF Transit, OnWay, SumOf
  <1>2. UNCHANGED received => Came(s)' = Came(s)
    BY DEF Came, Bought, SumOf
  <1>3. UNCHANGED order => MadeAll' = MadeAll
    BY DEF MadeAll, MadeOf, IsMade, SumOf
  <1>4. UNCHANGED line => UsedAll' = UsedAll
    BY DEF UsedAll, UsedOf, SumOf
  <1>5. UNCHANGED shipment => SentAll' = SentAll
    BY DEF SentAll, SentIn, Gone, SumOf
  <1>6. UNCHANGED returned => BackAll' = BackAll
    BY DEF BackAll, BackIn, SumOf
  <1> QED BY <1>1, <1>2, <1>3, <1>4, <1>5, <1>6 DEF Own, productionVars, deliveryVars

\* Batch b of SKU r is inserted.
Inserts(b, r) == /\ IsNextBatch(b)
                 /\ \E v, c : \E x \in Sources : lot' = [lot EXCEPT ![b] = NewLot(v, r, c, x)]

\* Then that SKU has it, and no other.
LEMMA InsertedSum ==
  ASSUME TypeOK, NEW b, NEW r, Inserts(b, r), NEW n \in Nat, NEW s,
         Effect(Only(b, n), Zero)
  PROVE  SumOf(Only(b, n), SkuRows(s)') = IF s = r THEN n ELSE 0
  <1>1. b \in BatchIds
    BY NextIsFree DEF Inserts
  <1>2. lot'[b] # NoLot /\ lot'[b].sku = r
    <2>1. PICK v, c, x : x \in Sources /\ lot' = [lot EXCEPT ![b] = NewLot(v, r, c, x)]
      BY DEF Inserts
    <2>2. lot'[b] = NewLot(v, r, c, x)
      BY <1>1, <2>1 DEF TypeOK, StockTypeOK
    <2> QED BY <2>1, <2>2, NewLotIsRow DEF Sources
  <1>3. b \in SkuRows(s)' <=> s = r
    BY <1>1, <1>2 DEF SkuRows, Rows
  <1>4. n \in Int /\ SkuRows(s)' \in SUBSET BatchIds
    BY SkuRowsAfter
  <1>5. SumOf(Only(b, n), SkuRows(s)') = IF b \in SkuRows(s)' THEN n ELSE 0
    BY <1>1, <1>4, OnlySum
  <1> QED BY <1>3, <1>5

\* Batches of SKU r were walked through.
LEMMA WalkedSum ==
  ASSUME TypeOK, UNCHANGED lot, NEW v, NEW r, NEW d, NEW earlier, NEW n \in Nat,
         TakesInOrder(d, [b \in Shippable(v, r) |-> qty[b]["available"]], earlier, n), NEW s
  PROVE  SumOf(Drained(d), SkuRows(s)') = IF s = r THEN -n ELSE 0
  <1> DEFINE A == Shippable(v, r)
  <1>1. d \in [A -> Int] /\ A \subseteq RowsOf(v, r) /\ A \subseteq BatchIds /\ SumOf(d, A) = n
    BY WalkTakes
  <1>2. SkuRows(s)' = SkuRows(s)
    BY DEF SkuRows, Rows
  <1> HIDE DEF A
  <1>3. SkuRows(s) \in SUBSET BatchIds /\ A \in SUBSET BatchIds
    BY <1>1 DEF SkuRows, Rows
  <1>4. CASE s = r
    <2>1. A \subseteq SkuRows(s)
      BY <1>1, <1>4 DEF RowsOf, SkuRows
    <2>2. SumOf(Drained(d), SkuRows(s)) = -n
      BY <1>1, <1>3, <2>1, WalkSum
    <2> QED BY <1>2, <1>4, <2>2
  <1>5. CASE s # r
    <2>1. A \cap SkuRows(s) = {}
      BY <1>1, <1>5 DEF RowsOf, SkuRows
    <2>2. SumOf(Drained(d), SkuRows(s)) = 0
      BY <1>1, <1>3, <2>1, WalkSum
    <2> QED BY <1>2, <1>5, <2>2
  <1> QED BY <1>4, <1>5

\* Commands that change neither what is adjusted, nor orders, shipments and
\* returns, nor what is on its way but by e, nor what came but by a.
LEMMA SiteGoods ==
  ASSUME TypeOK, TypeOK', Blank, GoodsInv, NEW h, NEW l, Effect(h, l),
         UNCHANGED <<stocktakeVars, productionVars, deliveryVars>>,
         \A s \in Skus : \E a, e \in Int : /\ Came(s)' = Came(s) + a
                                           /\ Transit(s)' = Transit(s) + e
                                           /\ SumOf(h, SkuRows(s)') = a - e
  PROVE  GoodsInv'
  <1>1. BatchesStay /\ Adjusts
    BY DEF Effect, BatchesStay, GoodsInv
  <1>2. Adjusts' /\ \A s : Fixed(s)' = Fixed(s)
    BY <1>1, NothingAdjusted
  <1>3. ASSUME NEW s \in Skus
        PROVE  Due(s)' = Due(s) + SumOf(h, SkuRows(s)')
    <2>1. PICK a \in Int, e \in Int : /\ Came(s)' = Came(s) + a
                                      /\ Transit(s)' = Transit(s) + e
                                      /\ SumOf(h, SkuRows(s)') = a - e
      OBVIOUS
    <2>2. Own(s)' = Own(s) /\ Fixed(s)' = Fixed(s)
      BY <1>2, Unmoved
    <2>3. Came(s) \in Int /\ Transit(s) \in Int /\ Own(s) \in Int /\ Fixed(s) \in Int
      BY AllInts
    <2> QED BY <2>1, <2>2, <2>3 DEF Due
  <1>4. Accounted(h)
    BY <1>3 DEF Accounted
  <1> QED BY <1>2, <1>4, GoodsMove

\* A purchase order item is received.
LEMMA GoodsReceipt ==
  ASSUME TypeOK, TypeOK', Blank, GoodsInv, UNCHANGED <<productionVars, deliveryVars>>,
         NEW i \in Items, NEW b \in BatchIds, ReceivePurchase(i, b)
  PROVE  GoodsInv'
  <1> DEFINE n == ItemOf[i].n
             r == ItemOf[i].sku
  <1>1. n \in Nat /\ Effect(Only(b, n), Zero)
    BY ReceiptEffect, ItemAssumption
  <1>2. /\ i \notin received /\ received' = received \cup {i}
        /\ IsNextBatch(b) /\ UNCHANGED <<stocktakeVars, transfer>>
        /\ \E v : lot' = [lot EXCEPT ![b] = NewLot(v, r, "company", "receipt")]
    BY DEF ReceivePurchase
  <1>3. ASSUME NEW s \in Skus
        PROVE  Came(s)' = Came(s) + (IF s = r THEN n ELSE 0)
    <2>1. Bought(s) \in [Items -> Int] /\ Bought(s)' \in [Items -> Int] /\ IsFiniteSet(Items)
      <3>1. Bought(s)' \in [Items -> Int]
        BY ItemAssumption DEF Bought
      <3> QED BY <3>1, AccountTypes, FiniteIds
    <2>2. /\ Bought(s)[i] = 0 /\ Bought(s)'[i] = IF s = r THEN n ELSE 0
          /\ \A j \in Items : j # i => Bought(s)'[j] = Bought(s)[j]
      BY <1>2 DEF Bought
    <2>3. SumOf(Bought(s)', Items) = SumOf(Bought(s), Items) + (Bought(s)'[i] - Bought(s)[i])
      BY ONLY <2>1, <2>2, i \in Items, OneChanges
    <2>4. Came(s)' = SumOf(Bought(s)', Items)
      BY DEF Came, SumOf
    <2>5. (IF s = r THEN n ELSE 0) - 0 = IF s = r THEN n ELSE 0
      BY <1>1
    <2> QED BY <2>2, <2>3, <2>4, <2>5 DEF Came
  <1> HIDE DEF n, r
  <1>4. ASSUME NEW s \in Skus
        PROVE  SumOf(Only(b, n), SkuRows(s)') = IF s = r THEN n ELSE 0
    <2>1. Inserts(b, r)
      BY <1>2 DEF Sources, Inserts
    <2> QED BY <1>1, <2>1, InsertedSum
  <1>5. \A s \in Skus : \E a, e \in Int : /\ Came(s)' = Came(s) + a
                                          /\ Transit(s)' = Transit(s) + e
                                          /\ SumOf(Only(b, n), SkuRows(s)') = a - e
    <2> TAKE s \in Skus
    <2> DEFINE a == IF s = r THEN n ELSE 0
    <2>1. a \in Int /\ a - 0 = a /\ 0 \in Int
      BY <1>1
    <2>2. Transit(s)' = Transit(s) + 0
      BY <1>2, AllInts, Unmoved
    <2> QED BY <1>3, <1>4, <2>1, <2>2
  <1> QED BY <1>1, <1>2, <1>5, SiteGoods

\* One transfer's status changes.
LEMMA TransitMoves ==
  ASSUME TypeOK, TypeOK', NEW x \in Transfers, NEW s,
         \A z \in Transfers : z # x => transfer'[z] = transfer[z],
         NEW e \in Int, OnWay(s)'[x] = OnWay(s)[x] + e
  PROVE  Transit(s)' = Transit(s) + e
  <1>1. OnWay(s) \in [Transfers -> Int] /\ OnWay(s)' \in [Transfers -> Int] /\ IsFiniteSet(Transfers)
    <2>1. \A z \in Transfers : transfer'[z].n \in Int
      BY DEF TypeOK, WarehousingTypeOK, NoTransfer
    <2>2. OnWay(s)' \in [Transfers -> Int]
      BY <2>1 DEF OnWay
    <2> QED BY <2>2, AccountTypes, FiniteIds
  <1>2. \A z \in Transfers : z # x => OnWay(s)'[z] = OnWay(s)[z]
    BY DEF OnWay
  <1>3. /\ SumOf(OnWay(s)', Transfers) = SumOf(OnWay(s), Transfers) + (OnWay(s)'[x] - OnWay(s)[x])
        /\ SumOf(OnWay(s), Transfers) \in Int
    BY ONLY <1>1, <1>2, x \in Transfers, OneChanges
  <1>4. OnWay(s)'[x] - OnWay(s)[x] = e
    BY <1>1
  <1>5. Transit(s)' = SumOf(OnWay(s)', Transfers)
    BY DEF Transit, SumOf
  <1> QED BY <1>3, <1>4, <1>5 DEF Transit

\* A transfer is shipped.
LEMMA GoodsShip ==
  ASSUME TypeOK, TypeOK', Blank, GoodsInv, UNCHANGED <<productionVars, deliveryVars>>,
         NEW x \in Transfers, NEW d, ShipTransfer(x, d)
  PROVE  GoodsInv'
  <1>1. PICK n, v, r : n = transfer[x].n /\ v = transfer[x].from /\ r = transfer[x].sku
    OBVIOUS
  <1>2. /\ transfer[x].status = "approved" /\ UNCHANGED <<stocktakeVars, received, lot>>
        /\ \E earlier : TakesInOrder(d, [b \in Shippable(v, r) |-> qty[b]["available"]], earlier, n)
    BY <1>1 DEF ShipTransfer
  <1>3. n \in Nat /\ Effect(Drained(d), Zero)
    BY <1>1, <1>2, ShipEffect, TransferType
  <1>4. /\ transfer'[x].status = "shipped" /\ transfer'[x].sku = r /\ transfer'[x].n = n
        /\ \A z \in Transfers : z # x => transfer'[z] = transfer[z]
    <2>1. transfer[x] \in [status: TransferStatuses, from: Warehouses, to: Warehouses,
                           sku: Skus, n: Nat \ {0}, by: Users]
      BY <1>2, TransferType
    <2> QED BY <1>1, <2>1 DEF ShipTransfer, TypeOK, WarehousingTypeOK
  <1>5. ASSUME NEW s \in Skus
        PROVE  /\ Transit(s)' = Transit(s) + (IF s = r THEN n ELSE 0)
               /\ SumOf(Drained(d), SkuRows(s)') = IF s = r THEN -n ELSE 0
    <2>1. OnWay(s)[x] = 0 /\ OnWay(s)'[x] = IF s = r THEN n ELSE 0
      BY <1>2, <1>4 DEF OnWay
    <2>2. /\ OnWay(s)'[x] = OnWay(s)[x] + (IF s = r THEN n ELSE 0)
          /\ (IF s = r THEN n ELSE 0) \in Int
      BY <1>3, <2>1
    <2> QED BY <1>2, <1>3, <1>4, <2>2, TransitMoves, WalkedSum
  <1>6. \A s \in Skus : \E a, e \in Int : /\ Came(s)' = Came(s) + a
                                          /\ Transit(s)' = Transit(s) + e
                                          /\ SumOf(Drained(d), SkuRows(s)') = a - e
    <2> TAKE s \in Skus
    <2> DEFINE e == IF s = r THEN n ELSE 0
    <2>1. e \in Int /\ 0 - e = (IF s = r THEN -n ELSE 0) /\ 0 \in Int
      BY <1>3
    <2>2. Came(s)' = Came(s) + 0
      BY <1>2, AllInts, Unmoved
    <2> QED BY <1>5, <2>1, <2>2
  <1> QED BY <1>2, <1>3, <1>6, SiteGoods

\* A transfer is received.
LEMMA GoodsArrive ==
  ASSUME TypeOK, TypeOK', Blank, GoodsInv, UNCHANGED <<productionVars, deliveryVars>>,
         NEW x \in Transfers, NEW b \in BatchIds, ReceiveTransfer(x, b)
  PROVE  GoodsInv'
  <1>1. PICK n, v, r : n = transfer[x].n /\ v = transfer[x].to /\ r = transfer[x].sku
    OBVIOUS
  <1>2. /\ transfer[x].status = "shipped" /\ UNCHANGED <<stocktakeVars, received>>
        /\ IsNextBatch(b) /\ lot' = [lot EXCEPT ![b] = NewLot(v, r, "company", "transfer")]
    BY <1>1 DEF ReceiveTransfer, CanReceive
  <1>3. n \in Nat /\ Effect(Only(b, n), Zero)
    BY <1>1, <1>2, ArrivalEffect, TransferType
  <1>4. /\ transfer'[x].status = "received"
        /\ \A z \in Transfers : z # x => transfer'[z] = transfer[z]
    <2>1. transfer[x] \in [status: TransferStatuses, from: Warehouses, to: Warehouses,
                           sku: Skus, n: Nat \ {0}, by: Users]
      BY <1>2, TransferType
    <2> QED BY <2>1 DEF ReceiveTransfer, TypeOK, WarehousingTypeOK
  <1>5. ASSUME NEW s \in Skus
        PROVE  /\ Transit(s)' = Transit(s) + (IF s = r THEN -n ELSE 0)
               /\ SumOf(Only(b, n), SkuRows(s)') = IF s = r THEN n ELSE 0
    <2>1. OnWay(s)'[x] = 0 /\ OnWay(s)[x] = IF s = r THEN n ELSE 0
      BY <1>1, <1>2, <1>4 DEF OnWay
    <2>2. /\ OnWay(s)'[x] = OnWay(s)[x] + (IF s = r THEN -n ELSE 0)
          /\ (IF s = r THEN -n ELSE 0) \in Int
      BY <1>3, <2>1
    <2>3. Inserts(b, r)
      BY <1>2 DEF Sources, Inserts
    <2>4. SumOf(Only(b, n), SkuRows(s)') = IF s = r THEN n ELSE 0
      BY <1>3, <2>3, InsertedSum
    <2>5. Transit(s)' = Transit(s) + (IF s = r THEN -n ELSE 0)
      BY <1>4, <2>2, TransitMoves
    <2> QED BY <2>4, <2>5
  <1>6. \A s \in Skus : \E a, e \in Int : /\ Came(s)' = Came(s) + a
                                          /\ Transit(s)' = Transit(s) + e
                                          /\ SumOf(Only(b, n), SkuRows(s)') = a - e
    <2> TAKE s \in Skus
    <2> DEFINE e == IF s = r THEN -n ELSE 0
    <2>1. e \in Int /\ 0 - e = (IF s = r THEN n ELSE 0) /\ 0 \in Int
      BY <1>3
    <2>2. Came(s)' = Came(s) + 0
      BY <1>2, AllInts, Unmoved
    <2> QED BY <1>5, <2>1, <2>2
  <1> QED BY <1>2, <1>3, <1>6, SiteGoods

\* Nothing comes, and nothing is on its way that was not.
LEMMA NothingCame ==
  ASSUME TypeOK, TypeOK', Blank, GoodsInv, NEW l, Effect(Zero, l),
         UNCHANGED <<stocktakeVars, productionVars, deliveryVars, received>>,
         \A s \in Skus : Transit(s)' = Transit(s)
  PROVE  GoodsInv'
  <1>1. \A s \in Skus : \E a, e \in Int : /\ Came(s)' = Came(s) + a
                                          /\ Transit(s)' = Transit(s) + e
                                          /\ SumOf(Zero, SkuRows(s)') = a - e
    <2> TAKE s \in Skus
    <2>1. SkuRows(s)' \in SUBSET BatchIds
      BY SkuRowsAfter
    <2>2. SumOf(Zero, SkuRows(s)') = 0 - 0 /\ 0 \in Int
      BY <2>1, ZeroSum
    <2>3. Came(s)' = Came(s) + 0 /\ Transit(s)' = Transit(s) + 0
      BY AllInts, Unmoved
    <2> QED BY <2>2, <2>3
  <1> QED BY <1>1, SiteGoods

\* The commands of warehousing.
LEMMA WarehousingGoods ==
  ASSUME TypeOK, TypeOK', Blank, GoodsInv, UNCHANGED <<productionVars, deliveryVars>>,
         WarehousingNext
  PROVE  GoodsInv'
  <1>1. ASSUME NEW b \in BatchIds, NEW bucket \in {"available", "quarantine"}, InspectBatch(b, bucket)
        PROVE  GoodsInv'
    <2>1. Effect(Zero, Zero) /\ UNCHANGED <<received, transfer, stocktakeVars>>
      BY <1>1, InspectEffect DEF InspectBatch, warehousingVars
    <2> QED BY <2>1, Unmoved, NothingCame
  <1>2. ASSUME NEW x \in Transfers, NEW u, NEW w1, NEW w2, NEW r, NEW n, NEW decision,
               \/ RequestTransfer(x, u, w1, w2, r, n)
               \/ decision \in {"approved", "rejected"} /\ ReviewTransfer(x, u, decision)
        PROVE  GoodsInv'
    <2>1. UNCHANGED <<lot, qty, received, stocktakeVars>>
      BY <1>2 DEF RequestTransfer, ReviewTransfer, stockVars
    <2>2. /\ transfer[x].status # "shipped" /\ transfer'[x].status # "shipped"
          /\ \A z \in Transfers : z # x => transfer'[z] = transfer[z]
      <3>1. CASE RequestTransfer(x, u, w1, w2, r, n)
        BY <3>1 DEF RequestTransfer, NoTransfer, TypeOK, WarehousingTypeOK
      <3>2. CASE decision \in {"approved", "rejected"} /\ ReviewTransfer(x, u, decision)
        <4>1. transfer[x].status = "pending_supply_chain"
          BY <3>2 DEF ReviewTransfer
        <4>2. transfer[x] \in [status: TransferStatuses, from: Warehouses, to: Warehouses,
                               sku: Skus, n: Nat \ {0}, by: Users]
          BY <4>1, TransferType
        <4> QED BY <3>2, <4>1, <4>2 DEF ReviewTransfer, TypeOK, WarehousingTypeOK
      <3> QED BY <1>2, <3>1, <3>2
    <2>3. \A s \in Skus : Transit(s)' = Transit(s)
      <3> TAKE s \in Skus
      <3>1. OnWay(s)' = OnWay(s)
        BY <2>2 DEF OnWay
      <3> QED BY <3>1 DEF Transit, SumOf
    <2> QED BY <2>1, <2>3, IdleEffect, NothingCame
  <1>3. ASSUME NEW m, NEW u, NEW w1, NEW w2,
               \/ CreateWarehouse(w1) \/ Deactivate(w1) \/ RequestMerge(m, u, w1, w2)
               \/ ApproveMerge(m, u) \/ RejectMerge(m, u)
        PROVE  GoodsInv'
    <2>1. UNCHANGED <<lot, qty, received, transfer, stocktakeVars>>
      BY <1>3 DEF CreateWarehouse, Deactivate, RequestMerge, ApproveMerge, RejectMerge, DecidesMerge,
                  stockVars, warehousingVars
    <2> QED BY <2>1, IdleEffect, Unmoved, NothingCame
  <1> QED BY <1>1, <1>2, <1>3, GoodsReceipt, GoodsShip, GoodsArrive DEF WarehousingNext

\* Commands of production and delivery change what there should be of their own.
LEMMA HomeGoods ==
  ASSUME TypeOK, TypeOK', Blank, GoodsInv, NEW h, NEW l, Effect(h, l),
         UNCHANGED <<stocktakeVars, warehousingVars>>,
         \A s \in Skus : Own(s)' = Own(s) + SumOf(h, SkuRows(s)')
  PROVE  GoodsInv'
  <1>1. BatchesStay /\ Adjusts
    BY DEF Effect, BatchesStay, GoodsInv
  <1>2. Adjusts' /\ \A s : Fixed(s)' = Fixed(s)
    BY <1>1, NothingAdjusted
  <1>3. ASSUME NEW s \in Skus
        PROVE  Due(s)' = Due(s) + SumOf(h, SkuRows(s)')
    <2>1. Came(s)' = Came(s) /\ Transit(s)' = Transit(s) /\ Fixed(s)' = Fixed(s)
      BY <1>2, Unmoved DEF warehousingVars
    <2>2. Came(s) \in Int /\ Transit(s) \in Int /\ Own(s) \in Int /\ Fixed(s) \in Int
      BY AllInts
    <2>3. SumOf(h, SkuRows(s)') \in Int
      <3>1. SkuRows(s)' \in SUBSET BatchIds /\ h \in [BatchIds -> Int] /\ IsFiniteSet(BatchIds)
        BY SkuRowsAfter, BatchIdsAssumption DEF Effect
      <3> QED BY ONLY <3>1, SumType
    <2>4. Own(s)' = Own(s) + SumOf(h, SkuRows(s)')
      OBVIOUS
    <2> QED BY <2>1, <2>2, <2>3, <2>4 DEF Due
  <1>4. Accounted(h)
    BY <1>3 DEF Accounted
  <1> QED BY <1>2, <1>4, GoodsMove

\* What one order made changes.
LEMMA MadeMoves ==
  ASSUME TypeOK, TypeOK', NEW o \in Orders, \A x \in Orders : x # o => order'[x] = order[x],
         NEW n \in Int, MadeOf'[o] = MadeOf[o] + n
  PROVE  MadeAll' = MadeAll + n
  <1>1. MadeOf \in [Orders -> Int] /\ MadeOf' \in [Orders -> Int] /\ IsFiniteSet(Orders)
    <2>1. \A x \in Orders : order'[x].company \in Nat /\ order'[x].factory \in Nat
      BY DEF TypeOK, ProductionTypeOK
    <2>2. \A x \in Orders : order'[x].company + order'[x].factory \in Int
      BY <2>1
    <2>3. MadeOf' \in [Orders -> Int]
      BY <2>2 DEF MadeOf
    <2> QED BY <2>3, AccountTypes, FiniteIds
  <1>2. \A x \in Orders : x # o => MadeOf'[x] = MadeOf[x]
    BY DEF MadeOf, IsMade
  <1>3. /\ SumOf(MadeOf', Orders) = SumOf(MadeOf, Orders) + (MadeOf'[o] - MadeOf[o])
        /\ SumOf(MadeOf, Orders) \in Int
    BY ONLY <1>1, <1>2, o \in Orders, OneChanges
  <1>4. MadeOf'[o] - MadeOf[o] = n
    BY <1>1
  <1>5. MadeAll' = SumOf(MadeOf', Orders)
    BY DEF MadeAll, SumOf
  <1> QED BY <1>3, <1>4, <1>5 DEF MadeAll

\* An order becomes finished, with n in all.
LEMMA OrderFinishes ==
  ASSUME TypeOK, TypeOK', NEW o \in Orders, \A x \in Orders : x # o => order'[x] = order[x],
         ~IsMade(o), IsMade(o)', NEW n \in Nat, order'[o].company + order'[o].factory = n
  PROVE  MadeAll' = MadeAll + n
  <1>1. MadeOf[o] = 0 /\ MadeOf'[o] = n
    BY DEF MadeOf
  <1>2. n \in Int /\ MadeOf'[o] = MadeOf[o] + n
    BY <1>1
  <1> QED BY <1>2, MadeMoves

\* Or it does not.
LEMMA OrderGoesOn ==
  ASSUME TypeOK, TypeOK', NEW o \in Orders, \A x \in Orders : x # o => order'[x] = order[x],
         ~IsMade(o), ~IsMade(o)'
  PROVE  MadeAll' = MadeAll
  <1>1. MadeOf[o] = 0 /\ MadeOf'[o] = 0
    BY DEF MadeOf
  <1>2. 0 \in Int /\ MadeOf'[o] = MadeOf[o] + 0 /\ MadeAll \in Int
    BY <1>1, AllInts
  <1>3. MadeAll' = MadeAll + 0
    BY <1>2, MadeMoves
  <1> QED BY <1>2, <1>3

\* What there should be of an SKU, when its parts change.
LEMMA OwnMoves ==
  ASSUME TypeOK, NEW s, NEW a \in Int, NEW u \in Int, NEW g \in Int, NEW k \in Int,
         MadeAll' = MadeAll + a, UsedAll' = UsedAll + u, SentAll' = SentAll + g,
         BackAll' = BackAll + k
  PROVE  Own(s)' = Own(s) + ((IF s = Finished THEN a - g + k ELSE 0)
                             - (IF s = Component THEN u ELSE 0))
  <1>1. MadeAll \in Int /\ UsedAll \in Int /\ SentAll \in Int /\ BackAll \in Int
    BY AllInts
  <1>2. CASE s = Finished /\ s = Component
    BY <1>1, <1>2 DEF Own
  <1>3. CASE s = Finished /\ s # Component
    BY <1>1, <1>3 DEF Own
  <1>4. CASE s # Finished /\ s = Component
    BY <1>1, <1>4 DEF Own
  <1>5. CASE s # Finished /\ s # Component
    BY <1>1, <1>5 DEF Own
  <1> QED BY <1>2, <1>3, <1>4, <1>5

\* Materials are used, and no order is finished.
LEMMA GoodsUse ==
  ASSUME TypeOK, TypeOK', Blank, ReservedRows, GoodsInv,
         UNCHANGED <<stocktakeVars, warehousingVars, deliveryVars, lot>>,
         NEW o \in Orders, NEW m \in Reports \cup {NoReport}, NEW d, Uses(o, m, d),
         line' = LineAfter(o, m), qty' = AfterUse(d), MadeAll' = MadeAll
  PROVE  GoodsInv'
  <1>1. Effect(Spent(d), Spent(d)) /\ \A b \in BatchIds : TakenFrom(d, b) \in Nat
    BY UseEffect, TakenType
  <1>2. UsedAll' = UsedAll + Total(d) /\ Total(d) \in Int
    BY UsedIsReported
  <1>3. /\ MadeAll' = MadeAll + 0 /\ SentAll' = SentAll + 0 /\ BackAll' = BackAll + 0
        /\ 0 \in Int
    BY AllInts, Unmoved DEF deliveryVars
  <1>4. ASSUME NEW s \in Skus
        PROVE  Own(s)' = Own(s) + SumOf(Spent(d), SkuRows(s)')
    <2>1. SkuRows(s)' = SkuRows(s) /\ SkuRows(s) \in SUBSET BatchIds
      BY DEF SkuRows, Rows
    <2>2. SumOf(Spent(d), SkuRows(s)) = -SumOf(Taken(d), SkuRows(s))
      BY <1>1, <2>1, SpentSum
    <2>3. SumOf(Taken(d), SkuRows(s)) = IF s = Component THEN Total(d) ELSE 0
      BY UsedOfComponent
    <2>4. Own(s)' = Own(s) + ((IF s = Finished THEN 0 - 0 + 0 ELSE 0)
                              - (IF s = Component THEN Total(d) ELSE 0))
      BY ONLY TypeOK, <1>2, <1>3, OwnMoves
    <2>5. (IF s = Finished THEN 0 - 0 + 0 ELSE 0) - (IF s = Component THEN Total(d) ELSE 0)
            = -(IF s = Component THEN Total(d) ELSE 0)
      BY <1>2
    <2>6. SumOf(Spent(d), SkuRows(s)') = SumOf(Spent(d), SkuRows(s))
      BY <2>1
    <2> QED BY <2>2, <2>3, <2>4, <2>5, <2>6
  <1> QED BY <1>1, <1>4, HomeGoods

\* An order is completed.
LEMMA GoodsComplete ==
  ASSUME TypeOK, TypeOK', Blank, ReservedRows, OwnedByFactory, GoodsInv,
         UNCHANGED <<warehousingVars, deliveryVars>>,
         NEW o \in Orders, NEW n \in Nat, NEW m \in Reports \cup {NoReport}, NEW d,
         NEW b \in BatchIds, CompleteOrder(o, n, m, d, b)
  PROVE  GoodsInv'
  <1>1. /\ Uses(o, m, d) /\ IsNextBatch(b) /\ line' = LineAfter(o, m) /\ UNCHANGED stocktakeVars
        /\ lot' = [lot EXCEPT ![b] = NewLot(FactorySite, Finished, "company", "production")]
    BY DEF CompleteOrder, Completing
  <1>2. /\ Effect(Made(d, b, n), Spent(d)) /\ \A c \in BatchIds : TakenFrom(d, c) \in Nat
        /\ TakenFrom(d, b) = 0
    <2>1. \A c \in BatchIds : TakenFrom(d, c) \in Nat /\ TakenFrom(d, c) =< qty[c]["locked"]
      BY <1>1, TakenType
    <2>2. qty[b]["locked"] = 0
      BY <1>1, NextIsFree, BlankIsEmpty
    <2> QED BY <2>1, <2>2, CompleteEffect
  <1>3. UsedAll' = UsedAll + Total(d) /\ Total(d) \in Int
    BY <1>1, UsedIsReported
  <1>4. /\ ~IsMade(o) /\ IsMade(o)' /\ order'[o].company + order'[o].factory = n
        /\ \A x \in Orders : x # o => order'[x] = order[x]
    <2>1. order[o].status \in {"planned", "in_production"} /\ order[o].factory = 0
      BY DEF CompleteOrder, Completing, OwnedByFactory
    <2>2. /\ order'[o].status = "completed" /\ order'[o].company = n /\ order'[o].factory = 0
          /\ \A x \in Orders : x # o => order'[x] = order[x]
      BY <2>1 DEF CompleteOrder, TypeOK, ProductionTypeOK
    <2> QED BY <2>1, <2>2 DEF IsMade
  <1>5. MadeAll' = MadeAll + n
    BY <1>4, OrderFinishes
  <1>6. SentAll' = SentAll + 0 /\ BackAll' = BackAll + 0 /\ 0 \in Int /\ n \in Int
    BY AllInts, Unmoved DEF deliveryVars
  <1>7. /\ lot'[b] # NoLot /\ lot'[b].sku = Finished
        /\ \A c \in BatchIds : c # b => lot'[c] = lot[c]
    <2>1. /\ lot'[b] = NewLot(FactorySite, Finished, "company", "production")
          /\ \A c \in BatchIds : c # b => lot'[c] = lot[c]
      BY <1>1 DEF TypeOK, StockTypeOK
    <2> QED BY <2>1, NewLotIsRow
  <1>8. ASSUME NEW s \in Skus
        PROVE  Own(s)' = Own(s) + SumOf(Made(d, b, n), SkuRows(s)')
    <2> DEFINE Q == SkuRows(s)'
               R == SkuRows(s)
    <2>1. Q \in SUBSET BatchIds /\ R \in SUBSET Q
      BY <1>2, SkuRowsAfter
    <2>2. (\A c \in Q \ R : c = b) /\ (b \in Q <=> s = Finished)
      BY <1>7 DEF SkuRows, Rows
    <2>3. SumOf(Taken(d), R) = IF s = Component THEN Total(d) ELSE 0
      BY <1>1, UsedOfComponent
    <2> HIDE DEF Q, R
    <2>4. SumOf(Made(d, b, n), Q) = (IF b \in Q THEN n ELSE 0) - SumOf(Taken(d), R)
      BY <1>2, <2>1, <2>2, MadeSum
    <2>5. Own(s)' = Own(s) + ((IF s = Finished THEN n - 0 + 0 ELSE 0)
                              - (IF s = Component THEN Total(d) ELSE 0))
      BY ONLY TypeOK, <1>3, <1>5, <1>6, OwnMoves
    <2>6. (IF s = Finished THEN n - 0 + 0 ELSE 0) = (IF b \in Q THEN n ELSE 0)
      BY <2>2
    <2> QED BY <2>3, <2>4, <2>5, <2>6 DEF Q
  <1> QED BY <1>1, <1>2, <1>8, HomeGoods

\* What is finished is stocked, in one batch or in two.
LEMMA GoodsStocked ==
  ASSUME TypeOK, TypeOK', Blank, GoodsInv,
         UNCHANGED <<stocktakeVars, warehousingVars, deliveryVars, line>>,
         NEW h, Effect(h, Zero), NEW n \in Int, MadeAll' = MadeAll + n,
         \A s \in Skus : SumOf(h, SkuRows(s)') = IF s = Finished THEN n ELSE 0
  PROVE  GoodsInv'
  <1>1. /\ UsedAll' = UsedAll + 0 /\ SentAll' = SentAll + 0 /\ BackAll' = BackAll + 0
        /\ 0 \in Int
    BY AllInts, Unmoved DEF deliveryVars
  <1>2. ASSUME NEW s \in Skus
        PROVE  Own(s)' = Own(s) + SumOf(h, SkuRows(s)')
    <2>1. Own(s)' = Own(s) + ((IF s = Finished THEN n - 0 + 0 ELSE 0)
                              - (IF s = Component THEN 0 ELSE 0))
      BY ONLY TypeOK, MadeAll' = MadeAll + n, n \in Int, <1>1, OwnMoves
    <2>2. (IF s = Finished THEN n - 0 + 0 ELSE 0) - (IF s = Component THEN 0 ELSE 0)
            = IF s = Finished THEN n ELSE 0
      OBVIOUS
    <2>3. SumOf(h, SkuRows(s)') = IF s = Finished THEN n ELSE 0
      OBVIOUS
    <2> QED BY <2>1, <2>2, <2>3
  <1> QED BY <1>2, HomeGoods

\* What was made with a deviation is approved.
LEMMA GoodsApprove ==
  ASSUME TypeOK, TypeOK', Blank, OwnedByFactory, GoodsInv,
         UNCHANGED <<warehousingVars, deliveryVars>>,
         NEW o \in Orders, NEW u, NEW b \in BatchIds, ApproveProduction(o, u, b)
  PROVE  GoodsInv'
  <1>1. PICK n : n = order[o].actual
    OBVIOUS
  <1>2. n \in Nat /\ n \in Int /\ Effect(Only(b, n), Zero)
    BY <1>1, ApproveEffect DEF TypeOK, ProductionTypeOK
  <1>3. UNCHANGED <<stocktakeVars, line>> /\ order[o].status = "variance_pending"
    BY DEF ApproveProduction, Reviews
  <1>4. /\ ~IsMade(o) /\ IsMade(o)' /\ order'[o].company + order'[o].factory = n
        /\ \A x \in Orders : x # o => order'[x] = order[x]
    <2>1. order[o].factory = 0
      BY <1>3 DEF OwnedByFactory
    <2>2. /\ order'[o].status = "completed" /\ order'[o].company = n /\ order'[o].factory = 0
          /\ \A x \in Orders : x # o => order'[x] = order[x]
      BY <1>1, <2>1 DEF ApproveProduction, TypeOK, ProductionTypeOK
    <2> QED BY <1>2, <1>3, <2>2 DEF IsMade
  <1>5. MadeAll' = MadeAll + n
    BY <1>2, <1>4, OrderFinishes
  <1>6. \A s \in Skus : SumOf(Only(b, n), SkuRows(s)') = IF s = Finished THEN n ELSE 0
    <2> TAKE s \in Skus
    <2>1. CASE n > 0
      <3>1. Inserts(b, Finished)
        BY <1>1, <2>1 DEF ApproveProduction, Inserts, Sources
      <3> QED BY <1>2, <3>1, InsertedSum
    <2>2. CASE n = 0
      <3>1. Only(b, n) = Zero
        BY <2>2 DEF Only, Zero
      <3>2. SkuRows(s)' \in SUBSET BatchIds
        BY <1>2, SkuRowsAfter
      <3>3. SumOf(Zero, SkuRows(s)') = 0
        BY <3>2, ZeroSum
      <3> QED BY <2>2, <3>1, <3>3
    <2> QED BY <1>2, <2>1, <2>2
  <1> QED BY <1>2, <1>3, <1>5, <1>6, GoodsStocked

\* An overproduction is divided.
LEMMA GoodsDivide ==
  ASSUME TypeOK, TypeOK', TypeInv, Blank, GoodsInv,
         UNCHANGED <<warehousingVars, deliveryVars>>,
         NEW o \in Orders, NEW u, NEW b \in BatchIds, NEW c \in BatchIds,
         RejectOverproduction(o, u, b, c)
  PROVE  GoodsInv'
  <1>1. PICK n, e : n = order[o].planned /\ e = order[o].actual - order[o].planned
    OBVIOUS
  <1>2. n \in Nat /\ e \in Nat /\ n + e \in Nat /\ n + e \in Int
    BY <1>1 DEF RejectOverproduction, Reviews, TypeInv, OverIsOver, TypeOK, ProductionTypeOK
  <1>3. Effect(Both(b, n, c, e), Zero)
    BY <1>1, DivideEffect
  <1>4. /\ UNCHANGED <<stocktakeVars, line>> /\ order[o].status = "variance_pending"
        /\ IsNextBatch(b) /\ c \in BatchIds \ Rows /\ b < c
        /\ lot' = [lot EXCEPT ![b] = NewLot(FactorySite, Finished, "company", "variance"),
                              ![c] = NewLot(FactorySite, Finished, "factory", "variance")]
    BY DEF RejectOverproduction, Reviews
  <1>5. b # c
    BY <1>4, BatchIdsAssumption
  <1>6. /\ ~IsMade(o) /\ IsMade(o)' /\ order'[o].company + order'[o].factory = n + e
        /\ \A x \in Orders : x # o => order'[x] = order[x]
    <2>1. /\ order'[o].status = "completed_factory_owned"
          /\ order'[o].company = n /\ order'[o].factory = e
          /\ \A x \in Orders : x # o => order'[x] = order[x]
      BY <1>1 DEF RejectOverproduction, TypeOK, ProductionTypeOK
    <2> QED BY <1>4, <2>1 DEF IsMade
  <1>7. MadeAll' = MadeAll + (n + e)
    BY <1>2, <1>6, OrderFinishes
  <1>8. /\ lot'[b] # NoLot /\ lot'[b].sku = Finished
        /\ lot'[c] # NoLot /\ lot'[c].sku = Finished
    <2>1. /\ lot'[b] = NewLot(FactorySite, Finished, "company", "variance")
          /\ lot'[c] = NewLot(FactorySite, Finished, "factory", "variance")
      BY <1>4, <1>5 DEF TypeOK, StockTypeOK
    <2> QED BY <2>1, NewLotIsRow
  <1>9. \A s \in Skus : SumOf(Both(b, n, c, e), SkuRows(s)') = IF s = Finished THEN n + e ELSE 0
    <2> TAKE s \in Skus
    <2> DEFINE Q == SkuRows(s)'
    <2>1. Q \in SUBSET BatchIds
      BY <1>3, SkuRowsAfter
    <2>2. (b \in Q <=> s = Finished) /\ (c \in Q <=> s = Finished)
      BY <1>8 DEF SkuRows, Rows
    <2> HIDE DEF Q
    <2>3. SumOf(Both(b, n, c, e), Q) = (IF b \in Q THEN n ELSE 0) + (IF c \in Q THEN e ELSE 0)
      BY <1>2, <1>5, <2>1, BothSum
    <2>4. SumOf(Both(b, n, c, e), Q) = IF s = Finished THEN n + e ELSE 0
      BY <2>2, <2>3
    <2> QED BY <2>4 DEF Q
  <1> QED BY <1>2, <1>3, <1>4, <1>7, <1>9, GoodsStocked

\* The commands of stocktakes.
LEMMA StocktakeGoods ==
  ASSUME FreezeInv, TypeOK', Blank, GoodsInv,
         UNCHANGED <<warehousingVars, productionVars, deliveryVars>>, StocktakeNext
  PROVE  GoodsInv'
  <1>0. TypeOK /\ Adjusts
    BY DEF FreezeInv, GoodsInv
  <1>1. ASSUME NEW s
        PROVE  /\ Came(s)' = Came(s) /\ Transit(s)' = Transit(s) /\ Own(s)' = Own(s)
               /\ Came(s) \in Int /\ Transit(s) \in Int /\ Own(s) \in Int /\ Fixed(s) \in Int
    <2>1. UNCHANGED <<transfer, received>>
      BY DEF warehousingVars
    <2>2. Came(s)' = Came(s) /\ Transit(s)' = Transit(s) /\ Own(s)' = Own(s)
      BY <2>1, Unmoved
    <2> QED BY <1>0, <2>2, AllInts
  <1>2. ASSUME NEW t \in Stocktakes, NEW u, NEW w, NEW scope, NEW sample, NEW b, NEW q,
               \/ OpenStocktake(t, u, w, scope, sample) \/ SubmitCount(t, u, b, q)
               \/ RequireRecount(t, u) \/ CompleteStocktake(t, u)
               \/ RequestVarianceApproval(t, u) \/ RejectVariance(t, u)
        PROVE  GoodsInv'
    <2>1. UNCHANGED <<lot, qty>> /\ Adjusts' /\ \A s : Fixed(s)' = Fixed(s)
      BY <1>0, <1>2, CountsFixNothing
    <2>2. Effect(Zero, Zero)
      BY <1>0, <2>1, IdleEffect
    <2>3. ASSUME NEW s \in Skus PROVE Due(s)' = Due(s) + SumOf(Zero, SkuRows(s)')
      <3>1. SkuRows(s)' \in SUBSET BatchIds
        BY <2>2, SkuRowsAfter
      <3>2. SumOf(Zero, SkuRows(s)') = 0
        BY <3>1, ZeroSum
      <3> QED BY <1>1, <2>1, <3>2 DEF Due
    <2>4. Accounted(Zero)
      BY <2>3 DEF Accounted
    <2> QED BY <1>0, <2>1, <2>2, <2>4, GoodsMove
  <1>3. ASSUME NEW t \in Stocktakes, NEW u, ApproveVariance(t, u) PROVE GoodsInv'
    <2>1. Effect(Corrected(t), Relocked(t))
      BY <1>3, AdjustEffect
    <2>2. Adjusts' /\ \A s : Fixed(s)' = Fixed(s) + SumOf(Corrected(t), SkuRows(s))
      <3>1. ASSUME NEW s
            PROVE  Fixed(s)' = Fixed(s) + SumOf(Corrected(t), SkuRows(s)) /\ Adjusts'
        BY <1>0, <1>3, ApproveFixes
      <3> QED BY <3>1
    <2>3. ASSUME NEW s \in Skus PROVE Due(s)' = Due(s) + SumOf(Corrected(t), SkuRows(s)')
      <3>1. SkuRows(s)' = SkuRows(s)
        BY <1>3 DEF ApproveVariance, SkuRows, Rows
      <3>2. SumOf(Corrected(t), SkuRows(s)) \in Int
        BY <1>0, FixingSum
      <3>3. Fixed(s)' = Fixed(s) + SumOf(Corrected(t), SkuRows(s))
        BY <2>2
      <3>4. Due(s)' = Due(s) + SumOf(Corrected(t), SkuRows(s))
        BY <1>1, <3>2, <3>3 DEF Due
      <3> QED BY <3>1, <3>4
    <2>4. Accounted(Corrected(t))
      BY <2>3 DEF Accounted
    <2> QED BY <1>0, <2>1, <2>2, <2>4, GoodsMove
  <1> QED BY <1>2, <1>3 DEF StocktakeNext

\* Commands that leave what there should be as it was.
LEMMA GoodsIdle ==
  ASSUME TypeOK, TypeOK', Blank, GoodsInv, NEW l, Effect(Zero, l),
         UNCHANGED <<stocktakeVars, warehousingVars>>, \A s \in Skus : Own(s)' = Own(s)
  PROVE  GoodsInv'
  <1>1. ASSUME NEW s \in Skus PROVE Own(s)' = Own(s) + SumOf(Zero, SkuRows(s)')
    <2>1. SkuRows(s)' \in SUBSET BatchIds
      BY SkuRowsAfter
    <2>2. SumOf(Zero, SkuRows(s)') = 0
      BY <2>1, ZeroSum
    <2> QED BY <2>2, AllInts
  <1> QED BY <1>1, HomeGoods

\* Own share of an SKU stays where its parts do.
LEMMA OwnStays ==
  ASSUME UNCHANGED line, UNCHANGED deliveryVars, MadeAll' = MadeAll, NEW s
  PROVE  Own(s)' = Own(s)
  <1>1. UsedAll' = UsedAll /\ SentAll' = SentAll /\ BackAll' = BackAll
    BY Unmoved DEF deliveryVars
  <1> QED BY <1>1 DEF Own

\* The commands of production.
LEMMA ProductionGoods ==
  ASSUME TypeOK, TypeOK', TypeInv, Blank, ReservedRows, OwnedByFactory, GoodsInv,
         UNCHANGED <<warehousingVars, deliveryVars>>, ProductionNext
  PROVE  GoodsInv'
  <1>0. UNCHANGED order => MadeAll' = MadeAll
    BY Unmoved
  <1>1. ASSUME NEW r \in Reservations, NEW b \in BatchIds, NEW for \in Orders \cup {Elsewhere},
               NEW n \in 1 .. MaxReport, NEW priority, Reserve(r, b, for, n, priority)
        PROVE  GoodsInv'
    <2>1. n \in Nat
      BY ProductionAssumption
    <2>2. Effect(Zero, Only(b, Granted(b, n))) /\ UNCHANGED <<order, line, stocktakeVars>>
      BY <1>1, <2>1, ReserveEffect DEF Reserve
    <2>3. \A s \in Skus : Own(s)' = Own(s)
      BY <1>0, <2>2, OwnStays
    <2> QED BY <2>2, <2>3, GoodsIdle
  <1>2. ASSUME NEW o \in Orders, ReleaseMaterials(o) PROVE GoodsInv'
    <2>1. Effect(Zero, Unlocked(o)) /\ UNCHANGED <<order, line, stocktakeVars>>
      BY <1>2, ReleaseEffect DEF ReleaseMaterials
    <2>2. \A s \in Skus : Own(s)' = Own(s)
      BY <1>0, <2>1, OwnStays
    <2> QED BY <2>1, <2>2, GoodsIdle
  <1>3. ASSUME NEW o \in Orders, NEW m \in Reports, NEW d, ReportMaterials(o, m, d)
        PROVE  GoodsInv'
    BY <1>0, <1>3, GoodsUse DEF ReportMaterials
  <1>4. ASSUME NEW o \in Orders, NEW m \in Reports \cup {NoReport}, NEW d, NEW u, NEW actual,
               RequestProductionVariance(o, u, actual, m, d)
        PROVE  GoodsInv'
    <2>1. order[o].status \in {"planned", "in_production"}
      BY <1>4 DEF RequestProductionVariance, Completing
    <2>2. order'[o].status = "variance_pending" /\ \A x \in Orders : x # o => order'[x] = order[x]
      BY <1>4 DEF RequestProductionVariance, TypeOK, ProductionTypeOK
    <2>3. ~IsMade(o) /\ ~IsMade(o)'
      BY <2>1, <2>2 DEF IsMade
    <2>4. MadeAll' = MadeAll
      BY <2>2, <2>3, OrderGoesOn
    <2> QED BY <1>4, <2>4, GoodsUse DEF RequestProductionVariance, Completing
  <1>5. ASSUME NEW o \in Orders, NEW m \in Reports \cup {NoReport}, NEW d,
               NEW actual \in 0 .. MaxReport, NEW b \in BatchIds, CompleteOrder(o, actual, m, d, b)
        PROVE  GoodsInv'
    <2>1. actual \in Nat
      BY ProductionAssumption
    <2> QED BY <1>5, <2>1, GoodsComplete
  <1>6. ASSUME NEW o \in Orders, NEW n, NEW u,
               CreateOrder(o, n) \/ StartOrder(o) \/ RejectProduction(o, u)
        PROVE  GoodsInv'
    <2>1. UNCHANGED <<lot, qty, line, stocktakeVars>>
      BY <1>6 DEF CreateOrder, StartOrder, RejectProduction, Reviews, stockVars
    <2>2. order[o].status \in {"none", "planned", "variance_pending"}
      BY <1>6 DEF CreateOrder, StartOrder, RejectProduction, Reviews, NoOrder
    <2>3. /\ order'[o].status \in {"planned", "in_production", "variance_rejected"}
          /\ \A x \in Orders : x # o => order'[x] = order[x]
      BY <1>6 DEF CreateOrder, StartOrder, RejectProduction, TypeOK, ProductionTypeOK
    <2>4. ~IsMade(o) /\ ~IsMade(o)'
      BY <2>2, <2>3 DEF IsMade
    <2>5. MadeAll' = MadeAll
      BY <2>3, <2>4, OrderGoesOn
    <2>6. \A s \in Skus : Own(s)' = Own(s)
      BY <2>1, <2>5, OwnStays
    <2> QED BY <2>1, <2>6, IdleEffect, GoodsIdle
  <1> QED BY <1>1, <1>2, <1>3, <1>4, <1>5, <1>6, GoodsApprove, GoodsDivide DEF ProductionNext

\* What one shipment took changes.
LEMMA SentMoves ==
  ASSUME TypeOK, TypeOK', NEW x \in Shipments,
         \A z \in Shipments : z # x => shipment'[z] = shipment[z],
         NEW e \in Int, SentIn'[x] = SentIn[x] + e
  PROVE  SentAll' = SentAll + e
  <1>1. SentIn \in [Shipments -> Int] /\ SentIn' \in [Shipments -> Int] /\ IsFiniteSet(Shipments)
    <2>1. \A z \in Shipments : shipment'[z].n \in Int
      BY DEF TypeOK, DeliveryTypeOK, NoShipment
    <2>2. SentIn' \in [Shipments -> Int]
      BY <2>1 DEF SentIn
    <2> QED BY <2>2, AccountTypes, FiniteIds
  <1>2. \A z \in Shipments : z # x => SentIn'[z] = SentIn[z]
    BY DEF SentIn, Gone
  <1>3. /\ SumOf(SentIn', Shipments) = SumOf(SentIn, Shipments) + (SentIn'[x] - SentIn[x])
        /\ SumOf(SentIn, Shipments) \in Int
    BY ONLY <1>1, <1>2, x \in Shipments, OneChanges
  <1>4. SentIn'[x] - SentIn[x] = e
    BY <1>1
  <1>5. SentAll' = SumOf(SentIn', Shipments)
    BY DEF SentAll, SumOf
  <1> QED BY <1>3, <1>4, <1>5 DEF SentAll

\* What one return brought changes.
LEMMA BackMoves ==
  ASSUME TypeOK, TypeOK', NEW y \in Returns,
         \A z \in Returns : z # y => returned'[z] = returned[z],
         NEW e \in Int, returned'[y].n = returned[y].n + e
  PROVE  BackAll' = BackAll + e
  <1>1. BackIn \in [Returns -> Int] /\ BackIn' \in [Returns -> Int] /\ IsFiniteSet(Returns)
    <2>1. \A z \in Returns : returned'[z].n \in Int
      BY DEF TypeOK, DeliveryTypeOK, NoReturn
    <2>2. BackIn' \in [Returns -> Int]
      BY <2>1 DEF BackIn
    <2> QED BY <2>2, AccountTypes, FiniteIds
  <1>2. (\A z \in Returns : z # y => BackIn'[z] = BackIn[z]) /\ BackIn'[y] = BackIn[y] + e
    BY DEF BackIn
  <1>3. /\ SumOf(BackIn', Returns) = SumOf(BackIn, Returns) + (BackIn'[y] - BackIn[y])
        /\ SumOf(BackIn, Returns) \in Int
    BY ONLY <1>1, <1>2, y \in Returns, OneChanges
  <1>4. BackIn'[y] - BackIn[y] = e
    BY <1>1, <1>2
  <1>5. BackAll' = SumOf(BackIn', Returns)
    BY DEF BackAll, SumOf
  <1> QED BY <1>3, <1>4, <1>5 DEF BackAll

\* Goods leave with a shipment, g of them, or come back, k of them.
LEMMA GoodsDelivered ==
  ASSUME TypeOK, TypeOK', Blank, GoodsInv,
         UNCHANGED <<stocktakeVars, warehousingVars, productionVars>>,
         NEW h, NEW l, Effect(h, l), NEW g \in Int, NEW k \in Int,
         SentAll' = SentAll + g, BackAll' = BackAll + k,
         \A s \in Skus : SumOf(h, SkuRows(s)') = IF s = Finished THEN k - g ELSE 0
  PROVE  GoodsInv'
  <1>1. ASSUME NEW s PROVE MadeAll' = MadeAll + 0 /\ UsedAll' = UsedAll + 0 /\ 0 \in Int
    <2>1. MadeAll' = MadeAll /\ UsedAll' = UsedAll
      BY Unmoved DEF productionVars
    <2> QED BY <2>1, AllInts
  <1>2. ASSUME NEW s \in Skus
        PROVE  Own(s)' = Own(s) + SumOf(h, SkuRows(s)')
    <2>0. SentAll' = SentAll + g /\ BackAll' = BackAll + k
      OBVIOUS
    <2>1. Own(s)' = Own(s) + ((IF s = Finished THEN 0 - g + k ELSE 0)
                              - (IF s = Component THEN 0 ELSE 0))
      BY ONLY TypeOK, g \in Int, k \in Int, <1>1, <2>0, OwnMoves
    <2>2. (IF s = Finished THEN 0 - g + k ELSE 0) - (IF s = Component THEN 0 ELSE 0)
            = IF s = Finished THEN k - g ELSE 0
      OBVIOUS
    <2>3. SumOf(h, SkuRows(s)') = IF s = Finished THEN k - g ELSE 0
      OBVIOUS
    <2> QED BY <2>1, <2>2, <2>3
  <1> QED BY <1>2, HomeGoods

\* A shipment leaves.
LEMMA GoodsDispatch ==
  ASSUME TypeOK, TypeOK', Blank, GoodsInv,
         UNCHANGED <<stocktakeVars, warehousingVars, productionVars>>,
         NEW x \in Shipments, NEW d, Dispatch(x, d)
  PROVE  GoodsInv'
  <1>1. PICK n : n = shipment[x].n
    OBVIOUS
  <1>2. /\ n \in Nat /\ Effect(Drained(d), Zero) /\ UNCHANGED <<lot, returned>>
        /\ shipment[x].status \in {"planned", "approved_to_ship"}
        /\ \E earlier : TakesInOrder(d, [b \in Shippable(FactorySite, Finished) |-> qty[b]["available"]],
                                     earlier, n)
    BY <1>1, DispatchEffect, ShipmentType DEF Dispatch, CanDispatch
  <1>3. /\ shipment'[x].status = "shipped" /\ shipment'[x].n = n
        /\ \A z \in Shipments : z # x => shipment'[z] = shipment[z]
    <2>1. shipment[x] \in ShipmentRow
      BY <1>2, ShipmentType
    <2> QED BY <1>1, <2>1 DEF Dispatch, TypeOK, DeliveryTypeOK, ShipmentRow
  <1>4. SentIn[x] = 0 /\ SentIn'[x] = n
    BY <1>2, <1>3 DEF SentIn, Gone
  <1>5. n \in Int /\ SentIn'[x] = SentIn[x] + n
    BY <1>2, <1>4
  <1>6. SentAll' = SentAll + n
    BY <1>3, <1>5, SentMoves
  <1>7. BackAll' = BackAll + 0 /\ 0 \in Int
    BY <1>2, AllInts, Unmoved
  <1>8. ASSUME NEW s \in Skus
        PROVE  SumOf(Drained(d), SkuRows(s)') = IF s = Finished THEN 0 - n ELSE 0
    <2>1. SumOf(Drained(d), SkuRows(s)') = IF s = Finished THEN -n ELSE 0
      BY <1>2, WalkedSum
    <2> QED BY <1>5, <2>1
  <1> QED BY <1>2, <1>5, <1>6, <1>7, <1>8, GoodsDelivered

\* Goods come back.
LEMMA GoodsReturn ==
  ASSUME TypeOK, TypeOK', Blank, GoodsInv,
         UNCHANGED <<stocktakeVars, warehousingVars, productionVars>>,
         NEW y \in Returns, NEW x, NEW w, NEW n \in Nat, NEW b, ReceiveReturn(y, x, w, n, b)
  PROVE  GoodsInv'
  <1>1. /\ Effect(Only(b, n), Zero) /\ UNCHANGED shipment /\ n \in Int /\ 0 \in Int
        /\ Inserts(b, Finished)
    <2>1. Effect(Only(b, n), Zero)
      BY ReturnEffect
    <2>2. /\ IsNextBatch(b) /\ "return" \in Sources /\ UNCHANGED shipment
          /\ lot' = [lot EXCEPT ![b] = NewLot(w, Finished, "company", "return")]
      BY DEF ReceiveReturn, Sources
    <2>3. \E v, c : \E z \in Sources : lot' = [lot EXCEPT ![b] = NewLot(v, Finished, c, z)]
      BY ONLY <2>2
    <2>4. Inserts(b, Finished)
      BY ONLY <2>2, <2>3 DEF Inserts
    <2> QED BY <2>1, <2>2, <2>4
  <1>2. /\ returned'[y].n = returned[y].n + n
        /\ \A z \in Returns : z # y => returned'[z] = returned[z]
    BY DEF ReceiveReturn, NoReturn, TypeOK, DeliveryTypeOK
  <1>3. BackAll' = BackAll + n
    BY <1>1, <1>2, BackMoves
  <1>4. SentAll' = SentAll + 0
    BY <1>1, AllInts, Unmoved
  <1>5. ASSUME NEW s \in Skus
        PROVE  SumOf(Only(b, n), SkuRows(s)') = IF s = Finished THEN n - 0 ELSE 0
    <2>1. SumOf(Only(b, n), SkuRows(s)') = IF s = Finished THEN n ELSE 0
      BY <1>1, InsertedSum
    <2> QED BY <2>1
  <1> QED BY <1>1, <1>3, <1>4, <1>5, GoodsDelivered

\* Nothing leaves and nothing comes back.
LEMMA NothingDelivered ==
  ASSUME TypeOK, TypeOK', Blank, GoodsInv,
         UNCHANGED <<stocktakeVars, warehousingVars, productionVars>>,
         NEW l, Effect(Zero, l), SentAll' = SentAll, BackAll' = BackAll
  PROVE  GoodsInv'
  <1>1. MadeAll' = MadeAll /\ UsedAll' = UsedAll
    BY Unmoved DEF productionVars
  <1>2. \A s \in Skus : Own(s)' = Own(s)
    BY <1>1 DEF Own
  <1> QED BY <1>2, GoodsIdle

\* The other commands of shipments send nothing.
LEMMA ShipmentsIdle ==
  ASSUME TypeOK, TypeOK', NEW x \in Shipments, NEW o, NEW n, NEW u,
         NEW decision \in {"approved_to_ship", "deviation_rejected"}, NEW got, NEW damaged,
         \/ PlanShipment(x, o, n) \/ ConfirmShipment(x) \/ RequestDeviation(x, u)
         \/ DecideDeviation(x, u, decision) \/ ReceiveShipment(x, got, damaged)
         \/ ResolveException(x)
  PROVE  SentAll' = SentAll
  <1>1. \A z \in Shipments : z # x => shipment'[z] = shipment[z]
    BY DEF PlanShipment, ConfirmShipment, RequestDeviation, DecideDeviation, ReceiveShipment,
           ResolveException, TypeOK, DeliveryTypeOK
  <1>2. \/ ~Gone(x) /\ ~Gone(x)'
        \/ Gone(x) /\ Gone(x)' /\ shipment'[x].n = shipment[x].n
    <2>1. CASE PlanShipment(x, o, n)
      BY <2>1 DEF PlanShipment, NoShipment, Gone, TypeOK, DeliveryTypeOK
    <2>2. CASE ConfirmShipment(x) \/ RequestDeviation(x, u) \/ DecideDeviation(x, u, decision)
      <3>1. shipment[x].status \in {"pending_factory_confirmation", "planned", "pending_supply_chain"}
        BY <2>2 DEF ConfirmShipment, RequestDeviation, DecideDeviation
      <3>2. shipment[x] \in ShipmentRow
        BY <3>1, ShipmentType
      <3>3. shipment'[x].status \in {"planned", "pending_supply_chain", "approved_to_ship",
                                     "deviation_rejected"}
        BY <2>2, <3>2 DEF ConfirmShipment, RequestDeviation, DecideDeviation, TypeOK,
                          DeliveryTypeOK, ShipmentRow
      <3> QED BY <3>1, <3>3 DEF Gone
    <2>3. CASE ReceiveShipment(x, got, damaged)
      <3>1. shipment[x].status = "shipped"
        BY <2>3 DEF ReceiveShipment
      <3>2. shipment[x] \in ShipmentRow
        BY <3>1, ShipmentType
      <3>3. /\ shipment'[x].status \in {"received", "received_with_exception"}
            /\ shipment'[x].n = shipment[x].n
        BY <2>3, <3>2 DEF ReceiveShipment, TypeOK, DeliveryTypeOK, ShipmentRow
      <3> QED BY <3>1, <3>3 DEF Gone
    <2>4. CASE ResolveException(x)
      <3>1. shipment[x] # NoShipment
        BY <2>4 DEF ResolveException, NoShipment
      <3>2. shipment[x] \in ShipmentRow
        BY <3>1 DEF TypeOK, DeliveryTypeOK, ShipmentRow
      <3>3. shipment'[x].status = shipment[x].status /\ shipment'[x].n = shipment[x].n
        BY <2>4, <3>2 DEF ResolveException, TypeOK, DeliveryTypeOK, ShipmentRow
      <3> QED BY <3>3 DEF Gone
    <2> QED BY <2>1, <2>2, <2>3, <2>4
  <1>3. SentIn'[x] = SentIn[x] /\ SentIn[x] \in Int
    <2>1. SentIn \in [Shipments -> Int]
      BY AccountTypes
    <2> QED BY <1>2, <2>1 DEF SentIn
  <1>4. SentIn'[x] = SentIn[x] + 0 /\ 0 \in Int
    BY <1>3
  <1>5. SentAll' = SentAll + 0
    BY <1>1, <1>4, SentMoves
  <1> QED BY <1>5, AllInts

\* The other commands of returns bring nothing.
LEMMA ReturnsIdle ==
  ASSUME TypeOK, TypeOK', NEW y \in Returns, NEW u, NEW passed,
         \/ InspectReturn(y, passed) \/ ProposeDisposition(y, u)
         \/ ApproveDisposition(y, u) \/ RejectDisposition(y, u)
  PROVE  BackAll' = BackAll
  <1>1. returned[y] \in ReturnRow
    <2>1. returned[y].status # "none"
      BY DEF InspectReturn, ProposeDisposition, ApproveDisposition, RejectDisposition, ReviewsReturn
    <2> QED BY <2>1, ReturnType
  <1>2. /\ returned'[y].n = returned[y].n
        /\ \A z \in Returns : z # y => returned'[z] = returned[z]
    BY <1>1 DEF InspectReturn, ProposeDisposition, ApproveDisposition, RejectDisposition,
                TypeOK, DeliveryTypeOK, ReturnRow
  <1>3. returned'[y].n = returned[y].n + 0 /\ 0 \in Int
    BY <1>1, <1>2 DEF ReturnRow
  <1>4. BackAll' = BackAll + 0
    BY <1>2, <1>3, BackMoves
  <1>5. ASSUME NEW s PROVE BackAll \in Int
    BY AllInts
  <1> QED BY <1>4, <1>5

\* The commands of delivery.
LEMMA DeliveryGoods ==
  ASSUME FreezeInv, ReturnsPlaced, TypeOK', Blank, GoodsInv,
         UNCHANGED <<warehousingVars, productionVars>>, DeliveryNext
  PROVE  GoodsInv'
  <1>0. TypeOK /\ UNCHANGED stocktakeVars
    BY DEF FreezeInv, DeliveryNext
  <1>1. ASSUME NEW x \in Shipments, NEW d, Dispatch(x, d) PROVE GoodsInv'
    BY <1>0, <1>1, GoodsDispatch
  <1>2. ASSUME NEW x \in Shipments, NEW o, NEW n, NEW u,
               NEW decision \in {"approved_to_ship", "deviation_rejected"}, NEW got, NEW damaged,
               \/ PlanShipment(x, o, n) \/ ConfirmShipment(x) \/ RequestDeviation(x, u)
               \/ DecideDeviation(x, u, decision) \/ ReceiveShipment(x, got, damaged)
               \/ ResolveException(x)
        PROVE  GoodsInv'
    <2>1. UNCHANGED <<lot, qty, returned>>
      BY <1>2 DEF PlanShipment, ConfirmShipment, RequestDeviation, DecideDeviation,
                  ReceiveShipment, ResolveException, stockVars
    <2>2. SentAll' = SentAll
      BY <1>0, <1>2, ShipmentsIdle
    <2>3. BackAll' = BackAll /\ Effect(Zero, Zero)
      BY <1>0, <2>1, IdleEffect, Unmoved
    <2> QED BY <1>0, <2>2, <2>3, NothingDelivered
  <1>3. ASSUME NEW y \in Returns, NEW x \in Shipments, NEW w, NEW n \in 1 .. shipment[x].got, NEW b,
               ReceiveReturn(y, x, w, n, b)
        PROVE  GoodsInv'
    <2>1. n \in Nat
      BY <1>0, ShipmentType
    <2> QED BY <1>0, <1>3, <2>1, GoodsReturn
  <1>4. ASSUME NEW y \in Returns, NEW u, NEW passed,
               \/ InspectReturn(y, passed) \/ ProposeDisposition(y, u)
               \/ ApproveDisposition(y, u) \/ RejectDisposition(y, u)
        PROVE  GoodsInv'
    <2>1. BackAll' = BackAll
      BY <1>0, <1>4, ReturnsIdle
    <2>2. UNCHANGED shipment
      BY <1>4 DEF InspectReturn, ProposeDisposition, ApproveDisposition, RejectDisposition
    <2>3. SentAll' = SentAll
      BY <2>2, Unmoved
    <2>4. Effect(Zero, Zero)
      <3>1. CASE ApproveDisposition(y, u)
        BY <3>1, RestockEffect
      <3>2. CASE InspectReturn(y, passed) \/ ProposeDisposition(y, u) \/ RejectDisposition(y, u)
        <4>1. UNCHANGED <<lot, qty>>
          BY <3>2 DEF InspectReturn, ProposeDisposition, RejectDisposition, stockVars
        <4> QED BY <1>0, <4>1, IdleEffect
      <3> QED BY <1>4, <3>1, <3>2
    <2> QED BY <1>0, <2>1, <2>3, <2>4, NothingDelivered
  <1> QED BY <1>1, <1>2, <1>3, <1>4 DEF DeliveryNext

\* Every command conserves goods.
LEMMA GoodsStep ==
  ASSUME BooksInv, LedgerInv, LockedInv, GoodsInv, [Next]_vars
  PROVE  GoodsInv'
  <1>0. /\ FreezeInv /\ ReturnsPlaced /\ TypeInv /\ Blank /\ TypeOK /\ TypeOK'
        /\ OwnedByFactory /\ ReservedRows
    BY TypeStep DEF BooksInv, FreezeInv, QuarantineInv, TypeInv, LedgerInv, LockedInv
  <1>1. CASE StocktakeNext /\ UNCHANGED <<warehousingVars, productionVars, deliveryVars>>
    BY <1>0, <1>1, StocktakeGoods
  <1>2. CASE WarehousingNext /\ UNCHANGED <<productionVars, deliveryVars>>
    BY <1>0, <1>2, WarehousingGoods
  <1>3. CASE ProductionNext /\ UNCHANGED <<warehousingVars, deliveryVars>>
    BY <1>0, <1>3, ProductionGoods
  <1>4. CASE DeliveryNext /\ UNCHANGED <<warehousingVars, productionVars>>
    BY <1>0, <1>4, DeliveryGoods
  <1>5. CASE UNCHANGED vars
    <2>1. UNCHANGED <<lot, qty, stocktakeVars, warehousingVars, productionVars, deliveryVars>>
      BY <1>5 DEF vars, stockVars
    <2>2. Effect(Zero, Zero)
      BY <1>0, <2>1, IdleEffect
    <2>3. SentAll' = SentAll /\ BackAll' = BackAll
      BY <2>1, Unmoved DEF deliveryVars
    <2> QED BY <1>0, <2>1, <2>2, <2>3, NothingDelivered
  <1> QED BY <1>1, <1>2, <1>3, <1>4, <1>5 DEF Next

\* A sum of zeros.
LEMMA SumZeros ==
  ASSUME NEW S, IsFiniteSet(S), NEW f \in [S -> Int], \A x \in S : f[x] = 0
  PROVE  SumOf(f, S) = 0
  <1>1. {} \in SUBSET S /\ \A x \in S \ {} : f[x] = 0
    OBVIOUS
  <1>2. SumOf(f, S) = SumOf(f, {})
    BY <1>1, SumElsewhereZero
  <1> QED BY <1>2, SumEmpty

\* At first there are no goods, and none are expected.
LEMMA GoodsInit == Init => GoodsInv
  <1> SUFFICES ASSUME Init PROVE GoodsInv
    OBVIOUS
  <1>0. TypeOK
    BY TypeInit DEF TypeInv
  <1>1. /\ \A b \in BatchIds : lot[b] = NoLot
        /\ \A t \in Stocktakes, b \in BatchIds, k \in Counted : adj[t][b][k].decision = "none"
        /\ \A x \in Transfers : transfer[x].status = "none"
        /\ received = {}
        /\ \A o \in Orders : /\ order[o].status = "none"
                             /\ line[o].consumed = 0 /\ line[o].loss = 0
        /\ \A x \in Shipments : shipment[x].status = "none"
        /\ \A y \in Returns : returned[y].n = 0
    BY DEF Init, StockInit, StocktakeInit, WarehousingInit, ProductionInit, DeliveryInit, NoAdj,
           NoTransfer, NoOrder, NoLine, NoShipment, NoReturn
  <1>2. Adjusts
    BY <1>1 DEF Adjusts
  <1>3. ASSUME NEW s \in Skus PROVE SumOf(AtHand, SkuRows(s)) = Due(s)
    <2>1. SkuRows(s) = {}
      BY <1>1 DEF SkuRows, Rows
    <2>2. SumOf(AtHand, SkuRows(s)) = 0
      BY <2>1, SumEmpty
    <2>3. Transit(s) = 0
      <3>1. \A x \in Transfers : OnWay(s)[x] = 0
        BY <1>1 DEF OnWay
      <3> QED BY <1>0, <3>1, AccountTypes, FiniteIds, SumZeros DEF Transit
    <2>4. Came(s) = 0
      <3>1. \A i \in Items : Bought(s)[i] = 0
        BY <1>1 DEF Bought
      <3> QED BY <1>0, <3>1, AccountTypes, FiniteIds, SumZeros DEF Came
    <2>5. Fixed(s) = 0
      <3>1. \A y \in Triples : Fixes(s)[y] = 0
        <4> TAKE y \in Triples
        <4>1. y \notin Approved(s)
          BY <1>1 DEF Approved, Triples
        <4> QED BY <4>1 DEF Fixes
      <3> QED BY <1>0, <3>1, AccountTypes, FiniteIds, SumZeros DEF Fixed
    <2>6. MadeAll = 0
      <3>1. \A o \in Orders : MadeOf[o] = 0
        BY <1>1 DEF MadeOf, IsMade
      <3> QED BY <1>0, <3>1, AccountTypes, FiniteIds, SumZeros DEF MadeAll
    <2>7. UsedAll = 0
      <3>1. \A o \in Orders : UsedOf[o] = 0
        BY <1>1 DEF UsedOf
      <3> QED BY <1>0, <3>1, AccountTypes, FiniteIds, SumZeros DEF UsedAll
    <2>8. SentAll = 0
      <3>1. \A x \in Shipments : SentIn[x] = 0
        BY <1>1 DEF SentIn, Gone
      <3> QED BY <1>0, <3>1, AccountTypes, FiniteIds, SumZeros DEF SentAll
    <2>9. BackAll = 0
      <3>1. \A y \in Returns : BackIn[y] = 0
        BY <1>1 DEF BackIn
      <3> QED BY <1>0, <3>1, AccountTypes, FiniteIds, SumZeros DEF BackAll
    <2>10. Own(s) = 0
      BY <2>6, <2>7, <2>8, <2>9 DEF Own
    <2> QED BY <2>2, <2>3, <2>4, <2>5, <2>10 DEF Due
  <1> QED BY <1>2, <1>3 DEF GoodsInv

\* The accounts are the sums GoodsConserved names.
LEMMA AccountsAreSums ==
  ASSUME TypeOK, NEW s
  PROVE  /\ SumOf(AtHand, SkuRows(s)) = Held({b \in Rows : lot[b].sku = s})
         /\ Transit(s) = Sum([x \in Transfers |-> transfer[x].n],
                             {x \in Transfers : transfer[x].status = "shipped" /\ transfer[x].sku = s})
         /\ Came(s) = Sum([i \in Items |-> ItemOf[i].n], {i \in received : ItemOf[i].sku = s})
         /\ MadeAll = Sum([o \in Orders |-> order[o].company + order[o].factory],
                          {o \in Orders : order[o].status \in {"completed", "completed_factory_owned"}})
         /\ SentAll = Sum([x \in Shipments |-> shipment[x].n], {x \in Shipments : Gone(x)})
         /\ BackAll = Sum([y \in Returns |-> returned[y].n], Returns)
         /\ UsedAll = Sum([o \in Orders |-> line[o].consumed + line[o].loss], Orders)
         /\ Fixed(s) = Sum([y \in Stocktakes \X BatchIds \X Counted |->
                              adj[y[1]][y[2]][y[3]].counted - count[y[1]][0][y[2]].q[y[3]]], Approved(s))
  <1>1. SumOf(AtHand, SkuRows(s)) = Held({b \in Rows : lot[b].sku = s})
    BY DEF SkuRows, Held, AtHand, Sum, SumOf
  <1>2. ASSUME NEW S, IsFiniteSet(S), NEW f \in [S -> Int], NEW K, NEW d, Extends(f, d, K)
        PROVE  SumOf(f, S) = Sum(d, K)
    <2>1. SumOf(f, S) = SumOf(d, K)
      BY <1>2, SumPicked
    <2> QED BY <2>1 DEF Sum, SumOf
  <1>3. Transit(s) = Sum([x \in Transfers |-> transfer[x].n],
                         {x \in Transfers : transfer[x].status = "shipped" /\ transfer[x].sku = s})
    <2> DEFINE K == {x \in Transfers : transfer[x].status = "shipped" /\ transfer[x].sku = s}
               d == [x \in Transfers |-> transfer[x].n]
    <2>1. Extends(OnWay(s), d, K)
      BY DEF Extends, OnWay
    <2> HIDE DEF K, d
    <2>2. SumOf(OnWay(s), Transfers) = Sum(d, K)
      BY <1>2, <2>1, AccountTypes, FiniteIds
    <2> QED BY <2>2 DEF Transit, K, d
  <1>4. Came(s) = Sum([i \in Items |-> ItemOf[i].n], {i \in received : ItemOf[i].sku = s})
    <2> DEFINE K == {i \in received : ItemOf[i].sku = s}
               d == [i \in Items |-> ItemOf[i].n]
    <2>0. received \subseteq Items
      BY DEF TypeOK, WarehousingTypeOK
    <2>1. Extends(Bought(s), d, K)
      BY <2>0 DEF Extends, Bought
    <2> HIDE DEF K, d
    <2>2. SumOf(Bought(s), Items) = Sum(d, K)
      BY <1>2, <2>1, AccountTypes, FiniteIds
    <2> QED BY <2>2 DEF Came, K, d
  <1>5. MadeAll = Sum([o \in Orders |-> order[o].company + order[o].factory],
                      {o \in Orders : order[o].status \in {"completed", "completed_factory_owned"}})
    <2> DEFINE K == {o \in Orders : order[o].status \in {"completed", "completed_factory_owned"}}
               d == [o \in Orders |-> order[o].company + order[o].factory]
    <2>1. Extends(MadeOf, d, K)
      BY DEF Extends, MadeOf, IsMade
    <2> HIDE DEF K, d
    <2>2. SumOf(MadeOf, Orders) = Sum(d, K)
      BY <1>2, <2>1, AccountTypes, FiniteIds
    <2> QED BY <2>2 DEF MadeAll, K, d
  <1>6. SentAll = Sum([x \in Shipments |-> shipment[x].n], {x \in Shipments : Gone(x)})
    <2> DEFINE K == {x \in Shipments : Gone(x)}
               d == [x \in Shipments |-> shipment[x].n]
    <2>1. Extends(SentIn, d, K)
      BY DEF Extends, SentIn
    <2> HIDE DEF K, d
    <2>2. SumOf(SentIn, Shipments) = Sum(d, K)
      BY <1>2, <2>1, AccountTypes, FiniteIds
    <2> QED BY <2>2 DEF SentAll, K, d
  <1>7. Fixed(s) = Sum([y \in Stocktakes \X BatchIds \X Counted |->
                          adj[y[1]][y[2]][y[3]].counted - count[y[1]][0][y[2]].q[y[3]]], Approved(s))
    <2> DEFINE K == Approved(s)
               d == [y \in Stocktakes \X BatchIds \X Counted |->
                       adj[y[1]][y[2]][y[3]].counted - count[y[1]][0][y[2]].q[y[3]]]
    <2>0. K \subseteq Triples
      BY DEF Approved, Triples
    <2>1. Extends(Fixes(s), d, K)
      BY <2>0 DEF Extends, Fixes, Change, Triples
    <2> HIDE DEF K, d
    <2>2. SumOf(Fixes(s), Triples) = Sum(d, K)
      BY <1>2, <2>1, AccountTypes, FiniteIds
    <2> QED BY <2>2 DEF Fixed, K, d
  <1>8. BackAll = Sum([y \in Returns |-> returned[y].n], Returns)
    BY DEF BackAll, BackIn, Sum, SumOf
  <1>9. UsedAll = Sum([o \in Orders |-> line[o].consumed + line[o].loss], Orders)
    BY DEF UsedAll, UsedOf, Sum, SumOf
  <1> QED BY <1>1, <1>3, <1>4, <1>5, <1>6, <1>7, <1>8, <1>9

\* Nothing is created, lost or posted twice: stock and goods on their way are
\* what was received, made, used, shipped, returned and corrected
\* (GoodsConserved).
THEOREM GoodsAreConserved == Spec => []GoodsConserved
  <1>1. BooksInv /\ LedgerInv /\ LockedInv /\ GoodsInv /\ [Next]_vars => GoodsInv'
    BY GoodsStep
  <1>2. TypeOK /\ GoodsInv => GoodsConserved
    <2> SUFFICES ASSUME TypeOK, GoodsInv, NEW s \in Skus
                 PROVE  SumOf(AtHand, SkuRows(s)) + Transit(s)
                        = Came(s) + (IF s = Finished THEN MadeAll - SentAll + BackAll ELSE 0)
                          - (IF s = Component THEN UsedAll ELSE 0) + Fixed(s)
      BY AccountsAreSums DEF GoodsConserved
    <2>1. SumOf(AtHand, SkuRows(s)) = Due(s)
      BY DEF GoodsInv
    <2>2. /\ Transit(s) \in Int /\ Came(s) \in Int /\ Fixed(s) \in Int
          /\ MadeAll \in Int /\ UsedAll \in Int /\ SentAll \in Int /\ BackAll \in Int
      BY AllInts
    <2>3. CASE s = Finished /\ s = Component
      BY <2>1, <2>2, <2>3 DEF Due, Own
    <2>4. CASE s = Finished /\ s # Component
      BY <2>1, <2>2, <2>4 DEF Due, Own
    <2>5. CASE s # Finished /\ s = Component
      BY <2>1, <2>2, <2>5 DEF Due, Own
    <2>6. CASE s # Finished /\ s # Component
      BY <2>1, <2>2, <2>6 DEF Due, Own
    <2> QED BY <2>3, <2>4, <2>5, <2>6
  <1>3. BooksInv => TypeOK
    BY DEF BooksInv, FreezeInv
  <1>4. Spec => []GoodsInv
    BY <1>1, GoodsInit, BooksInvariant, LedgerInvariant, LockedInvariant, PTL DEF Spec
  <1> QED BY <1>2, <1>3, <1>4, BooksInvariant, PTL

-----------------------------------------------------------------------------
(* The pages *)

\* An order that is there makes something.
OrdersPlanned == \A o \in Orders : order[o] # NoOrder => order[o].planned > 0

\* What the rows of the pages refer to is there, and nothing is decided that
\* was not asked.
ShipmentsPlaced == \A x \in Shipments : shipment[x] # NoShipment => order[shipment[x].for] # NoOrder
ReturnsUndecided == \A y \in Returns : returned[y].status = "quarantined" => returned[y].by = NoUser
TasksPlaced == \A t \in Stocktakes :
  /\ Targets(t) \subseteq Rows
  /\ task[t].wh # "none" => task[t].status # "none" /\ task[t].scope # "none"

\* A warehouse is merged once, into one that is there.
MergesPlaced ==
  /\ \A m \in Merges : merge[m].status # "none" => merge[m].to \in founded
  /\ \A m, l \in Merges : /\ merge[m].status = "approved" /\ merge[l].status = "approved"
                          /\ merge[m].from = merge[l].from
                          => m = l

PagesInv == OrdersPlanned /\ ShipmentsPlaced /\ ReturnsUndecided /\ TasksPlaced /\ MergesPlaced

\* Nothing that is there goes away, and what comes is planned.
OrdersGrow ==
  \A o \in Orders : /\ order[o] # NoOrder => order'[o] # NoOrder
                    /\ order'[o] # NoOrder => order'[o].planned > 0

LEMMA OneOrder ==
  ASSUME TypeOK, OrdersPlanned, NEW o \in Orders,
         order'[o].status # "none", order'[o].planned > 0,
         \A x \in Orders : x # o => order'[x] = order[x]
  PROVE  OrdersGrow
  <1>1. order'[o] # NoOrder
    BY DEF NoOrder
  <1>2. ASSUME NEW x \in Orders
        PROVE  /\ order[x] # NoOrder => order'[x] # NoOrder
               /\ order'[x] # NoOrder => order'[x].planned > 0
    <2>1. CASE x = o
      BY <1>1, <2>1
    <2>2. CASE x # o
      BY <2>2 DEF OrdersPlanned
    <2> QED BY <2>1, <2>2
  <1> QED BY <1>2 DEF OrdersGrow

LEMMA OrdersStep ==
  ASSUME TypeOK, OrdersPlanned, ProductionNext
  PROVE  OrdersGrow
  <1>1. CASE UNCHANGED order
    BY <1>1 DEF OrdersPlanned, OrdersGrow
  <1>2. ASSUME NEW o \in Orders, NEW n \in 1 .. Allocated, CreateOrder(o, n) PROVE OrdersGrow
    <2>1. /\ order'[o].status = "planned" /\ order'[o].planned = n
          /\ \A x \in Orders : x # o => order'[x] = order[x]
      BY <1>2 DEF CreateOrder, TypeOK, ProductionTypeOK
    <2> QED BY <2>1, OneOrder
  <1>3. ASSUME NEW o \in Orders, order[o].status # "none",
               order'[o].status # "none", order'[o].planned = order[o].planned,
               \A x \in Orders : x # o => order'[x] = order[x]
        PROVE  OrdersGrow
    <2>1. order[o].planned > 0
      BY <1>3 DEF OrdersPlanned, NoOrder
    <2> QED BY <1>3, <2>1, OneOrder
  <1>4. ASSUME NEW o \in Orders, StartOrder(o) PROVE OrdersGrow
    BY <1>3, <1>4 DEF StartOrder, TypeOK, ProductionTypeOK
  <1>5. ASSUME NEW o \in Orders, NEW n, NEW m, NEW d, NEW b, NEW u,
               CompleteOrder(o, n, m, d, b) \/ RequestProductionVariance(o, u, n, m, d)
        PROVE  OrdersGrow
    BY <1>3, <1>5 DEF CompleteOrder, RequestProductionVariance, Completing, TypeOK, ProductionTypeOK
  <1>6. ASSUME NEW o \in Orders, NEW u, NEW b, NEW c,
               \/ ApproveProduction(o, u, b) \/ RejectOverproduction(o, u, b, c)
               \/ RejectProduction(o, u)
        PROVE  OrdersGrow
    BY <1>3, <1>6 DEF ApproveProduction, RejectOverproduction, RejectProduction, Reviews, TypeOK,
                      ProductionTypeOK
  <1>7. ASSUME NEW r, NEW b, NEW for, NEW n, NEW p, Reserve(r, b, for, n, p) PROVE OrdersGrow
    BY <1>1, <1>7 DEF Reserve
  <1>8. ASSUME NEW o \in Orders, NEW m, NEW d, ReportMaterials(o, m, d) \/ ReleaseMaterials(o)
        PROVE  OrdersGrow
    BY <1>1, <1>8 DEF ReportMaterials, ReleaseMaterials
  <1> QED BY <1>2, <1>4, <1>5, <1>6, <1>7, <1>8 DEF ProductionNext

\* What a command does to shipments and returns, as far as the pages care.
DeliveriesGrow ==
  /\ \A x \in Shipments : shipment'[x] # NoShipment =>
       order[shipment'[x].for] # NoOrder /\ shipment'[x].for \in Orders
  /\ \A y \in Returns : returned'[y].status = "quarantined" => returned'[y].by = NoUser

LEMMA ShipmentsStep ==
  ASSUME TypeOK, PagesInv, NEW x \in Shipments, UNCHANGED returned,
         \/ \E o \in Orders : \E n \in 1 .. MadeAtMost(o) : PlanShipment(x, o, n)
         \/ ConfirmShipment(x)
         \/ \E u : RequestDeviation(x, u)
         \/ \E u, decision : DecideDeviation(x, u, decision)
         \/ \E d : Dispatch(x, d)
         \/ \E got, damaged : ReceiveShipment(x, got, damaged)
         \/ ResolveException(x)
  PROVE  DeliveriesGrow
  <1>1. \A z \in Shipments : shipment[z] # NoShipment =>
          order[shipment[z].for] # NoOrder /\ shipment[z].for \in Orders
    BY DEF PagesInv, ShipmentsPlaced, TypeOK, DeliveryTypeOK
  <1>2. \A y \in Returns : returned'[y].status = "quarantined" => returned'[y].by = NoUser
    BY DEF PagesInv, ReturnsUndecided
  <1>3. ASSUME NEW o \in Orders, NEW n, PlanShipment(x, o, n) PROVE DeliveriesGrow
    <2>1. /\ shipment'[x].for = o /\ order[o] # NoOrder
          /\ \A z \in Shipments : z # x => shipment'[z] = shipment[z]
      BY <1>3 DEF PlanShipment, NoShipment, TypeOK, DeliveryTypeOK
    <2> QED BY <1>1, <1>2, <2>1 DEF DeliveriesGrow
  <1>4. ASSUME \/ ConfirmShipment(x)
               \/ \E u : RequestDeviation(x, u)
               \/ \E u, decision : DecideDeviation(x, u, decision)
               \/ \E d : Dispatch(x, d)
               \/ \E got, damaged : ReceiveShipment(x, got, damaged)
               \/ ResolveException(x)
        PROVE  DeliveriesGrow
    <2>1. shipment[x] # NoShipment
      <3>1. \/ shipment[x].status \in {"pending_factory_confirmation", "planned",
                                       "pending_supply_chain", "approved_to_ship", "shipped"}
            \/ shipment[x].exception = "pending_supply_chain"
        BY <1>4 DEF ConfirmShipment, RequestDeviation, DecideDeviation, Dispatch, CanDispatch,
                    ReceiveShipment, ResolveException
      <3> QED BY <3>1 DEF NoShipment
    <2>2. shipment[x] \in ShipmentRow
      BY <2>1 DEF TypeOK, DeliveryTypeOK, ShipmentRow
    <2>3. /\ shipment'[x].for = shipment[x].for
          /\ \A z \in Shipments : z # x => shipment'[z] = shipment[z]
      <3>1. CASE ConfirmShipment(x)
        BY <2>2, <3>1 DEF ConfirmShipment, TypeOK, DeliveryTypeOK, ShipmentRow
      <3>2. ASSUME NEW u, RequestDeviation(x, u) PROVE <2>3!:
        BY <2>2, <3>2 DEF RequestDeviation, TypeOK, DeliveryTypeOK, ShipmentRow
      <3>3. ASSUME NEW u, NEW decision, DecideDeviation(x, u, decision) PROVE <2>3!:
        BY <2>2, <3>3 DEF DecideDeviation, TypeOK, DeliveryTypeOK, ShipmentRow
      <3>4. ASSUME NEW d, Dispatch(x, d) PROVE <2>3!:
        BY <2>2, <3>4 DEF Dispatch, TypeOK, DeliveryTypeOK, ShipmentRow
      <3>5. ASSUME NEW got, NEW damaged, ReceiveShipment(x, got, damaged) PROVE <2>3!:
        BY <2>2, <3>5 DEF ReceiveShipment, TypeOK, DeliveryTypeOK, ShipmentRow
      <3>6. CASE ResolveException(x)
        BY <2>2, <3>6 DEF ResolveException, TypeOK, DeliveryTypeOK, ShipmentRow
      <3> QED BY <1>4, <3>1, <3>2, <3>3, <3>4, <3>5, <3>6
    <2> QED BY <1>1, <1>2, <2>1, <2>3 DEF DeliveriesGrow
  <1> QED BY <1>3, <1>4

LEMMA UndecidedStep ==
  ASSUME TypeOK, PagesInv, NEW y \in Returns, UNCHANGED shipment,
         \/ \E x, w, n, b : ReceiveReturn(y, x, w, n, b)
         \/ \E passed : InspectReturn(y, passed)
         \/ \E u : ProposeDisposition(y, u) \/ ApproveDisposition(y, u) \/ RejectDisposition(y, u)
  PROVE  DeliveriesGrow
  <1>1. \A z \in Shipments : shipment'[z] # NoShipment =>
          order[shipment'[z].for] # NoOrder /\ shipment'[z].for \in Orders
    BY DEF PagesInv, ShipmentsPlaced, TypeOK, DeliveryTypeOK
  <1>2. \A z \in Returns : z # y => returned'[z] = returned[z]
    BY DEF ReceiveReturn, InspectReturn, ProposeDisposition, ApproveDisposition, RejectDisposition,
           TypeOK, DeliveryTypeOK
  <1>3. returned'[y].status = "quarantined" => returned'[y].by = NoUser
    <2>1. ASSUME NEW x, NEW w, NEW n, NEW b, ReceiveReturn(y, x, w, n, b) PROVE returned'[y].by = NoUser
      BY <2>1 DEF ReceiveReturn, TypeOK, DeliveryTypeOK
    <2>2. ASSUME \/ \E passed : InspectReturn(y, passed)
                 \/ \E u : \/ ProposeDisposition(y, u) \/ ApproveDisposition(y, u)
                           \/ RejectDisposition(y, u)
          PROVE  returned'[y].status # "quarantined"
      <3>1. returned[y] \in ReturnRow
        <4>1. returned[y].status # "none"
          BY <2>2 DEF InspectReturn, ProposeDisposition, ApproveDisposition, RejectDisposition,
                      ReviewsReturn
        <4> QED BY <4>1, ReturnType
      <3> QED BY <2>2, <3>1 DEF InspectReturn, ProposeDisposition, ApproveDisposition,
                 RejectDisposition, TypeOK, DeliveryTypeOK, ReturnRow
    <2> QED BY <2>1, <2>2
  <1> QED BY <1>1, <1>2, <1>3 DEF DeliveriesGrow, PagesInv, ReturnsUndecided

LEMMA DeliveriesStep ==
  ASSUME TypeOK, PagesInv, DeliveryNext
  PROVE  DeliveriesGrow
  <1>1. ASSUME NEW x \in Shipments,
               \/ \E o \in Orders : \E n \in 1 .. MadeAtMost(o) : PlanShipment(x, o, n)
               \/ ConfirmShipment(x)
               \/ \E u : RequestDeviation(x, u)
               \/ \E u, decision : DecideDeviation(x, u, decision)
               \/ \E d : Dispatch(x, d)
               \/ \E got, damaged : ReceiveShipment(x, got, damaged)
               \/ ResolveException(x)
        PROVE  DeliveriesGrow
    <2>1. UNCHANGED returned
      BY <1>1 DEF PlanShipment, ConfirmShipment, RequestDeviation, DecideDeviation, Dispatch,
                  ReceiveShipment, ResolveException
    <2> QED BY <1>1, <2>1, ShipmentsStep
  <1>2. ASSUME NEW y \in Returns,
               \/ \E x, w, n, b : ReceiveReturn(y, x, w, n, b)
               \/ \E passed : InspectReturn(y, passed)
               \/ \E u : \/ ProposeDisposition(y, u) \/ ApproveDisposition(y, u)
                         \/ RejectDisposition(y, u)
        PROVE  DeliveriesGrow
    <2>1. UNCHANGED shipment
      BY <1>2 DEF ReceiveReturn, InspectReturn, ProposeDisposition, ApproveDisposition,
                  RejectDisposition
    <2> QED BY <1>2, <2>1, UndecidedStep
  <1> QED BY <1>1, <1>2 DEF DeliveryNext

\* What a command does to snapshots, and to what is counted where.
TasksGrow ==
  \A t \in Stocktakes :
    /\ \A b \in BatchIds : count'[t][0][b] # NoRow => lot[b] # NoLot
    /\ task'[t].wh # "none" => task'[t].status # "none" /\ task'[t].scope # "none"

LEMMA TasksStep ==
  ASSUME TypeOK, PagesInv, StocktakeNext
  PROVE  TasksGrow
  <1>0. \A t \in Stocktakes :
          /\ \A b \in BatchIds : count[t][0][b] # NoRow => lot[b] # NoLot
          /\ task[t].wh # "none" => task[t].status # "none" /\ task[t].scope # "none"
    BY DEF PagesInv, TasksPlaced, Targets, Rows
  <1>1. ASSUME NEW t \in Stocktakes, NEW u \in Users, NEW w \in Warehouses, NEW scope \in ScopesTried,
               NEW sample, OpenStocktake(t, u, w, scope, sample)
        PROVE  TasksGrow
    <2>1. /\ task'[t].status = "first_count" /\ task'[t].scope = scope
          /\ \A x \in Stocktakes : x # t => task'[x] = task[x] /\ count'[x] = count[x]
          /\ \A b \in BatchIds : b \notin Sampled(w, scope, sample) => count'[t][0][b] = NoRow
      BY <1>1 DEF OpenStocktake, TypeOK, StocktakeTypeOK, Rounds
    <2>2. scope # "none"
      BY ScopesAssumption
    <2>3. \A b \in Sampled(w, scope, sample) : lot[b] # NoLot
      BY DEF Sampled, Rows
    <2> QED BY <1>0, <2>1, <2>2, <2>3 DEF TasksGrow
  <1>2. ASSUME NEW t \in Stocktakes, NEW u \in Users, NEW b \in Targets(t), NEW q,
               SubmitCount(t, u, b, q)
        PROVE  TasksGrow
    <2>1. UNCHANGED task /\ \A x \in Stocktakes : count'[x][0] = count[x][0]
      BY <1>2 DEF SubmitCount, Round, TypeOK, StocktakeTypeOK, Rounds
    <2> QED BY <1>0, <2>1 DEF TasksGrow
  <1>3. ASSUME NEW t \in Stocktakes, NEW u \in Users,
               \/ RequireRecount(t, u) \/ CompleteStocktake(t, u) \/ RequestVarianceApproval(t, u)
               \/ ApproveVariance(t, u) \/ RejectVariance(t, u)
        PROVE  TasksGrow
    <2>1. /\ UNCHANGED count
          /\ task'[t].status # "none"
          /\ task'[t].scope = task[t].scope /\ task'[t].wh = task[t].wh
          /\ \A x \in Stocktakes : x # t => task'[x] = task[x]
      BY <1>3 DEF RequireRecount, CompleteStocktake, RequestVarianceApproval, ApproveVariance,
                  RejectVariance, TypeOK, StocktakeTypeOK
    <2> QED BY <1>0, <2>1 DEF TasksGrow
  <1> QED BY <1>1, <1>2, <1>3 DEF StocktakeNext

\* Merges, with warehouses that are there.
LEMMA MergesStep ==
  ASSUME TypeOK, MergedAreClosed, PagesInv, [Next]_vars
  PROVE  MergesPlaced'
  <1>0. MergesPlaced
    BY DEF PagesInv
  <1>1. ASSUME NEW m \in Merges, NEW u, ApproveMerge(m, u) PROVE MergesPlaced'
    <2>1. /\ merge'[m].from = merge[m].from /\ merge'[m].to = merge[m].to
          /\ \A z \in Merges : z # m => merge'[z] = merge[z]
          /\ founded' = founded
      BY <1>1, ApproveMergeEffect
    <2>2. merge[m].from \in active /\ merge[m].status # "none"
      BY <1>1 DEF ApproveMerge, Mergeable, DecidesMerge
    <2>3. \A z \in Merges : merge[z].status = "approved" => merge[z].from # merge[m].from
      BY <2>2 DEF MergedAreClosed
    <2> QED BY <1>0, <2>1, <2>2, <2>3 DEF MergesPlaced
  <1>2. ASSUME \A m \in Merges, u \in Users : ~ApproveMerge(m, u) PROVE MergesPlaced'
    <2>1. \A m \in Merges : merge'[m].status = "approved" => merge'[m] = merge[m]
      BY <1>2, OtherMergeSteps
    <2>2. \A m \in Merges : merge'[m].status # "none" => merge'[m].to \in founded'
      <3>1. CASE UNCHANGED <<merge, founded>>
        BY <1>0, <3>1 DEF MergesPlaced
      <3>2. ASSUME NEW w, CreateWarehouse(w) PROVE <2>2!:
        BY <1>0, <3>2 DEF MergesPlaced, CreateWarehouse
      <3>3. ASSUME NEW m \in Merges, NEW u \in Users, NEW v \in Warehouses, NEW w \in Warehouses,
                   RequestMerge(m, u, v, w)
            PROVE  <2>2!:
        <4>1. /\ merge'[m].to = w /\ w \in active
              /\ \A z \in Merges : z # m => merge'[z] = merge[z]
              /\ UNCHANGED founded
          BY <3>3 DEF RequestMerge, TypeOK, WarehousingTypeOK
        <4> QED BY <1>0, <4>1 DEF MergesPlaced, MergedAreClosed
      <3>4. ASSUME NEW m \in Merges, NEW u \in Users, RejectMerge(m, u) PROVE <2>2!:
        <4>1. merge[m].status = "pending" /\ merge' = [merge EXCEPT ![m].status = "rejected"]
          BY <3>4 DEF RejectMerge, DecidesMerge
        <4>2. merge[m] \in [status: {"pending", "approved", "rejected"}, from: Warehouses,
                            to: Warehouses, by: Users]
          BY <4>1 DEF TypeOK, WarehousingTypeOK, NoMerge
        <4>3. /\ merge'[m].to = merge[m].to
              /\ \A z \in Merges : z # m => merge'[z] = merge[z]
              /\ UNCHANGED founded
          BY <3>4, <4>1, <4>2 DEF RejectMerge, DecidesMerge, TypeOK, WarehousingTypeOK
        <4> QED BY <1>0, <4>1, <4>3 DEF MergesPlaced
      <3>5. WarehousingNext =>
              \/ UNCHANGED <<merge, founded>>
              \/ \E w \in Warehouses : CreateWarehouse(w)
              \/ \E m \in Merges, u \in Users :
                   \/ \E v, w \in Warehouses : RequestMerge(m, u, v, w)
                   \/ RejectMerge(m, u)
        BY <1>2 DEF WarehousingNext, ReceivePurchase, InspectBatch, RequestTransfer, ReviewTransfer,
               ShipTransfer, ReceiveTransfer, Deactivate, stockVars, warehousingVars, siteVars
      <3>6. WarehousingNext \/ UNCHANGED <<merge, founded>>
        BY DEF Next, vars, warehousingVars, siteVars
      <3> QED BY <3>1, <3>2, <3>3, <3>4, <3>5, <3>6
    <2> QED BY <1>0, <2>1, <2>2 DEF MergesPlaced
  <1> QED BY <1>1, <1>2

LEMMA PagesStep ==
  ASSUME FreezeInv, ReturnsPlaced, MergedAreClosed, PagesInv, [Next]_vars
  PROVE  PagesInv'
  <1>0. /\ TypeOK /\ OrdersPlanned /\ ShipmentsPlaced /\ ReturnsUndecided /\ TasksPlaced
    BY DEF FreezeInv, PagesInv
  <1>1. OrdersGrow
    <2>1. CASE UNCHANGED order
      BY <1>0, <2>1 DEF OrdersGrow, OrdersPlanned
    <2> QED BY <1>0, <2>1, OrdersStep DEF Next, vars, productionVars
  <1>2. DeliveriesGrow
    <2>1. CASE UNCHANGED <<shipment, returned>>
      BY <1>0, <2>1 DEF DeliveriesGrow, ShipmentsPlaced, ReturnsUndecided, TypeOK, DeliveryTypeOK
    <2> QED BY <1>0, <2>1, DeliveriesStep DEF Next, vars, deliveryVars
  <1>3. TasksGrow
    <2>1. CASE UNCHANGED <<task, count>>
      BY <1>0, <2>1 DEF TasksGrow, TasksPlaced, Targets, Rows
    <2>2. CASE WarehousingNext
      BY <2>1, <2>2 DEF WarehousingNext, ReceivePurchase, InspectBatch, RequestTransfer, ReviewTransfer,
                  ShipTransfer, ReceiveTransfer, Deactivate, CreateWarehouse, RequestMerge,
                  DecidesMerge, ApproveMerge, RejectMerge, stocktakeVars
    <2>3. CASE ProductionNext \/ DeliveryNext \/ UNCHANGED vars
      BY <2>1, <2>3, ProductionLeavesStocktakes DEF DeliveryNext, stocktakeVars, vars
    <2> QED BY <1>0, <2>2, <2>3, TasksStep DEF Next
  <1>4. \A b \in BatchIds : lot[b] # NoLot => lot'[b] # NoLot
    BY LotsStay
  <1>5. OrdersPlanned' /\ ShipmentsPlaced' /\ ReturnsUndecided'
    BY <1>1, <1>2 DEF OrdersGrow, DeliveriesGrow, OrdersPlanned, ShipmentsPlaced, ReturnsUndecided
  <1>6. TasksPlaced'
    BY <1>3, <1>4 DEF TasksGrow, TasksPlaced, Targets, Rows
  <1> QED BY <1>0, <1>5, <1>6, MergesStep DEF PagesInv

LEMMA PagesInvariant == Spec => [](TypeOK /\ PagesInv)
  <1>1. Init => PagesInv
    <2>1. Init => OrdersPlanned /\ ShipmentsPlaced /\ ReturnsUndecided
      BY DEF Init, ProductionInit, DeliveryInit, OrdersPlanned, ShipmentsPlaced, ReturnsUndecided,
             NoReturn
    <2>2. Init => TasksPlaced
      BY DEF Init, StocktakeInit, TasksPlaced, Targets, Rounds, NoTask
    <2>3. Init => MergesPlaced
      BY DEF Init, WarehousingInit, MergesPlaced, NoMerge
    <2> QED BY <2>1, <2>2, <2>3 DEF PagesInv
  <1>2. FreezeInv /\ ReturnsPlaced /\ MergedAreClosed /\ PagesInv /\ [Next]_vars => PagesInv'
    BY PagesStep
  <1> QED BY <1>1, <1>2, FreezeInvariant, MergesInvariant, TypeCorrect, PTL DEF Spec

\* The rows of the page of the inventory parse, whichever of them are shown.
LEMMA InventoryShown ==
  ASSUME TypeOK, NEW v, NEW asked
  PROVE  InventoryReply(v, asked) # 503
  <1>1. ASSUME NEW b \in Rows PROVE BatchParses(b)
    <2>1. lot[b] \in Lots /\ qty[b] \in [Buckets -> Nat]
      BY DEF TypeOK, StockTypeOK, Rows
    <2> QED BY <2>1 DEF BatchParses, Lots, Owners
  <1>2. ASSUME NEW r \in Reservations, reservation[r].status = "active" PROVE ReservationParses(r)
    <2>1. reservation[r].left \in Nat
      BY <1>2 DEF TypeOK, ProductionTypeOK, NoReservation
    <2> QED BY <2>1 DEF ReservationParses
  <1>3. ASSUME NEW scope, NEW x \in ShownTransfers(scope) PROVE TransferParses(x)
    <2>1. Sites(scope) \subseteq Warehouses
      BY DEF Sites, TypeOK, WarehousingTypeOK
    <2>2. {transfer[x].from, transfer[x].to} \cap Warehouses # {} /\ x \in Transfers
      BY <2>1 DEF ShownTransfers
    <2>3. transfer[x] # NoTransfer
      BY <2>2, FoundedAssumption DEF NoTransfer
    <2>4. transfer[x].n \in Nat \ {0}
      BY <2>2, <2>3 DEF TypeOK, WarehousingTypeOK
    <2> QED BY <2>4 DEF TransferParses
  <1>4. \A scope, selected :
          /\ \A b \in ShownBatches(selected) : BatchParses(b)
          /\ \A r \in ShownReservations(selected) : ReservationParses(r)
          /\ \A x \in ShownTransfers(scope) : TransferParses(x)
    BY <1>1, <1>2, <1>3 DEF ShownBatches, ShownReservations
  <1> QED BY <1>4 DEF InventoryReply, Reply

LEMMA StocktakesShown ==
  ASSUME TypeOK, TasksPlaced, NEW v
  PROVE  StocktakesReply(v) # 503
  <1>1. ASSUME NEW scope, NEW t \in ShownStocktakes(scope) PROVE StocktakeParses(t)
    <2>1. t \in Stocktakes /\ task[t].wh # "none"
      BY FoundedAssumption DEF ShownStocktakes, Sites, TypeOK, WarehousingTypeOK
    <2>2. /\ task[t].status \in Statuses /\ task[t].status # "none"
          /\ task[t].scope \in Scopes
      BY <2>1 DEF TasksPlaced, TypeOK, StocktakeTypeOK
    <2> QED BY <2>2 DEF StocktakeParses, Statuses, Open, Scopes
  <1>2. ASSUME NEW t \in Stocktakes, NEW x \in CountsOf(t) PROVE CountParses(t, x)
    <2>1. x[1] \in Rounds /\ x[2] \in BatchIds
      BY DEF CountsOf, Rounds
    <2>2. count[t][x[1]][x[2]] \in Row \cup {NoRow}
      BY <2>1 DEF TypeOK, StocktakeTypeOK
    <2>3. count[t][x[1]][x[2]].q \in [Counted -> Nat]
      BY <2>2 DEF Row, NoRow, Counts
    <2> QED BY <2>3 DEF CountParses
  <1>3. \A scope : \A t \in ShownStocktakes(scope) :
          /\ StocktakeParses(t) /\ Targets(t) \subseteq Rows
          /\ \A x \in CountsOf(t) : CountParses(t, x)
    BY <1>1, <1>2 DEF TasksPlaced, ShownStocktakes
  <1> QED BY <1>3 DEF StocktakesReply, Reply

LEMMA WarehousesShown ==
  ASSUME TypeOK, MergesPlaced, NEW v
  PROVE  WarehousesReply(v) # 503
  <1>1. ASSUME NEW w \in founded PROVE WarehouseParses(w)
    <2>1. CASE MergedInto(w) = {}
      BY <2>1 DEF WarehouseParses
    <2>2. CASE MergedInto(w) # {}
      <3>1. PICK m \in Merges : merge[m].status = "approved" /\ merge[m].from = w
        BY <2>2 DEF MergedInto
      <3>2. merge[m].to \in founded
        BY <3>1 DEF MergesPlaced
      <3>3. {z \in Merges : merge[z].status = "approved" /\ merge[z].from = w} = {m}
        BY <3>1 DEF MergesPlaced
      <3>4. MergedInto(w) = {merge[m].to}
        BY <3>3 DEF MergedInto
      <3> QED BY <3>2, <3>4 DEF WarehouseParses
    <2> QED BY <2>1, <2>2
  <1>2. \A b \in Rows, k \in Buckets : qty[b][k] >= 0
    BY DEF Rows, TypeOK, StockTypeOK
  <1> QED BY <1>1, <1>2 DEF WarehousesReply, Reply

\* What has been made of an order counts from none up.
LEMMA OrderIsPlanned ==
  ASSUME TypeOK, OrdersPlanned, NEW o \in Orders, order[o] # NoOrder
  PROVE  /\ order[o].planned \in Nat /\ order[o].planned > 0
         /\ Completed(o) >= 0
  BY DEF OrdersPlanned, TypeOK, ProductionTypeOK, Completed

LEMMA ShipmentsShown ==
  ASSUME TypeOK, OrdersPlanned, ShipmentsPlaced, NEW v
  PROVE  ShipmentsReply(v) # 503
  <1>1. ASSUME NEW scope, NEW x \in ShownShipments(scope)
        PROVE  /\ ShipmentParses(x)
               /\ order[shipment[x].for] # NoOrder
               /\ ExecutionParses(shipment[x].for)
    <2>1. x \in Shipments /\ shipment[x] # NoShipment
      BY DEF ShownShipments, OfFactory
    <2>2. /\ shipment[x].n \in Nat \ {0} /\ shipment[x].got \in Nat
          /\ shipment[x].for \in Orders /\ order[shipment[x].for] # NoOrder
      BY <2>1 DEF ShipmentsPlaced, TypeOK, DeliveryTypeOK
    <2> QED BY <2>2, OrderIsPlanned DEF ShipmentParses, ExecutionParses
  <1> QED BY <1>1 DEF ShipmentsReply, Reply

LEMMA OrdersShown ==
  ASSUME TypeOK, OrdersPlanned, NEW v
  PROVE  OrdersReply(v) = 503 <=>
           \E o \in ShownOrders(OrdersScope(v)) : order[o].status = "variance_rejected"
  <1> DEFINE scope == OrdersScope(v)
  <1>1. ASSUME NEW o \in ShownOrders(scope)
        PROVE  /\ OrderParses(o) /\ LineParses(o)
               /\ HasReport(o) /\ ~ReportParses(o) <=> order[o].status = "variance_rejected"
    <2>1. o \in Orders /\ order[o] # NoOrder
      BY DEF ShownOrders, OfFactory
    <2>2. PerFinished * order[o].planned > 0
      <3>1. \A n, m \in Nat \ {0} : n * m > 0
        BY SMT
      <3> QED BY <2>1, <3>1, OrderIsPlanned, ProductionAssumption
    <2>3. OrderParses(o) /\ LineParses(o)
      BY <2>1, <2>2, OrderIsPlanned DEF OrderParses, LineParses, TypeOK, ProductionTypeOK
    <2>4. HasReport(o) /\ ~ReportParses(o) <=> order[o].status = "variance_rejected"
      <3>1. CASE order[o].status = "variance_rejected"
        BY <3>1 DEF HasReport, ReportParses, ReportResult
      <3>2. CASE order[o].status # "variance_rejected"
        BY <3>2 DEF ReportParses, ReportResult, ReportedResult
      <3> QED BY <3>1, <3>2
    <2> QED BY <2>3, <2>4
  <1>2. scope = "forbidden" => ShownOrders(scope) = {}
    BY DEF ShownOrders, OfFactory
  <1> QED BY <1>1, <1>2 DEF OrdersReply, Reply

LEMMA ReturnsShown ==
  ASSUME TypeOK, ReturnsUndecided, NEW v
  PROVE  ReturnsReply(v) = 503 <=>
           \E y \in ShownReturns(ReturnsScope(v)) :
              returned[y].status = "pending_supply_chain" /\ returned[y].by # NoUser
  <1> DEFINE scope == ReturnsScope(v)
  <1>1. ASSUME NEW y \in ShownReturns(scope)
        PROVE  /\ ReturnParses(y) /\ ReturnInspectionParses(y)
               /\ (returned[y].by # NoUser /\ ~DispositionParses(y)) <=>
                    (returned[y].status = "pending_supply_chain" /\ returned[y].by # NoUser)
    <2>1. y \in Returns /\ returned[y] # NoReturn
      BY DEF ShownReturns, OfFactory
    <2>2. /\ returned[y].n \in Nat \ {0} /\ returned[y].passed \in Nat
          /\ returned[y].passed =< returned[y].n /\ returned[y].status \in ReturnStatuses
      BY <2>1 DEF TypeOK, DeliveryTypeOK
    <2>3. ReturnParses(y) /\ ReturnInspectionParses(y)
      BY <2>2 DEF ReturnParses, ReturnInspectionParses, ReturnStatuses
    <2>4. returned[y].status = "quarantined" => returned[y].by = NoUser
      BY <2>1 DEF ReturnsUndecided
    <2>5. ~DispositionParses(y) <=> returned[y].status \in {"quarantined", "pending_supply_chain"}
      BY <2>2 DEF DispositionParses, DispositionStatus, ReturnStatuses
    <2> QED BY <2>3, <2>4, <2>5
  <1>2. scope = "forbidden" => ShownReturns(scope) = {}
    BY DEF ShownReturns, OfFactory
  <1> QED BY <1>1, <1>2 DEF ReturnsReply, Reply

\* The pages over the inventory answer, whatever commands came before: all of
\* them always, but the one of orders while a deviation is rejected, and the
\* one of returns while a disposition is under review, of a row it shows.
THEOREM PagesAreAnswered == Spec => []PagesAnswer
  <1>1. TypeOK /\ PagesInv => PagesAnswer
    BY InventoryShown, StocktakesShown, WarehousesShown, ShipmentsShown, OrdersShown, ReturnsShown
       DEF PagesInv, PagesAnswer
  <1> QED BY <1>1, PagesInvariant, PTL

-----------------------------------------------------------------------------
(* What the pages offer *)

\* A batch that is not of a return lies in a warehouse that is there.
LotsHoused == \A b \in Rows : lot[b].source # "return" => lot[b].wh \in founded

LEMMA LotsHousedInvariant == Spec => []LotsHoused
  <1>1. Init => LotsHoused
    BY DEF Init, StockInit, LotsHoused, Rows
  <1>2. ASSUME MergedAreClosed, LotsHoused, [Next]_vars, [Sealed]_vars
        PROVE  LotsHoused'
    <2>1. founded \subseteq founded'
      <3>1. WarehousingNext => founded \subseteq founded'
        BY DEF WarehousingNext, ReceivePurchase, InspectBatch, RequestTransfer, ReviewTransfer,
               ShipTransfer, ReceiveTransfer, Deactivate, CreateWarehouse, RequestMerge, RejectMerge,
               ApproveMerge, DecidesMerge, warehousingVars, siteVars
      <3> QED BY <1>2, <3>1 DEF Next, vars, warehousingVars, siteVars
    <2>2. ASSUME NEW b \in BatchIds, lot'[b] # NoLot, lot'[b].source # "return"
          PROVE  lot'[b].wh \in founded'
      <3>1. CASE lot'[b] = lot[b]
        BY <1>2, <2>1, <2>2, <3>1 DEF LotsHoused, Rows
      <3>2. CASE lot'[b] # lot[b]
        <4>1. Sealed
          BY <1>2, <3>2 DEF vars, stockVars
        <4> QED BY <1>2, <2>1, <2>2, <3>2, <4>1 DEF Sealed, MergedAreClosed
      <3> QED BY <3>1, <3>2
    <2> QED BY <2>2 DEF LotsHoused, Rows
  <1>3. Spec => [][Sealed]_vars
    BY ClosedWarehousesStayEmpty DEF ClosedWarehouseSealed, Sealed
  <1> QED BY <1>1, <1>2, <1>3, MergesInvariant, PTL DEF Spec

\* Batches hold something together if one of them does.
LEMMA HeldTogether ==
  ASSUME TypeOK, NEW K \in SUBSET BatchIds
  PROVE  Held(K) > 0 <=> \E b \in K : OnHand(b) # 0
  <1> DEFINE f == [b \in BatchIds |-> OnHand(b)]
  <1>1. f \in [BatchIds -> Nat] /\ f \in [BatchIds -> Int] /\ \A b \in BatchIds : f[b] = OnHand(b)
    BY DEF TypeOK, StockTypeOK, OnHand, Buckets
  <1>2. Held(K) = SumOf(f, K)
    BY DEF Held, Sum, SumOf
  <1> HIDE DEF f
  <1>3. IsFiniteSet(BatchIds)
    BY BatchIdsAssumption
  <1>4. SumOf(f, K) \in Nat /\ \A b \in K : f[b] =< SumOf(f, K)
    BY <1>1, <1>3, SumNat
  <1>5. CASE \A b \in K : OnHand(b) = 0
    <2>1. {} \in SUBSET K /\ \A b \in K \ {} : f[b] = 0
      BY <1>1, <1>5
    <2>2. SumOf(f, K) = SumOf(f, {})
      BY <1>1, <1>3, <2>1, SumZeroOutside
    <2> QED BY <1>2, <1>5, <2>2, SumEmpty
  <1>6. ASSUME NEW b \in K, OnHand(b) # 0 PROVE Held(K) > 0
    BY <1>1, <1>2, <1>4, <1>6
  <1> QED BY <1>5, <1>6

\* A warehouse is shown an end of some transfer if it is one of an open one.
LEMMA TransfersBlock ==
  ASSUME TypeOK, NEW w
  PROVE  TransferBlocker(w) > 0 <=> InTransfer(w)
  <1> DEFINE S == {x \in Transfers : /\ transfer[x].status \notin {"none", "received", "rejected"}
                                     /\ w \in {transfer[x].from, transfer[x].to}}
  <1>1. \A x \in Transfers : transfer[x].status \in TransferStatuses \cup {"none"}
    BY DEF TypeOK, WarehousingTypeOK, NoTransfer
  <1>2. InTransfer(w) <=> S # {}
    BY <1>1 DEF InTransfer, TransferStatuses
  <1>3. IsFiniteSet(S)
    BY TransfersAssumption, FS_Subset
  <1>4. TransferBlocker(w) = Cardinality(S)
    BY DEF TransferBlocker
  <1> HIDE DEF S
  <1>5. Cardinality(S) \in Nat /\ (Cardinality(S) = 0 <=> S = {})
    BY <1>3, FS_EmptySet, FS_CardinalityType
  <1> QED BY <1>2, <1>4, <1>5

\* While no order is there, none of the allocation is planned.
LEMMA ItemsLeft ==
  ASSUME TypeOK, \A o \in Orders : order[o] = NoOrder
  PROVE  Planned = 0
  <1> DEFINE f == [o \in Orders |-> order[o].planned]
  <1>1. f \in [Orders -> Int] /\ \A o \in Orders : f[o] = 0
    BY DEF NoOrder
  <1>2. Planned = SumOf(f, Orders)
    BY DEF Planned, Sum, SumOf
  <1> HIDE DEF f
  <1>3. Orders \in SUBSET Orders /\ {} \in SUBSET Orders /\ \A o \in Orders \ {} : f[o] = 0
    BY <1>1
  <1>4. SumOf(f, Orders) = SumOf(f, {})
    BY <1>1, <1>3, OrdersAssumption, SumZeroOutside
  <1> QED BY <1>2, <1>4, SumEmpty

\* What is shown of a warehouse is what keeps it from being closed, but for
\* the counting of it; a batch shown as pending lies in a warehouse that is
\* there; an order item that is offered has all of its allocation left.
OffersFounded ==
  /\ BlockersShown
  /\ \A b \in PendingBatches : PendingParses(b)
  /\ ItemOffered("factory") =>
       Planned + Allocated =< Allocated /\ \A o \in Orders : order[o] = NoOrder

\* What the pages offer is what the guards of the commands ask for, as far as
\* these read what the pages read: of OffersHold, all but that nothing else
\* keeps the commands from being taken.
THEOREM OffersAreFounded == Spec => []OffersFounded
  <1>1. ASSUME TypeOK, LotsHoused
        PROVE  OffersFounded
    <2>1. ASSUME NEW w \in active
          PROVE  Blocked(w) <=> \/ InventoryBlocker(w) > 0
                                \/ TransferBlocker(w) > 0
                                \/ \E t \in Stocktakes : IsOpen(t) /\ task[t].wh = w
      <3>1. {b \in Rows : lot[b].wh = w} \in SUBSET BatchIds
        BY DEF Rows
      <3>2. InventoryBlocker(w) > 0 <=> \E b \in Rows : lot[b].wh = w /\ OnHand(b) # 0
        BY <1>1, <3>1, HeldTogether DEF InventoryBlocker
      <3> QED BY <1>1, <3>2, TransfersBlock DEF Blocked
    <2>2. \A b \in PendingBatches : PendingParses(b)
      BY <1>1 DEF PendingBatches, PendingParses, Traceable, LotsHoused
    <2>3. ASSUME ItemOffered("factory")
          PROVE  Planned + Allocated =< Allocated /\ \A o \in Orders : order[o] = NoOrder
      <3>1. \A o \in Orders : order[o] = NoOrder
        BY <2>3 DEF ItemOffered
      <3>2. Planned = 0 /\ Allocated \in Nat
        BY <1>1, <3>1, ItemsLeft, ProductionAssumption
      <3> QED BY <3>1, <3>2
    <2> QED BY <2>1, <2>2, <2>3 DEF OffersFounded, BlockersShown
  <1> QED BY <1>1, TypeCorrect, LotsHousedInvariant, PTL
=============================================================================
