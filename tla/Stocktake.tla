----------------------------- MODULE Stocktake ------------------------------
(***************************************************************************)
(* Stocktakes: opening one freezes stock and snapshots it, two blind count *)
(* rounds compare against the snapshot, and an approved variance writes    *)
(* the counted quantities back. The freeze every other stock command       *)
(* consults is defined here, and so is the outbox key each command of this *)
(* component must insert: the key is UNIQUE, so a second insert of the     *)
(* same key rolls the whole command back.                                  *)
(***************************************************************************)
EXTENDS Stock

CONSTANTS Stocktakes,  \* ids of the stocktakes that may be opened (a bound)
          Users,       \* accounts that may count
          Staff,       \* of these, the ones with role admin or supply_chain
          ScopesTried, \* scopes a stocktake may be opened with (a bound)
          Miscounted,  \* buckets a counter may get wrong (a bound)
          MaxCount     \* largest wrong count (a bound)

ASSUME StocktakesAssumption == IsFiniteSet(Stocktakes)
ASSUME StaffAssumption == Staff \subseteq Users
ASSUME MaxCountAssumption == MaxCount \in Nat
ASSUME ScopesAssumption ==
  ScopesTried \subseteq {"full_warehouse", "sku_sample", "batch"}

VARIABLES task,    \* stocktakes rows
          count,   \* stocktake_counts rows: count[t][round][b], round 0 the snapshot
          adj,     \* stocktake_adjustments rows: adj[t][b][k]
          outbox   \* deduplication keys in outbox_messages

stocktakeVars == <<task, count, adj, outbox>>

Open     == {"first_count", "recount", "pending_approval"}
Statuses == Open \cup {"none", "completed"}
Scopes   == {"full_warehouse", "sku_sample", "batch"}
Rounds   == 0 .. 2
NoUser   == "nobody"

Counts == [Counted -> Nat]
Row    == [q: Counts, by: Users]
NoRow  == [q |-> [k \in Counted |-> 0], by |-> NoUser]

NoTask == [status |-> "none", wh |-> "none", scope |-> "none", by |-> NoUser]
NoAdj  == [decision |-> "none", counted |-> 0]

\* r3:<type>:stocktake:<id>[:<round>:<batch>]; 0 where a key has no suffix.
Key(type, t, round, b) == <<type, t, round, b>>
KeyTypes == {"CountSubmitted", "StocktakeRecountRequired", "StocktakeCompleted",
             "VarianceApprovalRequested"}

StocktakeTypeOK ==
  /\ task \in [Stocktakes -> [status: Statuses, wh: Warehouses \cup {"none"},
                              scope: Scopes \cup {"none"}, by: Users \cup {NoUser}]]
  /\ count \in [Stocktakes -> [Rounds -> [BatchIds -> Row \cup {NoRow}]]]
  /\ adj \in [Stocktakes -> [BatchIds -> [Counted ->
                [decision: {"none", "pending", "approved", "rejected"}, counted: Nat]]]]
  /\ outbox \subseteq KeyTypes \X Stocktakes \X Rounds \X (BatchIds \cup {0})

StocktakeInit ==
  /\ task = [t \in Stocktakes |-> NoTask]
  /\ count = [t \in Stocktakes |-> [r \in Rounds |-> [b \in BatchIds |-> NoRow]]]
  /\ adj = [t \in Stocktakes |-> [b \in BatchIds |-> [k \in Counted |-> NoAdj]]]
  /\ outbox = {}

-----------------------------------------------------------------------------
IsOpen(t) == task[t].status \in Open

Targets(t) == {b \in BatchIds : count[t][0][b] # NoRow}

\* freezeExists: does stocktake t freeze SKU s of warehouse w?
Freezes(t, w, s) ==
  /\ IsOpen(t)
  /\ task[t].wh = w
  /\ \/ task[t].scope = "full_warehouse"
     \/ \E b \in Targets(t) : lot[b].sku = s

Frozen(w, s) == \E t \in Stocktakes : Freezes(t, w, s)

Enqueue(key) == /\ key \notin outbox
                /\ outbox' = outbox \cup {key}

Round(t) == IF task[t].status = "recount" THEN 2 ELSE 1

\* Buckets of batch b whose count in round r differs from the snapshot.
Differs(t, r, b) == {k \in Counted : count[t][r][b].q[k] # count[t][0][b].q[k]}

HasVariance(t, r) == \E b \in Targets(t) : Differs(t, r, b) # {}

\* The adjustments of one count row exist and are all rejected.
AllRejected(t, b) ==
  LET decided == {adj[t][b][k].decision : k \in Counted} \ {"none"}
  IN  decided = {"rejected"}

(***************************************************************************)
(* openStocktake. The sample lists SKUs or batches; a full-warehouse task  *)
(* takes every row of the warehouse, empty ones included.                  *)
(***************************************************************************)
Sampled(w, scope, sample) ==
  {b \in Rows : /\ lot[b].wh = w
                /\ \/ scope = "full_warehouse"
                   \/ scope = "sku_sample" /\ lot[b].sku \in sample
                   \/ scope = "batch" /\ b \in sample}

\* The samples tried list one SKU or one batch (a bound).
Samples(scope) == CASE scope = "full_warehouse" -> {{}}
                    [] scope = "sku_sample"     -> {{s} : s \in Skus}
                    [] scope = "batch"          -> {{b} : b \in BatchIds}

\* Mutant: a stocktake under recount or review no longer counts as active.
NoOpenCount(w) == \A x \in Stocktakes : ~(task[x].status = "first_count" /\ task[x].wh = w)

NoOpenStocktake(w) == \A x \in Stocktakes : ~(IsOpen(x) /\ task[x].wh = w)

OpenStocktake(t, u, w, scope, sample) ==
  LET targets == Sampled(w, scope, sample)
  IN /\ u \in Staff
     /\ task[t].status = "none"
     /\ NoOpenStocktake(w)
     /\ targets # {}
     /\ task' = [task EXCEPT ![t] = [status |-> "first_count", wh |-> w,
                                     scope |-> scope, by |-> NoUser]]
     /\ count' = [count EXCEPT ![t][0] =
                    [b \in BatchIds |->
                       IF b \in targets
                       THEN [q |-> [k \in Counted |-> qty[b][k]], by |-> u]
                       ELSE NoRow]]
     /\ UNCHANGED <<adj, outbox>>
     /\ UNCHANGED stockVars

(***************************************************************************)
(* submit_count. A row already counted this round is overwritten only in   *)
(* the recount, once a reviewer has rejected every adjustment made of it.  *)
(***************************************************************************)
SubmitCount(t, u, b, q) ==
  LET r == Round(t)
  IN /\ task[t].status \in {"first_count", "recount"}
     /\ b \in Targets(t)
     /\ count[t][r][b] # NoRow => r = 2 /\ AllRejected(t, b)
     /\ count' = [count EXCEPT ![t][r][b] = [q |-> q, by |-> u]]
     /\ Enqueue(Key("CountSubmitted", t, r, b))
     /\ UNCHANGED <<task, adj>>
     /\ UNCHANGED stockVars

\* What a counter may report: the snapshot, or one bucket of it miscounted.
CountInputs(t, b) ==
  {count[t][0][b].q} \cup
  {[count[t][0][b].q EXCEPT ![k] = n] : k \in Miscounted \cap Counted, n \in 0 .. MaxCount}

-----------------------------------------------------------------------------
\* Mutant: anyone who counted first may also recount.
CanFinishAlone(t, u) == /\ u \in Staff
                        /\ task[t].status \in {"first_count", "recount"}
                        /\ \A b \in Targets(t) : count[t][Round(t)][b] # NoRow

\* finish_round: the guards its three outcomes share.
CanFinish(t, u) ==
  LET r == Round(t)
  IN /\ u \in Staff
     /\ task[t].status \in {"first_count", "recount"}
     /\ \A b \in Targets(t) : count[t][r][b] # NoRow
     /\ r = 2 => \A b \in Targets(t) : count[t][2][b].by # count[t][1][b].by

RequireRecount(t, u) ==
  /\ CanFinish(t, u)
  /\ Round(t) = 1
  /\ HasVariance(t, 1)
  /\ task' = [task EXCEPT ![t].status = "recount"]
  /\ Enqueue(Key("StocktakeRecountRequired", t, 0, 0))
  /\ UNCHANGED <<count, adj>>
  /\ UNCHANGED stockVars

CompleteStocktake(t, u) ==
  /\ CanFinish(t, u)
  /\ ~HasVariance(t, Round(t))
  /\ task' = [task EXCEPT ![t].status = "completed"]
  /\ Enqueue(Key("StocktakeCompleted", t, 0, 0))
  /\ UNCHANGED <<count, adj>>
  /\ UNCHANGED stockVars

\* Each variance becomes a pending adjustment, or revises a rejected one.
RequestVarianceApproval(t, u) ==
  /\ CanFinish(t, u)
  /\ Round(t) = 2
  /\ HasVariance(t, 2)
  /\ \A b \in Targets(t) : \A k \in Differs(t, 2, b) :
        adj[t][b][k].decision \in {"none", "rejected"}
  /\ adj' = [adj EXCEPT ![t] =
               [b \in BatchIds |-> [k \in Counted |->
                  IF b \in Targets(t) /\ k \in Differs(t, 2, b)
                  THEN [decision |-> "pending", counted |-> count[t][2][b].q[k]]
                  ELSE adj[t][b][k]]]]
  /\ task' = [task EXCEPT ![t].status = "pending_approval", ![t].by = u]
  /\ Enqueue(Key("VarianceApprovalRequested", t, 0, 0))
  /\ UNCHANGED count
  /\ UNCHANGED stockVars

-----------------------------------------------------------------------------
Pending(t) == {x \in BatchIds \X Counted : adj[t][x[1]][x[2]].decision = "pending"}

Decided(t, decision) ==
  [adj EXCEPT ![t] = [b \in BatchIds |-> [k \in Counted |->
     IF adj[t][b][k].decision = "pending"
     THEN [adj[t][b][k] EXCEPT !.decision = decision]
     ELSE adj[t][b][k]]]]

\* The counted quantities, in the buckets with a pending adjustment.
Adjusted(t) ==
  [b \in BatchIds |-> [k \in Buckets |->
     IF k \in Counted /\ adj[t][b][k].decision = "pending"
     THEN adj[t][b][k].counted ELSE qty[b][k]]]

\* One stocktake_adjustment movement per adjustment: counted less snapshot.
VarianceOf(t, s) ==
  Sum([x \in BatchIds \X Counted |->
         adj[t][x[1]][x[2]].counted - count[t][0][x[1]].q[x[2]]],
      {x \in Pending(t) : lot[x[1]].sku = s})

(***************************************************************************)
(* decideApproval with effect stocktake_variance, approved. Each UPDATE of *)
(* a batch is conditional on the bucket still being what was snapshotted.  *)
(***************************************************************************)
ApproveVariance(t, u) ==
  /\ u \in Staff /\ u # task[t].by
  /\ task[t].status = "pending_approval"
  /\ \A x \in Pending(t) : qty[x[1]][x[2]] = count[t][0][x[1]].q[x[2]]
  /\ qty' = Adjusted(t)
  /\ ledger' = [ledger EXCEPT ![task[t].wh] = [s \in Skus |-> @[s] + VarianceOf(t, s)]]
  /\ adj' = Decided(t, "approved")
  /\ task' = [task EXCEPT ![t].status = "completed"]
  /\ UNCHANGED <<lot, active, count, outbox>>

RejectVariance(t, u) ==
  /\ u \in Staff /\ u # task[t].by
  /\ task[t].status = "pending_approval"
  /\ adj' = Decided(t, "rejected")
  /\ task' = [task EXCEPT ![t].status = "recount"]
  /\ UNCHANGED <<count, outbox>>
  /\ UNCHANGED stockVars

StocktakeNext ==
  \E t \in Stocktakes, u \in Users :
    \/ \E w \in Warehouses, scope \in ScopesTried : \E sample \in Samples(scope) :
          OpenStocktake(t, u, w, scope, sample)
    \/ \E b \in Targets(t) : \E q \in CountInputs(t, b) : SubmitCount(t, u, b, q)
    \/ RequireRecount(t, u)
    \/ CompleteStocktake(t, u)
    \/ RequestVarianceApproval(t, u)
    \/ ApproveVariance(t, u)
    \/ RejectVariance(t, u)
=============================================================================
