---------------------------- MODULE Procurement -----------------------------
(***************************************************************************)
(* Purchase plans, their versions and items; the purchase orders placed    *)
(* against plan items; the factory's answers; and the approvals that       *)
(* deviations from a plan wait for.                                        *)
(*                                                                         *)
(* A command is one transaction that locks the plans, items, orders and    *)
(* approvals it reads, so a command that commits is one step. Factories,   *)
(* warehouses, BOMs, SKUs, suppliers and prices are taken to be valid: a   *)
(* command that names others is refused and is no step. One factory makes  *)
(* all items of a plan: the code refuses answers to any other plan.        *)
(***************************************************************************)
EXTENDS Integers, Sequences, FiniteSets, FiniteSetsExt, Functions

CONSTANTS PlanNos,       \* plan numbers
          PlanItems,     \* lines of a plan: arrival date, warehouse and SKU
          Planned,       \* planned quantity of each line
          OverBps,       \* tolerances of the SKUs, in basis points
          UnderBps,
          Buyers,        \* users of the supply chain department
          FactoryUsers,  \* users of the factory
          MaxVersions,   \* bounds
          MaxOrders,
          MaxQuantity,
          MaxReviews

ASSUME PlannedAssumption == Planned \in [PlanItems -> Nat \ {0}]
ASSUME ToleranceAssumption == OverBps \in Nat /\ UnderBps \in Nat
ASSUME BoundsAssumption == {MaxVersions, MaxOrders, MaxQuantity, MaxReviews} \subseteq Nat

VARIABLES plan,   \* plan[no][v]: version v of a plan, with its items
          orders, \* purchase_orders with their lines and links
          review  \* approval_requests (a factory's answer has its approval's status)

procurementVars == <<plan, orders, review>>

ItemIds == PlanNos \X (1 .. MaxVersions) \X PlanItems
Kinds   == {"plan_version", "under_plan", "over_plan", "plan_exception", "order_exception"}
Completions == {"not_ordered", "within_tolerance", "under_plan_pending",
                "over_plan_pending", "exception_approved"}

ProcurementTypeOK ==
  /\ plan \in [PlanNos -> Seq([
       status: {"draft", "pending_approval", "awaiting_factory_confirmation", "confirmed",
                "disputed", "ordering", "ordered_complete"},
       ordered: [PlanItems -> Nat], completion: [PlanItems -> Completions]])]
  /\ orders \in Seq([
       status: {"pending_approval", "factory_confirmation", "confirmed", "disputed",
                "approval_rejected"},
       line: [ItemIds -> Nat]])
  /\ review \in Seq([kind: Kinds, no: PlanNos \cup {"none"}, v: Nat, order: Nat,
       items: SUBSET ItemIds, by: Buyers \cup FactoryUsers,
       status: {"pending", "approved", "rejected"}])

ProcurementInit ==
  /\ plan = [no \in PlanNos |-> <<>>]
  /\ orders = <<>>
  /\ review = <<>>

-----------------------------------------------------------------------------
(* Rates and approvals *)

\* Math.round(((quantity - planned) / planned) * 10_000).
RateBps(quantity, planned) == (20000 * (quantity - planned) + planned) \div (2 * planned)

Done(completion) == \A i \in PlanItems : completion[i] \in {"within_tolerance", "exception_approved"}

\* createApproval.
ReviewOfPlan(kind, no, v, items, u) ==
  [kind |-> kind, no |-> no, v |-> v, order |-> 0, items |-> items, by |-> u, status |-> "pending"]
ReviewOfOrder(kind, o, items, u) ==
  [kind |-> kind, no |-> "none", v |-> 0, order |-> o, items |-> items, by |-> u, status |-> "pending"]

-----------------------------------------------------------------------------
(* Plans *)

\* createPurchasePlan: the first version goes to the factory, a later one to
\* approval; the version before it stays as it is.
CreatePlan(no, u) ==
  LET v == Len(plan[no]) + 1
  IN /\ v =< MaxVersions
     /\ plan' = [plan EXCEPT ![no] = Append(@,
          [status     |-> IF v = 1 THEN "awaiting_factory_confirmation" ELSE "pending_approval",
           ordered    |-> [i \in PlanItems |-> 0],
           completion |-> [i \in PlanItems |-> "not_ordered"]])]
     /\ IF v = 1 THEN UNCHANGED review
        ELSE /\ Len(review) < MaxReviews
             /\ review' = Append(review, ReviewOfPlan("plan_version", no, v, {}, u))
     /\ UNCHANGED orders

\* updatePurchasePlan by the factory, of any version that waits for it.
RespondToPlan(no, v, u, decision) ==
  /\ plan[no][v].status = "awaiting_factory_confirmation"
  /\ plan' = [plan EXCEPT ![no][v].status = decision]
  /\ IF decision = "confirmed" THEN UNCHANGED review
     ELSE /\ Len(review) < MaxReviews
          /\ review' = Append(review, ReviewOfPlan("plan_exception", no, v, {}, u))
  /\ UNCHANGED orders

\* updatePurchasePlan, finalize_ordering: what was ordered stands; items
\* ordered too little wait for approval, all others count as done.
Finalize(no, v, u) ==
  LET p     == plan[no][v]
      under == {i \in PlanItems : RateBps(p.ordered[i], Planned[i]) < -UnderBps}
  IN /\ p.status \in {"confirmed", "ordering"}
     /\ plan' = [plan EXCEPT ![no][v] = [p EXCEPT
          !.status = IF under = {} THEN "ordered_complete" ELSE "ordering",
          !.completion = [i \in PlanItems |->
             IF i \in under THEN "under_plan_pending" ELSE "within_tolerance"]]]
     /\ IF under = {} THEN UNCHANGED review
        ELSE /\ Len(review) < MaxReviews
             /\ review' = Append(review,
                  ReviewOfPlan("under_plan", no, v, {no} \X {v} \X under, u))
     /\ UNCHANGED orders

-----------------------------------------------------------------------------
(* Orders *)

\* Mutant: an order is measured alone, not with what was ordered before.
QuantityAlone(no, i, n) == n

\* What will have been ordered of the line of the plan's latest version.
Cumulative(no, i, n) == plan[no][Len(plan[no])].ordered[i] + n

Outside(no, i, n) == RateBps(Cumulative(no, i, n), Planned[i]) > OverBps

Completion(no, i, n) ==
  IF Outside(no, i, n) THEN "over_plan_pending"
  ELSE IF RateBps(Cumulative(no, i, n), Planned[i]) >= -UnderBps THEN "within_tolerance"
  ELSE "not_ordered"

\* The completion of the latest version's items with n more ordered of them.
CompletionNow(no, n) ==
  [i \in PlanItems |-> IF <<no, i>> \in DOMAIN n THEN Completion(no, i, n[<<no, i>>])
                       ELSE plan[no][Len(plan[no])].completion[i]]

\* Mutant: what is ordered of an item replaces what was ordered before.
OrderedAnew(no, n) ==
  [plan[no][Len(plan[no])] EXCEPT
     !.ordered = [i \in PlanItems |-> IF <<no, i>> \in DOMAIN n THEN n[<<no, i>>] ELSE @[i]],
     !.completion = CompletionNow(no, n),
     !.status = IF Done(CompletionNow(no, n)) THEN "ordered_complete" ELSE "ordering"]

\* The latest version of plan no with n more ordered.
OrderedNow(no, n) ==
  [plan[no][Len(plan[no])] EXCEPT
     !.ordered = [i \in PlanItems |-> @[i] + IF <<no, i>> \in DOMAIN n THEN n[<<no, i>>] ELSE 0],
     !.completion = CompletionNow(no, n),
     !.status = IF Done(CompletionNow(no, n)) THEN "ordered_complete" ELSE "ordering"]

\* createPurchaseOrder: n[x] of each line x = <<plan number, item>>, of the
\* latest version of each plan.
CreateOrder(n, u) ==
  LET nos     == {x[1] : x \in DOMAIN n}
      outside == {x \in DOMAIN n : Outside(x[1], x[2], n[x])}
      Id(x)   == <<x[1], Len(plan[x[1]]), x[2]>>
  IN /\ Len(orders) < MaxOrders
     /\ \A no \in nos : /\ plan[no] # <<>>
                        /\ plan[no][Len(plan[no])].status \in {"confirmed", "ordering"}
     /\ orders' = Append(orders,
          [status |-> IF outside = {} THEN "factory_confirmation" ELSE "pending_approval",
           line   |-> [id \in ItemIds |-> IF \E x \in DOMAIN n : Id(x) = id
                                          THEN n[<<id[1], id[3]>>] ELSE 0]])
     /\ plan' = [no \in PlanNos |-> IF no \in nos
                   THEN [plan[no] EXCEPT ![Len(plan[no])] = OrderedNow(no, n)] ELSE plan[no]]
     /\ IF outside = {} THEN UNCHANGED review
        ELSE /\ Len(review) < MaxReviews
             /\ review' = Append(review,
                  ReviewOfOrder("over_plan", Len(orders) + 1, {Id(x) : x \in outside}, u))

\* updatePurchaseOrder by the factory.
RespondToOrder(o, u, decision) ==
  /\ orders[o].status = "factory_confirmation"
  /\ orders' = [orders EXCEPT ![o].status = decision]
  /\ IF decision = "confirmed" THEN UNCHANGED review
     ELSE /\ Len(review) < MaxReviews
          /\ review' = Append(review, ReviewOfOrder("order_exception", o, {}, u))
  /\ UNCHANGED plan

-----------------------------------------------------------------------------
(* decideApproval with the effects of supply-approval-effects.ts *)

Decides(a, u, decision) ==
  /\ u # review[a].by
  /\ review[a].status = "pending"
  /\ review' = [review EXCEPT ![a].status = decision]

DecideVersion(a, u, decision) ==
  LET x == review[a]
  IN /\ x.kind = "plan_version"
     /\ Decides(a, u, decision)
     /\ plan[x.no][x.v].status = "pending_approval"
     /\ plan' = [plan EXCEPT ![x.no][x.v].status =
                   IF decision = "approved" THEN "awaiting_factory_confirmation" ELSE "draft"]
     /\ UNCHANGED orders

\* The version of a plan after the decision on its items in x.
Decided(x, no, v, decision) ==
  LET p == plan[no][v]
      completion == [i \in PlanItems |->
        IF decision = "approved" /\ <<no, v, i>> \in x.items THEN "exception_approved"
        ELSE p.completion[i]]
  IN [p EXCEPT !.completion = completion,
               !.status = IF Done(completion) THEN "ordered_complete" ELSE "ordering"]

\* Mutant: a decision applies to a plan whatever became of it.
DecidableAnyway(x) == TRUE

\* Every plan of the items must still be ordering, for either decision.
Decidable(x) == \A id \in x.items : plan[id[1]][id[2]].status = "ordering"

\* Mutant: a rejection leaves the order waiting.
OrderDecidedApproved(o, decision) == IF decision = "approved" THEN "factory_confirmation"
                                     ELSE orders[o].status

OrderDecided(o, decision) == IF decision = "approved" THEN "factory_confirmation"
                             ELSE "approval_rejected"

DecideDeviation(a, u, decision) ==
  LET x == review[a]
      Touched(no, v) == \E i \in PlanItems : <<no, v, i>> \in x.items
  IN /\ x.kind \in {"under_plan", "over_plan"}
     /\ Decides(a, u, decision)
     /\ x.kind = "over_plan" => orders[x.order].status = "pending_approval"
     /\ Decidable(x)
     /\ plan' = [no \in PlanNos |-> [v \in DOMAIN plan[no] |->
          IF Touched(no, v) THEN Decided(x, no, v, decision) ELSE plan[no][v]]]
     /\ orders' = IF x.kind = "under_plan" THEN orders
                  ELSE [orders EXCEPT ![x.order].status = OrderDecided(x.order, decision)]

\* Sets the plan's status whatever it is.
DecidePlanException(a, u, decision) ==
  LET x == review[a]
  IN /\ x.kind = "plan_exception"
     /\ Decides(a, u, decision)
     /\ plan' = [plan EXCEPT ![x.no][x.v].status =
                   IF decision = "approved" THEN "confirmed" ELSE "awaiting_factory_confirmation"]
     /\ UNCHANGED orders

DecideOrderException(a, u, decision) ==
  LET x == review[a]
  IN /\ x.kind = "order_exception"
     /\ Decides(a, u, decision)
     /\ orders' = [orders EXCEPT ![x.order].status =
                     IF @ # "disputed" THEN @
                     ELSE IF decision = "approved" THEN "confirmed" ELSE "factory_confirmation"]
     /\ UNCHANGED plan

-----------------------------------------------------------------------------
ProcurementNext ==
  \/ \E no \in PlanNos, u \in Buyers : CreatePlan(no, u)
  \/ \E no \in PlanNos : \E v \in DOMAIN plan[no] :
       \/ \E u \in FactoryUsers, decision \in {"confirmed", "disputed"} :
             RespondToPlan(no, v, u, decision)
       \/ \E u \in Buyers : Finalize(no, v, u)
  \/ \E lines \in (SUBSET (PlanNos \X PlanItems)) \ {{}}, u \in Buyers :
        \E n \in [lines -> 1 .. MaxQuantity] : CreateOrder(n, u)
  \/ \E o \in DOMAIN orders, u \in FactoryUsers, decision \in {"confirmed", "disputed"} :
        RespondToOrder(o, u, decision)
  \/ \E a \in DOMAIN review, u \in Buyers, decision \in {"approved", "rejected"} :
       \/ DecideVersion(a, u, decision)
       \/ DecideDeviation(a, u, decision)
       \/ DecidePlanException(a, u, decision)
       \/ DecideOrderException(a, u, decision)

ProcurementSpec == ProcurementInit /\ [][ProcurementNext]_procurementVars

-----------------------------------------------------------------------------
(* Safety *)

Released == {"factory_confirmation", "confirmed", "disputed"}

\* An order that takes the released quantity of a plan line over what was
\* planned and tolerated was released by an approval of just that deviation.
OverPlanApproved ==
  \A o \in DOMAIN orders : \A id \in ItemIds :
    LET sum == SumFunction([p \in 1 .. o |->
                 IF orders[p].status \in Released THEN orders[p].line[id] ELSE 0])
    IN /\ orders[o].status \in Released /\ orders[o].line[id] > 0
       /\ RateBps(sum, Planned[id[3]]) > OverBps
       => \E a \in DOMAIN review : /\ review[a].status = "approved"
                                   /\ review[a].order = o /\ id \in review[a].items

Pending(kind) == {a \in DOMAIN review : review[a].kind = kind /\ review[a].status = "pending"}

\* A plan or order waits for a decision exactly while one approval of it is
\* pending, so no document is left waiting for a decision nobody can take.
WaitsForSomeone ==
  /\ \A no \in PlanNos : \A v \in DOMAIN plan[no] :
       LET OfPlan(kind) == {a \in Pending(kind) : review[a].no = no /\ review[a].v = v}
           status == plan[no][v].status
       IN /\ Cardinality(OfPlan("plan_version"))   = IF status = "pending_approval" THEN 1 ELSE 0
          /\ Cardinality(OfPlan("plan_exception")) = IF status = "disputed" THEN 1 ELSE 0
  /\ \A o \in DOMAIN orders :
       LET OfOrder(kind) == {a \in Pending(kind) : review[a].order = o}
           status == orders[o].status
       IN /\ Cardinality(OfOrder("over_plan"))       = IF status = "pending_approval" THEN 1 ELSE 0
          /\ Cardinality(OfOrder("order_exception")) = IF status = "disputed" THEN 1 ELSE 0

(* Action properties *)

\* A plan that is ordered completely never changes again, whatever approval
\* of its items is still pending and decided late, and all its items are done.
CompletePlanFixed ==
  [][\A no \in PlanNos : \A v \in DOMAIN plan[no] :
       plan[no][v].status = "ordered_complete"
       => plan'[no][v] = plan[no][v] /\ Done(plan[no][v].completion)]_procurementVars
=============================================================================
