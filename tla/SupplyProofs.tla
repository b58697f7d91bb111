---------------------------- MODULE SupplyProofs ----------------------------
(***************************************************************************)
(* Of purchase plans, orders and their approvals:                          *)
(*                                                                         *)
(* A plan version that is ordered completely never changes again. All      *)
(* commands but one require a status that a complete version does not      *)
(* have. The decision of a factory's exception sets the status whatever it *)
(* is; but while one is pending its version is 'disputed', because nothing *)
(* else leads out of that status and no version has two of them pending.   *)
(*                                                                         *)
(* A document waits for a decision exactly while one approval of it is     *)
(* pending: the documents that wait and the approvals that are pending are *)
(* matched one to one, and each command adds or takes a matched pair.      *)
(*                                                                         *)
(* A deviation from a plan is released by its approval only. What is       *)
(* measured when an order is placed is what the plan has ordered, and the  *)
(* plan has ordered what all orders so far add up to; the released ones    *)
(* add up to no more. An order beyond the tolerance therefore was placed   *)
(* beyond it.                                                              *)
(*                                                                         *)
(* The pages over purchasing show what the plans and the orders agree on.  *)
(* The lines of the orders add up to what the plans have ordered, so those *)
(* on a page are no more. Each line shown as a deviation was named by a    *)
(* review when it became one, and loses that status by its approval. An    *)
(* order whose deviation was rejected stays rejected.                      *)
(*                                                                         *)
(* Of suppliers, SKUs, terms, prices and BOMs, and of their pages:         *)
(*                                                                         *)
(* What is pending waits for one review. The reviews that are open and the *)
(* rows that are pending are matched one to one (Matches); each command    *)
(* adds pairs that match, or takes one away.                               *)
(*                                                                         *)
(* Prices follow one another because what is agreed next replaces the one  *)
(* active price, and was asked for a later day than that began on. Terms   *)
(* in force are those of an approved review, because a decision is about   *)
(* the version that was reviewed, and moves it by one.                     *)
(*                                                                         *)
(* Of the rankings:                                                        *)
(*                                                                         *)
(* A score lies between the least and the largest metric that exists,      *)
(* because the weights of a tier are not negative and what is weighed is   *)
(* divided by the weights that took part. A page that has settled shows    *)
(* what is selected, because each request gives up the one before it; and  *)
(* the viewer's last ratings, because what was answered before a rating    *)
(* was saved is loaded again before the page settles.                      *)
(***************************************************************************)
EXTENDS SupplyReads, Performance, Sums, SequenceTheorems, TLAPS

-----------------------------------------------------------------------------
(* Purchase plans and orders *)

Version == [status: {"draft", "pending_approval", "awaiting_factory_confirmation", "confirmed",
                     "disputed", "ordering", "ordered_complete"},
            ordered: [PlanItems -> Nat], completion: [PlanItems -> Completions]]
Order   == [status: {"pending_approval", "factory_confirmation", "confirmed", "disputed",
                     "approval_rejected"},
            line: [ItemIds -> Nat]]
Review  == [kind: Kinds, no: PlanNos \cup {"none"}, v: Nat, order: Nat,
            items: SUBSET ItemIds, by: Buyers \cup FactoryUsers,
            status: {"pending", "approved", "rejected"}]

\* The tables are well formed, and hold no more versions than the bound.
TablesOK == /\ plan \in [PlanNos -> Seq(Version)]
            /\ \A no \in PlanNos : Len(plan[no]) =< MaxVersions
            /\ orders \in Seq(Order)
            /\ review \in Seq(Review)

Disputes == Pending("plan_exception")

\* A factory's exception that waits for a decision is about a disputed version.
DisputesStand ==
  \A a \in Disputes : /\ review[a].no \in PlanNos
                      /\ review[a].v \in DOMAIN plan[review[a].no]
                      /\ plan[review[a].no][review[a].v].status = "disputed"

\* And it is the only one of that version that does.
OneDispute ==
  \A a, b \in Disputes : review[a].no = review[b].no /\ review[a].v = review[b].v => a = b

\* A version is ordered completely only when all its items are done.
CompleteIsDone ==
  \A no \in PlanNos : \A v \in DOMAIN plan[no] :
    plan[no][v].status = "ordered_complete" => Done(plan[no][v].completion)

PlanInv == TablesOK /\ DisputesStand /\ OneDispute /\ CompleteIsDone

\* The action of CompletePlanFixed.
Fixed ==
  \A no \in PlanNos : \A v \in DOMAIN plan[no] :
    plan[no][v].status = "ordered_complete"
    => plan'[no][v] = plan[no][v] /\ Done(plan[no][v].completion)

\* A step that writes no disputed and no complete version, and completes only
\* versions whose items are done.
Careful ==
  /\ plan' \in [PlanNos -> Seq(Version)] /\ orders' \in Seq(Order)
  /\ \A no \in PlanNos : Len(plan'[no]) =< MaxVersions
  /\ \A no \in PlanNos :
       /\ DOMAIN plan[no] \subseteq DOMAIN plan'[no]
       /\ \A v \in DOMAIN plan'[no] :
            \/ v \in DOMAIN plan[no] /\ plan'[no][v] = plan[no][v]
            \/ /\ v \in DOMAIN plan[no] => plan[no][v].status \notin {"disputed", "ordered_complete"}
               /\ plan'[no][v].status = "ordered_complete" => Done(plan'[no][v].completion)

\* A step after which no dispute is pending that was not pending before.
AddsNoDispute ==
  /\ review' \in Seq(Review)
  /\ \A a \in Disputes' : a \in Disputes /\ review'[a] = review[a]

-----------------------------------------------------------------------------
\* Writing one row of a sequence.
LEMMA RowWritten ==
  ASSUME NEW S, NEW s \in Seq(S), NEW v \in DOMAIN s, NEW row \in S
  PROVE  /\ [s EXCEPT ![v] = row] \in Seq(S)
         /\ Len([s EXCEPT ![v] = row]) = Len(s)
         /\ DOMAIN [s EXCEPT ![v] = row] = DOMAIN s
         /\ [s EXCEPT ![v] = row][v] = row
         /\ \A x \in DOMAIN s : x # v => [s EXCEPT ![v] = row][x] = s[x]
  BY LenProperties, ExceptSeq

\* Appending one.
LEMMA RowAppended ==
  ASSUME NEW S, NEW s \in Seq(S), NEW row \in S
  PROVE  /\ Append(s, row) \in Seq(S)
         /\ Len(Append(s, row)) = Len(s) + 1
         /\ DOMAIN Append(s, row) = DOMAIN s \cup {Len(s) + 1}
         /\ Append(s, row)[Len(s) + 1] = row
         /\ \A x \in DOMAIN s : Append(s, row)[x] = s[x]
         /\ Len(s) + 1 \notin DOMAIN s
  BY LenProperties

\* A step that is careful and adds no dispute preserves the invariant.
LEMMA CarefulPreserves ==
  ASSUME PlanInv, Careful, AddsNoDispute
  PROVE  PlanInv' /\ Fixed
  <1>1. TablesOK'
    BY DEF Careful, AddsNoDispute, TablesOK
  <1>2. Fixed
    BY DEF PlanInv, Careful, CompleteIsDone, Fixed
  <1>3. CompleteIsDone'
    BY DEF PlanInv, Careful, CompleteIsDone
  <1>4. DisputesStand'
    BY DEF PlanInv, Careful, AddsNoDispute, DisputesStand
  <1>5. OneDispute'
    BY DEF PlanInv, AddsNoDispute, OneDispute
  <1> QED BY <1>1, <1>2, <1>3, <1>4, <1>5 DEF PlanInv

\* Writing one version that is neither disputed nor complete is careful.
LEMMA VersionWritten ==
  ASSUME PlanInv, NEW no \in PlanNos, NEW v \in DOMAIN plan[no], NEW row \in Version,
         plan' = [plan EXCEPT ![no] = [plan[no] EXCEPT ![v] = row]],
         plan[no][v].status \notin {"disputed", "ordered_complete"},
         row.status = "ordered_complete" => Done(row.completion),
         orders' \in Seq(Order)
  PROVE  Careful
  <1>1. plan[no] \in Seq(Version)
    BY DEF PlanInv, TablesOK
  <1> DEFINE new == [plan[no] EXCEPT ![v] = row]
  <1>2. /\ new \in Seq(Version)
        /\ Len(new) = Len(plan[no])
        /\ DOMAIN new = DOMAIN plan[no]
        /\ new[v] = row
        /\ \A x \in DOMAIN plan[no] : x # v => new[x] = plan[no][x]
    BY <1>1, RowWritten
  <1>3. plan' = [plan EXCEPT ![no] = new]
    OBVIOUS
  <1> HIDE DEF new
  <1>4. /\ plan' \in [PlanNos -> Seq(Version)]
        /\ plan'[no] = new
        /\ \A m \in PlanNos : m # no => plan'[m] = plan[m]
    BY <1>2, <1>3 DEF PlanInv, TablesOK
  <1> QED BY <1>2, <1>4 DEF PlanInv, TablesOK, Careful

\* A version is a record of its type.
LEMMA VersionType ==
  ASSUME PlanInv, NEW no \in PlanNos, NEW v \in DOMAIN plan[no]
  PROVE  plan[no][v] \in Version /\ v \in 1 .. MaxVersions
  <1>1. plan[no] \in Seq(Version) /\ Len(plan[no]) =< MaxVersions
    BY DEF PlanInv, TablesOK
  <1> QED BY <1>1, BoundsAssumption, LenProperties, ElementOfSeq

\* Asking for an approval of another kind adds no dispute.
LEMMA OtherReviewAdded ==
  ASSUME PlanInv, NEW x \in Review, x.kind # "plan_exception", review' = Append(review, x)
  PROVE  AddsNoDispute
  <1>1. /\ review' \in Seq(Review)
        /\ DOMAIN review' = DOMAIN review \cup {Len(review) + 1}
        /\ review'[Len(review) + 1] = x
        /\ \A a \in DOMAIN review : review'[a] = review[a]
    BY RowAppended DEF PlanInv, TablesOK
  <1> QED BY <1>1 DEF AddsNoDispute, Disputes, Pending

\* No review is added or decided.
LEMMA ReviewsKept ==
  ASSUME PlanInv, UNCHANGED review
  PROVE  AddsNoDispute
  BY DEF PlanInv, TablesOK, AddsNoDispute, Disputes, Pending

\* Deciding one only takes it from those that are pending.
LEMMA ReviewDecided ==
  ASSUME PlanInv, NEW a \in DOMAIN review, NEW u, NEW decision \in {"approved", "rejected"},
         Decides(a, u, decision)
  PROVE  AddsNoDispute /\ a \notin Disputes' /\ review[a] \in Review
  <1>1. review \in Seq(Review)
    BY DEF PlanInv, TablesOK
  <1>2. review[a] \in Review
    BY <1>1, LenProperties, ElementOfSeq
  <1> DEFINE row == [review[a] EXCEPT !.status = decision]
  <1>3. row \in Review /\ row.status = decision
    BY <1>2 DEF Review
  <1>4. review' = [review EXCEPT ![a] = row]
    BY DEF Decides
  <1> HIDE DEF row
  <1>5. /\ review' \in Seq(Review)
        /\ DOMAIN review' = DOMAIN review
        /\ review'[a] = row
        /\ \A b \in DOMAIN review : b # a => review'[b] = review[b]
    BY <1>1, <1>3, <1>4, RowWritten
  <1> QED BY <1>2, <1>3, <1>5 DEF AddsNoDispute, Disputes, Pending

\* A review that createApproval inserts is a row.
LEMMA ReviewRow ==
  ASSUME NEW kind \in Kinds, NEW no \in PlanNos, NEW v \in Nat, NEW o \in Nat,
         NEW items \in SUBSET ItemIds, NEW u \in Buyers \cup FactoryUsers
  PROVE  /\ ReviewOfPlan(kind, no, v, items, u) \in Review
         /\ ReviewOfOrder(kind, o, items, u) \in Review
         /\ ReviewOfPlan(kind, no, v, items, u).kind = kind
         /\ ReviewOfOrder(kind, o, items, u).kind = kind
  BY DEF ReviewOfPlan, ReviewOfOrder, Review

-----------------------------------------------------------------------------
(* One lemma per command *)

\* A new version is not complete, and changes no other.
LEMMA CreatePlanPreserves ==
  ASSUME PlanInv, NEW no \in PlanNos, NEW u \in Buyers, CreatePlan(no, u)
  PROVE  PlanInv' /\ Fixed
  <1> DEFINE v   == Len(plan[no]) + 1
             row == [status     |-> IF v = 1 THEN "awaiting_factory_confirmation"
                                    ELSE "pending_approval",
                     ordered    |-> [i \in PlanItems |-> 0],
                     completion |-> [i \in PlanItems |-> "not_ordered"]]
  <1>1. plan[no] \in Seq(Version) /\ v \in Nat /\ v =< MaxVersions
    BY LenProperties DEF PlanInv, TablesOK, CreatePlan
  <1>2. row \in Version /\ row.status # "ordered_complete"
    BY DEF Version, Completions
  <1>3. plan' = [plan EXCEPT ![no] = Append(plan[no], row)]
    BY DEF CreatePlan
  <1>4. \/ UNCHANGED review
        \/ review' = Append(review, ReviewOfPlan("plan_version", no, v, {}, u))
    BY DEF CreatePlan
  <1> HIDE DEF row, v
  <1>5. /\ Append(plan[no], row) \in Seq(Version)
        /\ Len(Append(plan[no], row)) = v
        /\ DOMAIN Append(plan[no], row) = DOMAIN plan[no] \cup {v}
        /\ Append(plan[no], row)[v] = row
        /\ \A x \in DOMAIN plan[no] : Append(plan[no], row)[x] = plan[no][x]
        /\ v \notin DOMAIN plan[no]
    BY <1>1, <1>2, RowAppended DEF v
  <1>6. /\ plan' \in [PlanNos -> Seq(Version)]
        /\ plan'[no] = Append(plan[no], row)
        /\ \A m \in PlanNos : m # no => plan'[m] = plan[m]
    BY <1>3, <1>5 DEF PlanInv, TablesOK
  <1>7. Careful
    BY <1>1, <1>2, <1>5, <1>6 DEF CreatePlan, PlanInv, TablesOK, Careful
  <1>8. AddsNoDispute
    BY <1>1, <1>4, ReviewsKept, ReviewRow, OtherReviewAdded DEF Kinds
  <1> QED BY <1>7, <1>8, CarefulPreserves

\* Disputing a version that waits for the factory: no exception of it was
\* pending, because it was not disputed.
LEMMA RespondToPlanPreserves ==
  ASSUME PlanInv, NEW no \in PlanNos, NEW v \in DOMAIN plan[no], NEW u \in FactoryUsers,
         NEW decision \in {"confirmed", "disputed"}, RespondToPlan(no, v, u, decision)
  PROVE  PlanInv' /\ Fixed
  <1> DEFINE row == [plan[no][v] EXCEPT !.status = decision]
  <1>1. plan[no][v] \in Version /\ plan[no][v].status = "awaiting_factory_confirmation"
    BY VersionType DEF RespondToPlan
  <1>2. row \in Version /\ row.status = decision
    BY <1>1 DEF Version
  <1>3. plan' = [plan EXCEPT ![no] = [plan[no] EXCEPT ![v] = row]]
    BY DEF RespondToPlan
  <1> HIDE DEF row
  <1>4. Careful
    <2>1. orders' \in Seq(Order)
      BY DEF RespondToPlan, PlanInv, TablesOK
    <2> QED BY <1>1, <1>2, <1>3, <2>1, VersionWritten
  <1>5. CASE decision = "confirmed"
    BY <1>4, <1>5, ReviewsKept, CarefulPreserves DEF RespondToPlan
  <1>6. CASE decision = "disputed"
    <2> DEFINE x == ReviewOfPlan("plan_exception", no, v, {}, u)
               a == Len(review) + 1
    <2>1. plan[no] \in Seq(Version) /\ review \in Seq(Review)
      BY DEF PlanInv, TablesOK
    <2>2. v \in Nat
      BY VersionType
    <2>3. x \in Review /\ x.kind = "plan_exception" /\ x.no = no /\ x.v = v
      BY <2>2, ReviewRow DEF Kinds, ReviewOfPlan
    <2>4. review' = Append(review, x)
      BY <1>6 DEF RespondToPlan
    <2> HIDE DEF x, a
    <2>5. /\ review' \in Seq(Review)
          /\ DOMAIN review' = DOMAIN review \cup {a}
          /\ review'[a] = x
          /\ \A b \in DOMAIN review : review'[b] = review[b]
      BY <2>1, <2>3, <2>4, RowAppended DEF a
    <2>6. \A b \in Disputes' : b = a \/ (b \in Disputes /\ review'[b] = review[b])
      BY <2>5 DEF Disputes, Pending
    <2>7. /\ plan'[no] \in Seq(Version) /\ v \in DOMAIN plan'[no]
          /\ plan'[no][v].status = "disputed"
      <3>1. plan'[no] = [plan[no] EXCEPT ![v] = row]
        BY <1>3 DEF PlanInv, TablesOK
      <3> QED BY <1>2, <1>6, <2>1, <3>1, RowWritten
    <2>8. \A b \in Disputes : ~(review[b].no = no /\ review[b].v = v)
      BY <1>1 DEF PlanInv, DisputesStand
    <2>9. DisputesStand'
      <3> SUFFICES ASSUME NEW b \in Disputes'
                   PROVE  /\ review'[b].no \in PlanNos
                          /\ review'[b].v \in DOMAIN plan'[review'[b].no]
                          /\ plan'[review'[b].no][review'[b].v].status = "disputed"
        BY DEF DisputesStand
      <3>1. CASE b = a
        BY <3>1, <2>3, <2>5, <2>7
      <3>2. CASE b \in Disputes /\ review'[b] = review[b]
        <4>1. /\ review[b].no \in PlanNos
              /\ review[b].v \in DOMAIN plan[review[b].no]
              /\ plan[review[b].no][review[b].v].status = "disputed"
          BY <3>2 DEF PlanInv, DisputesStand
        <4>2. /\ review[b].v \in DOMAIN plan'[review[b].no]
              /\ plan'[review[b].no][review[b].v] = plan[review[b].no][review[b].v]
          BY <1>4, <4>1 DEF Careful
        <4> QED BY <3>2, <4>1, <4>2
      <3> QED BY <2>6, <3>1, <3>2
    <2>10. OneDispute'
      <3> SUFFICES ASSUME NEW b \in Disputes', NEW c \in Disputes',
                          review'[b].no = review'[c].no, review'[b].v = review'[c].v
                   PROVE  b = c
        BY DEF OneDispute
      <3>1. CASE b \in Disputes /\ c \in Disputes
        BY <2>5, <3>1 DEF PlanInv, OneDispute, Disputes, Pending
      <3>2. CASE b = a \/ c = a
        BY <2>3, <2>5, <2>6, <2>8, <3>2
      <3> QED BY <2>6, <3>1, <3>2
    <2>11. CompleteIsDone' /\ Fixed
      BY <1>4 DEF PlanInv, Careful, CompleteIsDone, Fixed
    <2>12. TablesOK'
      BY <1>4, <2>5 DEF Careful, TablesOK
    <2> QED BY <2>9, <2>10, <2>11, <2>12 DEF PlanInv
  <1> QED BY <1>5, <1>6

\* Settling a plan: complete only when all items are within tolerance.
LEMMA FinalizePreserves ==
  ASSUME PlanInv, NEW no \in PlanNos, NEW v \in DOMAIN plan[no], NEW u \in Buyers,
         Finalize(no, v, u)
  PROVE  PlanInv' /\ Fixed
  <1> DEFINE p     == plan[no][v]
             under == {i \in PlanItems : RateBps(p.ordered[i], Planned[i]) < -UnderBps}
             completion == [i \in PlanItems |->
                              IF i \in under THEN "under_plan_pending" ELSE "within_tolerance"]
             status == IF under = {} THEN "ordered_complete" ELSE "ordering"
             row == [p EXCEPT !.status = status, !.completion = completion]
  <1>1. p \in Version /\ p.status \in {"confirmed", "ordering"}
    BY VersionType DEF Finalize
  <1>2. /\ plan' = [plan EXCEPT ![no] = [plan[no] EXCEPT ![v] = row]]
        /\ \/ UNCHANGED review
           \/ review' = Append(review, ReviewOfPlan("under_plan", no, v, {no} \X {v} \X under, u))
    BY DEF Finalize
  <1>3. under \subseteq PlanItems
    OBVIOUS
  <1> HIDE DEF under
  <1>4. /\ status \in {"ordered_complete", "ordering"}
        /\ completion \in [PlanItems -> Completions]
        /\ status = "ordered_complete" => Done(completion)
    BY DEF Completions, Done
  <1> HIDE DEF status, completion
  <1>5. row \in Version /\ row.status = status /\ row.completion = completion
    BY <1>1, <1>4 DEF Version
  <1> HIDE DEF row
  <1>6. Careful
    <2>1. orders' \in Seq(Order)
      BY DEF Finalize, PlanInv, TablesOK
    <2> QED BY <1>1, <1>2, <1>4, <1>5, <2>1, VersionWritten
  <1>7. v \in 1 .. MaxVersions
    BY VersionType
  <1>8. v \in Nat /\ {no} \X {v} \X under \in SUBSET ItemIds
    BY <1>3, <1>7, BoundsAssumption DEF ItemIds
  <1> HIDE DEF p
  <1>9. AddsNoDispute
    BY <1>2, <1>8, ReviewsKept, ReviewRow, OtherReviewAdded DEF Kinds
  <1> QED BY <1>6, <1>9, CarefulPreserves

\* Writing the status of an order.
LEMMA OrderWritten ==
  ASSUME PlanInv, NEW o \in DOMAIN orders, NEW status,
         status \in {"pending_approval", "factory_confirmation", "confirmed", "disputed",
                     "approval_rejected"},
         orders' = [orders EXCEPT ![o].status = status]
  PROVE  orders' \in Seq(Order) /\ orders[o].status \in {"pending_approval",
           "factory_confirmation", "confirmed", "disputed", "approval_rejected"}
  <1>1. orders \in Seq(Order)
    BY DEF PlanInv, TablesOK
  <1>2. orders[o] \in Order
    BY <1>1, LenProperties, ElementOfSeq
  <1> DEFINE row == [orders[o] EXCEPT !.status = status]
  <1>3. row \in Order /\ orders' = [orders EXCEPT ![o] = row]
    BY <1>2 DEF Order
  <1> HIDE DEF row
  <1>4. orders' \in Seq(Order)
    BY <1>1, <1>3, RowWritten
  <1> QED BY <1>2, <1>4 DEF Order

\* An answer to an order.
LEMMA RespondToOrderPreserves ==
  ASSUME PlanInv, NEW o \in DOMAIN orders, NEW u \in FactoryUsers,
         NEW decision \in {"confirmed", "disputed"}, RespondToOrder(o, u, decision)
  PROVE  PlanInv' /\ Fixed
  <1>1. orders' \in Seq(Order)
    BY OrderWritten DEF RespondToOrder
  <1>2. Careful
    BY <1>1 DEF RespondToOrder, PlanInv, TablesOK, Careful
  <1>3. o \in Nat
    BY LenProperties DEF PlanInv, TablesOK
  <1>4. CASE decision = "confirmed"
    BY <1>2, <1>4, ReviewsKept, CarefulPreserves DEF RespondToOrder
  <1>5. CASE decision = "disputed"
    <2> DEFINE x == ReviewOfOrder("order_exception", o, {}, u)
    <2>1. x \in Review /\ x.kind # "plan_exception"
      BY <1>3 DEF ReviewOfOrder, Review, Kinds
    <2>2. review' = Append(review, x)
      BY <1>5 DEF RespondToOrder
    <2> HIDE DEF x
    <2> QED BY <1>2, <2>1, <2>2, OtherReviewAdded, CarefulPreserves
  <1> QED BY <1>4, <1>5

\* The decision of an exception of an order.
LEMMA DecideOrderExceptionPreserves ==
  ASSUME PlanInv, NEW a \in DOMAIN review, NEW u \in Buyers,
         NEW decision \in {"approved", "rejected"}, DecideOrderException(a, u, decision)
  PROVE  PlanInv' /\ Fixed
  <1> DEFINE o == review[a].order
  <1>1. orders' \in Seq(Order)
    <2>1. orders \in Seq(Order)
      BY DEF PlanInv, TablesOK
    <2>2. CASE o \in DOMAIN orders
      <3> DEFINE status == IF orders[o].status # "disputed" THEN orders[o].status
                           ELSE IF decision = "approved" THEN "confirmed"
                           ELSE "factory_confirmation"
      <3>1. orders' = [orders EXCEPT ![o].status = status]
        BY DEF DecideOrderException
      <3>2. orders[o] \in Order
        BY <2>1, <2>2, LenProperties, ElementOfSeq
      <3>3. status \in {"pending_approval", "factory_confirmation", "confirmed", "disputed",
                        "approval_rejected"}
        BY <3>2 DEF Order
      <3> HIDE DEF status, o
      <3> QED BY <2>2, <3>1, <3>3, OrderWritten
    <2>3. CASE o \notin DOMAIN orders
      <3>1. orders' = orders
        BY <2>1, <2>3, LenProperties DEF DecideOrderException
      <3> QED BY <2>1, <3>1
    <2> QED BY <2>2, <2>3
  <1>2. Careful
    BY <1>1 DEF DecideOrderException, PlanInv, TablesOK, Careful
  <1>3. AddsNoDispute
    BY ReviewDecided DEF DecideOrderException
  <1> QED BY <1>2, <1>3, CarefulPreserves

\* Writing the status of a version there is not is writing nothing.
LEMMA NoVersionWritten ==
  ASSUME PlanInv, NEW no, NEW v, NEW status,
         plan' = [plan EXCEPT ![no][v].status = status],
         ~(no \in PlanNos /\ v \in DOMAIN plan[no])
  PROVE  plan' = plan
  <1>1. \A m \in PlanNos : plan'[m] = plan[m]
    <2> SUFFICES ASSUME NEW m \in PlanNos PROVE plan'[m] = plan[m]
      OBVIOUS
    <2>1. CASE m # no
      BY <2>1 DEF PlanInv, TablesOK
    <2>2. CASE m = no
      <3>1. plan[m] \in Seq(Version) /\ v \notin DOMAIN plan[m]
        BY <2>2 DEF PlanInv, TablesOK
      <3>2. plan'[m] = [plan[m] EXCEPT ![v].status = status]
        BY <2>2 DEF PlanInv, TablesOK
      <3> QED BY <3>1, <3>2, LenProperties
    <2> QED BY <2>1, <2>2
  <1>2. plan \in [PlanNos -> Seq(Version)] /\ DOMAIN plan' = PlanNos
    BY DEF PlanInv, TablesOK
  <1>3. plan' = [m \in PlanNos |-> plan'[m]]
    BY <1>2
  <1> QED BY <1>1, <1>2, <1>3

\* The decision about a later version: nothing else waits for approval.
LEMMA DecideVersionPreserves ==
  ASSUME PlanInv, NEW a \in DOMAIN review, NEW u \in Buyers,
         NEW decision \in {"approved", "rejected"}, DecideVersion(a, u, decision)
  PROVE  PlanInv' /\ Fixed
  <1> DEFINE no == review[a].no
             v  == review[a].v
             status == IF decision = "approved" THEN "awaiting_factory_confirmation" ELSE "draft"
             row == [plan[no][v] EXCEPT !.status = status]
  <1>1. /\ plan[no][v].status = "pending_approval"
        /\ plan' = [plan EXCEPT ![no][v].status = status]
        /\ UNCHANGED orders
    BY DEF DecideVersion
  <1>2. AddsNoDispute
    BY ReviewDecided DEF DecideVersion
  <1>3. CASE no \in PlanNos /\ v \in DOMAIN plan[no]
    <2>1. plan[no][v] \in Version
      BY <1>3, VersionType
    <2>2. row \in Version /\ row.status # "ordered_complete"
      BY <2>1 DEF Version
    <2>3. plan' = [plan EXCEPT ![no] = [plan[no] EXCEPT ![v] = row]]
      BY <1>1
    <2>4. orders' \in Seq(Order)
      BY <1>1 DEF PlanInv, TablesOK
    <2> HIDE DEF row, no, v
    <2>5. plan[no][v].status \notin {"disputed", "ordered_complete"}
      BY <1>1
    <2>6. Careful
      BY <1>3, <2>2, <2>3, <2>4, <2>5, VersionWritten
    <2> QED BY <1>2, <2>6, CarefulPreserves
  <1>4. CASE ~(no \in PlanNos /\ v \in DOMAIN plan[no])
    <2>1. plan' = plan
      BY <1>1, <1>4, NoVersionWritten
    <2>2. Careful
      BY <1>1, <2>1 DEF PlanInv, TablesOK, Careful
    <2> QED BY <1>2, <2>2, CarefulPreserves
  <1> QED BY <1>3, <1>4

\* The decision about a factory's exception: its version is disputed, and
\* with this decision no exception of it is pending any more.
LEMMA DecidePlanExceptionPreserves ==
  ASSUME PlanInv, NEW a \in DOMAIN review, NEW u \in Buyers,
         NEW decision \in {"approved", "rejected"}, DecidePlanException(a, u, decision)
  PROVE  PlanInv' /\ Fixed
  <1> DEFINE no == review[a].no
             v  == review[a].v
             status == IF decision = "approved" THEN "confirmed" ELSE "awaiting_factory_confirmation"
             row == [plan[no][v] EXCEPT !.status = status]
  <1>1. a \in Disputes
    BY DEF DecidePlanException, Decides, Disputes, Pending
  <1>2. no \in PlanNos /\ v \in DOMAIN plan[no] /\ plan[no][v].status = "disputed"
    BY <1>1 DEF PlanInv, DisputesStand
  <1>3. plan[no] \in Seq(Version) /\ plan[no][v] \in Version
    BY <1>2, VersionType DEF PlanInv, TablesOK
  <1>4. row \in Version /\ row.status # "ordered_complete"
    BY <1>3 DEF Version
  <1>5. plan' = [plan EXCEPT ![no] = [plan[no] EXCEPT ![v] = row]] /\ UNCHANGED orders
    BY DEF DecidePlanException
  <1>6. AddsNoDispute /\ a \notin Disputes'
    BY ReviewDecided DEF DecidePlanException
  <1>7. \A b \in Disputes' : ~(review'[b].no = no /\ review'[b].v = v)
    BY <1>1, <1>6 DEF PlanInv, OneDispute, AddsNoDispute
  <1> HIDE DEF row, no, v
  <1> DEFINE new == [plan[no] EXCEPT ![v] = row]
  <1>8. /\ new \in Seq(Version) /\ Len(new) = Len(plan[no])
        /\ DOMAIN new = DOMAIN plan[no]
        /\ new[v] = row
        /\ \A x \in DOMAIN plan[no] : x # v => new[x] = plan[no][x]
    BY <1>2, <1>3, <1>4, RowWritten
  <1>9. plan' = [plan EXCEPT ![no] = new]
    BY <1>5
  <1> HIDE DEF new
  <1>10. /\ plan' \in [PlanNos -> Seq(Version)]
         /\ plan'[no] = new
         /\ \A m \in PlanNos : m # no => plan'[m] = plan[m]
    BY <1>2, <1>8, <1>9 DEF PlanInv, TablesOK
  <1>11. TablesOK'
    BY <1>2, <1>5, <1>6, <1>8, <1>10 DEF PlanInv, TablesOK, AddsNoDispute
  <1>12. CompleteIsDone'
    BY <1>4, <1>8, <1>10 DEF PlanInv, CompleteIsDone
  <1>13. Fixed
    BY <1>2, <1>8, <1>10 DEF PlanInv, CompleteIsDone, Fixed
  <1>14. OneDispute'
    BY <1>6 DEF PlanInv, AddsNoDispute, OneDispute
  <1>15. DisputesStand'
    <2> SUFFICES ASSUME NEW b \in Disputes'
                 PROVE  /\ review'[b].no \in PlanNos
                        /\ review'[b].v \in DOMAIN plan'[review'[b].no]
                        /\ plan'[review'[b].no][review'[b].v].status = "disputed"
      BY DEF DisputesStand
    <2>1. b \in Disputes /\ review'[b] = review[b]
      BY <1>6 DEF AddsNoDispute
    <2>2. /\ review[b].no \in PlanNos
          /\ review[b].v \in DOMAIN plan[review[b].no]
          /\ plan[review[b].no][review[b].v].status = "disputed"
      BY <2>1 DEF PlanInv, DisputesStand
    <2>3. CASE review[b].no = no
      BY <1>7, <1>8, <1>10, <2>1, <2>2, <2>3
    <2>4. CASE review[b].no # no
      BY <1>10, <2>1, <2>2, <2>4
    <2> QED BY <2>3, <2>4
  <1> QED BY <1>11, <1>12, <1>13, <1>14, <1>15 DEF PlanInv

\* An order writes the latest versions of plans that are being ordered.
LEMMA CreateOrderPreserves ==
  ASSUME PlanInv, NEW lines \in (SUBSET (PlanNos \X PlanItems)) \ {{}}, NEW u \in Buyers,
         NEW n \in [lines -> 1 .. MaxQuantity], CreateOrder(n, u)
  PROVE  PlanInv' /\ Fixed
  <1> DEFINE nos     == {x[1] : x \in DOMAIN n}
             Id(x)   == <<x[1], Len(plan[x[1]]), x[2]>>
             outside == {x \in DOMAIN n : Outside(x[1], x[2], n[x])}
             ids     == {Id(x) : x \in outside}
             row == [status |-> IF outside = {} THEN "factory_confirmation" ELSE "pending_approval",
                     line   |-> [id \in ItemIds |-> IF \E x \in DOMAIN n : Id(x) = id
                                                    THEN n[<<id[1], id[3]>>] ELSE 0]]
  <1>1. /\ \A no \in nos : /\ plan[no] # <<>>
                           /\ plan[no][Len(plan[no])].status \in {"confirmed", "ordering"}
        /\ orders' = Append(orders, row)
        /\ plan' = [no \in PlanNos |-> IF no \in nos
                      THEN [plan[no] EXCEPT ![Len(plan[no])] = OrderedNow(no, n)] ELSE plan[no]]
        /\ \/ UNCHANGED review
           \/ review' = Append(review, ReviewOfOrder("over_plan", Len(orders) + 1, ids, u))
    BY DEF CreateOrder
  <1>2. /\ DOMAIN n \subseteq PlanNos \X PlanItems
        /\ \A x \in DOMAIN n : n[x] \in Nat
    BY BoundsAssumption
  <1>3. \A no \in PlanNos : /\ plan[no] \in Seq(Version) /\ Len(plan[no]) =< MaxVersions
                            /\ Len(plan[no]) \in Nat /\ DOMAIN plan[no] = 1 .. Len(plan[no])
                            /\ no \in nos => Len(plan[no]) \in DOMAIN plan[no]
    BY <1>1, LenProperties, EmptySeq DEF PlanInv, TablesOK
  <1>4. ASSUME NEW x \in DOMAIN n
        PROVE  Id(x) \in ItemIds /\ n[<<x[1], x[2]>>] \in Nat
    <2>1. /\ x[1] \in PlanNos /\ x[2] \in PlanItems
          /\ <<x[1], x[2]>> = x /\ n[x] \in Nat
      BY <1>2
    <2>2. Len(plan[x[1]]) \in 1 .. MaxVersions
      <3>1. x[1] \in nos
        OBVIOUS
      <3> HIDE DEF nos
      <3>2. /\ Len(plan[x[1]]) =< MaxVersions /\ Len(plan[x[1]]) \in Nat
            /\ DOMAIN plan[x[1]] = 1 .. Len(plan[x[1]])
            /\ Len(plan[x[1]]) \in DOMAIN plan[x[1]]
        BY <1>3, <2>1, <3>1
      <3> QED BY <3>2, BoundsAssumption
    <2> QED BY <2>1, <2>2 DEF ItemIds
  <1>5. row \in Order
    <2>1. \A id \in ItemIds : (\E x \in DOMAIN n : Id(x) = id) => n[<<id[1], id[3]>>] \in Nat
      BY <1>4
    <2> QED BY <2>1 DEF Order
  <1>6. orders' \in Seq(Order) /\ Len(orders) + 1 \in Nat
    <2>1. orders \in Seq(Order)
      BY DEF PlanInv, TablesOK
    <2> HIDE DEF row
    <2> QED BY <1>1, <1>5, <2>1, RowAppended, LenProperties
  <1>7. AddsNoDispute
    <2>1. ids \in SUBSET ItemIds
      BY <1>4
    <2> DEFINE x == ReviewOfOrder("over_plan", Len(orders) + 1, ids, u)
    <2>2. x \in Review /\ x.kind # "plan_exception"
      BY <1>6, <2>1 DEF ReviewOfOrder, Review, Kinds
    <2> HIDE DEF x
    <2> QED BY <1>1, <2>2, ReviewsKept, OtherReviewAdded DEF x
  <1>8. ASSUME NEW no \in PlanNos, no \in nos
        PROVE  /\ OrderedNow(no, n) \in Version
               /\ OrderedNow(no, n).status = "ordered_complete" => Done(OrderedNow(no, n).completion)
    <2> DEFINE p == plan[no][Len(plan[no])]
               ordered == [i \in PlanItems |->
                             p.ordered[i] + IF <<no, i>> \in DOMAIN n THEN n[<<no, i>>] ELSE 0]
               completion == CompletionNow(no, n)
               status == IF Done(completion) THEN "ordered_complete" ELSE "ordering"
    <2>1. p \in Version
      BY <1>3, <1>8, VersionType
    <2>2. ordered \in [PlanItems -> Nat]
      BY <1>2, <2>1 DEF Version
    <2>3. completion \in [PlanItems -> Completions]
      BY <2>1 DEF CompletionNow, Completion, Completions, Version
    <2>4. OrderedNow(no, n) = [p EXCEPT !.ordered = ordered, !.completion = completion,
                                        !.status = status]
      BY <2>1 DEF OrderedNow, Version
    <2>5. status \in {"ordered_complete", "ordering"}
      OBVIOUS
    <2>6. status = "ordered_complete" => Done(completion)
      OBVIOUS
    <2> HIDE DEF p, ordered, completion, status
    <2> QED BY <2>1, <2>2, <2>3, <2>4, <2>5, <2>6 DEF Version
  <1> HIDE DEF nos
  <1>9. ASSUME NEW no \in PlanNos
        PROVE  /\ plan'[no] \in Seq(Version) /\ Len(plan'[no]) =< MaxVersions
               /\ DOMAIN plan[no] \subseteq DOMAIN plan'[no]
               /\ \A v \in DOMAIN plan'[no] :
                    \/ v \in DOMAIN plan[no] /\ plan'[no][v] = plan[no][v]
                    \/ /\ v \in DOMAIN plan[no] =>
                            plan[no][v].status \notin {"disputed", "ordered_complete"}
                       /\ plan'[no][v].status = "ordered_complete" => Done(plan'[no][v].completion)
    <2>1. CASE no \in nos
      <3> DEFINE new == [plan[no] EXCEPT ![Len(plan[no])] = OrderedNow(no, n)]
      <3>1. plan'[no] = new
        BY <1>1, <2>1
      <3>2. /\ new \in Seq(Version) /\ Len(new) = Len(plan[no])
            /\ DOMAIN new = DOMAIN plan[no]
            /\ new[Len(plan[no])] = OrderedNow(no, n)
            /\ \A x \in DOMAIN plan[no] : x # Len(plan[no]) => new[x] = plan[no][x]
        BY <1>3, <1>8, <2>1, RowWritten
      <3> HIDE DEF new
      <3> QED BY <1>1, <1>3, <1>8, <2>1, <3>1, <3>2
    <2>2. CASE no \notin nos
      BY <1>1, <1>3, <2>2
    <2> QED BY <2>1, <2>2
  <1>10. Careful
    BY <1>1, <1>6, <1>9 DEF Careful
  <1> QED BY <1>7, <1>10, CarefulPreserves

\* A decision about items writes only versions that are still being ordered.
LEMMA DecideDeviationPreserves ==
  ASSUME PlanInv, NEW a \in DOMAIN review, NEW u \in Buyers,
         NEW decision \in {"approved", "rejected"}, DecideDeviation(a, u, decision)
  PROVE  PlanInv' /\ Fixed
  <1> DEFINE x == review[a]
             Touched(no, v) == \E i \in PlanItems : <<no, v, i>> \in x.items
  <1>1. /\ Decides(a, u, decision)
        /\ x.kind \in {"under_plan", "over_plan"}
        /\ x.kind = "over_plan" => orders[x.order].status = "pending_approval"
        /\ \A id \in x.items : plan[id[1]][id[2]].status = "ordering"
        /\ plan' = [no \in PlanNos |-> [v \in DOMAIN plan[no] |->
             IF Touched(no, v) THEN Decided(x, no, v, decision) ELSE plan[no][v]]]
        /\ orders' = IF x.kind = "under_plan" THEN orders
                     ELSE [orders EXCEPT ![x.order].status = OrderDecided(x.order, decision)]
    BY DEF DecideDeviation, Decidable
  <1>2. AddsNoDispute
    BY <1>1, ReviewDecided
  <1>3. orders' \in Seq(Order)
    <2>1. orders \in Seq(Order)
      BY DEF PlanInv, TablesOK
    <2>2. CASE x.kind = "under_plan"
      BY <1>1, <2>1, <2>2
    <2>3. CASE x.kind # "under_plan" /\ x.order \in DOMAIN orders
      BY <1>1, <2>3, OrderWritten DEF OrderDecided
    <2>4. CASE x.kind # "under_plan" /\ x.order \notin DOMAIN orders
      <3>1. orders' = orders
        BY <1>1, <2>1, <2>4, LenProperties
      <3> QED BY <2>1, <3>1
    <2> QED BY <2>2, <2>3, <2>4
  <1>4. ASSUME NEW no \in PlanNos, NEW v \in DOMAIN plan[no], Touched(no, v)
        PROVE  /\ plan[no][v].status = "ordering"
               /\ Decided(x, no, v, decision) \in Version
               /\ Decided(x, no, v, decision).status = "ordered_complete"
                  => Done(Decided(x, no, v, decision).completion)
    <2> DEFINE p == plan[no][v]
               completion == [i \in PlanItems |->
                 IF decision = "approved" /\ <<no, v, i>> \in x.items THEN "exception_approved"
                 ELSE p.completion[i]]
               status == IF Done(completion) THEN "ordered_complete" ELSE "ordering"
    <2>1. p \in Version
      BY VersionType
    <2>2. completion \in [PlanItems -> Completions]
      BY <2>1 DEF Version, Completions
    <2>3. Decided(x, no, v, decision) = [p EXCEPT !.completion = completion, !.status = status]
      BY DEF Decided
    <2>4. status \in {"ordered_complete", "ordering"} /\ (status = "ordered_complete" => Done(completion))
      OBVIOUS
    <2>5. p.status = "ordering"
      <3>1. PICK i \in PlanItems : <<no, v, i>> \in x.items
        BY <1>4
      <3> QED BY <1>1, <3>1
    <2> HIDE DEF p, completion, status
    <2> QED BY <2>1, <2>2, <2>3, <2>4, <2>5 DEF Version, p
  <1> HIDE DEF Touched
  <1>5. ASSUME NEW no \in PlanNos
        PROVE  /\ plan'[no] \in Seq(Version) /\ Len(plan'[no]) =< MaxVersions
               /\ DOMAIN plan'[no] = DOMAIN plan[no]
               /\ \A v \in DOMAIN plan'[no] :
                    \/ plan'[no][v] = plan[no][v]
                    \/ /\ plan[no][v].status \notin {"disputed", "ordered_complete"}
                       /\ plan'[no][v].status = "ordered_complete" => Done(plan'[no][v].completion)
    <2> DEFINE new == [v \in DOMAIN plan[no] |->
                         IF Touched(no, v) THEN Decided(x, no, v, decision) ELSE plan[no][v]]
    <2>1. plan'[no] = new
      BY <1>1
    <2>2. /\ plan[no] \in Seq(Version) /\ Len(plan[no]) =< MaxVersions
          /\ Len(plan[no]) \in Nat /\ DOMAIN plan[no] = 1 .. Len(plan[no])
      BY LenProperties DEF PlanInv, TablesOK
    <2>3. \A v \in DOMAIN plan[no] : new[v] \in Version
      BY <1>4, VersionType
    <2>4. new \in [1 .. Len(plan[no]) -> Version]
      BY <2>2, <2>3
    <2>5. new \in Seq(Version) /\ Len(new) = Len(plan[no])
      BY <2>2, <2>4
    <2>6. \A v \in DOMAIN plan[no] :
            new[v] = IF Touched(no, v) THEN Decided(x, no, v, decision) ELSE plan[no][v]
      OBVIOUS
    <2> HIDE DEF new
    <2> QED BY <1>4, <2>1, <2>2, <2>4, <2>5, <2>6
  <1>6. Careful
    BY <1>1, <1>3, <1>5 DEF Careful
  <1> QED BY <1>2, <1>6, CarefulPreserves

-----------------------------------------------------------------------------
\* Every command preserves the invariant and leaves complete versions alone.
LEMMA PlanStep ==
  ASSUME PlanInv, [ProcurementNext]_procurementVars
  PROVE  PlanInv' /\ Fixed
  <1>1. CASE UNCHANGED procurementVars
    BY <1>1 DEF procurementVars, PlanInv, TablesOK, DisputesStand, OneDispute, CompleteIsDone,
                Disputes, Pending, Fixed
  <1>2. CASE ProcurementNext
    BY <1>2, CreatePlanPreserves, RespondToPlanPreserves, FinalizePreserves, CreateOrderPreserves,
       RespondToOrderPreserves, DecideVersionPreserves, DecideDeviationPreserves,
       DecidePlanExceptionPreserves, DecideOrderExceptionPreserves DEF ProcurementNext
  <1> QED BY <1>1, <1>2

\* There are no plans at first.
LEMMA PlanInit ==
  ASSUME ProcurementInit
  PROVE  PlanInv
  <1>1. /\ plan = [no \in PlanNos |-> <<>>] /\ orders = <<>> /\ review = <<>>
        /\ \A no \in PlanNos : plan[no] = <<>>
    BY DEF ProcurementInit
  <1>2. TablesOK
    BY <1>1, EmptySeq, BoundsAssumption DEF TablesOK
  <1>3. Disputes = {}
    BY <1>1, EmptySeq, LenProperties DEF Disputes, Pending
  <1>4. CompleteIsDone
    BY <1>1, EmptySeq, LenProperties DEF CompleteIsDone
  <1> QED BY <1>2, <1>3, <1>4 DEF PlanInv, DisputesStand, OneDispute

LEMMA PlanInvariant == ProcurementSpec => []PlanInv
  BY PlanInit, PlanStep, PTL DEF ProcurementSpec

\* Every row of plans, orders and reviews has the shape its columns allow, and
\* every review is about lines of versions within the bounds.
THEOREM ProcurementTypes == ProcurementSpec => []ProcurementTypeOK
  <1>1. PlanInv => ProcurementTypeOK
    BY DEF PlanInv, TablesOK, ProcurementTypeOK, Version, Order, Review
  <1> QED BY <1>1, PlanInvariant, PTL

\* Whatever approvals of its lines, disputes of its factory or orders are
\* still on their way, a plan version that is ordered completely stays as it
\* is, and all its lines are done.
THEOREM CompletePlanStays == ProcurementSpec => CompletePlanFixed
  <1>1. PlanInv /\ [ProcurementNext]_procurementVars => [Fixed]_procurementVars
    BY PlanStep
  <1>2. ProcurementSpec => [][Fixed]_procurementVars
    BY <1>1, PlanInvariant, PTL DEF ProcurementSpec
  <1> QED BY <1>2 DEF CompletePlanFixed, Fixed

-----------------------------------------------------------------------------
(* What each command writes *)

\* Every row, and the ids of each table.
LEMMA RowsAre ==
  ASSUME PlanInv
  PROVE  /\ \A no \in PlanNos : /\ plan[no] \in Seq(Version) /\ Len(plan[no]) \in Nat
                                /\ DOMAIN plan[no] = 1 .. Len(plan[no])
                                /\ \A v \in DOMAIN plan[no] : plan[no][v] \in Version /\ v \in Nat
         /\ orders \in Seq(Order) /\ Len(orders) \in Nat /\ DOMAIN orders = 1 .. Len(orders)
         /\ \A o \in DOMAIN orders : orders[o] \in Order /\ o \in Nat
         /\ review \in Seq(Review) /\ Len(review) \in Nat /\ DOMAIN review = 1 .. Len(review)
         /\ \A a \in DOMAIN review : review[a] \in Review
  <1>1. orders \in Seq(Order) /\ review \in Seq(Review)
    BY DEF PlanInv, TablesOK
  <1>2. ASSUME NEW no \in PlanNos
        PROVE  /\ plan[no] \in Seq(Version) /\ Len(plan[no]) \in Nat
               /\ DOMAIN plan[no] = 1 .. Len(plan[no])
               /\ \A v \in DOMAIN plan[no] : plan[no][v] \in Version /\ v \in Nat
    <2>1. plan[no] \in Seq(Version)
      BY DEF PlanInv, TablesOK
    <2> QED BY <2>1, LenProperties, ElementOfSeq
  <1>3. /\ Len(orders) \in Nat /\ DOMAIN orders = 1 .. Len(orders)
        /\ \A o \in DOMAIN orders : orders[o] \in Order /\ o \in Nat
    BY <1>1, LenProperties, ElementOfSeq
  <1>4. /\ Len(review) \in Nat /\ DOMAIN review = 1 .. Len(review)
        /\ \A a \in DOMAIN review : review[a] \in Review
    BY <1>1, LenProperties, ElementOfSeq
  <1> QED BY <1>1, <1>2, <1>3, <1>4

\* One version is written, and no other.
Rewrites(no, v, row) ==
  \A m \in PlanNos : /\ DOMAIN plan'[m] = DOMAIN plan[m]
                     /\ \A x \in DOMAIN plan[m] :
                          plan'[m][x] = IF m = no /\ x = v THEN row ELSE plan[m][x]

\* What a command writes of a plan that writes one version as a whole.
LEMMA VersionRewritten ==
  ASSUME PlanInv, NEW no \in PlanNos, NEW v \in DOMAIN plan[no], NEW row,
         plan' = [plan EXCEPT ![no] = [plan[no] EXCEPT ![v] = row]]
  PROVE  Rewrites(no, v, row)
  <1>1. DOMAIN plan = PlanNos
    BY DEF PlanInv, TablesOK
  <1> QED BY <1>1 DEF Rewrites

\* A version gets another status.
Restatus(no, v, s) == plan' = [plan EXCEPT ![no][v].status = s]

\* A version that gets another status keeps what was ordered.
LEMMA StatusRewritten ==
  ASSUME PlanInv, NEW no \in PlanNos, NEW v \in DOMAIN plan[no], NEW s, Restatus(no, v, s)
  PROVE  \E row : Rewrites(no, v, row) /\ row.status = s /\ row.ordered = plan[no][v].ordered
  <1> DEFINE row == [plan[no][v] EXCEPT !.status = s]
  <1>1. plan' = [plan EXCEPT ![no] = [plan[no] EXCEPT ![v] = row]]
    BY DEF Restatus
  <1>2. plan[no][v] \in Version
    BY RowsAre
  <1>3. row.status = s /\ row.ordered = plan[no][v].ordered
    BY <1>2 DEF Version
  <1> HIDE DEF row
  <1>4. Rewrites(no, v, row)
    BY <1>1, VersionRewritten
  <1> QED BY <1>3, <1>4

\* One order gets another status.
Restates(o, s) ==
  /\ DOMAIN orders' = DOMAIN orders
  /\ \A p \in DOMAIN orders : /\ orders'[p].line = orders[p].line
                              /\ orders'[p].status = IF p = o THEN s ELSE orders[p].status

\* An order that gets another status keeps its lines.
LEMMA OrderRestated ==
  ASSUME PlanInv, NEW o \in DOMAIN orders, NEW s, orders' = [orders EXCEPT ![o].status = s]
  PROVE  Restates(o, s)
  <1>1. orders[o] \in Order /\ DOMAIN orders' = DOMAIN orders
    BY RowsAre
  <1>2. /\ orders'[o] = [orders[o] EXCEPT !.status = s]
        /\ \A p \in DOMAIN orders : p # o => orders'[p] = orders[p]
    BY <1>1
  <1>3. orders'[o].status = s /\ orders'[o].line = orders[o].line
    BY <1>1, <1>2 DEF Order
  <1> QED BY <1>1, <1>2, <1>3 DEF Restates

\* One review is decided.
Settles(a, decision) ==
  /\ DOMAIN review' = DOMAIN review /\ a \in DOMAIN review
  /\ review[a].status = "pending" /\ review'[a].status = decision
  /\ \A b \in DOMAIN review :
       /\ review'[b].kind = review[b].kind /\ review'[b].no = review[b].no
       /\ review'[b].v = review[b].v /\ review'[b].order = review[b].order
       /\ review'[b].items = review[b].items
       /\ b # a => review'[b].status = review[b].status

\* Deciding a review changes its status and nothing else of any.
LEMMA ReviewSettled ==
  ASSUME PlanInv, NEW a \in DOMAIN review, NEW u, NEW decision, Decides(a, u, decision)
  PROVE  Settles(a, decision)
  <1>1. review[a] \in Review /\ review[a].status = "pending"
    BY RowsAre DEF Decides
  <1>2. review' = [review EXCEPT ![a] = [review[a] EXCEPT !.status = decision]]
    BY DEF Decides
  <1>3. /\ DOMAIN review' = DOMAIN review /\ review'[a] = [review[a] EXCEPT !.status = decision]
        /\ \A b \in DOMAIN review : b # a => review'[b] = review[b]
    BY <1>2
  <1>4. LET y == [review[a] EXCEPT !.status = decision]
        IN /\ y.kind = review[a].kind /\ y.no = review[a].no /\ y.v = review[a].v
           /\ y.order = review[a].order /\ y.items = review[a].items /\ y.status = decision
    BY <1>1 DEF Review
  <1> QED BY <1>1, <1>3, <1>4 DEF Settles

\* One review is added.
Adds(x) ==
  /\ DOMAIN review' = DOMAIN review \cup {Len(review) + 1} /\ Len(review) + 1 \notin DOMAIN review
  /\ review'[Len(review) + 1] = x
  /\ \A a \in DOMAIN review : review'[a] = review[a]

\* Asking for a review leaves the others as they are.
LEMMA ReviewAppended ==
  ASSUME PlanInv, NEW x \in Review, review' = Append(review, x)
  PROVE  Adds(x)
  BY RowsAre, RowAppended DEF Adds

-----------------------------------------------------------------------------
(* A document waits for a decision exactly while one review of it is pending *)

\* Version v of a plan exists and has the status.
At(P, no, v, s) == v \in DOMAIN P[no] /\ P[no][v].status = s

\* With the plans P and the orders L, the document waits for a review of the
\* kind: version v of plan no, or order o.
Waits(P, L, kind, no, v, o) ==
  \/ kind = "plan_version" /\ o = 0 /\ no \in PlanNos /\ At(P, no, v, "pending_approval")
  \/ kind = "plan_exception" /\ o = 0 /\ no \in PlanNos /\ At(P, no, v, "disputed")
  \/ /\ kind = "over_plan" /\ no = "none" /\ v = 0 /\ o \in DOMAIN L
     /\ L[o].status = "pending_approval"
  \/ /\ kind = "order_exception" /\ no = "none" /\ v = 0 /\ o \in DOMAIN L
     /\ L[o].status = "disputed"

\* The review is of that kind and that document.
AsksFor(x, kind, no, v, o) == x.kind = kind /\ x.no = no /\ x.v = v /\ x.order = o

\* The reviews that some document's status waits for.
Open(R) == {a \in DOMAIN R : R[a].status = "pending" /\ R[a].kind # "under_plan"}

\* The documents that wait, and the open reviews, are matched one to one.
WaitInv ==
  /\ \A a \in Open(review) :
       Waits(plan, orders, review[a].kind, review[a].no, review[a].v, review[a].order)
  /\ \A kind, no, v, o : Waits(plan, orders, kind, no, v, o)
       => \E a \in Open(review) : AsksFor(review[a], kind, no, v, o)
  /\ \A a, b \in Open(review) :
       AsksFor(review[a], review[b].kind, review[b].no, review[b].v, review[b].order) => a = b

\* The same documents wait.
SameWait ==
  \A kind, no, v, o : Waits(plan', orders', kind, no, v, o) <=> Waits(plan, orders, kind, no, v, o)

\* The same reviews are open.
SameOpen ==
  /\ Open(review') = Open(review)
  /\ \A a \in Open(review) : /\ review'[a].kind = review[a].kind /\ review'[a].no = review[a].no
                             /\ review'[a].v = review[a].v /\ review'[a].order = review[a].order

\* A step after which the same documents wait for the same reviews.
LEMMA NothingAsked ==
  ASSUME WaitInv, SameWait, SameOpen
  PROVE  WaitInv'
  <1>1. \A a \in Open(review') :
          Waits(plan', orders', review'[a].kind, review'[a].no, review'[a].v, review'[a].order)
    BY DEF WaitInv, SameWait, SameOpen
  <1>2. \A kind, no, v, o : Waits(plan', orders', kind, no, v, o)
          => \E a \in Open(review') : AsksFor(review'[a], kind, no, v, o)
    BY DEF WaitInv, SameWait, SameOpen, AsksFor
  <1>3. \A a, b \in Open(review') :
          AsksFor(review'[a], review'[b].kind, review'[b].no, review'[b].v, review'[b].order) => a = b
    BY DEF WaitInv, SameOpen, AsksFor
  <1> QED BY <1>1, <1>2, <1>3 DEF WaitInv

\* One document more waits.
WaitsToo(kind, no, v, o) ==
  /\ ~Waits(plan, orders, kind, no, v, o)
  /\ \A k, m, x, p : Waits(plan', orders', k, m, x, p)
       <=> Waits(plan, orders, k, m, x, p) \/ (k = kind /\ m = no /\ x = v /\ p = o)

\* A step after which one document more waits, and its review is asked for.
LEMMA OneAsked ==
  ASSUME WaitInv, NEW kind, NEW no, NEW v, NEW o, WaitsToo(kind, no, v, o), kind # "under_plan",
         NEW x, Adds(x), AsksFor(x, kind, no, v, o), x.status = "pending"
  PROVE  WaitInv'
  <1> DEFINE m == Len(review) + 1
  <1>1. /\ DOMAIN review' = DOMAIN review \cup {m} /\ m \notin DOMAIN review
        /\ review'[m] = x /\ \A a \in DOMAIN review : review'[a] = review[a]
    BY DEF Adds
  <1> HIDE DEF m
  <1>2. Open(review') = Open(review) \cup {m} /\ m \notin Open(review)
        /\ \A a \in Open(review) : review'[a] = review[a]
    BY <1>1 DEF Open, AsksFor
  <1>3. \A a \in Open(review') :
          Waits(plan', orders', review'[a].kind, review'[a].no, review'[a].v, review'[a].order)
    <2> TAKE a \in Open(review')
    <2>1. CASE a = m
      BY <1>1, <2>1 DEF WaitsToo, AsksFor
    <2>2. CASE a # m
      BY <1>2, <2>2 DEF WaitInv, WaitsToo
    <2> QED BY <2>1, <2>2
  <1>4. ASSUME NEW k, NEW n, NEW y, NEW p, Waits(plan', orders', k, n, y, p)
        PROVE  \E a \in Open(review') : AsksFor(review'[a], k, n, y, p)
    <2>1. CASE k = kind /\ n = no /\ y = v /\ p = o
      BY <1>1, <1>2, <2>1
    <2>2. CASE ~(k = kind /\ n = no /\ y = v /\ p = o)
      <3>1. Waits(plan, orders, k, n, y, p)
        BY <1>4, <2>2 DEF WaitsToo
      <3>2. PICK a \in Open(review) : AsksFor(review[a], k, n, y, p)
        BY <3>1 DEF WaitInv
      <3> QED BY <1>2, <3>2
    <2> QED BY <2>1, <2>2
  <1>5. ASSUME NEW a \in Open(review'), NEW b \in Open(review'),
               AsksFor(review'[a], review'[b].kind, review'[b].no, review'[b].v, review'[b].order)
        PROVE  a = b
    <2>1. \A c \in Open(review) : ~AsksFor(review[c], kind, no, v, o)
      BY DEF WaitInv, WaitsToo, AsksFor
    <2>2. CASE a = m /\ b # m
      BY <1>1, <1>2, <1>5, <2>1, <2>2 DEF AsksFor
    <2>3. CASE a # m /\ b = m
      BY <1>1, <1>2, <1>5, <2>1, <2>3 DEF AsksFor
    <2>4. CASE a # m /\ b # m
      BY <1>2, <1>5, <2>4 DEF WaitInv
    <2> QED BY <2>2, <2>3, <2>4
  <1> QED BY <1>3, <1>4, <1>5 DEF WaitInv

\* One document waits no longer.
WaitsNot(x) ==
  \A k, n, y, p : Waits(plan', orders', k, n, y, p)
    <=> Waits(plan, orders, k, n, y, p) /\ ~AsksFor(x, k, n, y, p)

\* A step that decides a review after which its document waits no longer.
LEMMA OneAnswered ==
  ASSUME WaitInv, NEW a \in Open(review), NEW decision \in {"approved", "rejected"},
         Settles(a, decision), WaitsNot(review[a])
  PROVE  WaitInv'
  <1>1. /\ Open(review') = Open(review) \ {a}
        /\ \A b \in Open(review) : /\ review'[b].kind = review[b].kind /\ review'[b].no = review[b].no
                                   /\ review'[b].v = review[b].v /\ review'[b].order = review[b].order
    BY DEF Settles, Open
  <1>2. ASSUME NEW b \in Open(review')
        PROVE  Waits(plan', orders', review'[b].kind, review'[b].no, review'[b].v, review'[b].order)
    <2>1. ~AsksFor(review[a], review[b].kind, review[b].no, review[b].v, review[b].order)
      BY <1>1 DEF WaitInv
    <2> QED BY <1>1, <2>1 DEF WaitInv, WaitsNot
  <1>3. ASSUME NEW k, NEW n, NEW y, NEW p, Waits(plan', orders', k, n, y, p)
        PROVE  \E b \in Open(review') : AsksFor(review'[b], k, n, y, p)
    <2>1. Waits(plan, orders, k, n, y, p) /\ ~AsksFor(review[a], k, n, y, p)
      BY <1>3 DEF WaitsNot
    <2>2. PICK b \in Open(review) : AsksFor(review[b], k, n, y, p)
      BY <2>1 DEF WaitInv
    <2> QED BY <1>1, <2>1, <2>2 DEF AsksFor
  <1>4. \A b, c \in Open(review') :
          AsksFor(review'[b], review'[c].kind, review'[c].no, review'[c].v, review'[c].order) => b = c
    BY <1>1 DEF WaitInv, AsksFor
  <1> QED BY <1>2, <1>3, <1>4 DEF WaitInv

LEMMA OneOrNone ==
  ASSUME NEW S, NEW p \in BOOLEAN, p <=> S # {}, \A a, b \in S : a = b
  PROVE  Cardinality(S) = IF p THEN 1 ELSE 0
  <1>1. CASE S = {}
    BY <1>1, FS_EmptySet
  <1>2. CASE S # {}
    <2>1. PICK a \in S : TRUE
      BY <1>2
    <2>2. S = {a}
      BY <2>1
    <2> QED BY <1>2, <2>2, FS_Singleton
  <1> QED BY <1>1, <1>2

LEMMA WaitsCounted ==
  ASSUME PlanInv, WaitInv
  PROVE  WaitsForSomeone
  <1>1. \A kind : kind # "under_plan" =>
          \A a : a \in Pending(kind) <=> a \in Open(review) /\ review[a].kind = kind
    BY DEF Pending, Open
  <1>2. ASSUME NEW no \in PlanNos, NEW v \in DOMAIN plan[no], NEW kind, NEW status,
               \/ kind = "plan_version" /\ status = "pending_approval"
               \/ kind = "plan_exception" /\ status = "disputed"
        PROVE  Cardinality({a \in Pending(kind) : review[a].no = no /\ review[a].v = v}) =
                 IF plan[no][v].status = status THEN 1 ELSE 0
    <2> DEFINE S == {a \in Pending(kind) : review[a].no = no /\ review[a].v = v}
               p == plan[no][v].status = status
    <2>1. \A a \in S : /\ a \in Open(review) /\ AsksFor(review[a], kind, no, v, 0)
                     /\ Waits(plan, orders, kind, no, v, 0)
      BY <1>1, <1>2 DEF WaitInv, Waits, At, AsksFor
    <2>2. p <=> Waits(plan, orders, kind, no, v, 0)
      BY <1>2 DEF Waits, At
    <2>3. p => S # {}
      BY <1>1, <1>2, <2>2 DEF WaitInv, AsksFor
    <2>4. \A a, b \in S : a = b
      BY <2>1 DEF WaitInv, AsksFor
    <2>5. p \in BOOLEAN /\ (p <=> S # {})
      BY <2>1, <2>2, <2>3
    <2> HIDE DEF S, p
    <2>6. Cardinality(S) = IF p THEN 1 ELSE 0
      BY <2>4, <2>5, OneOrNone
    <2> QED BY <2>6 DEF S, p
  <1>3. ASSUME NEW o \in DOMAIN orders, NEW kind, NEW status,
               \/ kind = "over_plan" /\ status = "pending_approval"
               \/ kind = "order_exception" /\ status = "disputed"
        PROVE  Cardinality({a \in Pending(kind) : review[a].order = o}) =
                 IF orders[o].status = status THEN 1 ELSE 0
    <2> DEFINE S == {a \in Pending(kind) : review[a].order = o}
               p == orders[o].status = status
    <2>1. \A a \in S : /\ a \in Open(review) /\ AsksFor(review[a], kind, "none", 0, o)
                     /\ Waits(plan, orders, kind, "none", 0, o)
      BY <1>1, <1>3 DEF WaitInv, Waits, At, AsksFor
    <2>2. p <=> Waits(plan, orders, kind, "none", 0, o)
      BY <1>3 DEF Waits
    <2>3. p => S # {}
      BY <1>1, <1>3, <2>2 DEF WaitInv, AsksFor
    <2>4. \A a, b \in S : a = b
      BY <2>1 DEF WaitInv, AsksFor
    <2>5. p \in BOOLEAN /\ (p <=> S # {})
      BY <2>1, <2>2, <2>3
    <2> HIDE DEF S, p
    <2>6. Cardinality(S) = IF p THEN 1 ELSE 0
      BY <2>4, <2>5, OneOrNone
    <2> QED BY <2>6 DEF S, p
  <1> QED BY <1>2, <1>3 DEF WaitsForSomeone

\* One version is added to a plan.
Extended(no, v, row) ==
  /\ v \notin DOMAIN plan[no]
  /\ \A m \in PlanNos : /\ DOMAIN plan'[m] = IF m = no THEN DOMAIN plan[m] \cup {v} ELSE DOMAIN plan[m]
                        /\ \A x \in DOMAIN plan[m] : plan'[m][x] = plan[m][x]
  /\ plan'[no][v] = row

\* One order is added.
Placed(row) ==
  /\ Len(orders') = Len(orders) + 1
  /\ DOMAIN orders' = DOMAIN orders \cup {Len(orders) + 1} /\ Len(orders) + 1 \notin DOMAIN orders
  /\ orders'[Len(orders) + 1] = row
  /\ \A o \in DOMAIN orders : orders'[o] = orders[o]

\* The plans that wait for a decision are the same.
Steady ==
  \A no \in PlanNos :
    /\ DOMAIN plan'[no] = DOMAIN plan[no]
    /\ \A v \in DOMAIN plan[no] :
         /\ plan'[no][v].status = "pending_approval" <=> plan[no][v].status = "pending_approval"
         /\ plan'[no][v].status = "disputed" <=> plan[no][v].status = "disputed"

\* A new version changes no other.
LEMMA CreatePlanWrites ==
  ASSUME PlanInv, NEW no \in PlanNos, NEW u \in Buyers, CreatePlan(no, u)
  PROVE  LET v == Len(plan[no]) + 1
             row == [status     |-> IF v = 1 THEN "awaiting_factory_confirmation"
                                    ELSE "pending_approval",
                     ordered    |-> [i \in PlanItems |-> 0],
                     completion |-> [i \in PlanItems |-> "not_ordered"]]
         IN Extended(no, v, row) /\ v \in Nat
  <1> DEFINE v == Len(plan[no]) + 1
             row == [status     |-> IF v = 1 THEN "awaiting_factory_confirmation"
                                    ELSE "pending_approval",
                     ordered    |-> [i \in PlanItems |-> 0],
                     completion |-> [i \in PlanItems |-> "not_ordered"]]
  <1>1. plan' = [plan EXCEPT ![no] = Append(plan[no], row)] /\ DOMAIN plan = PlanNos
    BY DEF CreatePlan, PlanInv, TablesOK
  <1>2. plan[no] \in Seq(Version) /\ Len(plan[no]) \in Nat
    BY RowsAre
  <1>3. row \in Version
    BY DEF Version, Completions
  <1> HIDE DEF row
  <1> DEFINE new == Append(plan[no], row)
  <1>4. /\ DOMAIN new = DOMAIN plan[no] \cup {v} /\ v \notin DOMAIN plan[no]
        /\ new[v] = row /\ \A x \in DOMAIN plan[no] : new[x] = plan[no][x]
    BY <1>2, <1>3, RowAppended
  <1>5. plan'[no] = new /\ \A m \in PlanNos : m # no => plan'[m] = plan[m]
    BY <1>1
  <1> HIDE DEF new, v
  <1>6. Extended(no, v, row)
    BY <1>4, <1>5 DEF Extended
  <1> QED BY <1>2, <1>6 DEF row, v

\* A second version of a plan waits for the review it asks for.
LEMMA CreatePlanWaits ==
  ASSUME PlanInv, WaitInv, NEW no \in PlanNos, NEW u \in Buyers, CreatePlan(no, u)
  PROVE  WaitInv'
  <1> DEFINE v == Len(plan[no]) + 1
             row == [status     |-> IF v = 1 THEN "awaiting_factory_confirmation"
                                    ELSE "pending_approval",
                     ordered    |-> [i \in PlanItems |-> 0],
                     completion |-> [i \in PlanItems |-> "not_ordered"]]
             x == ReviewOfPlan("plan_version", no, v, {}, u)
  <1>1. Extended(no, v, row) /\ v \in Nat
    BY CreatePlanWrites
  <1>2. row.status = IF v = 1 THEN "awaiting_factory_confirmation" ELSE "pending_approval"
    OBVIOUS
  <1>3. orders' = orders /\ IF v = 1 THEN review' = review ELSE review' = Append(review, x)
    BY DEF CreatePlan
  <1>4. x \in Review /\ AsksFor(x, "plan_version", no, v, 0) /\ x.status = "pending"
    <2>1. {} \in SUBSET ItemIds
      OBVIOUS
    <2> QED BY <1>1, <2>1 DEF ReviewOfPlan, AsksFor, Review, Kinds
  <1> HIDE DEF v, row, x
  <1>5. ASSUME NEW m \in PlanNos, NEW y, NEW s
        PROVE  /\ At(plan', m, y, s) <=> At(plan, m, y, s) \/ (m = no /\ y = v /\ row.status = s)
               /\ ~At(plan, no, v, s)
    BY <1>1 DEF Extended, At
  <1>6. CASE v = 1
    <2>1. SameWait
      BY <1>2, <1>3, <1>6, <1>5 DEF SameWait, Waits
    <2>2. SameOpen
      BY <1>3, <1>6 DEF SameOpen, Open
    <2> QED BY <2>1, <2>2, NothingAsked
  <1>7. CASE v # 1
    <2>1. WaitsToo("plan_version", no, v, 0)
      BY <1>2, <1>3, <1>7, <1>5 DEF WaitsToo, Waits
    <2>2. Adds(x)
      BY <1>3, <1>4, <1>7, ReviewAppended
    <2> QED BY <1>4, <2>1, <2>2, OneAsked
  <1> QED BY <1>6, <1>7

\* A disputed version waits for the review of the factory's exception.
LEMMA RespondToPlanWaits ==
  ASSUME PlanInv, WaitInv, NEW no \in PlanNos, NEW v \in DOMAIN plan[no], NEW u \in FactoryUsers,
         NEW decision \in {"confirmed", "disputed"}, RespondToPlan(no, v, u, decision)
  PROVE  WaitInv'
  <1> DEFINE x == ReviewOfPlan("plan_exception", no, v, {}, u)
  <1>1. /\ plan[no][v].status = "awaiting_factory_confirmation" /\ orders' = orders
        /\ plan' = [plan EXCEPT ![no][v].status = decision]
        /\ IF decision = "confirmed" THEN review' = review ELSE review' = Append(review, x)
    BY DEF RespondToPlan
  <1>2. PICK row : Rewrites(no, v, row) /\ row.status = decision
    <2>1. Restatus(no, v, decision)
      BY <1>1 DEF Restatus
    <2> QED BY <2>1, StatusRewritten
  <1>3. x \in Review /\ AsksFor(x, "plan_exception", no, v, 0) /\ x.status = "pending"
    <2>1. {} \in SUBSET ItemIds /\ v \in Nat
      BY RowsAre
    <2> QED BY <2>1 DEF ReviewOfPlan, AsksFor, Review, Kinds
  <1> HIDE DEF x
  <1>4. CASE decision = "confirmed"
    <2>1. SameWait
      BY <1>1, <1>2, <1>4 DEF SameWait, Waits, At, Rewrites
    <2>2. SameOpen
      BY <1>1, <1>4 DEF SameOpen, Open
    <2> QED BY <2>1, <2>2, NothingAsked
  <1>5. CASE decision = "disputed"
    <2>1. WaitsToo("plan_exception", no, v, 0)
      BY <1>1, <1>2, <1>5 DEF WaitsToo, Waits, At, Rewrites
    <2>2. Adds(x)
      BY <1>1, <1>3, <1>5, ReviewAppended
    <2> QED BY <1>3, <2>1, <2>2, OneAsked
  <1> QED BY <1>4, <1>5

\* What version id[2] of plan id[1] has ordered of item id[3].
Ordered(P, id) == IF id[2] \in DOMAIN P[id[1]] THEN P[id[1]][id[2]].ordered[id[3]] ELSE 0

\* What ending the orders of a version writes: its status and completions.
LEMMA FinalizeWrites ==
  ASSUME PlanInv, NEW no \in PlanNos, NEW v \in DOMAIN plan[no], NEW u \in Buyers,
         Finalize(no, v, u)
  PROVE  /\ Steady /\ orders' = orders
         /\ \A id \in ItemIds : Ordered(plan', id) = Ordered(plan, id)
         /\ \/ review' = review
            \/ \E x : Adds(x) /\ x.kind = "under_plan"
  <1> DEFINE p     == plan[no][v]
             under == {i \in PlanItems : RateBps(p.ordered[i], Planned[i]) < -UnderBps}
             completion == [i \in PlanItems |->
                              IF i \in under THEN "under_plan_pending" ELSE "within_tolerance"]
             status == IF under = {} THEN "ordered_complete" ELSE "ordering"
             row == [p EXCEPT !.status = status, !.completion = completion]
             x == ReviewOfPlan("under_plan", no, v, {no} \X {v} \X under, u)
  <1>1. p \in Version /\ p.status \in {"confirmed", "ordering"}
    BY VersionType DEF Finalize
  <1>2. /\ plan' = [plan EXCEPT ![no] = [plan[no] EXCEPT ![v] = row]] /\ orders' = orders
        /\ \/ review' = review
           \/ review' = Append(review, x)
    BY DEF Finalize
  <1>3. under \subseteq PlanItems
    OBVIOUS
  <1>4. v \in 1 .. MaxVersions /\ v \in Nat
    BY VersionType, RowsAre
  <1>5. {no} \X {v} \X under \in SUBSET ItemIds
    BY <1>3, <1>4 DEF ItemIds
  <1> HIDE DEF under
  <1>6. x \in Review /\ x.kind = "under_plan"
    BY <1>4, <1>5, ReviewRow DEF Kinds
  <1>7. status \in {"ordered_complete", "ordering"}
    OBVIOUS
  <1> HIDE DEF status, completion, x
  <1>8. row.status = status /\ row.ordered = p.ordered
    BY <1>1 DEF Version
  <1> HIDE DEF row
  <1>9. Rewrites(no, v, row)
    BY <1>2, VersionRewritten
  <1>10. Steady
    BY <1>1, <1>7, <1>8, <1>9 DEF Steady, Rewrites
  <1>11. ASSUME NEW id \in ItemIds PROVE Ordered(plan', id) = Ordered(plan, id)
    <2>1. id[1] \in PlanNos
      BY DEF ItemIds
    <2> QED BY <1>8, <1>9, <2>1 DEF Ordered, Rewrites
  <1>12. CASE review' = review
    BY <1>2, <1>10, <1>11, <1>12
  <1>13. CASE review' = Append(review, x)
    <2>1. Adds(x)
      BY <1>6, <1>13, ReviewAppended
    <2> QED BY <1>2, <1>6, <1>10, <1>11, <2>1
  <1> QED BY <1>2, <1>12, <1>13

\* It leaves the documents that wait and the open reviews as they are.
LEMMA FinalizeWaits ==
  ASSUME PlanInv, WaitInv, NEW no \in PlanNos, NEW v \in DOMAIN plan[no], NEW u \in Buyers,
         Finalize(no, v, u)
  PROVE  WaitInv'
  <1>1. Steady /\ orders' = orders
    BY FinalizeWrites
  <1>2. SameWait
    BY <1>1 DEF SameWait, Waits, At, Steady
  <1>3. CASE review' = review
    <2>1. SameOpen
      BY <1>3 DEF SameOpen, Open
    <2> QED BY <1>2, <2>1, NothingAsked
  <1>4. ASSUME NEW x, Adds(x), x.kind = "under_plan" PROVE WaitInv'
    <2>1. SameOpen
      BY <1>4 DEF SameOpen, Open, Adds
    <2> QED BY <1>2, <2>1, NothingAsked
  <1> QED BY <1>3, <1>4, FinalizeWrites

\* A review that is open is of a document that waits.
LEMMA OpenWaits ==
  ASSUME WaitInv, NEW a \in DOMAIN review, review[a].status = "pending", review[a].kind # "under_plan"
  PROVE  /\ a \in Open(review)
         /\ Waits(plan, orders, review[a].kind, review[a].no, review[a].v, review[a].order)
  BY DEF WaitInv, Open

\* A version whose review is decided waits no longer.
LEMMA DecideVersionWaits ==
  ASSUME PlanInv, WaitInv, NEW a \in DOMAIN review, NEW u \in Buyers,
         NEW decision \in {"approved", "rejected"}, DecideVersion(a, u, decision)
  PROVE  WaitInv'
  <1> DEFINE no == review[a].no
             v  == review[a].v
             status == IF decision = "approved" THEN "awaiting_factory_confirmation" ELSE "draft"
  <1>1. /\ review[a].kind = "plan_version" /\ review[a].status = "pending"
        /\ plan' = [plan EXCEPT ![no][v].status = status] /\ orders' = orders
        /\ Decides(a, u, decision)
    BY DEF DecideVersion, Decides
  <1>2. /\ a \in Open(review)
        /\ Waits(plan, orders, review[a].kind, no, v, review[a].order)
    BY <1>1, OpenWaits
  <1>3. no \in PlanNos /\ At(plan, no, v, "pending_approval") /\ review[a].order = 0
    BY <1>1, <1>2 DEF Waits
  <1>4. Settles(a, decision)
    BY <1>1, ReviewSettled
  <1>5. status \notin {"pending_approval", "disputed"}
    OBVIOUS
  <1>6. Restatus(no, v, status)
    BY <1>1 DEF Restatus
  <1>7. no = review[a].no /\ v = review[a].v
    OBVIOUS
  <1> HIDE DEF no, v, status
  <1>8. PICK row : Rewrites(no, v, row) /\ row.status = status
    BY <1>3, <1>6, StatusRewritten DEF At
  <1>9. WaitsNot(review[a])
    BY <1>1, <1>3, <1>5, <1>8, <1>7 DEF WaitsNot, AsksFor, Waits, At, Rewrites
  <1> QED BY <1>2, <1>4, <1>9, OneAnswered

\* Nor does a version whose factory's exception is decided.
LEMMA DecidePlanExceptionWaits ==
  ASSUME PlanInv, WaitInv, NEW a \in DOMAIN review, NEW u \in Buyers,
         NEW decision \in {"approved", "rejected"}, DecidePlanException(a, u, decision)
  PROVE  WaitInv'
  <1> DEFINE no == review[a].no
             v  == review[a].v
             status == IF decision = "approved" THEN "confirmed" ELSE "awaiting_factory_confirmation"
  <1>1. /\ review[a].kind = "plan_exception" /\ review[a].status = "pending"
        /\ plan' = [plan EXCEPT ![no][v].status = status] /\ orders' = orders
        /\ Decides(a, u, decision)
    BY DEF DecidePlanException, Decides
  <1>2. /\ a \in Open(review)
        /\ Waits(plan, orders, review[a].kind, no, v, review[a].order)
    BY <1>1, OpenWaits
  <1>3. no \in PlanNos /\ At(plan, no, v, "disputed") /\ review[a].order = 0
    BY <1>1, <1>2 DEF Waits
  <1>4. Settles(a, decision)
    BY <1>1, ReviewSettled
  <1>5. status \notin {"pending_approval", "disputed"}
    OBVIOUS
  <1>6. Restatus(no, v, status)
    BY <1>1 DEF Restatus
  <1>7. no = review[a].no /\ v = review[a].v
    OBVIOUS
  <1> HIDE DEF no, v, status
  <1>8. PICK row : Rewrites(no, v, row) /\ row.status = status
    BY <1>3, <1>6, StatusRewritten DEF At
  <1>9. WaitsNot(review[a])
    BY <1>1, <1>3, <1>5, <1>8, <1>7 DEF WaitsNot, AsksFor, Waits, At, Rewrites
  <1> QED BY <1>2, <1>4, <1>9, OneAnswered

\* Nor does an order whose factory's exception is decided: it is still
\* disputed, so it gets the status the decision is for.
LEMMA DecideOrderExceptionWaits ==
  ASSUME PlanInv, WaitInv, NEW a \in DOMAIN review, NEW u \in Buyers,
         NEW decision \in {"approved", "rejected"}, DecideOrderException(a, u, decision)
  PROVE  WaitInv'
  <1> DEFINE o == review[a].order
             status == IF decision = "approved" THEN "confirmed" ELSE "factory_confirmation"
  <1>1. /\ review[a].kind = "order_exception" /\ review[a].status = "pending" /\ plan' = plan
        /\ orders' = [orders EXCEPT ![o].status = IF @ # "disputed" THEN @ ELSE status]
        /\ Decides(a, u, decision)
    BY DEF DecideOrderException, Decides
  <1>2. /\ a \in Open(review)
        /\ Waits(plan, orders, review[a].kind, review[a].no, review[a].v, o)
    BY <1>1, OpenWaits
  <1>3. /\ o \in DOMAIN orders /\ orders[o].status = "disputed"
        /\ review[a].no = "none" /\ review[a].v = 0
    BY <1>1, <1>2 DEF Waits
  <1>4. Settles(a, decision)
    BY <1>1, ReviewSettled
  <1>5. status \notin {"pending_approval", "disputed"}
    OBVIOUS
  <1>6. orders' = [orders EXCEPT ![o].status = status]
    BY <1>1, <1>3
  <1>7. o = review[a].order
    OBVIOUS
  <1> HIDE DEF o, status
  <1>8. Restates(o, status)
    BY <1>3, <1>6, OrderRestated
  <1>9. WaitsNot(review[a])
    BY <1>1, <1>3, <1>5, <1>8, <1>7 DEF WaitsNot, AsksFor, Waits, Restates
  <1> QED BY <1>2, <1>4, <1>9, OneAnswered

\* A disputed order waits for the review of the factory's exception.
LEMMA RespondToOrderWaits ==
  ASSUME PlanInv, WaitInv, NEW o \in DOMAIN orders, NEW u \in FactoryUsers,
         NEW decision \in {"confirmed", "disputed"}, RespondToOrder(o, u, decision)
  PROVE  WaitInv'
  <1> DEFINE x == ReviewOfOrder("order_exception", o, {}, u)
  <1>1. /\ orders[o].status = "factory_confirmation" /\ plan' = plan
        /\ orders' = [orders EXCEPT ![o].status = decision]
        /\ IF decision = "confirmed" THEN review' = review ELSE review' = Append(review, x)
    BY DEF RespondToOrder
  <1>2. Restates(o, decision)
    BY <1>1, OrderRestated
  <1>3. x \in Review /\ AsksFor(x, "order_exception", "none", 0, o) /\ x.status = "pending"
    <2>1. {} \in SUBSET ItemIds /\ o \in Nat
      BY RowsAre
    <2> QED BY <2>1 DEF ReviewOfOrder, AsksFor, Review, Kinds
  <1> HIDE DEF x
  <1>4. CASE decision = "confirmed"
    <2>1. SameWait
      BY <1>1, <1>2, <1>4 DEF SameWait, Waits, Restates
    <2>2. SameOpen
      BY <1>1, <1>4 DEF SameOpen, Open
    <2> QED BY <2>1, <2>2, NothingAsked
  <1>5. CASE decision = "disputed"
    <2>1. WaitsToo("order_exception", "none", 0, o)
      BY <1>1, <1>2, <1>5 DEF WaitsToo, Waits, Restates
    <2>2. Adds(x)
      BY <1>1, <1>3, <1>5, ReviewAppended
    <2> QED BY <1>3, <2>1, <2>2, OneAsked
  <1> QED BY <1>4, <1>5

\* What the decision about a deviation writes.
LEMMA DecideDeviationWrites ==
  ASSUME PlanInv, NEW a \in DOMAIN review, NEW u \in Buyers,
         NEW decision \in {"approved", "rejected"}, DecideDeviation(a, u, decision)
  PROVE  /\ Steady
         /\ \A id \in ItemIds : Ordered(plan', id) = Ordered(plan, id)
         /\ Settles(a, decision)
         /\ \/ review[a].kind = "under_plan" /\ orders' = orders
            \/ /\ review[a].kind = "over_plan" /\ orders[review[a].order].status = "pending_approval"
               /\ orders' = [orders EXCEPT ![review[a].order].status =
                                       OrderDecided(review[a].order, decision)]
  <1> DEFINE x == review[a]
             Touched(no, v) == \E i \in PlanItems : <<no, v, i>> \in x.items
  <1>1. /\ Decides(a, u, decision)
        /\ x.kind \in {"under_plan", "over_plan"}
        /\ x.kind = "over_plan" => orders[x.order].status = "pending_approval"
        /\ \A id \in x.items : plan[id[1]][id[2]].status = "ordering"
        /\ plan' = [no \in PlanNos |-> [v \in DOMAIN plan[no] |->
             IF Touched(no, v) THEN Decided(x, no, v, decision) ELSE plan[no][v]]]
        /\ orders' = IF x.kind = "under_plan" THEN orders
                     ELSE [orders EXCEPT ![x.order].status = OrderDecided(x.order, decision)]
    BY DEF DecideDeviation, Decidable
  <1>2. ASSUME NEW no \in PlanNos, NEW v \in DOMAIN plan[no], Touched(no, v)
        PROVE  /\ plan[no][v].status = "ordering"
               /\ Decided(x, no, v, decision).status \in {"ordering", "ordered_complete"}
               /\ Decided(x, no, v, decision).ordered = plan[no][v].ordered
    <2> DEFINE p == plan[no][v]
               completion == [i \in PlanItems |->
                 IF decision = "approved" /\ <<no, v, i>> \in x.items THEN "exception_approved"
                 ELSE p.completion[i]]
               status == IF Done(completion) THEN "ordered_complete" ELSE "ordering"
    <2>1. p \in Version
      BY VersionType
    <2>2. Decided(x, no, v, decision) = [p EXCEPT !.completion = completion, !.status = status]
      BY DEF Decided
    <2>3. status \in {"ordered_complete", "ordering"}
      OBVIOUS
    <2>4. p.status = "ordering"
      <3>1. PICK i \in PlanItems : <<no, v, i>> \in x.items
        BY <1>2
      <3> QED BY <1>1, <3>1
    <2> HIDE DEF completion, status
    <2> QED BY <2>1, <2>2, <2>3, <2>4 DEF Version
  <1> HIDE DEF Touched
  <1>3. \A no \in PlanNos :
          /\ DOMAIN plan'[no] = DOMAIN plan[no]
          /\ \A v \in DOMAIN plan[no] :
               plan'[no][v] = IF Touched(no, v) THEN Decided(x, no, v, decision) ELSE plan[no][v]
    BY <1>1
  <1>4. Steady
    BY <1>2, <1>3 DEF Steady
  <1>5. ASSUME NEW id \in ItemIds PROVE Ordered(plan', id) = Ordered(plan, id)
    <2>1. id[1] \in PlanNos
      BY DEF ItemIds
    <2> QED BY <1>2, <1>3, <2>1 DEF Ordered
  <1>6. Settles(a, decision)
    BY <1>1, ReviewSettled
  <1> QED BY <1>1, <1>4, <1>5, <1>6

\* An order whose deviation is decided waits no longer; a plan's deviation
\* is no document's status.
LEMMA DecideDeviationWaits ==
  ASSUME PlanInv, WaitInv, NEW a \in DOMAIN review, NEW u \in Buyers,
         NEW decision \in {"approved", "rejected"}, DecideDeviation(a, u, decision)
  PROVE  WaitInv'
  <1>1. /\ Steady
        /\ \A id \in ItemIds : Ordered(plan', id) = Ordered(plan, id)
        /\ Settles(a, decision)
        /\ \/ review[a].kind = "under_plan" /\ orders' = orders
           \/ /\ review[a].kind = "over_plan" /\ orders[review[a].order].status = "pending_approval"
              /\ orders' = [orders EXCEPT ![review[a].order].status =
                                       OrderDecided(review[a].order, decision)]
    BY ZenonT(60), DecideDeviationWrites
  <1>2. CASE review[a].kind = "under_plan" /\ orders' = orders
    <2>1. SameWait
      BY <1>1, <1>2 DEF SameWait, Waits, At, Steady
    <2>2. SameOpen
      BY <1>1, <1>2 DEF SameOpen, Open, Settles
    <2> QED BY <2>1, <2>2, NothingAsked
  <1>3. CASE review[a].kind = "over_plan"
    <2> DEFINE o == review[a].order
               status == OrderDecided(o, decision)
    <2>1. /\ a \in Open(review)
          /\ Waits(plan, orders, review[a].kind, review[a].no, review[a].v, review[a].order)
      BY <1>1, <1>3, OpenWaits DEF Settles
    <2>2. o \in DOMAIN orders /\ review[a].no = "none" /\ review[a].v = 0
      BY <1>3, <2>1 DEF Waits
    <2>3. status \in {"factory_confirmation", "approval_rejected"}
      BY DEF OrderDecided
    <2>4. /\ orders' = [orders EXCEPT ![o].status = status] /\ o = review[a].order
          /\ orders[o].status = "pending_approval"
      BY <1>1, <1>3
    <2> HIDE DEF o, status
    <2>5. Restates(o, status)
      BY <2>2, <2>4, OrderRestated
    <2>6. WaitsNot(review[a])
      BY <1>1, <1>3, <2>2, <2>3, <2>4, <2>5 DEF WaitsNot, AsksFor, Waits, At, Restates, Steady
    <2> QED BY <1>1, <2>1, <2>6, OneAnswered
  <1> QED BY <1>1, <1>2, <1>3

\* What an order writes.
OrderWrites(n, u) ==
  LET nos     == {x[1] : x \in DOMAIN n}
      Id(x)   == <<x[1], Len(plan[x[1]]), x[2]>>
      outside == {x \in DOMAIN n : Outside(x[1], x[2], n[x])}
      ids     == {Id(x) : x \in outside}
      x0      == ReviewOfOrder("over_plan", Len(orders) + 1, ids, u)
      row == [status |-> IF outside = {} THEN "factory_confirmation" ELSE "pending_approval",
              line   |-> [id \in ItemIds |-> IF \E x \in DOMAIN n : Id(x) = id
                                             THEN n[<<id[1], id[3]>>] ELSE 0]]
  IN /\ Placed(row) /\ row \in Order
     /\ IF outside = {} THEN review' = review ELSE x0 \in Review /\ Adds(x0)

\* What it writes of the plans.
PlansWritten(n) ==
  \A no \in PlanNos :
    /\ DOMAIN plan'[no] = DOMAIN plan[no]
    /\ \A v \in DOMAIN plan[no] :
         IF no \in {x[1] : x \in DOMAIN n} /\ v = Len(plan[no])
         THEN /\ plan[no][v].status \in {"confirmed", "ordering"}
              /\ plan'[no][v].status \in {"ordering", "ordered_complete"}
              /\ \A i \in PlanItems :
                   plan'[no][v].ordered[i] =
                     plan[no][v].ordered[i] + IF <<no, i>> \in DOMAIN n THEN n[<<no, i>>] ELSE 0
         ELSE plan'[no][v] = plan[no][v]

\* Placing an order adds its lines to the latest versions of its plans.
LEMMA CreateOrderWritesPlans ==
  ASSUME PlanInv, NEW lines \in (SUBSET (PlanNos \X PlanItems)) \ {{}}, NEW u \in Buyers,
         NEW n \in [lines -> 1 .. MaxQuantity], CreateOrder(n, u)
  PROVE  /\ PlansWritten(n)
         /\ \A no \in {x[1] : x \in DOMAIN n} : Len(plan[no]) \in DOMAIN plan[no]
  <1> DEFINE nos == {x[1] : x \in DOMAIN n}
  <1>1. /\ \A no \in nos : /\ plan[no] # <<>>
                           /\ plan[no][Len(plan[no])].status \in {"confirmed", "ordering"}
        /\ plan' = [no \in PlanNos |-> IF no \in nos
                      THEN [plan[no] EXCEPT ![Len(plan[no])] = OrderedNow(no, n)] ELSE plan[no]]
    BY DEF CreateOrder
  <1>2. nos \subseteq PlanNos
    OBVIOUS
  <1>3. \A no \in PlanNos : /\ plan[no] \in Seq(Version) /\ DOMAIN plan[no] = 1 .. Len(plan[no])
                            /\ Len(plan[no]) \in Nat
    BY RowsAre
  <1> HIDE DEF nos
  <1>4. \A no \in nos : Len(plan[no]) \in DOMAIN plan[no]
    BY <1>1, <1>2, <1>3, EmptySeq
  <1>5. ASSUME NEW no \in nos
        PROVE  LET p == plan[no][Len(plan[no])]
               IN /\ OrderedNow(no, n).status \in {"ordering", "ordered_complete"}
                  /\ \A i \in PlanItems : OrderedNow(no, n).ordered[i] =
                       p.ordered[i] + IF <<no, i>> \in DOMAIN n THEN n[<<no, i>>] ELSE 0
    <2> DEFINE p == plan[no][Len(plan[no])]
               completion == CompletionNow(no, n)
               status == IF Done(completion) THEN "ordered_complete" ELSE "ordering"
               ordered == [i \in PlanItems |->
                             p.ordered[i] + IF <<no, i>> \in DOMAIN n THEN n[<<no, i>>] ELSE 0]
    <2>1. p \in Version
      BY <1>2, <1>4, VersionType
    <2>2. OrderedNow(no, n) = [p EXCEPT !.ordered = ordered, !.completion = completion,
                                        !.status = status]
      BY <2>1 DEF OrderedNow, Version
    <2>3. status \in {"ordering", "ordered_complete"}
      OBVIOUS
    <2>4. \A i \in PlanItems :
            ordered[i] = p.ordered[i] + IF <<no, i>> \in DOMAIN n THEN n[<<no, i>>] ELSE 0
      OBVIOUS
    <2> HIDE DEF completion, status, ordered
    <2>5. OrderedNow(no, n).status = status /\ OrderedNow(no, n).ordered = ordered
      BY <2>1, <2>2 DEF Version
    <2> QED BY <2>3, <2>4, <2>5
  <1>6. ASSUME NEW no \in PlanNos, NEW v \in DOMAIN plan[no]
        PROVE  /\ DOMAIN plan'[no] = DOMAIN plan[no]
               /\ plan'[no][v] = IF no \in nos /\ v = Len(plan[no]) THEN OrderedNow(no, n)
                                 ELSE plan[no][v]
    BY <1>1
  <1>7. \A no \in PlanNos : DOMAIN plan'[no] = DOMAIN plan[no]
    BY <1>1
  <1>8. PlansWritten(n)
    BY <1>1, <1>5, <1>6, <1>7 DEF PlansWritten, nos
  <1> QED BY <1>4, <1>8 DEF nos

\* What placing an order writes of the orders and the reviews.
LEMMA CreateOrderWrites ==
  ASSUME PlanInv, NEW lines \in (SUBSET (PlanNos \X PlanItems)) \ {{}}, NEW u \in Buyers,
         NEW n \in [lines -> 1 .. MaxQuantity], CreateOrder(n, u)
  PROVE  OrderWrites(n, u)
  <1> DEFINE nos     == {x[1] : x \in DOMAIN n}
             Id(x)   == <<x[1], Len(plan[x[1]]), x[2]>>
             outside == {x \in DOMAIN n : Outside(x[1], x[2], n[x])}
             ids     == {Id(x) : x \in outside}
             x0      == ReviewOfOrder("over_plan", Len(orders) + 1, ids, u)
             row == [status |-> IF outside = {} THEN "factory_confirmation" ELSE "pending_approval",
                     line   |-> [id \in ItemIds |-> IF \E x \in DOMAIN n : Id(x) = id
                                                    THEN n[<<id[1], id[3]>>] ELSE 0]]
  <1>1. /\ orders' = Append(orders, row)
        /\ IF outside = {} THEN review' = review ELSE review' = Append(review, x0)
    BY DEF CreateOrder
  <1>2. \A no \in nos : Len(plan[no]) \in DOMAIN plan[no] /\ no \in PlanNos
    <2>1. /\ PlansWritten(n)
          /\ \A no \in {x[1] : x \in DOMAIN n} : Len(plan[no]) \in DOMAIN plan[no]
      BY CreateOrderWritesPlans
    <2>2. nos \subseteq PlanNos
      OBVIOUS
    <2> QED BY <2>1, <2>2
  <1>3. ASSUME NEW x \in DOMAIN n
        PROVE  Id(x) \in ItemIds /\ n[<<x[1], x[2]>>] \in Nat
    <2>1. /\ x[1] \in PlanNos /\ x[2] \in PlanItems /\ <<x[1], x[2]>> = x /\ n[x] \in Nat
      BY BoundsAssumption
    <2>2. Len(plan[x[1]]) \in 1 .. MaxVersions
      BY <1>2, VersionType
    <2> QED BY <2>1, <2>2 DEF ItemIds
  <1>4. row \in Order
    <2>1. \A id \in ItemIds : (\E x \in DOMAIN n : Id(x) = id) => n[<<id[1], id[3]>>] \in Nat
      BY <1>3
    <2> QED BY <2>1 DEF Order
  <1>5. ids \in SUBSET ItemIds
    BY <1>3
  <1>6. x0 \in Review
    <2>1. Len(orders) + 1 \in Nat
      BY RowsAre
    <2> HIDE DEF ids
    <2> QED BY <1>5, <2>1 DEF ReviewOfOrder, Review, Kinds
  <1>7. Placed(row)
    <2> HIDE DEF row
    <2> QED BY <1>1, <1>4, RowsAre, RowAppended DEF Placed
  <1>8. outside # {} => Adds(x0)
    <2> HIDE DEF x0, outside
    <2> QED BY <1>1, <1>6, ReviewAppended
  <1> QED BY <1>1, <1>4, <1>6, <1>7, <1>8 DEF OrderWrites

\* An order outside its plan waits for the review it asks for.
LEMMA CreateOrderWaits ==
  ASSUME PlanInv, WaitInv, NEW lines \in (SUBSET (PlanNos \X PlanItems)) \ {{}}, NEW u \in Buyers,
         NEW n \in [lines -> 1 .. MaxQuantity], CreateOrder(n, u)
  PROVE  WaitInv'
  <1> DEFINE Id(x)   == <<x[1], Len(plan[x[1]]), x[2]>>
             outside == {x \in DOMAIN n : Outside(x[1], x[2], n[x])}
             ids     == {Id(x) : x \in outside}
             m       == Len(orders) + 1
             x0      == ReviewOfOrder("over_plan", m, ids, u)
             row == [status |-> IF outside = {} THEN "factory_confirmation" ELSE "pending_approval",
                     line   |-> [id \in ItemIds |-> IF \E x \in DOMAIN n : Id(x) = id
                                                    THEN n[<<id[1], id[3]>>] ELSE 0]]
  <1>1. /\ Placed(row)
        /\ IF outside = {} THEN review' = review ELSE x0 \in Review /\ Adds(x0)
    BY CreateOrderWrites DEF OrderWrites
  <1>2. row.status = IF outside = {} THEN "factory_confirmation" ELSE "pending_approval"
    OBVIOUS
  <1>3. AsksFor(x0, "over_plan", "none", 0, m) /\ x0.status = "pending"
    BY DEF AsksFor, ReviewOfOrder
  <1> HIDE DEF row, x0, ids, outside
  <1>4. Steady
    <2>1. /\ PlansWritten(n)
          /\ \A no \in {x[1] : x \in DOMAIN n} : Len(plan[no]) \in DOMAIN plan[no]
      BY CreateOrderWritesPlans
    <2> QED BY <2>1 DEF PlansWritten, Steady
  <1>5. \A no \in PlanNos : \A v, s : s \in {"pending_approval", "disputed"}
          => (At(plan', no, v, s) <=> At(plan, no, v, s))
    BY <1>4 DEF At, Steady
  <1>6. /\ DOMAIN orders' = DOMAIN orders \cup {m} /\ m \notin DOMAIN orders
        /\ orders'[m] = row /\ \A o \in DOMAIN orders : orders'[o] = orders[o]
    BY <1>1 DEF Placed
  <1> HIDE DEF m
  <1>7. CASE outside = {}
    <2>1. SameWait
      BY <1>2, <1>5, <1>6, <1>7 DEF SameWait, Waits
    <2>2. SameOpen
      BY <1>1, <1>7 DEF SameOpen, Open
    <2> QED BY <2>1, <2>2, NothingAsked
  <1>8. CASE outside # {}
    <2>1. WaitsToo("over_plan", "none", 0, m)
      BY <1>2, <1>5, <1>6, <1>8 DEF WaitsToo, Waits
    <2> QED BY <1>1, <1>3, <1>8, <2>1, OneAsked
  <1> QED BY <1>7, <1>8

\* Every command keeps the documents and the open reviews matched.
LEMMA WaitStep ==
  ASSUME PlanInv, WaitInv, [ProcurementNext]_procurementVars
  PROVE  WaitInv'
  <1>1. CASE UNCHANGED procurementVars
    BY <1>1 DEF procurementVars, WaitInv, Waits, At, AsksFor, Open
  <1>2. CASE ProcurementNext
    BY <1>2, CreatePlanWaits, RespondToPlanWaits, FinalizeWaits, CreateOrderWaits,
       RespondToOrderWaits, DecideVersionWaits, DecideDeviationWaits, DecidePlanExceptionWaits,
       DecideOrderExceptionWaits DEF ProcurementNext
  <1> QED BY <1>1, <1>2

\* Nothing waits at first.
LEMMA WaitInit ==
  ASSUME ProcurementInit
  PROVE  WaitInv
  <1>1. /\ \A no \in PlanNos : DOMAIN plan[no] = {}
        /\ DOMAIN orders = {} /\ DOMAIN review = {}
    BY EmptySeq, LenProperties DEF ProcurementInit
  <1> QED BY <1>1 DEF WaitInv, Waits, At, Open

\* No plan version and no order is ever left waiting for a decision that nobody
\* can take, and none has two: each has exactly one pending approval while its
\* status says it waits, and none otherwise.
THEOREM SomeoneIsWaitedFor == ProcurementSpec => []WaitsForSomeone
  <1>1. ProcurementSpec => []WaitInv
    BY WaitInit, WaitStep, PlanInvariant, PTL DEF ProcurementSpec
  <1> QED BY <1>1, PlanInvariant, WaitsCounted, PTL

-----------------------------------------------------------------------------
(* An order that exceeds its plan waits for the approval of its deviation *)

\* What each order has of an item.
Lines(L, id) == [p \in DOMAIN L |-> L[p].line[id]]
\* What orders 1 to o have of it, released or not.
UpTo(L, o, id) == SumOf(Lines(L, id), 1 .. o)
\* Order o has some of the item, and takes the sum over what is tolerated.
Excess(L, o, id) == L[o].line[id] > 0 /\ RateBps(UpTo(L, o, id), Planned[id[3]]) > OverBps
\* The reviews of orders that deviate from their plans.
OverPlans(R) == {a \in DOMAIN R : R[a].kind = "over_plan"}

\* Each is of its own order; an order that exceeds its plan has one with that
\* item, and is not released before it is approved; and the plans know what
\* the orders add up to. (The sums count every order, also those a review
\* rejected: the code takes no quantity back.)
OverInv ==
  /\ \A a \in OverPlans(review) : review[a].order \in DOMAIN orders
  /\ \A a, b \in OverPlans(review) : review[a].order = review[b].order => a = b
  /\ \A o \in DOMAIN orders, id \in ItemIds : Excess(orders, o, id)
       => \E a \in OverPlans(review) :
            /\ review[a].order = o /\ id \in review[a].items
            /\ review[a].status = "approved" \/ orders[o].status \notin Released
  /\ \A id \in ItemIds : UpTo(orders, Len(orders), id) = Ordered(plan, id)

\* A step that places no order, and releases none but by the approval of its deviation.
Upholds ==
  /\ DOMAIN orders' = DOMAIN orders /\ Len(orders') = Len(orders)
  /\ \A o \in DOMAIN orders :
       /\ orders'[o].line = orders[o].line
       /\ orders'[o].status \in Released /\ orders[o].status \notin Released
          => \E a \in OverPlans(review) : review[a].order = o /\ review'[a].status = "approved"
  /\ \A id \in ItemIds : Ordered(plan', id) = Ordered(plan, id)
  /\ OverPlans(review') = OverPlans(review)
  /\ \A a \in OverPlans(review) :
       /\ review'[a].order = review[a].order /\ review'[a].items = review[a].items
       /\ review[a].status = "approved" => review'[a].status = "approved"

\* Such a step keeps the deviations approved.
LEMMA UpheldOver ==
  ASSUME OverInv, Upholds
  PROVE  OverInv'
  <1>1. ASSUME NEW id PROVE Lines(orders', id) = Lines(orders, id)
    BY DEF Lines, Upholds
  <1>2. \A o, id : UpTo(orders', o, id) = UpTo(orders, o, id)
    BY <1>1 DEF UpTo
  <1>3. \A o \in DOMAIN orders : \A id : Excess(orders', o, id) <=> Excess(orders, o, id)
    BY <1>2 DEF Excess, Upholds
  <1>4. ASSUME NEW o \in DOMAIN orders', NEW id \in ItemIds, Excess(orders', o, id)
        PROVE  \E a \in OverPlans(review') :
                 /\ review'[a].order = o /\ id \in review'[a].items
                 /\ review'[a].status = "approved" \/ orders'[o].status \notin Released
    <2>1. o \in DOMAIN orders /\ Excess(orders, o, id)
      BY <1>3, <1>4 DEF Upholds
    <2>2. PICK a \in OverPlans(review) :
            /\ review[a].order = o /\ id \in review[a].items
            /\ review[a].status = "approved" \/ orders[o].status \notin Released
      BY <2>1 DEF OverInv
    <2>3. /\ a \in OverPlans(review') /\ review'[a].order = o /\ id \in review'[a].items
          /\ review[a].status = "approved" => review'[a].status = "approved"
      BY <2>2 DEF Upholds
    <2>4. CASE orders[o].status \notin Released /\ orders'[o].status \in Released
      <3>1. PICK b \in OverPlans(review) : review[b].order = o /\ review'[b].status = "approved"
        BY <2>1, <2>4 DEF Upholds
      <3>2. b = a
        BY <2>2, <3>1 DEF OverInv
      <3> QED BY <2>3, <3>1, <3>2
    <2>5. CASE ~(orders[o].status \notin Released /\ orders'[o].status \in Released)
      BY <2>2, <2>3, <2>5
    <2> QED BY <2>4, <2>5
  <1>5. \A id \in ItemIds : UpTo(orders', Len(orders'), id) = Ordered(plan', id)
    BY <1>2 DEF OverInv, Upholds
  <1>6. \A a \in OverPlans(review') : review'[a].order \in DOMAIN orders'
    BY DEF OverInv, Upholds
  <1>7. \A a, b \in OverPlans(review') : review'[a].order = review'[b].order => a = b
    BY DEF OverInv, Upholds
  <1> QED BY <1>4, <1>5, <1>6, <1>7 DEF OverInv

\* Its parts: the orders, what was ordered, and the reviews.
OrdersUpheld == orders' = orders
PlansUpheld == \A id \in ItemIds : Ordered(plan', id) = Ordered(plan, id)
ReviewsUpheld ==
  /\ OverPlans(review') = OverPlans(review)
  /\ \A a \in OverPlans(review) :
       /\ review'[a].order = review[a].order /\ review'[a].items = review[a].items
       /\ review[a].status = "approved" => review'[a].status = "approved"

\* Reviews of orders are only ever decided, and only once.
LEMMA KeptReviews ==
  ASSUME PlanInv,
         \/ review' = review
         \/ \E x : Adds(x) /\ x.kind # "over_plan"
         \/ \E a, decision : Settles(a, decision)
  PROVE  ReviewsUpheld
  BY DEF ReviewsUpheld, OverPlans, Adds, Settles

\* A step that leaves the orders as they are.
LEMMA AllUpheld ==
  ASSUME OrdersUpheld, PlansUpheld, ReviewsUpheld
  PROVE  Upholds
  BY DEF OrdersUpheld, PlansUpheld, ReviewsUpheld, Upholds

\* A step that gives one order another status.
LEMMA RestatedUpheld ==
  ASSUME PlanInv, NEW o \in DOMAIN orders, NEW s, Restates(o, s), orders' = [orders EXCEPT ![o].status = s],
         s \in Released =>
           \/ orders[o].status \in Released
           \/ \E a \in OverPlans(review) : review[a].order = o /\ review'[a].status = "approved",
         PlansUpheld, ReviewsUpheld
  PROVE  Upholds
  <1>1. Len(orders') = Len(orders)
    BY RowsAre, ExceptSeq
  <1> QED BY <1>1 DEF PlansUpheld, ReviewsUpheld, Upholds, Restates

\* A step that gives one version another status.
LEMMA RestatusUpheld ==
  ASSUME PlanInv, NEW no \in PlanNos, NEW v \in DOMAIN plan[no], NEW row, Rewrites(no, v, row),
         row.ordered = plan[no][v].ordered
  PROVE  PlansUpheld
  <1>1. ASSUME NEW id \in ItemIds PROVE Ordered(plan', id) = Ordered(plan, id)
    <2>1. id[1] \in PlanNos
      BY DEF ItemIds
    <2> QED BY <2>1 DEF Ordered, Rewrites
  <1> QED BY <1>1 DEF PlansUpheld

\* Nothing has been ordered of a new version.
LEMMA CreatePlanUpholds ==
  ASSUME PlanInv, NEW no \in PlanNos, NEW u \in Buyers, CreatePlan(no, u)
  PROVE  Upholds
  <1> DEFINE v == Len(plan[no]) + 1
             row == [status     |-> IF v = 1 THEN "awaiting_factory_confirmation"
                                    ELSE "pending_approval",
                     ordered    |-> [i \in PlanItems |-> 0],
                     completion |-> [i \in PlanItems |-> "not_ordered"]]
             x == ReviewOfPlan("plan_version", no, v, {}, u)
  <1>1. Extended(no, v, row) /\ v \in Nat
    BY CreatePlanWrites
  <1>2. \A i \in PlanItems : row.ordered[i] = 0
    OBVIOUS
  <1>3. orders' = orders /\ (review' = review \/ review' = Append(review, x))
    BY DEF CreatePlan
  <1>4. x \in Review /\ x.kind = "plan_version"
    <2>1. {} \in SUBSET ItemIds
      OBVIOUS
    <2> QED BY <1>1, <2>1 DEF ReviewOfPlan, Review, Kinds
  <1> HIDE DEF v, row, x
  <1>5. PlansUpheld
    <2>1. ASSUME NEW id \in ItemIds PROVE Ordered(plan', id) = Ordered(plan, id)
      <3>1. id[1] \in PlanNos /\ id[3] \in PlanItems
        BY DEF ItemIds
      <3>2. CASE id[1] = no /\ id[2] = v
        <4>1. id[2] \in DOMAIN plan'[id[1]] /\ id[2] \notin DOMAIN plan[id[1]] /\ plan'[id[1]][id[2]] = row
          BY <1>1, <3>2 DEF Extended
        <4> QED BY <1>2, <3>1, <4>1 DEF Ordered
      <3>3. CASE ~(id[1] = no /\ id[2] = v)
        <4>1. /\ id[2] \in DOMAIN plan'[id[1]] <=> id[2] \in DOMAIN plan[id[1]]
              /\ id[2] \in DOMAIN plan[id[1]] => plan'[id[1]][id[2]] = plan[id[1]][id[2]]
          BY ZenonT(60), <1>1, <3>1, <3>3 DEF Extended
        <4> QED BY <4>1 DEF Ordered
      <3> QED BY <3>2, <3>3
    <2> QED BY <2>1 DEF PlansUpheld
  <1>6. ReviewsUpheld
    <2>1. review' = Append(review, x) => Adds(x)
      BY <1>4, ReviewAppended
    <2> QED BY <1>3, <1>4, <2>1, KeptReviews
  <1> QED BY <1>3, <1>5, <1>6, AllUpheld DEF OrdersUpheld

\* Answers about plans release no order.
LEMMA RespondToPlanUpholds ==
  ASSUME PlanInv, NEW no \in PlanNos, NEW v \in DOMAIN plan[no], NEW u \in FactoryUsers,
         NEW decision \in {"confirmed", "disputed"}, RespondToPlan(no, v, u, decision)
  PROVE  Upholds
  <1> DEFINE x == ReviewOfPlan("plan_exception", no, v, {}, u)
  <1>1. /\ Restatus(no, v, decision) /\ orders' = orders
        /\ review' = review \/ review' = Append(review, x)
    BY DEF RespondToPlan, Restatus
  <1>2. x \in Review /\ x.kind = "plan_exception"
    <2>1. {} \in SUBSET ItemIds /\ v \in Nat
      BY RowsAre
    <2> QED BY <2>1 DEF ReviewOfPlan, Review, Kinds
  <1> HIDE DEF x
  <1>3. PICK row : /\ Rewrites(no, v, row) /\ row.status = decision
                   /\ row.ordered = plan[no][v].ordered
    BY <1>1, StatusRewritten
  <1>4. PlansUpheld
    BY <1>3, RestatusUpheld
  <1>5. ReviewsUpheld
    <2>1. review' = Append(review, x) => Adds(x)
      BY <1>2, ReviewAppended
    <2> QED BY <1>1, <1>2, <2>1, KeptReviews
  <1> QED BY <1>1, <1>4, <1>5, AllUpheld DEF OrdersUpheld

\* Nor does ending the orders of a version, which keeps what was ordered.
LEMMA FinalizeUpholds ==
  ASSUME PlanInv, NEW no \in PlanNos, NEW v \in DOMAIN plan[no], NEW u \in Buyers,
         Finalize(no, v, u)
  PROVE  Upholds
  <1>1. /\ Steady /\ orders' = orders
        /\ \A id \in ItemIds : Ordered(plan', id) = Ordered(plan, id)
        /\ \/ review' = review
           \/ \E x : Adds(x) /\ x.kind = "under_plan"
    BY FinalizeWrites
  <1>2. ReviewsUpheld
    <2>1. review' = review \/ \E x : Adds(x) /\ x.kind # "over_plan"
      BY <1>1
    <2> QED BY <2>1, KeptReviews
  <1> QED BY <1>1, <1>2, AllUpheld DEF OrdersUpheld, PlansUpheld

\* The factory answers only to orders that are released.
LEMMA RespondToOrderUpholds ==
  ASSUME PlanInv, NEW o \in DOMAIN orders, NEW u \in FactoryUsers,
         NEW decision \in {"confirmed", "disputed"}, RespondToOrder(o, u, decision)
  PROVE  Upholds
  <1> DEFINE x == ReviewOfOrder("order_exception", o, {}, u)
  <1>1. /\ orders[o].status = "factory_confirmation" /\ plan' = plan
        /\ orders' = [orders EXCEPT ![o].status = decision]
        /\ review' = review \/ review' = Append(review, x)
    BY DEF RespondToOrder
  <1>2. Restates(o, decision)
    BY <1>1, OrderRestated
  <1>3. x \in Review /\ x.kind = "order_exception"
    <2>1. {} \in SUBSET ItemIds /\ o \in Nat
      BY RowsAre
    <2> QED BY <2>1 DEF ReviewOfOrder, Review, Kinds
  <1> HIDE DEF x
  <1>4. ReviewsUpheld
    <2>1. review' = Append(review, x) => Adds(x)
      BY <1>3, ReviewAppended
    <2> QED BY <1>1, <1>3, <2>1, KeptReviews
  <1>5. PlansUpheld
    BY <1>1 DEF PlansUpheld
  <1>6. orders[o].status \in Released
    BY <1>1 DEF Released
  <1> QED BY <1>1, <1>2, <1>4, <1>5, <1>6, RestatedUpheld

\* The decisions about versions and their disputes touch no order.
LEMMA DecideStatusUpholds ==
  ASSUME PlanInv, WaitInv, NEW a \in DOMAIN review, NEW u \in Buyers,
         NEW decision \in {"approved", "rejected"},
         DecideVersion(a, u, decision) \/ DecidePlanException(a, u, decision)
  PROVE  Upholds
  <1> DEFINE no == review[a].no
             v  == review[a].v
  <1>1. PICK status :
          /\ review[a].kind \in {"plan_version", "plan_exception"} /\ review[a].status = "pending"
          /\ Restatus(no, v, status) /\ orders' = orders
          /\ Decides(a, u, decision)
    BY DEF DecideVersion, DecidePlanException, Decides, Restatus
  <1>2. Waits(plan, orders, review[a].kind, no, v, review[a].order)
    BY <1>1, OpenWaits
  <1>3. no \in PlanNos /\ v \in DOMAIN plan[no]
    BY <1>1, <1>2 DEF Waits, At
  <1> HIDE DEF no, v
  <1>4. PICK row : /\ Rewrites(no, v, row) /\ row.status = status
                   /\ row.ordered = plan[no][v].ordered
    BY <1>1, <1>3, StatusRewritten
  <1>5. PlansUpheld
    BY <1>3, <1>4, RestatusUpheld
  <1>6. Settles(a, decision)
    BY <1>1, ReviewSettled
  <1>7. ReviewsUpheld
    BY <1>6, KeptReviews
  <1> QED BY <1>1, <1>5, <1>7, AllUpheld DEF OrdersUpheld

\* A disputed order was released, whatever becomes of the dispute.
LEMMA DecideOrderExceptionUpholds ==
  ASSUME PlanInv, WaitInv, NEW a \in DOMAIN review, NEW u \in Buyers,
         NEW decision \in {"approved", "rejected"}, DecideOrderException(a, u, decision)
  PROVE  Upholds
  <1> DEFINE o == review[a].order
             status == IF decision = "approved" THEN "confirmed" ELSE "factory_confirmation"
  <1>1. /\ review[a].kind = "order_exception" /\ review[a].status = "pending" /\ plan' = plan
        /\ orders' = [orders EXCEPT ![o].status = IF @ # "disputed" THEN @ ELSE status]
        /\ Decides(a, u, decision)
    BY DEF DecideOrderException, Decides
  <1>2. Waits(plan, orders, review[a].kind, review[a].no, review[a].v, o)
    BY <1>1, OpenWaits
  <1>3. o \in DOMAIN orders /\ orders[o].status = "disputed"
    BY <1>1, <1>2 DEF Waits
  <1>4. orders' = [orders EXCEPT ![o].status = status]
    BY <1>1, <1>3
  <1> HIDE DEF o, status
  <1>5. Restates(o, status)
    BY <1>3, <1>4, OrderRestated
  <1>6. Settles(a, decision)
    BY <1>1, ReviewSettled
  <1>7. ReviewsUpheld
    BY <1>6, KeptReviews
  <1>8. PlansUpheld
    BY <1>1 DEF PlansUpheld
  <1>9. orders[o].status \in Released
    BY <1>3 DEF Released
  <1> QED BY <1>3, <1>4, <1>5, <1>7, <1>8, <1>9, RestatedUpheld

\* The decision about a deviation releases its order only by approving it.
LEMMA DecideDeviationUpholds ==
  ASSUME PlanInv, WaitInv, NEW a \in DOMAIN review, NEW u \in Buyers,
         NEW decision \in {"approved", "rejected"}, DecideDeviation(a, u, decision)
  PROVE  Upholds
  <1>1. /\ Steady
        /\ \A id \in ItemIds : Ordered(plan', id) = Ordered(plan, id)
        /\ Settles(a, decision)
        /\ \/ review[a].kind = "under_plan" /\ orders' = orders
           \/ /\ review[a].kind = "over_plan" /\ orders[review[a].order].status = "pending_approval"
              /\ orders' = [orders EXCEPT ![review[a].order].status =
                                       OrderDecided(review[a].order, decision)]
    BY ZenonT(60), DecideDeviationWrites
  <1>2. PlansUpheld
    BY <1>1 DEF PlansUpheld
  <1>3. ReviewsUpheld
    BY <1>1, KeptReviews
  <1>4. CASE review[a].kind = "under_plan" /\ orders' = orders
    BY <1>2, <1>3, <1>4, AllUpheld DEF OrdersUpheld
  <1>5. CASE review[a].kind = "over_plan"
    <2> DEFINE o == review[a].order
               status == OrderDecided(o, decision)
    <2>1. Waits(plan, orders, review[a].kind, review[a].no, review[a].v, review[a].order)
      BY <1>1, <1>5, OpenWaits DEF Settles
    <2>2. o \in DOMAIN orders
      BY <1>5, <2>1 DEF Waits
    <2>3. status \in Released => decision = "approved"
      BY DEF OrderDecided, Released
    <2>4. /\ orders' = [orders EXCEPT ![o].status = status] /\ o = review[a].order
      BY <1>1, <1>5
    <2> HIDE DEF o, status
    <2>5. Restates(o, status)
      BY <2>2, <2>4, OrderRestated
    <2>6. status \in Released =>
            \E b \in OverPlans(review) : review[b].order = o /\ review'[b].status = "approved"
      BY <1>1, <1>5, <2>3, <2>4 DEF OverPlans, Settles
    <2> QED BY <1>2, <1>3, <2>2, <2>4, <2>5, <2>6, RestatedUpheld
  <1> QED BY <1>1, <1>4, <1>5

\* The lines of an item, order by order.
LEMMA LinesType ==
  ASSUME PlanInv, NEW id \in ItemIds
  PROVE  Lines(orders, id) \in [1 .. Len(orders) -> Nat] /\ Len(orders) \in Nat
  <1>1. /\ DOMAIN orders = 1 .. Len(orders) /\ Len(orders) \in Nat
        /\ \A o \in DOMAIN orders : orders[o] \in Order
    BY RowsAre
  <1>2. \A o \in DOMAIN orders : orders[o].line[id] \in Nat
    BY <1>1 DEF Order
  <1> QED BY <1>1, <1>2 DEF Lines

\* An order more adds its line to the sum of all, and changes no sum before it.
LEMMA UpToGrown ==
  ASSUME PlanInv, NEW row \in Order, Placed(row), NEW id \in ItemIds
  PROVE  /\ \A o \in DOMAIN orders : UpTo(orders', o, id) = UpTo(orders, o, id)
         /\ UpTo(orders', Len(orders) + 1, id) = UpTo(orders, Len(orders), id) + row.line[id]
  <1> DEFINE f == Lines(orders, id)
             g == Lines(orders', id)
             N == Len(orders)
             m == Len(orders) + 1
  <1>1. /\ f \in [1 .. N -> Nat] /\ N \in Nat /\ DOMAIN orders = 1 .. N
    BY LinesType, RowsAre
  <1>2. row.line[id] \in Nat
    BY DEF Order
  <1>3. DOMAIN g = 1 .. N \cup {m} /\ g[m] = row.line[id] /\ \A x \in 1 .. N : g[x] = f[x]
    BY <1>1 DEF Placed, Lines
  <1>4. IsFiniteSet(1 .. N)
    BY <1>1, FS_Interval
  <1>5. \A x \in DOMAIN g : g[x] \in Int
    BY <1>1, <1>2, <1>3
  <1>6. g \in [DOMAIN g -> Int]
    <2>1. g = [x \in DOMAIN g |-> g[x]]
      BY DEF Lines
    <2> HIDE DEF g
    <2> QED BY <1>5, <2>1
  <1>7. DOMAIN f = 1 .. N /\ f \in [1 .. N -> Int] /\ m \notin 1 .. N
    BY <1>1
  <1>8. g[m] = row.line[id] /\ g \in [1 .. N \cup {m} -> Int]
    BY <1>3, <1>6
  <1>9. UpTo(orders', m, id) = SumOf(g, 1 .. m) /\ UpTo(orders, N, id) = SumOf(f, 1 .. N)
    BY DEF UpTo
  <1>10. \A o : UpTo(orders', o, id) = SumOf(g, 1 .. o) /\ UpTo(orders, o, id) = SumOf(f, 1 .. o)
    BY DEF UpTo
  <1>11. 1 .. N \cup {m} = 1 .. m
    BY <1>1
  <1> HIDE DEF f, g, m
  <1>12. Grown(f, g, m)
    BY <1>3, <1>4, <1>8, <1>7 DEF Grown
  <1>13. ASSUME NEW K, K \subseteq DOMAIN f
        PROVE  /\ SumOf(f, K) \in Int
               /\ SumOf(g, K) = SumOf(f, K)
               /\ SumOf(g, K \cup {m}) = SumOf(f, K) + g[m]
    BY <1>12, <1>13, SumGrown
  <1>14. \A o \in DOMAIN orders : 1 .. o \subseteq DOMAIN f
    BY <1>1, <1>7
  <1>15. 1 .. N \subseteq DOMAIN f
    BY <1>7
  <1>16. SumOf(g, 1 .. m) = SumOf(f, 1 .. N) + g[m]
    BY <1>13, <1>11, <1>15
  <1>17. \A o \in DOMAIN orders : UpTo(orders', o, id) = UpTo(orders, o, id)
    BY <1>13, <1>14, <1>10
  <1>18. UpTo(orders', m, id) = UpTo(orders, N, id) + row.line[id]
    BY <1>16, <1>8, <1>9
  <1> QED BY <1>17, <1>18 DEF m

\* The line an order has of an item.
LineOf(n, id) ==
  IF <<id[1], id[3]>> \in DOMAIN n /\ id[2] = Len(plan[id[1]]) THEN n[<<id[1], id[3]>>] ELSE 0

\* The line of the new order, as CreateOrder writes it.
LEMMA LineWritten ==
  ASSUME NEW lines \in (SUBSET (PlanNos \X PlanItems)) \ {{}},
         NEW n \in [lines -> 1 .. MaxQuantity], NEW id \in ItemIds
  PROVE  LET Id(x) == <<x[1], Len(plan[x[1]]), x[2]>>
         IN (IF \E x \in DOMAIN n : Id(x) = id THEN n[<<id[1], id[3]>>] ELSE 0) = LineOf(n, id)
  <1> DEFINE Id(x) == <<x[1], Len(plan[x[1]]), x[2]>>
  <1>1. id = <<id[1], id[2], id[3]>> /\ id[1] \in PlanNos /\ id[3] \in PlanItems
    BY DEF ItemIds
  <1>2. \A x \in DOMAIN n : x = <<x[1], x[2]>>
    OBVIOUS
  <1>3. ASSUME NEW x \in DOMAIN n, Id(x) = id
        PROVE  <<id[1], id[3]>> \in DOMAIN n /\ id[2] = Len(plan[id[1]])
    <2>1. x[1] = id[1] /\ x[2] = id[3] /\ Len(plan[x[1]]) = id[2]
      BY <1>1, <1>3
    <2> QED BY <1>2, <2>1
  <1>4. ASSUME <<id[1], id[3]>> \in DOMAIN n, id[2] = Len(plan[id[1]])
        PROVE  \E x \in DOMAIN n : Id(x) = id
    <2>1. Id(<<id[1], id[3]>>) = id
      BY <1>1, <1>4
    <2> QED BY <1>4, <2>1
  <1> QED BY <1>3, <1>4 DEF LineOf

\* The plans have what the order adds; of an item in it, that is what was
\* measured against the plan.
LEMMA OrderedGrown ==
  ASSUME PlanInv, NEW lines \in (SUBSET (PlanNos \X PlanItems)) \ {{}},
         NEW n \in [lines -> 1 .. MaxQuantity], PlansWritten(n),
         \A no \in {x[1] : x \in DOMAIN n} : Len(plan[no]) \in DOMAIN plan[no],
         NEW id \in ItemIds
  PROVE  /\ Ordered(plan', id) = Ordered(plan, id) + LineOf(n, id)
         /\ LineOf(n, id) > 0 => /\ <<id[1], id[3]>> \in DOMAIN n
                                 /\ id[2] = Len(plan[id[1]])
                                 /\ LineOf(n, id) = n[<<id[1], id[3]>>]
                                 /\ Ordered(plan, id) + LineOf(n, id)
                                      = Cumulative(id[1], id[3], n[<<id[1], id[3]>>])
  <1>1. id[1] \in PlanNos /\ id[3] \in PlanItems
    BY DEF ItemIds
  <1>2. \A x \in DOMAIN n : x[1] \in {y[1] : y \in DOMAIN n} /\ n[x] \in Nat
    BY BoundsAssumption
  <1>3. CASE <<id[1], id[3]>> \in DOMAIN n /\ id[2] = Len(plan[id[1]])
    <2>1. id[1] \in {y[1] : y \in DOMAIN n}
      <3>1. <<id[1], id[3]>>[1] = id[1]
        OBVIOUS
      <3> QED BY <1>2, <1>3, <3>1
    <2>2. id[2] \in DOMAIN plan[id[1]] /\ id[2] \in DOMAIN plan'[id[1]]
      BY <1>1, <1>3, <2>1 DEF PlansWritten
    <2>3. plan'[id[1]][id[2]].ordered[id[3]]
            = plan[id[1]][id[2]].ordered[id[3]] + n[<<id[1], id[3]>>]
      BY <1>1, <1>3, <2>1, <2>2 DEF PlansWritten
    <2> QED BY <1>3, <2>2, <2>3 DEF Ordered, LineOf, Cumulative
  <1>4. CASE ~(<<id[1], id[3]>> \in DOMAIN n /\ id[2] = Len(plan[id[1]]))
    <2>1. LineOf(n, id) = 0
      BY <1>4 DEF LineOf
    <2>2. Ordered(plan', id) = Ordered(plan, id) /\ Ordered(plan, id) \in Int
      <3>1. CASE id[2] \in DOMAIN plan[id[1]]
        <4>1. plan[id[1]][id[2]].ordered[id[3]] \in Nat
          BY <1>1, <3>1, VersionType DEF Version
        <4>2. plan'[id[1]][id[2]].ordered[id[3]] = plan[id[1]][id[2]].ordered[id[3]]
          <5>1. CASE id[1] \in {x[1] : x \in DOMAIN n} /\ id[2] = Len(plan[id[1]])
            <6>1. plan'[id[1]][id[2]].ordered[id[3]] = plan[id[1]][id[2]].ordered[id[3]]
                    + IF <<id[1], id[3]>> \in DOMAIN n THEN n[<<id[1], id[3]>>] ELSE 0
              BY SMTT(30), <1>1, <3>1, <5>1 DEF PlansWritten
            <6> QED BY <1>4, <4>1, <5>1, <6>1
          <5>2. CASE ~(id[1] \in {x[1] : x \in DOMAIN n} /\ id[2] = Len(plan[id[1]]))
            BY <1>1, <3>1, <5>2 DEF PlansWritten
          <5> QED BY <5>1, <5>2
        <4> QED BY <1>1, <3>1, <4>1, <4>2 DEF Ordered, PlansWritten
      <3>2. CASE id[2] \notin DOMAIN plan[id[1]]
        BY <1>1, <3>2 DEF Ordered, PlansWritten
      <3> QED BY <3>1, <3>2
    <2> QED BY <2>1, <2>2
  <1> QED BY <1>3, <1>4

\* An order that exceeds its plan asks for the review of that deviation.
LEMMA CreateOrderOver ==
  ASSUME PlanInv, OverInv,
         NEW lines \in (SUBSET (PlanNos \X PlanItems)) \ {{}}, NEW u \in Buyers,
         NEW n \in [lines -> 1 .. MaxQuantity], CreateOrder(n, u)
  PROVE  OverInv'
  <1> DEFINE Id(x)   == <<x[1], Len(plan[x[1]]), x[2]>>
             outside == {x \in DOMAIN n : Outside(x[1], x[2], n[x])}
             ids     == {Id(x) : x \in outside}
             m       == Len(orders) + 1
             x0      == ReviewOfOrder("over_plan", m, ids, u)
             row == [status |-> IF outside = {} THEN "factory_confirmation" ELSE "pending_approval",
                     line   |-> [id \in ItemIds |-> IF \E x \in DOMAIN n : Id(x) = id
                                                    THEN n[<<id[1], id[3]>>] ELSE 0]]
  <1>1. /\ Placed(row) /\ row \in Order
        /\ IF outside = {} THEN review' = review ELSE x0 \in Review /\ Adds(x0)
    BY CreateOrderWrites DEF OrderWrites
  <1>2. row.status = IF outside = {} THEN "factory_confirmation" ELSE "pending_approval"
    OBVIOUS
  <1>3. ASSUME NEW id \in ItemIds PROVE row.line[id] = LineOf(n, id)
    <2>1. (IF \E x \in DOMAIN n : Id(x) = id THEN n[<<id[1], id[3]>>] ELSE 0) = LineOf(n, id)
      BY LineWritten
    <2> QED BY <2>1
  <1>4. x0.kind = "over_plan" /\ x0.order = m /\ x0.items = ids /\ x0.status = "pending"
    BY DEF ReviewOfOrder
  <1>5. /\ PlansWritten(n)
        /\ \A no \in {x[1] : x \in DOMAIN n} : Len(plan[no]) \in DOMAIN plan[no]
    BY CreateOrderWritesPlans
  <1> HIDE DEF row, x0
  <1>6. ASSUME NEW id \in ItemIds
        PROVE  /\ \A o \in DOMAIN orders : UpTo(orders', o, id) = UpTo(orders, o, id)
               /\ UpTo(orders', m, id) = UpTo(orders, Len(orders), id) + row.line[id]
    <2>1. /\ \A o \in DOMAIN orders : UpTo(orders', o, id) = UpTo(orders, o, id)
          /\ UpTo(orders', Len(orders) + 1, id) = UpTo(orders, Len(orders), id) + row.line[id]
      BY <1>1, UpToGrown
    <2> QED BY <2>1
  <1>7. ASSUME NEW id \in ItemIds
        PROVE  /\ Ordered(plan', id) = Ordered(plan, id) + LineOf(n, id)
               /\ LineOf(n, id) > 0 => /\ <<id[1], id[3]>> \in DOMAIN n
                                       /\ id[2] = Len(plan[id[1]])
                                       /\ LineOf(n, id) = n[<<id[1], id[3]>>]
                                       /\ Ordered(plan, id) + LineOf(n, id)
                                            = Cumulative(id[1], id[3], n[<<id[1], id[3]>>])
    BY <1>5, OrderedGrown
  <1>8. /\ DOMAIN orders' = DOMAIN orders \cup {m} /\ m \notin DOMAIN orders
        /\ orders'[m] = row /\ \A o \in DOMAIN orders : orders'[o] = orders[o]
        /\ Len(orders') = m
    BY <1>1 DEF Placed
  <1>9. ASSUME NEW id \in ItemIds, Excess(orders', m, id)
        PROVE  outside # {} /\ id \in ids
    <2>1. LineOf(n, id) > 0
      BY <1>3, <1>8, <1>9 DEF Excess
    <2>2. /\ <<id[1], id[3]>> \in DOMAIN n /\ id[2] = Len(plan[id[1]])
          /\ UpTo(orders', m, id) = Cumulative(id[1], id[3], n[<<id[1], id[3]>>])
      BY <1>3, <1>6, <1>7, <2>1 DEF OverInv
    <2>3. Outside(id[1], id[3], n[<<id[1], id[3]>>])
      BY <1>9, <2>2 DEF Excess, Outside
    <2> DEFINE x == <<id[1], id[3]>>
    <2>4. x[1] = id[1] /\ x[2] = id[3]
      OBVIOUS
    <2>5. Id(x) = id
      <3>1. id = <<id[1], id[2], id[3]>>
        BY DEF ItemIds
      <3> QED BY <2>2, <3>1
    <2>6. x \in outside
      BY <2>2, <2>3, <2>4
    <2> HIDE DEF outside, x
    <2> QED BY <2>5, <2>6
  <1> HIDE DEF ids, outside, m
  <1>10. /\ OverPlans(review') = OverPlans(review) \cup (IF outside = {} THEN {} ELSE {Len(review) + 1})
         /\ \A a \in OverPlans(review) : review'[a] = review[a]
         /\ outside # {} => review'[Len(review) + 1] = x0 /\ Len(review) + 1 \notin DOMAIN review
    BY <1>1, <1>4 DEF OverPlans, Adds
  <1>11. \A a \in OverPlans(review') : review'[a].order \in DOMAIN orders'
    BY <1>4, <1>8, <1>10 DEF OverInv
  <1>12. \A a, b \in OverPlans(review') : review'[a].order = review'[b].order => a = b
    BY <1>4, <1>8, <1>10 DEF OverInv
  <1>13. ASSUME NEW o \in DOMAIN orders', NEW id \in ItemIds, Excess(orders', o, id)
         PROVE  \E a \in OverPlans(review') :
                  /\ review'[a].order = o /\ id \in review'[a].items
                  /\ review'[a].status = "approved" \/ orders'[o].status \notin Released
    <2>1. CASE o = m
      <3>1. outside # {} /\ id \in ids
        BY <1>9, <1>13, <2>1
      <3>2. orders'[o].status \notin Released
        BY <1>2, <1>8, <2>1, <3>1 DEF Released
      <3> QED BY <1>4, <1>10, <2>1, <3>1, <3>2
    <2>2. CASE o \in DOMAIN orders
      <3>1. Excess(orders, o, id)
        BY <1>6, <1>8, <1>13, <2>2 DEF Excess
      <3>2. PICK a \in OverPlans(review) :
              /\ review[a].order = o /\ id \in review[a].items
              /\ review[a].status = "approved" \/ orders[o].status \notin Released
        BY <2>2, <3>1 DEF OverInv
      <3> QED BY <1>8, <1>10, <2>2, <3>2
    <2> QED BY <1>8, <2>1, <2>2
  <1>14. ASSUME NEW id \in ItemIds PROVE UpTo(orders', Len(orders'), id) = Ordered(plan', id)
    <2>1. UpTo(orders, Len(orders), id) = Ordered(plan, id)
      BY DEF OverInv
    <2>2. /\ Ordered(plan', id) = Ordered(plan, id) + LineOf(n, id)
          /\ UpTo(orders', m, id) = UpTo(orders, Len(orders), id) + row.line[id]
          /\ row.line[id] = LineOf(n, id)
      BY <1>3, <1>6, <1>7
    <2> QED BY <1>8, <2>1, <2>2
  <1> QED BY <1>11, <1>12, <1>13, <1>14 DEF OverInv

\* Every command keeps the deviations approved.
LEMMA OverStep ==
  ASSUME PlanInv, WaitInv, OverInv, [ProcurementNext]_procurementVars
  PROVE  OverInv'
  <1>1. CASE UNCHANGED procurementVars
    BY <1>1 DEF procurementVars, OverInv, OverPlans, Excess, UpTo, Lines, Ordered
  <1>2. CASE ProcurementNext
    <2>1. \/ Upholds
          \/ \E lines \in (SUBSET (PlanNos \X PlanItems)) \ {{}}, u \in Buyers :
               \E n \in [lines -> 1 .. MaxQuantity] : CreateOrder(n, u)
      BY <1>2, CreatePlanUpholds, RespondToPlanUpholds, FinalizeUpholds, RespondToOrderUpholds,
         DecideStatusUpholds, DecideDeviationUpholds, DecideOrderExceptionUpholds
         DEF ProcurementNext
    <2> QED BY <2>1, UpheldOver, CreateOrderOver
  <1> QED BY <1>1, <1>2

\* There are no orders at first.
LEMMA OverInit ==
  ASSUME ProcurementInit
  PROVE  OverInv
  <1>1. /\ \A no \in PlanNos : DOMAIN plan[no] = {}
        /\ DOMAIN orders = {} /\ DOMAIN review = {} /\ Len(orders) = 0
    BY EmptySeq, LenProperties DEF ProcurementInit
  <1>2. ASSUME NEW id \in ItemIds PROVE UpTo(orders, Len(orders), id) = Ordered(plan, id)
    <2>1. 1 .. Len(orders) = {}
      BY <1>1
    <2>2. UpTo(orders, Len(orders), id) = 0
      BY <2>1, SumEmpty DEF UpTo
    <2>3. id[1] \in PlanNos
      BY DEF ItemIds
    <2> QED BY <1>1, <2>2, <2>3 DEF Ordered
  <1> QED BY <1>1, <1>2 DEF OverInv, OverPlans

\* Division rounds down and keeps the order.
LEMMA DivideMonotone ==
  ASSUME NEW a \in Int, NEW b \in Int, NEW d \in Nat \ {0}, a =< b
  PROVE  a \div d =< b \div d
  <1> DEFINE p == a \div d
             q == b \div d
  <1>1. p \in Int /\ d * p =< a /\ a < d * p + d
    OBVIOUS
  <1>2. q \in Int /\ d * q =< b /\ b < d * q + d
    OBVIOUS
  <1> HIDE DEF p, q
  <1>3. p =< q
    <2> SUFFICES ASSUME p > q PROVE FALSE
      BY <1>1, <1>2
    <2>1. d * (q + 1) =< d * p
      BY <1>1, <1>2
    <2>2. d * (q + 1) = d * q + d
      BY <1>2
    <2> QED BY <1>1, <1>2, <2>1, <2>2
  <1> QED BY <1>3 DEF p, q

\* More of an item is no smaller a deviation.
LEMMA RateMonotone ==
  ASSUME NEW a \in Nat, NEW b \in Nat, NEW d \in Nat \ {0}, a =< b
  PROVE  RateBps(a, d) =< RateBps(b, d) /\ RateBps(a, d) \in Int /\ RateBps(b, d) \in Int
  <1>1. /\ 20000 * (a - d) + d \in Int /\ 20000 * (b - d) + d \in Int
        /\ 20000 * (a - d) + d =< 20000 * (b - d) + d /\ 2 * d \in Nat \ {0}
    OBVIOUS
  <1>2. (20000 * (a - d) + d) \div (2 * d) =< (20000 * (b - d) + d) \div (2 * d)
    BY <1>1, DivideMonotone
  <1>3. ASSUME NEW x \in Int, NEW y \in Nat \ {0} PROVE x \div y \in Int
    OBVIOUS
  <1> QED BY <1>1, <1>2, <1>3 DEF RateBps

\* The released orders are some of all, so what they exceed all exceed.
LEMMA OverApproved ==
  ASSUME PlanInv, OverInv
  PROVE  OverPlanApproved
  <1> SUFFICES ASSUME NEW o \in DOMAIN orders, NEW id \in ItemIds,
                      orders[o].status \in Released, orders[o].line[id] > 0,
                      RateBps(SumFunction([p \in 1 .. o |->
                        IF orders[p].status \in Released THEN orders[p].line[id] ELSE 0]),
                        Planned[id[3]]) > OverBps
               PROVE  \E a \in DOMAIN review : /\ review[a].status = "approved"
                                               /\ review[a].order = o /\ id \in review[a].items
    BY DEF OverPlanApproved
  <1> DEFINE S == 1 .. o
             f == [p \in S |-> IF orders[p].status \in Released THEN orders[p].line[id] ELSE 0]
             g == [p \in S |-> orders[p].line[id]]
             d == Planned[id[3]]
  <1>1. /\ DOMAIN orders = 1 .. Len(orders) /\ Len(orders) \in Nat /\ o \in Nat
        /\ \A p \in DOMAIN orders : orders[p] \in Order
    BY RowsAre
  <1>2. S \subseteq DOMAIN orders
    BY <1>1
  <1>3. \A p \in S : orders[p].line[id] \in Nat
    BY <1>1, <1>2 DEF Order
  <1>4. /\ f \in [S -> Int] /\ g \in [S -> Int] /\ \A p \in S : f[p] =< g[p]
        /\ f \in [S -> Nat] /\ g \in [S -> Nat] /\ DOMAIN f = S
    BY <1>3
  <1>5. IsFiniteSet(S) /\ S \in SUBSET S
    BY <1>1, FS_Interval
  <1>6. \A p \in S : Lines(orders, id)[p] = g[p]
    BY <1>2 DEF Lines
  <1>7. d \in Nat \ {0}
    BY PlannedAssumption DEF ItemIds
  <1>8. RateBps(SumFunction(f), d) > OverBps
    OBVIOUS
  <1>9. UpTo(orders, o, id) = SumOf(Lines(orders, id), S)
    BY DEF UpTo
  <1> HIDE DEF S, f, g, d
  <1>10. SumFunction(f) = SumOf(f, S)
    BY <1>4, SumOn
  <1>11. SumOf(f, S) \in Nat /\ SumOf(g, S) \in Nat
    BY <1>4, <1>5, SumNat
  <1>12. SumOf(f, S) =< SumOf(g, S)
    BY <1>4, <1>5, SumAtMost
  <1>13. SumOf(Lines(orders, id), S) = SumOf(g, S)
    <2>1. Same(g, Lines(orders, id), S)
      BY <1>5, <1>6 DEF Same
    <2> QED BY <2>1, SumSame
  <1>14. RateBps(UpTo(orders, o, id), d) > OverBps
    <2>1. /\ RateBps(SumOf(f, S), d) =< RateBps(SumOf(g, S), d)
          /\ RateBps(SumOf(f, S), d) \in Int /\ RateBps(SumOf(g, S), d) \in Int
      BY <1>7, <1>11, <1>12, RateMonotone
    <2>2. RateBps(SumOf(f, S), d) > OverBps
      BY <1>8, <1>10
    <2>3. RateBps(SumOf(g, S), d) > OverBps
      BY <2>1, <2>2, ToleranceAssumption
    <2> QED BY <1>9, <1>13, <2>3
  <1>15. Excess(orders, o, id)
    BY <1>14 DEF Excess, d
  <1> QED BY <1>15 DEF OverInv, OverPlans

\* Whatever commands place orders and in whatever order their approvals are
\* decided, an order that takes a plan line over the tolerance is released only
\* by an approval of just that deviation.
THEOREM DeviationsAreApproved == ProcurementSpec => []OverPlanApproved
  <1>1. ProcurementSpec => []WaitInv
    BY WaitInit, WaitStep, PlanInvariant, PTL DEF ProcurementSpec
  <1>2. ProcurementSpec => []OverInv
    BY <1>1, OverInit, OverStep, PlanInvariant, PTL DEF ProcurementSpec
  <1> QED BY <1>2, PlanInvariant, OverApproved, PTL

-----------------------------------------------------------------------------
(* The pages over purchasing *)

\* A review of a deviation names the item, and was not approved.
Named(R, id) == \E a \in DOMAIN R : /\ R[a].kind \in {"under_plan", "over_plan"}
                                    /\ id \in R[a].items
                                    /\ R[a].status # "approved"

\* An item that is shown as a deviation is named by such a review.
NamesInv ==
  \A no \in PlanNos : \A v \in DOMAIN plan[no] : \A i \in PlanItems :
    plan[no][v].completion[i] \in {"over_plan_pending", "under_plan_pending"}
    => Named(review, <<no, v, i>>)

\* Reviews of plans are of no order; an order whose deviation was rejected
\* stays rejected.
RefusedInv ==
  \A a \in DOMAIN review :
    /\ review[a].kind \notin {"over_plan", "order_exception"} => review[a].order = 0
    /\ review[a].kind = "over_plan" /\ review[a].status = "rejected" =>
         /\ review[a].order \in DOMAIN orders
         /\ orders[review[a].order].status = "approval_rejected"

\* Steps after which no item is shown as a deviation that was not before,
CompletionsKept ==
  \A no \in PlanNos :
    /\ DOMAIN plan'[no] = DOMAIN plan[no]
    /\ \A v \in DOMAIN plan[no] : plan'[no][v].completion = plan[no][v].completion

\* after which no deviation that was named is approved,
ReviewsStand ==
  \/ review' = review
  \/ \E x : Adds(x) /\ x.status = "pending"
            /\ (x.kind \notin {"over_plan", "order_exception"} => x.order = 0)
  \/ \E a, decision : /\ Settles(a, decision)
                      /\ review[a].kind \notin {"under_plan", "over_plan"}

\* and after which each rejected order still is.
RefusedStay ==
  \A o \in DOMAIN orders : orders[o].status = "approval_rejected" =>
    o \in DOMAIN orders' /\ orders'[o].status = "approval_rejected"

LEMMA NamesStand ==
  ASSUME ReviewsStand, NEW id, Named(review, id)
  PROVE  Named(review', id)
  <1>1. PICK a \in DOMAIN review : /\ review[a].kind \in {"under_plan", "over_plan"}
                                   /\ id \in review[a].items
                                   /\ review[a].status # "approved"
    BY DEF Named
  <1>2. /\ a \in DOMAIN review' /\ review'[a].kind = review[a].kind
        /\ review'[a].items = review[a].items /\ review'[a].status = review[a].status
    BY <1>1 DEF ReviewsStand, Adds, Settles
  <1> QED BY <1>1, <1>2 DEF Named

LEMMA NamesKept ==
  ASSUME NamesInv, CompletionsKept, ReviewsStand
  PROVE  NamesInv'
  BY NamesStand DEF NamesInv, CompletionsKept

LEMMA RefusedKept ==
  ASSUME RefusedInv, RefusedStay, ReviewsStand
  PROVE  RefusedInv'
  <1> SUFFICES ASSUME NEW a \in DOMAIN review'
               PROVE  /\ review'[a].kind \notin {"over_plan", "order_exception"}
                           => review'[a].order = 0
                      /\ review'[a].kind = "over_plan" /\ review'[a].status = "rejected" =>
                           /\ review'[a].order \in DOMAIN orders'
                           /\ orders'[review'[a].order].status = "approval_rejected"
    BY DEF RefusedInv
  <1>1. CASE a \in DOMAIN review
    <2>1. /\ review'[a].kind = review[a].kind /\ review'[a].order = review[a].order
          /\ review[a].kind = "over_plan" => review'[a].status = review[a].status
      BY <1>1 DEF ReviewsStand, Adds, Settles
    <2> QED BY <1>1, <2>1 DEF RefusedInv, RefusedStay
  <1>2. CASE a \notin DOMAIN review
    <2>1. PICK x : /\ review'[a] = x /\ x.status = "pending"
                   /\ x.kind \notin {"over_plan", "order_exception"} => x.order = 0
      BY <1>2 DEF ReviewsStand, Adds, Settles
    <2> QED BY <2>1
  <1> QED BY <1>1, <1>2

\* A review that is asked for.
LEMMA ReviewOfPlanAsked ==
  ASSUME PlanInv, NEW kind \in Kinds \ {"over_plan", "order_exception"}, NEW no \in PlanNos,
         NEW v \in Nat, NEW items \in SUBSET ItemIds, NEW u \in Buyers \cup FactoryUsers,
         review' = Append(review, ReviewOfPlan(kind, no, v, items, u))
  PROVE  /\ ReviewsStand
         /\ Adds(ReviewOfPlan(kind, no, v, items, u))
         /\ ReviewOfPlan(kind, no, v, items, u).items = items
         /\ ReviewOfPlan(kind, no, v, items, u).status = "pending"
  <1> DEFINE x == ReviewOfPlan(kind, no, v, items, u)
  <1>1. x \in Review /\ x.kind = kind
    BY ReviewRow
  <1>2. x.order = 0 /\ x.status = "pending" /\ x.items = items
    BY DEF ReviewOfPlan
  <1> HIDE DEF x
  <1>3. Adds(x)
    BY <1>1, ReviewAppended DEF x
  <1>4. ReviewsStand
    BY <1>1, <1>2, <1>3 DEF ReviewsStand
  <1> QED BY <1>2, <1>3, <1>4 DEF x

\* Another status of one version leaves the completions as they are.
LEMMA StatusKeeps ==
  ASSUME PlanInv, NEW no \in PlanNos, NEW v \in DOMAIN plan[no], NEW s, Restatus(no, v, s)
  PROVE  CompletionsKept
  <1> DEFINE row == [plan[no][v] EXCEPT !.status = s]
  <1>1. plan' = [plan EXCEPT ![no] = [plan[no] EXCEPT ![v] = row]]
    BY DEF Restatus
  <1>2. plan[no][v] \in Version
    BY RowsAre
  <1>3. row.completion = plan[no][v].completion
    BY <1>2 DEF Version
  <1> HIDE DEF row
  <1>4. Rewrites(no, v, row)
    BY <1>1, VersionRewritten
  <1> QED BY <1>3, <1>4 DEF Rewrites, CompletionsKept

LEMMA OrdersSame ==
  ASSUME orders' = orders
  PROVE  RefusedStay
  BY DEF RefusedStay

\* The commands on plans.
LEMMA CreatePlanShown ==
  ASSUME PlanInv, NamesInv, RefusedInv, NEW no \in PlanNos, NEW u \in Buyers, CreatePlan(no, u)
  PROVE  NamesInv' /\ RefusedInv'
  <1> DEFINE v == Len(plan[no]) + 1
             row == [status     |-> IF v = 1 THEN "awaiting_factory_confirmation"
                                    ELSE "pending_approval",
                     ordered    |-> [i \in PlanItems |-> 0],
                     completion |-> [i \in PlanItems |-> "not_ordered"]]
  <1>1. Extended(no, v, row) /\ v \in Nat
    BY CreatePlanWrites
  <1>2. \A i \in PlanItems : row.completion[i] = "not_ordered"
    OBVIOUS
  <1>3. /\ orders' = orders
        /\ review' = review
           \/ review' = Append(review, ReviewOfPlan("plan_version", no, v, {}, u))
    BY DEF CreatePlan
  <1> HIDE DEF row, v
  <1>4. ReviewsStand
    <2>1. CASE review' = review
      BY <2>1 DEF ReviewsStand
    <2>2. CASE review' = Append(review, ReviewOfPlan("plan_version", no, v, {}, u))
      BY <1>1, <2>2, ReviewOfPlanAsked DEF Kinds
    <2> QED BY <1>3, <2>1, <2>2
  <1>5. NamesInv'
    <2> SUFFICES ASSUME NEW m \in PlanNos, NEW w \in DOMAIN plan'[m], NEW i \in PlanItems,
                        plan'[m][w].completion[i] \in {"over_plan_pending", "under_plan_pending"}
                 PROVE  Named(review', <<m, w, i>>)
      BY DEF NamesInv
    <2>1. w \in DOMAIN plan[m] /\ plan'[m][w] = plan[m][w]
      BY <1>1, <1>2 DEF Extended
    <2> QED BY <1>4, <2>1, NamesStand DEF NamesInv
  <1> QED BY <1>3, <1>4, <1>5, OrdersSame, RefusedKept

LEMMA RespondToPlanShown ==
  ASSUME PlanInv, NamesInv, RefusedInv, NEW no \in PlanNos, NEW v \in DOMAIN plan[no],
         NEW u \in FactoryUsers, NEW decision \in {"confirmed", "disputed"},
         RespondToPlan(no, v, u, decision)
  PROVE  NamesInv' /\ RefusedInv'
  <1>1. /\ orders' = orders /\ Restatus(no, v, decision)
        /\ review' = review
           \/ review' = Append(review, ReviewOfPlan("plan_exception", no, v, {}, u))
    BY DEF RespondToPlan, Restatus
  <1>2. CompletionsKept
    BY <1>1, StatusKeeps
  <1>3. ReviewsStand
    <2>1. CASE review' = review
      BY <2>1 DEF ReviewsStand
    <2>2. CASE review' = Append(review, ReviewOfPlan("plan_exception", no, v, {}, u))
      <3>1. v \in Nat
        BY RowsAre
      <3> QED BY <2>2, <3>1, ReviewOfPlanAsked DEF Kinds
    <2> QED BY <1>1, <2>1, <2>2
  <1> QED BY <1>1, <1>2, <1>3, NamesKept, OrdersSame, RefusedKept

\* The items that were ordered too little are those the review names.
LEMMA FinalizeShown ==
  ASSUME PlanInv, NamesInv, RefusedInv, NEW no \in PlanNos, NEW v \in DOMAIN plan[no],
         NEW u \in Buyers, Finalize(no, v, u)
  PROVE  NamesInv' /\ RefusedInv'
  <1> DEFINE p     == plan[no][v]
             under == {i \in PlanItems : RateBps(p.ordered[i], Planned[i]) < -UnderBps}
             completion == [i \in PlanItems |->
                              IF i \in under THEN "under_plan_pending" ELSE "within_tolerance"]
             status == IF under = {} THEN "ordered_complete" ELSE "ordering"
             row == [p EXCEPT !.status = status, !.completion = completion]
             items == {no} \X {v} \X under
             x == ReviewOfPlan("under_plan", no, v, items, u)
  <1>1. p \in Version
    BY VersionType
  <1>2. /\ plan' = [plan EXCEPT ![no] = [plan[no] EXCEPT ![v] = row]] /\ orders' = orders
        /\ \/ review' = review /\ under = {}
           \/ review' = Append(review, x)
    BY DEF Finalize
  <1>3. under \subseteq PlanItems
    OBVIOUS
  <1>4. v \in 1 .. MaxVersions /\ v \in Nat
    BY VersionType, RowsAre
  <1>5. \A i \in PlanItems : completion[i] \in {"over_plan_pending", "under_plan_pending"}
                             => i \in under
    OBVIOUS
  <1> HIDE DEF under
  <1>6. items \in SUBSET ItemIds /\ \A i \in under : <<no, v, i>> \in items
    BY <1>3, <1>4 DEF ItemIds
  <1> HIDE DEF status, completion, items
  <1>7. row.completion = completion
    BY <1>1 DEF Version
  <1> HIDE DEF row
  <1>8. Rewrites(no, v, row)
    BY <1>2, VersionRewritten
  <1>9. review' = Append(review, x) =>
          /\ ReviewsStand
          /\ Adds(x) /\ x.items = items /\ x.status = "pending" /\ x.kind = "under_plan"
    <2>1. x.kind = "under_plan"
      BY DEF ReviewOfPlan
    <2> QED BY <1>4, <1>6, <2>1, ReviewOfPlanAsked DEF Kinds
  <1>10. ReviewsStand
    BY <1>2, <1>9 DEF ReviewsStand
  <1> HIDE DEF x
  <1>11. NamesInv'
    <2> SUFFICES ASSUME NEW m \in PlanNos, NEW w \in DOMAIN plan'[m], NEW i \in PlanItems,
                        plan'[m][w].completion[i] \in {"over_plan_pending", "under_plan_pending"}
                 PROVE  Named(review', <<m, w, i>>)
      BY DEF NamesInv
    <2>1. CASE m = no /\ w = v
      <3>1. i \in under
        BY <1>5, <1>7, <1>8, <2>1 DEF Rewrites
      <3>2. Adds(x) /\ x.items = items /\ x.status = "pending" /\ x.kind = "under_plan"
        BY <1>2, <1>9, <3>1
      <3>3. <<m, w, i>> \in x.items
        BY <1>6, <2>1, <3>1, <3>2
      <3> QED BY <3>2, <3>3 DEF Named, Adds
    <2>2. CASE ~(m = no /\ w = v)
      <3>1. w \in DOMAIN plan[m] /\ plan'[m][w] = plan[m][w]
        BY <1>8, <2>2 DEF Rewrites
      <3> QED BY <1>10, <3>1, NamesStand DEF NamesInv
    <2> QED BY <2>1, <2>2
  <1> QED BY <1>2, <1>10, <1>11, OrdersSame, RefusedKept

\* Decisions that give a version another status.
LEMMA DecideStatusShown ==
  ASSUME PlanInv, WaitInv, NamesInv, RefusedInv, NEW a \in DOMAIN review, NEW u \in Buyers,
         NEW decision \in {"approved", "rejected"},
         DecideVersion(a, u, decision) \/ DecidePlanException(a, u, decision)
  PROVE  NamesInv' /\ RefusedInv'
  <1> DEFINE no == review[a].no
             v  == review[a].v
  <1>1. PICK s : /\ review[a].kind \in {"plan_version", "plan_exception"}
                 /\ review[a].status = "pending"
                 /\ Restatus(no, v, s) /\ orders' = orders
                 /\ Decides(a, u, decision)
    <2>1. CASE DecideVersion(a, u, decision)
      <3> DEFINE s == IF decision = "approved" THEN "awaiting_factory_confirmation" ELSE "draft"
      <3>1. /\ review[a].kind \in {"plan_version", "plan_exception"}
            /\ review[a].status = "pending"
            /\ Restatus(no, v, s) /\ orders' = orders
            /\ Decides(a, u, decision)
        BY <2>1 DEF DecideVersion, Decides, Restatus
      <3> QED BY <3>1
    <2>2. CASE DecidePlanException(a, u, decision)
      <3> DEFINE s == IF decision = "approved" THEN "confirmed" ELSE "awaiting_factory_confirmation"
      <3>1. /\ review[a].kind \in {"plan_version", "plan_exception"}
            /\ review[a].status = "pending"
            /\ Restatus(no, v, s) /\ orders' = orders
            /\ Decides(a, u, decision)
        BY <2>2 DEF DecidePlanException, Decides, Restatus
      <3> QED BY <3>1
    <2> QED BY <2>1, <2>2
  <1>2. no \in PlanNos /\ v \in DOMAIN plan[no]
    <2>1. Waits(plan, orders, review[a].kind, no, v, review[a].order)
      BY <1>1, OpenWaits
    <2> QED BY <1>1, <2>1 DEF Waits, At
  <1>3. Settles(a, decision)
    BY <1>1, ReviewSettled
  <1>4. ReviewsStand
    BY <1>1, <1>3 DEF ReviewsStand
  <1> HIDE DEF no, v
  <1>5. CompletionsKept
    BY <1>1, <1>2, StatusKeeps
  <1> QED BY <1>1, <1>4, <1>5, NamesKept, OrdersSame, RefusedKept

\* The commands on orders.
LEMMA RespondToOrderShown ==
  ASSUME PlanInv, NamesInv, RefusedInv, NEW o \in DOMAIN orders, NEW u \in FactoryUsers,
         NEW decision \in {"confirmed", "disputed"}, RespondToOrder(o, u, decision)
  PROVE  NamesInv' /\ RefusedInv'
  <1> DEFINE x == ReviewOfOrder("order_exception", o, {}, u)
  <1>1. /\ orders[o].status = "factory_confirmation" /\ plan' = plan
        /\ orders' = [orders EXCEPT ![o].status = decision]
        /\ review' = review \/ review' = Append(review, x)
    BY DEF RespondToOrder
  <1>2. Restates(o, decision)
    BY <1>1, OrderRestated
  <1>3. x \in Review /\ x.kind = "order_exception" /\ x.status = "pending"
    <2>1. {} \in SUBSET ItemIds /\ o \in Nat
      BY RowsAre
    <2> QED BY <2>1 DEF ReviewOfOrder, Review, Kinds
  <1> HIDE DEF x
  <1>4. ReviewsStand
    <2>1. review' = Append(review, x) => Adds(x)
      BY <1>3, ReviewAppended
    <2> QED BY <1>1, <1>3, <2>1 DEF ReviewsStand
  <1>5. CompletionsKept
    BY <1>1 DEF CompletionsKept
  <1>6. RefusedStay
    BY <1>1, <1>2 DEF RefusedStay, Restates
  <1> QED BY <1>4, <1>5, <1>6, NamesKept, RefusedKept

LEMMA DecideOrderExceptionShown ==
  ASSUME PlanInv, WaitInv, NamesInv, RefusedInv, NEW a \in DOMAIN review, NEW u \in Buyers,
         NEW decision \in {"approved", "rejected"}, DecideOrderException(a, u, decision)
  PROVE  NamesInv' /\ RefusedInv'
  <1> DEFINE o == review[a].order
             status == IF decision = "approved" THEN "confirmed" ELSE "factory_confirmation"
  <1>1. /\ review[a].kind = "order_exception" /\ review[a].status = "pending" /\ plan' = plan
        /\ orders' = [orders EXCEPT ![o].status = IF @ # "disputed" THEN @ ELSE status]
        /\ Decides(a, u, decision)
    BY DEF DecideOrderException, Decides
  <1>2. Waits(plan, orders, review[a].kind, review[a].no, review[a].v, o)
    BY <1>1, OpenWaits
  <1>3. o \in DOMAIN orders /\ orders[o].status = "disputed"
    BY <1>1, <1>2 DEF Waits
  <1>4. orders' = [orders EXCEPT ![o].status = status]
    BY <1>1, <1>3
  <1> HIDE DEF o, status
  <1>5. Restates(o, status)
    BY <1>3, <1>4, OrderRestated
  <1>6. Settles(a, decision)
    BY <1>1, ReviewSettled
  <1>7. ReviewsStand
    BY <1>1, <1>6 DEF ReviewsStand
  <1>8. CompletionsKept
    BY <1>1 DEF CompletionsKept
  <1>9. RefusedStay
    BY <1>3, <1>5 DEF RefusedStay, Restates
  <1> QED BY <1>7, <1>8, <1>9, NamesKept, RefusedKept

\* What a decision about a deviation makes of the completions.
LEMMA DecidedCompletions ==
  ASSUME PlanInv, NEW a \in DOMAIN review, NEW u \in Buyers,
         NEW decision \in {"approved", "rejected"}, DecideDeviation(a, u, decision)
  PROVE  \A no \in PlanNos :
           /\ DOMAIN plan'[no] = DOMAIN plan[no]
           /\ \A v \in DOMAIN plan[no], i \in PlanItems :
                plan'[no][v].completion[i] =
                  IF decision = "approved" /\ <<no, v, i>> \in review[a].items
                  THEN "exception_approved" ELSE plan[no][v].completion[i]
  <1> DEFINE x == review[a]
             Touched(no, v) == \E i \in PlanItems : <<no, v, i>> \in x.items
  <1>1. plan' = [no \in PlanNos |-> [v \in DOMAIN plan[no] |->
          IF Touched(no, v) THEN Decided(x, no, v, decision) ELSE plan[no][v]]]
    BY DEF DecideDeviation
  <1>2. ASSUME NEW no \in PlanNos, NEW v \in DOMAIN plan[no], NEW i \in PlanItems
        PROVE  Decided(x, no, v, decision).completion[i] =
                 IF decision = "approved" /\ <<no, v, i>> \in x.items
                 THEN "exception_approved" ELSE plan[no][v].completion[i]
    <2> DEFINE p == plan[no][v]
               completion == [j \in PlanItems |->
                 IF decision = "approved" /\ <<no, v, j>> \in x.items THEN "exception_approved"
                 ELSE p.completion[j]]
               status == IF Done(completion) THEN "ordered_complete" ELSE "ordering"
    <2>1. p \in Version
      BY VersionType
    <2>2. Decided(x, no, v, decision) = [p EXCEPT !.completion = completion, !.status = status]
      BY DEF Decided
    <2>3. completion[i] = IF decision = "approved" /\ <<no, v, i>> \in x.items
                          THEN "exception_approved" ELSE plan[no][v].completion[i]
      OBVIOUS
    <2> HIDE DEF completion, status
    <2>4. Decided(x, no, v, decision).completion = completion
      BY <2>1, <2>2 DEF Version
    <2> QED BY <2>3, <2>4
  <1>3. ASSUME NEW no \in PlanNos, NEW v \in DOMAIN plan[no], NEW i \in PlanItems, ~Touched(no, v)
        PROVE  <<no, v, i>> \notin x.items
    BY <1>3
  <1> HIDE DEF Touched
  <1>4. \A no \in PlanNos :
          /\ DOMAIN plan'[no] = DOMAIN plan[no]
          /\ \A v \in DOMAIN plan[no] :
               plan'[no][v] = IF Touched(no, v) THEN Decided(x, no, v, decision) ELSE plan[no][v]
    BY <1>1
  <1> QED BY <1>2, <1>3, <1>4

\* A deviation that is approved is shown no longer; the order of one that is
\* rejected is, too.
LEMMA DecideDeviationShown ==
  ASSUME PlanInv, WaitInv, NamesInv, RefusedInv, NEW a \in DOMAIN review, NEW u \in Buyers,
         NEW decision \in {"approved", "rejected"}, DecideDeviation(a, u, decision)
  PROVE  NamesInv' /\ RefusedInv'
  <1>1. /\ Steady
        /\ \A id \in ItemIds : Ordered(plan', id) = Ordered(plan, id)
        /\ Settles(a, decision)
        /\ \/ review[a].kind = "under_plan" /\ orders' = orders
           \/ /\ review[a].kind = "over_plan" /\ orders[review[a].order].status = "pending_approval"
              /\ orders' = [orders EXCEPT ![review[a].order].status =
                                       OrderDecided(review[a].order, decision)]
    BY ZenonT(60), DecideDeviationWrites
  <1>2. NamesInv'
    <2> SUFFICES ASSUME NEW no \in PlanNos, NEW v \in DOMAIN plan'[no], NEW i \in PlanItems,
                        plan'[no][v].completion[i] \in {"over_plan_pending", "under_plan_pending"}
                 PROVE  Named(review', <<no, v, i>>)
      BY DEF NamesInv
    <2>1. /\ v \in DOMAIN plan[no]
          /\ plan'[no][v].completion[i] =
               IF decision = "approved" /\ <<no, v, i>> \in review[a].items
               THEN "exception_approved" ELSE plan[no][v].completion[i]
      BY DecidedCompletions
    <2>2. /\ plan[no][v].completion[i] \in {"over_plan_pending", "under_plan_pending"}
          /\ decision = "approved" => <<no, v, i>> \notin review[a].items
      BY <2>1
    <2>3. PICK b \in DOMAIN review : /\ review[b].kind \in {"under_plan", "over_plan"}
                                     /\ <<no, v, i>> \in review[b].items
                                     /\ review[b].status # "approved"
      BY <2>1, <2>2 DEF NamesInv, Named
    <2>4. /\ b \in DOMAIN review' /\ review'[b].kind = review[b].kind
          /\ review'[b].items = review[b].items /\ review'[b].status # "approved"
      BY <1>1, <2>2, <2>3 DEF Settles
    <2> QED BY <2>3, <2>4 DEF Named
  <1>3. RefusedInv'
    <2>1. CASE review[a].kind = "under_plan" /\ orders' = orders
      BY <1>1, <2>1 DEF RefusedInv, Settles
    <2>2. CASE review[a].kind = "over_plan"
      <3> DEFINE o == review[a].order
                 status == OrderDecided(o, decision)
      <3>1. Waits(plan, orders, review[a].kind, review[a].no, review[a].v, review[a].order)
        BY <1>1, <2>2, OpenWaits DEF Settles
      <3>2. o \in DOMAIN orders
        BY <2>2, <3>1 DEF Waits
      <3>3. decision = "rejected" => status = "approval_rejected"
        BY DEF OrderDecided
      <3>4. /\ orders' = [orders EXCEPT ![o].status = status] /\ o = review[a].order
            /\ orders[o].status = "pending_approval"
        BY <1>1, <2>2
      <3> HIDE DEF o, status
      <3>5. Restates(o, status)
        BY <3>2, <3>4, OrderRestated
      <3> QED BY <1>1, <2>2, <3>2, <3>3, <3>4, <3>5 DEF RefusedInv, Settles, Restates
    <2> QED BY <1>1, <2>1, <2>2
  <1> QED BY <1>2, <1>3

\* What placing an order makes of the completions.
CompletionsWritten(n) ==
  \A no \in PlanNos :
    /\ DOMAIN plan'[no] = DOMAIN plan[no]
    /\ \A v \in DOMAIN plan[no] :
         plan'[no][v].completion = IF no \in {x[1] : x \in DOMAIN n} /\ v = Len(plan[no])
                                   THEN CompletionNow(no, n) ELSE plan[no][v].completion

\* The items of the latest versions are measured anew.
LEMMA OrderedCompletions ==
  ASSUME PlanInv, NEW lines \in (SUBSET (PlanNos \X PlanItems)) \ {{}}, NEW u \in Buyers,
         NEW n \in [lines -> 1 .. MaxQuantity], CreateOrder(n, u)
  PROVE  CompletionsWritten(n)
  <1> DEFINE nos == {x[1] : x \in DOMAIN n}
  <1>1. plan' = [no \in PlanNos |-> IF no \in nos
                   THEN [plan[no] EXCEPT ![Len(plan[no])] = OrderedNow(no, n)] ELSE plan[no]]
    BY DEF CreateOrder
  <1>2. nos \subseteq PlanNos
    OBVIOUS
  <1>3. \A no \in nos : Len(plan[no]) \in DOMAIN plan[no]
    <2>1. /\ PlansWritten(n)
          /\ \A no \in {x[1] : x \in DOMAIN n} : Len(plan[no]) \in DOMAIN plan[no]
      BY CreateOrderWritesPlans
    <2> QED BY <2>1
  <1> HIDE DEF nos
  <1>4. ASSUME NEW no \in nos PROVE OrderedNow(no, n).completion = CompletionNow(no, n)
    <2> DEFINE p == plan[no][Len(plan[no])]
               completion == CompletionNow(no, n)
               status == IF Done(completion) THEN "ordered_complete" ELSE "ordering"
               ordered == [i \in PlanItems |->
                             p.ordered[i] + IF <<no, i>> \in DOMAIN n THEN n[<<no, i>>] ELSE 0]
    <2>1. p \in Version
      BY <1>2, <1>3, VersionType
    <2>2. OrderedNow(no, n) = [p EXCEPT !.ordered = ordered, !.completion = completion,
                                        !.status = status]
      BY <2>1 DEF OrderedNow, Version
    <2> HIDE DEF completion, status, ordered
    <2>3. OrderedNow(no, n).completion = completion
      BY <2>1, <2>2 DEF Version
    <2> QED BY <2>3 DEF completion
  <1>5. \A no \in PlanNos : DOMAIN plan'[no] = DOMAIN plan[no]
    BY <1>1
  <1>6. ASSUME NEW no \in PlanNos, NEW v \in DOMAIN plan[no]
        PROVE  plan'[no][v] = IF no \in nos /\ v = Len(plan[no]) THEN OrderedNow(no, n)
                              ELSE plan[no][v]
    BY <1>1
  <1>7. \A no \in PlanNos : \A v \in DOMAIN plan[no] :
          plan'[no][v].completion = IF no \in nos /\ v = Len(plan[no])
                                    THEN CompletionNow(no, n) ELSE plan[no][v].completion
    BY <1>4, <1>6
  <1> QED BY <1>5, <1>7 DEF nos, CompletionsWritten

\* An item that is ordered too much is one the review names.
LEMMA CreateOrderShown ==
  ASSUME PlanInv, NamesInv, RefusedInv,
         NEW lines \in (SUBSET (PlanNos \X PlanItems)) \ {{}}, NEW u \in Buyers,
         NEW n \in [lines -> 1 .. MaxQuantity], CreateOrder(n, u)
  PROVE  NamesInv' /\ RefusedInv'
  <1> DEFINE Id(x)   == <<x[1], Len(plan[x[1]]), x[2]>>
             outside == {x \in DOMAIN n : Outside(x[1], x[2], n[x])}
             ids     == {Id(x) : x \in outside}
             x0      == ReviewOfOrder("over_plan", Len(orders) + 1, ids, u)
             row == [status |-> IF outside = {} THEN "factory_confirmation" ELSE "pending_approval",
                     line   |-> [id \in ItemIds |-> IF \E x \in DOMAIN n : Id(x) = id
                                                    THEN n[<<id[1], id[3]>>] ELSE 0]]
  <1>1. /\ Placed(row)
        /\ IF outside = {} THEN review' = review ELSE Adds(x0)
    BY CreateOrderWrites DEF OrderWrites
  <1>2. x0.kind = "over_plan" /\ x0.items = ids /\ x0.status = "pending"
    BY DEF ReviewOfOrder
  <1>3. ASSUME NEW no \in PlanNos, NEW i \in PlanItems, <<no, i>> \in DOMAIN n,
               Outside(no, i, n[<<no, i>>])
        PROVE  <<no, Len(plan[no]), i>> \in ids /\ outside # {}
    <2>1. <<no, i>> \in outside /\ Id(<<no, i>>) = <<no, Len(plan[no]), i>>
      BY <1>3
    <2> QED BY <2>1
  <1> HIDE DEF row, x0, ids, outside, Id
  <1>4. ReviewsStand
    BY <1>1, <1>2 DEF ReviewsStand
  <1>5. RefusedStay
    BY <1>1 DEF RefusedStay, Placed
  <1>6. CompletionsWritten(n)
    BY OrderedCompletions
  <1>7. NamesInv'
    <2> SUFFICES ASSUME NEW m \in PlanNos, NEW w \in DOMAIN plan'[m], NEW i \in PlanItems,
                        plan'[m][w].completion[i] \in {"over_plan_pending", "under_plan_pending"}
                 PROVE  Named(review', <<m, w, i>>)
      BY DEF NamesInv
    <2>1. /\ w \in DOMAIN plan[m]
          /\ plan'[m][w].completion = IF m \in {x[1] : x \in DOMAIN n} /\ w = Len(plan[m])
                                      THEN CompletionNow(m, n) ELSE plan[m][w].completion
      BY <1>6 DEF CompletionsWritten
    <2>2. CASE /\ plan'[m][w].completion = CompletionNow(m, n) /\ w = Len(plan[m])
               /\ <<m, i>> \in DOMAIN n
      <3>1. CompletionNow(m, n)[i] = Completion(m, i, n[<<m, i>>])
        BY <2>2 DEF CompletionNow
      <3>2. Outside(m, i, n[<<m, i>>])
        BY <2>2, <3>1 DEF Completion
      <3>3. <<m, w, i>> \in ids /\ outside # {}
        BY <1>3, <2>2, <3>2
      <3> QED BY <1>1, <1>2, <3>3 DEF Named, Adds
    <2>3. CASE plan'[m][w].completion[i] = plan[m][w].completion[i]
      BY <1>4, <2>1, <2>3, NamesStand DEF NamesInv
    <2>4. CASE /\ plan'[m][w].completion = CompletionNow(m, n) /\ w = Len(plan[m])
               /\ <<m, i>> \notin DOMAIN n
      <3>1. CompletionNow(m, n)[i] = plan[m][w].completion[i]
        BY <2>4 DEF CompletionNow
      <3> QED BY <2>3, <2>4, <3>1
    <2> QED BY <2>1, <2>2, <2>3, <2>4
  <1> QED BY <1>4, <1>5, <1>7, RefusedKept

\* Every command keeps both.
LEMMA ShownStep ==
  ASSUME PlanInv, WaitInv, NamesInv, RefusedInv, [ProcurementNext]_procurementVars
  PROVE  NamesInv' /\ RefusedInv'
  <1>1. CASE UNCHANGED procurementVars
    BY <1>1 DEF procurementVars, NamesInv, Named, RefusedInv
  <1>2. CASE ProcurementNext
    BY <1>2, CreatePlanShown, RespondToPlanShown, FinalizeShown, CreateOrderShown,
       RespondToOrderShown, DecideStatusShown, DecideDeviationShown, DecideOrderExceptionShown
       DEF ProcurementNext
  <1> QED BY <1>1, <1>2

LEMMA ShownInit ==
  ASSUME ProcurementInit
  PROVE  NamesInv /\ RefusedInv
  <1>1. /\ \A no \in PlanNos : DOMAIN plan[no] = {}
        /\ DOMAIN review = {}
    BY EmptySeq, LenProperties DEF ProcurementInit
  <1> QED BY <1>1 DEF NamesInv, RefusedInv

\* The rows of both pages parse, and each link names a row that is there: an
\* order's line is part of what the plan says was ordered, so the plan has it.
LEMMA RepliesAre ==
  ASSUME PlanInv, OverInv, NEW u \in Buyers \cup FactoryUsers
  PROVE  PlansReply(u) = 200 /\ OrdersReply(u) = 200
  <1>1. ASSUME NEW no \in PlanNos, NEW v \in DOMAIN plan[no], NEW i \in PlanItems
        PROVE  PlanParses(no, v) /\ PlanItemParses(no, v, i)
    <2>1. plan[no][v] \in Version /\ Planned[i] \in Nat \ {0}
      BY VersionType, PlannedAssumption
    <2> QED BY <2>1 DEF Version, Completions, PlanParses, PlanItemParses
  <1>2. ASSUME NEW a \in DOMAIN review PROVE AnswerParses(a)
    <2>1. review[a] \in Review
      BY RowsAre
    <2> QED BY <2>1 DEF Review, AnswerParses, AnswerStatus
  <1>3. ASSUME NEW no \in PlanNos, NEW v \in DOMAIN plan[no]
        PROVE  PlanParses(no, v) /\ \A a \in LatestAnswers(no, v) : AnswerParses(a)
    <2>1. plan[no][v] \in Version
      BY VersionType
    <2> QED BY <1>2, <2>1 DEF Version, PlanParses, LatestAnswers
  <1>4. PlansReply(u) = 200
    BY <1>1, <1>3 DEF PlansReply, Reader
  <1>5. ASSUME NEW o \in DOMAIN orders, NEW id \in ItemIds, orders[o].line[id] > 0
        PROVE  id[1] \in PlanNos /\ id[2] \in DOMAIN plan[id[1]] /\ id[3] \in PlanItems
    <2> DEFINE S == 1 .. Len(orders)
               f == Lines(orders, id)
    <2>1. f \in [S -> Nat] /\ IsFiniteSet(S) /\ S \in SUBSET S /\ o \in S /\ f[o] = orders[o].line[id]
      BY LinesType, RowsAre, FS_Interval DEF Lines
    <2>2. SumOf(f, S) = UpTo(orders, Len(orders), id)
      BY DEF UpTo
    <2> HIDE DEF S, f
    <2>3. SumOf(f, S) \in Nat /\ f[o] =< SumOf(f, S) /\ f[o] \in Nat
      BY <2>1, SumNat
    <2>4. Ordered(plan, id) > 0
      BY <1>5, <2>1, <2>2, <2>3 DEF OverInv
    <2>5. id[1] \in PlanNos /\ id[3] \in PlanItems
      BY DEF ItemIds
    <2> QED BY <2>4, <2>5 DEF Ordered
  <1>6. OrdersReply(u) = 200
    BY <1>1, <1>5 DEF OrdersReply, Reader, ShownOrders, ShownLinks
  <1> QED BY <1>4, <1>6

\* What the orders on the page link of a line is what the plans say, or less.
LEMMA LinkedIs ==
  ASSUME PlanInv, OverInv, NEW no \in PlanNos, NEW v \in DOMAIN plan[no], NEW i \in PlanItems
  PROVE  LET linked == SumFunctionOnSet([o \in DOMAIN orders |-> orders[o].line[<<no, v, i>>]],
                                        ShownOrders)
         IN /\ linked =< plan[no][v].ordered[i]
            /\ Len(orders) =< OrderLimit => linked = plan[no][v].ordered[i]
  <1> DEFINE id == <<no, v, i>>
             S == 1 .. Len(orders)
             f == Lines(orders, id)
             K == ShownOrders
  <1>1. id \in ItemIds /\ id[1] = no /\ id[2] = v /\ id[3] = i
    BY VersionType DEF ItemIds
  <1>2. /\ f \in [S -> Nat] /\ f \in [S -> Int] /\ IsFiniteSet(S) /\ S \in SUBSET S
        /\ DOMAIN orders = S /\ Len(orders) \in Nat
    <2>1. Lines(orders, id) \in [1 .. Len(orders) -> Nat] /\ Len(orders) \in Nat
      BY <1>1, LinesType
    <2>2. IsFiniteSet(1 .. Len(orders)) /\ DOMAIN orders = 1 .. Len(orders)
      BY <2>1, RowsAre, FS_Interval
    <2> HIDE DEF id
    <2> QED BY <2>1, <2>2
  <1>3. K \in SUBSET S /\ (Len(orders) =< OrderLimit => K = S)
    BY <1>2, OrderLimitAssumption DEF ShownOrders
  <1>4. f = [o \in DOMAIN orders |-> orders[o].line[<<no, v, i>>]]
    BY DEF Lines
  <1>5. SumOf(f, S) = plan[no][v].ordered[i]
    <2>1. UpTo(orders, Len(orders), id) = Ordered(plan, id)
      BY <1>1 DEF OverInv
    <2>2. Ordered(plan, id) = plan[no][v].ordered[i]
      BY <1>1 DEF Ordered
    <2> QED BY <2>1, <2>2 DEF UpTo
  <1>6. SumFunctionOnSet([o \in DOMAIN orders |-> orders[o].line[<<no, v, i>>]], K) = SumOf(f, K)
    BY <1>4 DEF SumOf
  <1> HIDE DEF S, f, K, id
  <1>7. SumOf(f, K) =< SumOf(f, S)
    <2> DEFINE T == S \ K
    <2>0. /\ IsFiniteSet(S) /\ f \in [S -> Nat] /\ f \in [S -> Int]
          /\ K \in SUBSET S /\ T \in SUBSET S
      BY <1>2, <1>3
    <2>1. K \cap T = {} /\ K \cup T = S
      BY <1>3
    <2> HIDE DEF T
    <2>2. SumOf(f, K \cup T) = SumOf(f, K) + SumOf(f, T)
      BY <2>0, <2>1, SumUnion
    <2>3. ASSUME NEW Q \in SUBSET S PROVE SumOf(f, Q) \in Nat
      BY <1>2, SumNat
    <2> QED BY <2>0, <2>1, <2>2, <2>3
  <1>8. Len(orders) =< OrderLimit => SumOf(f, K) = SumOf(f, S)
    BY <1>3
  <1> QED BY <1>5, <1>6, <1>7, <1>8 DEF K

\* Nothing is offered while a review of it waits, or after it was refused.
LEMMA OffersAre ==
  ASSUME PlanInv, WaitInv, RefusedInv
  PROVE  /\ \A no \in PlanNos : \A v \in DOMAIN plan[no] :
              ConfirmOffered(no, v) \/ FinalizeOffered(no, v) =>
                \A a \in DOMAIN review :
                  review[a].kind \in {"plan_version", "plan_exception"} /\ review[a].no = no
                    /\ review[a].v = v => review[a].status # "pending"
         /\ \A o \in ShownOrders : AnswerOffered(o) \/ ReceiveOffered(o) =>
              \A a \in DOMAIN review : review[a].order = o =>
                \/ review[a].status = "approved"
                \/ review[a].kind = "order_exception" /\ review[a].status = "rejected"
  <1>1. ASSUME NEW no \in PlanNos, NEW v \in DOMAIN plan[no],
               ConfirmOffered(no, v) \/ FinalizeOffered(no, v),
               NEW a \in DOMAIN review, review[a].kind \in {"plan_version", "plan_exception"},
               review[a].no = no, review[a].v = v
        PROVE  review[a].status # "pending"
    <2> SUFFICES ASSUME review[a].status = "pending" PROVE FALSE
      OBVIOUS
    <2>1. Waits(plan, orders, review[a].kind, review[a].no, review[a].v, review[a].order)
      BY <1>1, OpenWaits
    <2>2. plan[no][v].status \in {"pending_approval", "disputed"}
      BY <1>1, <2>1 DEF Waits, At
    <2> QED BY <1>1, <2>2 DEF ConfirmOffered, FinalizeOffered
  <1>2. ASSUME NEW o \in ShownOrders, AnswerOffered(o) \/ ReceiveOffered(o),
               NEW a \in DOMAIN review, review[a].order = o
        PROVE  \/ review[a].status = "approved"
               \/ review[a].kind = "order_exception" /\ review[a].status = "rejected"
    <2>1. /\ o \in DOMAIN orders /\ o # 0 /\ review[a] \in Review
          /\ orders[o].status \in {"factory_confirmation", "confirmed"}
      BY <1>2, RowsAre DEF ShownOrders, AnswerOffered, ReceiveOffered
    <2>2. review[a].kind \in {"over_plan", "order_exception"}
      BY <1>2, <2>1 DEF RefusedInv
    <2>3. review[a].status # "pending"
      <3> SUFFICES ASSUME review[a].status = "pending" PROVE FALSE
        OBVIOUS
      <3>1. Waits(plan, orders, review[a].kind, review[a].no, review[a].v, review[a].order)
        BY <2>2, OpenWaits
      <3> QED BY <1>2, <2>1, <2>2, <3>1 DEF Waits
    <2>4. review[a].kind = "over_plan" => review[a].status # "rejected"
      BY <1>2, <2>1 DEF RefusedInv
    <2>5. review[a].status \in {"pending", "approved", "rejected"}
      BY <2>1 DEF Review
    <2> QED BY <2>2, <2>3, <2>4, <2>5
  <1> QED BY <1>1, <1>2

LEMMA PurchasesAreSo ==
  ASSUME PlanInv, WaitInv, OverInv, NamesInv, RefusedInv
  PROVE  PurchasesShown
  <1>1. ASSUME NEW no \in PlanNos, NEW v \in DOMAIN plan[no], NEW i \in PlanItems,
               DeviationShown(no, v, i)
        PROVE  \E a \in DOMAIN review : /\ review[a].kind \in {"under_plan", "over_plan"}
                                        /\ <<no, v, i>> \in review[a].items
                                        /\ review[a].status # "approved"
    BY <1>1 DEF NamesInv, Named, DeviationShown
  <1> QED BY <1>1, RepliesAre, LinkedIs, OffersAre DEF PurchasesShown

\* Whoever may see purchasing gets its pages in every state; what they link is
\* what the plans count; each deviation shown was named by a review; and no
\* button is shown of what waits for a review, or was refused by one.
THEOREM PurchasesAreShown == ProcurementSpec => []PurchasesShown
  <1>1. ProcurementSpec => []WaitInv
    BY WaitInit, WaitStep, PlanInvariant, PTL DEF ProcurementSpec
  <1>2. ProcurementSpec => []OverInv
    BY <1>1, OverInit, OverStep, PlanInvariant, PTL DEF ProcurementSpec
  <1>3. ProcurementSpec => [](NamesInv /\ RefusedInv)
    BY <1>1, ShownInit, ShownStep, PlanInvariant, PTL DEF ProcurementSpec
  <1>4. PlanInv /\ WaitInv /\ OverInv /\ (NamesInv /\ RefusedInv) => PurchasesShown
    BY PurchasesAreSo
  <1> QED BY <1>1, <1>2, <1>3, <1>4, PlanInvariant, PTL

-----------------------------------------------------------------------------
(* The catalog *)

Agreement == [of: Pairs, from: Days, to: 0 .. Forever, active: BOOLEAN]
Change    == [of: Pairs, current: Nat, from: Days, decision: {"pending"} \cup Verdicts]
BomRow    == [from: Days, to: 0 .. Forever, overlap: BOOLEAN, status: {"pending"} \cup Verdicts]
Relation  == [status: {"pending", "active", "inactive"}, terms: Terms, primary: BOOLEAN,
              version: Nat \ {0}, by: People]
Types     == {"supplier_onboarding", "sku_verification", "supplier_sku_change",
              "supplier_price_change", "bom_version"}
Request   == [type: Types, target: Suppliers \cup Skus \cup Pairs \cup Nat, by: People,
              status: {"pending"} \cup Verdicts, version: Nat, retires: SUBSET Nat,
              proposed: Proposed]

\* What a review x is about exists, in rows rel of relations and among the rows C
\* of changes and B of BOMs.
Aims(x, rel, C, B) ==
  /\ x.type = "supplier_onboarding"   => x.target \in Suppliers
  /\ x.type = "sku_verification"      => x.target \in Skus
  /\ x.type = "supplier_sku_change"   => x.target \in Pairs /\ x.version =< rel[x.target].version
  /\ x.type = "supplier_price_change" => x.target \in C
  /\ x.type = "bom_version"           => x.target \in B
  /\ x.retires \subseteq B

Relations == [Pairs -> Relation \cup {NoRelation}]

CatalogRows ==
  /\ supplier \in [Suppliers -> Verifying]
  /\ sku \in [Skus -> [status: Verifying, conversion: {"none", "active", "inactive"}]]
  /\ relation \in Relations
  /\ agreement \in Seq(Agreement)
  /\ change \in Seq(Change)
  /\ priceVersion \in [Pairs -> Nat \ {0}]
  /\ bom \in Seq(BomRow)
  /\ batch \in [Batches -> {"none", "awaiting_mapping", "awaiting_duplicate_confirmation",
                            "committed"}]
  /\ request \in Seq(Request)

CatalogTablesOK ==
  /\ CatalogRows
  /\ \A r \in DOMAIN request : Aims(request[r], relation, DOMAIN change, DOMAIN bom)

-----------------------------------------------------------------------------
(* Days *)

\* A finite set of natural numbers that has one has a greatest.
LEMMA GreatestDay ==
  ASSUME NEW S, IsFiniteSet(S), S \subseteq Nat
  PROVE  \E d \in S \cup {0} : \A e \in S \cup {0} : e =< d
  <1> DEFINE C == {T \in SUBSET S : \E d \in T \cup {0} : \A e \in T \cup {0} : e =< d}
  <1>1. {} \in C
    OBVIOUS
  <1>2. ASSUME NEW T \in SUBSET S, NEW x \in S, T \in C, x \notin T
        PROVE  T \cup {x} \in C
    <2>1. PICK d \in T \cup {0} : \A e \in T \cup {0} : e =< d
      BY <1>2
    <2>2. d \in Nat /\ x \in Nat
      BY <1>2
    <2>3. \E g \in T \cup {x} \cup {0} : \A e \in T \cup {x} \cup {0} : e =< g
      <3>1. CASE d =< x
        <4>1. \A e \in T \cup {x} \cup {0} : e =< x
          <5>1. \A e \in T \cup {0} : e \in Nat
            BY <1>2
          <5> QED BY <2>1, <2>2, <3>1, <5>1
        <4> QED BY <4>1
      <3>2. CASE ~(d =< x)
        <4>1. \A e \in T \cup {x} \cup {0} : e =< d
          BY <2>1, <2>2, <3>2
        <4> QED BY <2>1, <4>1
      <3> QED BY <3>1, <3>2
    <2> QED BY <2>3, <1>2
  <1> HIDE DEF C
  <1>3. S \in C
    BY <1>1, <1>2, SetInduction
  <1> QED BY <1>3 DEF C

\* A period with no end ends after every day.
LEMMA ForeverIsLast ==
  /\ Forever \in Nat \ {0}
  /\ \A d \in Days : d \in Nat \ {0} /\ d < Forever /\ d - 1 \in 0 .. Forever
  <1>1. Days \subseteq Nat
    BY DaysAssumption
  <1>2. \E d \in Days \cup {0} : \A e \in Days \cup {0} : e =< d
    BY <1>1, DaysAssumption, GreatestDay
  <1>3. \E d \in Days \cup {0} : \A e \in Days : e =< d
    BY <1>2
  <1> DEFINE last == CHOOSE d \in Days \cup {0} : \A e \in Days : e =< d
  <1>4. last \in Days \cup {0} /\ \A e \in Days : e =< last
    BY <1>3
  <1>5. Forever = 1 + last
    BY DEF Forever
  <1> HIDE DEF last
  <1>6. last \in Nat
    BY <1>1, <1>4
  <1> QED BY <1>4, <1>5, <1>6, DaysAssumption

-----------------------------------------------------------------------------
(* Reviews and what waits for them *)

\* The reviews in R and the documents that wait are matched one to one.
Matches(req, R, docs) ==
  /\ \A r \in R : req[r].target \in docs
  /\ \A d \in docs : \E r \in R : req[r].target = d
  /\ \A r, q \in R : req[r].target = req[q].target => r = q

Opens(req, type) == {r \in DOMAIN req : req[r].type = type /\ req[r].status = "pending"}

\* Of a relation, only the review of its present version counts.
Timely(req, rel) ==
  {r \in Opens(req, "supplier_sku_change") : req[r].version = rel[req[r].target].version}

PendingSuppliers == {s \in Suppliers : supplier[s] = "pending"}
PendingSkus      == {k \in Skus : sku[k].status = "pending"}
PendingChanges   == {c \in DOMAIN change : change[c].decision = "pending"}
PendingBoms      == {b \in DOMAIN bom : bom[b].status = "pending"}
PendingRelations == {p \in Pairs : relation[p].status = "pending"}

SuppliersMatch == Matches(request, Opens(request, "supplier_onboarding"), PendingSuppliers)
SkusMatch      == Matches(request, Opens(request, "sku_verification"), PendingSkus)
ChangesMatch   == Matches(request, Opens(request, "supplier_price_change"), PendingChanges)
BomsMatch      == Matches(request, Opens(request, "bom_version"), PendingBoms)
RelationsMatch == Matches(request, Timely(request, relation), PendingRelations)

MatchInv == SuppliersMatch /\ SkusMatch /\ ChangesMatch /\ BomsMatch /\ RelationsMatch

\* More reviews of more documents.
LEMMA MatchesGrow ==
  ASSUME NEW req, NEW new, NEW R, NEW M, NEW docs, NEW more,
         Matches(req, R, docs), Matches(new, M, more),
         R \cap M = {}, docs \cap more = {},
         \A r \in R : new[r].target = req[r].target
  PROVE  Matches(new, R \cup M, docs \cup more)
  BY DEF Matches

\* A document that is done with, and its review.
LEMMA MatchesShrink ==
  ASSUME NEW req, NEW new, NEW R, NEW docs, NEW d,
         Matches(req, R, docs),
         \A r \in R : new[r].target = req[r].target
  PROVE  Matches(new, {r \in R : req[r].target # d}, docs \ {d})
  BY DEF Matches

\* One review of one document.
LEMMA MatchesOne ==
  ASSUME NEW new, NEW m, NEW d, new[m].target = d
  PROVE  Matches(new, {m}, {d})
  BY DEF Matches

\* What matches waits for exactly one review.
LEMMA MatchesCount ==
  ASSUME NEW req, NEW R, NEW docs, Matches(req, R, docs), NEW d
  PROVE  Cardinality({r \in R : req[r].target = d}) = IF d \in docs THEN 1 ELSE 0
  <1> DEFINE of == {r \in R : req[r].target = d}
  <1>1. CASE d \in docs
    <2>1. PICK r \in R : req[r].target = d
      BY <1>1 DEF Matches
    <2>2. of = {r}
      BY <2>1 DEF Matches
    <2>3. Cardinality({r}) = 1
      BY FS_Singleton
    <2> QED BY <1>1, <2>2, <2>3
  <1>2. CASE d \notin docs
    <2>1. of = {}
      BY <1>2 DEF Matches
    <2>2. Cardinality({}) = 0
      BY FS_EmptySet
    <2> QED BY <1>2, <2>1, <2>2
  <1> QED BY <1>1, <1>2

\* A step inserts one review.
Gains(x) ==
  /\ request' \in Seq(Request)
  /\ Len(request) + 1 \notin DOMAIN request
  /\ DOMAIN request' = DOMAIN request \cup {Len(request) + 1}
  /\ request'[Len(request) + 1] = x
  /\ \A r \in DOMAIN request : request'[r] = request[r] /\ r < Len(request) + 1

\* A step decides one.
Rules(r, verdict) ==
  /\ request' \in Seq(Request)
  /\ DOMAIN request' = DOMAIN request
  /\ request'[r] = [request[r] EXCEPT !.status = verdict]
  /\ \A q \in DOMAIN request : q # r => request'[q] = request[q]

\* A row that createApproval inserts.
LEMMA AskGains ==
  ASSUME CatalogTablesOK, NEW x \in Request, Asks(<<x>>)
  PROVE  Gains(x)
  <1>1. request \in Seq(Request) /\ <<x>> \in Seq(Request)
    BY DEF CatalogTablesOK, CatalogRows
  <1>2. request' = request \o <<x>>
    BY DEF Asks
  <1>3. /\ request \o <<x>> \in Seq(Request)
        /\ Len(request \o <<x>>) = Len(request) + 1
        /\ \A i \in 1 .. Len(request) + 1 : (request \o <<x>>)[i] =
              IF i =< Len(request) THEN request[i] ELSE <<x>>[i - Len(request)]
    BY <1>1, ConcatProperties
  <1>4. Len(request) \in Nat /\ DOMAIN request = 1 .. Len(request)
    BY <1>1, LenProperties
  <1>5. request' \in Seq(Request) /\ Len(request') = Len(request) + 1
    BY <1>2, <1>3
  <1>6. DOMAIN request' = 1 .. Len(request) + 1
    BY <1>5, LenProperties
  <1> QED BY <1>2, <1>3, <1>4, <1>5, <1>6 DEF Gains

\* The part of a decision that is common to all of them.
LEMMA DecisionRules ==
  ASSUME CatalogTablesOK, NEW r \in DOMAIN request, NEW u, NEW type, NEW verdict \in Verdicts,
         Concludes(r, u, type, verdict)
  PROVE  /\ Rules(r, verdict)
         /\ request[r] \in Request /\ request'[r].status = verdict
         /\ r \in Opens(request, type)
  <1>1. request \in Seq(Request)
    BY DEF CatalogTablesOK, CatalogRows
  <1>2. request[r] \in Request
    BY <1>1, LenProperties, ElementOfSeq
  <1> DEFINE row == [request[r] EXCEPT !.status = verdict]
  <1>3. row \in Request /\ row.status = verdict
    BY <1>2 DEF Request, Verdicts
  <1>4. request' = [request EXCEPT ![r] = row]
    BY DEF Concludes
  <1>5. r \in Opens(request, type)
    BY DEF Concludes, Opens
  <1> HIDE DEF row
  <1>6. /\ request' \in Seq(Request)
        /\ DOMAIN request' = DOMAIN request
        /\ request'[r] = row
        /\ \A q \in DOMAIN request : q # r => request'[q] = request[q]
    BY <1>1, <1>3, <1>4, RowWritten
  <1> QED BY <1>2, <1>3, <1>5, <1>6 DEF Rules, row


-----------------------------------------------------------------------------
(* What a step keeps of the reviews *)

\* No review is lost or rewritten: only its status changes, and once.
Carried ==
  /\ request' \in Seq(Request)
  /\ DOMAIN request \subseteq DOMAIN request'
  /\ \A r \in DOMAIN request :
       /\ request'[r].type = request[r].type /\ request'[r].target = request[r].target
       /\ request'[r].by = request[r].by /\ request'[r].version = request[r].version
       /\ request'[r].retires = request[r].retires
       /\ request'[r].proposed = request[r].proposed
       /\ request[r].status # "pending" => request'[r].status = request[r].status
  /\ \A r \in DOMAIN request' : r \notin DOMAIN request => request'[r].status = "pending"

\* The open reviews of one type stay as they are.
Spares(type) ==
  /\ Opens(request', type) = Opens(request, type)
  /\ \A r \in Opens(request, type) : /\ request'[r].target = request[r].target
                                     /\ request'[r].version = request[r].version

\* Those of all others do.
Leaves(type) == \A other \in Types : other # type => Spares(other)

\* No row that a review may be about is lost, and no version goes back.
Widens ==
  /\ DOMAIN change \subseteq DOMAIN change' /\ DOMAIN bom \subseteq DOMAIN bom'
  /\ \A p \in Pairs : relation[p].version =< relation'[p].version

\* A review is a record of its type, and what it is about exists.
LEMMA ReviewTyped ==
  ASSUME CatalogTablesOK, NEW r \in DOMAIN request
  PROVE  request[r] \in Request /\ Aims(request[r], relation, DOMAIN change, DOMAIN bom)
  <1>1. request \in Seq(Request)
    BY DEF CatalogTablesOK, CatalogRows
  <1> QED BY <1>1, LenProperties, ElementOfSeq DEF CatalogTablesOK

\* A relation is a record of its type, or there is none.
LEMMA RelationTyped ==
  ASSUME CatalogTablesOK, NEW p \in Pairs
  PROVE  /\ relation[p] \in Relation \cup {NoRelation} /\ relation[p].version \in Nat
         /\ relation[p] = NoRelation <=> relation[p].status = "none"
  BY DEF CatalogTablesOK, CatalogRows, Relations, Relation, NoRelation

\* Opening a review keeps all others as they are.
LEMMA GainsKeeps ==
  ASSUME CatalogTablesOK, NEW x \in Request, Gains(x), x.status = "pending"
  PROVE  Carried /\ \A type : x.type # type => Spares(type)
  <1>1. Carried
    BY ReviewTyped DEF Gains, Carried
  <1>2. ASSUME NEW type, x.type # type PROVE Spares(type)
    BY <1>2, ReviewTyped DEF Gains, Spares, Opens
  <1> QED BY <1>1, <1>2

\* Deciding one does too.
LEMMA RulesKeeps ==
  ASSUME CatalogTablesOK, NEW r \in DOMAIN request, NEW verdict \in Verdicts, Rules(r, verdict),
         request[r].status = "pending"
  PROVE  Carried /\ \A type : request[r].type # type => Spares(type)
  <1>1. /\ request'[r].type = request[r].type /\ request'[r].target = request[r].target
        /\ request'[r].by = request[r].by /\ request'[r].version = request[r].version
        /\ request'[r].retires = request[r].retires
        /\ request'[r].proposed = request[r].proposed
    BY ReviewTyped DEF Rules, Request
  <1>2. \A q \in DOMAIN request : q # r => request'[q] = request[q]
    BY DEF Rules
  <1>3. Carried
    BY <1>1, <1>2 DEF Rules, Carried
  <1>4. ASSUME NEW type, request[r].type # type PROVE Spares(type)
    BY <1>1, <1>2, <1>4 DEF Rules, Spares, Opens
  <1> QED BY <1>3, <1>4

\* So does a step that writes no review.
LEMMA UnchangedKeeps ==
  ASSUME CatalogTablesOK, UNCHANGED request
  PROVE  Carried /\ \A type : Spares(type)
  BY DEF CatalogTablesOK, CatalogRows, Carried, Spares, Opens

\* The reviews there were still are about something.
LEMMA StillAims ==
  ASSUME CatalogTablesOK, Carried, Widens, relation' \in Relations, NEW r \in DOMAIN request
  PROVE  Aims(request'[r], relation', DOMAIN change', DOMAIN bom')
  <1>1. Aims(request[r], relation, DOMAIN change, DOMAIN bom) /\ request[r] \in Request
    BY ReviewTyped
  <1>2. /\ request'[r].type = request[r].type /\ request'[r].target = request[r].target
        /\ request'[r].version = request[r].version /\ request'[r].retires = request[r].retires
    BY DEF Carried
  <1>3. request[r].type = "supplier_sku_change"
        => /\ request[r].target \in Pairs
           /\ request[r].version =< relation'[request[r].target].version
    <2>1. SUFFICES ASSUME request[r].type = "supplier_sku_change"
                   PROVE  /\ request[r].target \in Pairs
                          /\ request[r].version =< relation'[request[r].target].version
      OBVIOUS
    <2> DEFINE p == request[r].target
    <2>2. p \in Pairs /\ request[r].version =< relation[p].version
      BY <1>1, <2>1 DEF Aims
    <2>3. relation[p].version =< relation'[p].version /\ relation[p].version \in Nat
      BY <2>2, RelationTyped DEF Widens
    <2>4. relation'[p].version \in Nat
      BY <2>2 DEF Relations, Relation, NoRelation
    <2>5. request[r].version \in Nat
      BY <1>1 DEF Request
    <2> HIDE DEF p
    <2> QED BY <2>2, <2>3, <2>4, <2>5 DEF p
  <1> QED BY <1>1, <1>2, <1>3 DEF Aims, Widens

\* One more review, and rows of their types.
LEMMA GainsTables ==
  ASSUME CatalogTablesOK, NEW x \in Request, Gains(x), x.status = "pending", CatalogRows', Widens,
         Aims(x, relation', DOMAIN change', DOMAIN bom')
  PROVE  CatalogTablesOK'
  <1>1. Carried /\ relation' \in Relations
    BY GainsKeeps DEF CatalogRows
  <1>2. \A r \in DOMAIN request : Aims(request'[r], relation', DOMAIN change', DOMAIN bom')
    BY <1>1, StillAims
  <1> QED BY <1>2 DEF Gains, CatalogTablesOK

\* No more of them.
LEMMA SameTables ==
  ASSUME CatalogTablesOK, Carried, DOMAIN request' = DOMAIN request, CatalogRows', Widens
  PROVE  CatalogTablesOK'
  <1>1. relation' \in Relations
    BY DEF CatalogRows
  <1>2. \A r \in DOMAIN request : Aims(request'[r], relation', DOMAIN change', DOMAIN bom')
    BY <1>1, StillAims
  <1> QED BY <1>2 DEF CatalogTablesOK

-----------------------------------------------------------------------------
(* What a step does to what waits *)

\* Reviews of one type that stay as they are match the same documents.
LEMMA SparedMatch ==
  ASSUME NEW type, NEW docs, Matches(request, Opens(request, type), docs), Spares(type)
  PROVE  Matches(request', Opens(request', type), docs)
  BY DEF Matches, Spares

\* So what is about nothing a step touches still matches.
LEMMA KeptMatches ==
  ASSUME MatchInv
  PROVE  /\ Spares("supplier_onboarding") /\ UNCHANGED supplier => SuppliersMatch'
         /\ Spares("sku_verification") /\ UNCHANGED sku => SkusMatch'
         /\ Spares("supplier_price_change") /\ UNCHANGED change => ChangesMatch'
         /\ Spares("bom_version") /\ UNCHANGED bom => BomsMatch'
         /\ Spares("supplier_sku_change") /\ UNCHANGED relation => RelationsMatch'
  <1>1. Spares("supplier_onboarding") /\ UNCHANGED supplier => SuppliersMatch'
    BY SparedMatch DEF MatchInv, SuppliersMatch, PendingSuppliers
  <1>2. Spares("sku_verification") /\ UNCHANGED sku => SkusMatch'
    BY SparedMatch DEF MatchInv, SkusMatch, PendingSkus
  <1>3. Spares("supplier_price_change") /\ UNCHANGED change => ChangesMatch'
    BY SparedMatch DEF MatchInv, ChangesMatch, PendingChanges
  <1>4. Spares("bom_version") /\ UNCHANGED bom => BomsMatch'
    BY SparedMatch DEF MatchInv, BomsMatch, PendingBoms
  <1>5. ASSUME Spares("supplier_sku_change"), UNCHANGED relation
        PROVE  RelationsMatch'
    <2>1. Timely(request', relation') = Timely(request, relation)
      BY <1>5 DEF Spares, Timely
    <2>2. \A r \in Timely(request, relation) : request'[r].target = request[r].target
      BY <1>5 DEF Spares, Timely
    <2>3. Matches(request, Timely(request, relation), PendingRelations)
      BY DEF MatchInv, RelationsMatch
    <2>4. Matches(request', Timely(request, relation), PendingRelations)
      BY <2>2, <2>3 DEF Matches
    <2>5. PendingRelations' = PendingRelations
      BY <1>5 DEF PendingRelations
    <2> QED BY <2>1, <2>4, <2>5 DEF RelationsMatch
  <1> QED BY <1>1, <1>2, <1>3, <1>4, <1>5

\* A review that is opened, of a document that did not wait.
LEMMA OpenedMatch ==
  ASSUME NEW x \in Request, Gains(x), x.status = "pending", NEW docs,
         Matches(request, Opens(request, x.type), docs), x.target \notin docs
  PROVE  Matches(request', Opens(request', x.type), docs \cup {x.target})
  <1> DEFINE n == Len(request) + 1
             R == Opens(request, x.type)
  <1>1. /\ n \notin DOMAIN request /\ DOMAIN request' = DOMAIN request \cup {n}
        /\ request'[n] = x
        /\ \A r \in DOMAIN request : request'[r] = request[r]
    BY DEF Gains
  <1> HIDE DEF n
  <1>2. Opens(request', x.type) = R \cup {n}
    BY <1>1 DEF Opens
  <1>3. Matches(request', {n}, {x.target})
    BY <1>1, MatchesOne
  <1>4. R \cap {n} = {} /\ \A r \in R : request'[r].target = request[r].target
    BY <1>1 DEF Opens
  <1> HIDE DEF R
  <1>5. docs \cap {x.target} = {} /\ Matches(request, R, docs)
    BY DEF R
  <1>6. Matches(request', R \cup {n}, docs \cup {x.target})
    BY <1>3, <1>4, <1>5, MatchesGrow
  <1> QED BY <1>2, <1>6

\* One that is decided, of a document that waited for it.
LEMMA DecidedMatch ==
  ASSUME CatalogTablesOK, NEW type, NEW r \in Opens(request, type), NEW verdict \in Verdicts,
         Rules(r, verdict), NEW docs, Matches(request, Opens(request, type), docs)
  PROVE  /\ request[r].target \in docs
         /\ Matches(request', Opens(request', type), docs \ {request[r].target})
  <1> DEFINE R == Opens(request, type)
             d == request[r].target
  <1>1. /\ DOMAIN request' = DOMAIN request
        /\ request'[r] = [request[r] EXCEPT !.status = verdict]
        /\ \A q \in DOMAIN request : q # r => request'[q] = request[q]
    BY DEF Rules
  <1>2. r \in DOMAIN request /\ request[r] \in Request
    BY ReviewTyped DEF Opens
  <1>3. request'[r].status = verdict /\ verdict # "pending"
        /\ request'[r].target = request[r].target
    BY <1>1, <1>2 DEF Request, Verdicts
  <1>4. Opens(request', type) = R \ {r}
    BY <1>1, <1>3 DEF Opens
  <1>5. {q \in R : request[q].target # d} = R \ {r}
    BY DEF Matches
  <1>6. \A q \in R : request'[q].target = request[q].target
    BY <1>1, <1>3 DEF Opens
  <1>7. d \in docs
    BY DEF Matches
  <1> HIDE DEF R, d
  <1>8. Matches(request, R, docs)
    BY DEF R
  <1>9. Matches(request', {q \in R : request[q].target # d}, docs \ {d})
    BY <1>6, <1>8, MatchesShrink
  <1> QED BY <1>4, <1>5, <1>7, <1>9 DEF d

-----------------------------------------------------------------------------
(* Suppliers and imports: their tables, and what waits *)

\* A review that is asked for.
LEMMA AskTyped ==
  ASSUME NEW type \in Types, NEW d \in Suppliers \cup Skus \cup Pairs \cup Nat, NEW u \in People
  PROVE  /\ Ask(type, d, u) \in Request
         /\ Ask(type, d, u).type = type /\ Ask(type, d, u).target = d
         /\ Ask(type, d, u).status = "pending" /\ Ask(type, d, u).version = 0
         /\ Ask(type, d, u).retires = {}
  BY DEF Ask, Request, Proposed

\* The rows of the tables are well formed, and a step that writes neither
\* relations nor changes nor BOMs loses none.
LEMMA SameRows ==
  ASSUME CatalogTablesOK
  PROVE  /\ CatalogRows
         /\ UNCHANGED <<relation, change, bom>> => Widens
  <1>1. CatalogRows
    BY DEF CatalogTablesOK
  <1>2. \A p \in Pairs : relation[p].version \in Nat
    BY RelationTyped
  <1> QED BY <1>1, <1>2 DEF Widens

\* Entering a supplier adds a pending supplier and its review, or neither.
LEMMA CreateSupplierKeeps ==
  ASSUME CatalogTablesOK, MatchInv, NEW s \in Suppliers, NEW u \in People, CreateSupplier(s, u)
  PROVE  CatalogTablesOK' /\ Carried /\ MatchInv' /\ Leaves("supplier_onboarding")
  <1>1. /\ supplier[s] = "none"
        /\ UNCHANGED <<sku, relation, agreement, change, priceVersion, bom, batch>>
    BY DEF CreateSupplier
  <1>2. Widens /\ CatalogRows
    BY <1>1, SameRows
  <1>3. supplier \in [Suppliers -> Verifying]
    BY <1>2 DEF CatalogRows
  <1>4. CASE supplier' = [supplier EXCEPT ![s] = "approved"] /\ UNCHANGED request
    <2>1. Carried /\ \A type : Spares(type)
      BY <1>4, UnchangedKeeps
    <2>2. CatalogRows'
      BY <1>1, <1>2, <1>4, <2>1 DEF CatalogRows, Carried, Verifying, Verdicts
    <2>3. CatalogTablesOK'
      BY <1>2, <1>4, <2>1, <2>2, SameTables
    <2>4. PendingSuppliers' = PendingSuppliers
      BY <1>1, <1>3, <1>4 DEF PendingSuppliers
    <2>5. SuppliersMatch'
      BY <2>1, <2>4, SparedMatch DEF SuppliersMatch, MatchInv
    <2>6. MatchInv'
      BY <1>1, <2>1, <2>5, KeptMatches DEF MatchInv
    <2> QED BY <2>1, <2>3, <2>6 DEF Leaves
  <1>5. CASE /\ supplier' = [supplier EXCEPT ![s] = "pending"]
             /\ Asks(<<Ask("supplier_onboarding", s, u)>>)
    <2> DEFINE x == Ask("supplier_onboarding", s, u)
    <2>1. /\ x \in Request /\ x.type = "supplier_onboarding" /\ x.target = s
          /\ x.status = "pending" /\ x.retires = {}
      BY AskTyped DEF Types
    <2>2. Gains(x)
      BY <1>5, <2>1, AskGains
    <2> HIDE DEF x
    <2>3. Carried /\ \A type : x.type # type => Spares(type)
      BY <2>1, <2>2, GainsKeeps
    <2>4. CatalogRows'
      BY <1>1, <1>2, <1>5, <2>3 DEF CatalogRows, Carried, Verifying, Verdicts
    <2>5. Aims(x, relation', DOMAIN change', DOMAIN bom')
      BY <2>1 DEF Aims
    <2>6. CatalogTablesOK'
      BY <1>2, <2>1, <2>2, <2>4, <2>5, GainsTables
    <2>7. PendingSuppliers' = PendingSuppliers \cup {s} /\ s \notin PendingSuppliers
      BY <1>1, <1>3, <1>5 DEF PendingSuppliers
    <2>8. Matches(request, Opens(request, x.type), PendingSuppliers)
      BY <2>1 DEF MatchInv, SuppliersMatch
    <2>9. SuppliersMatch'
      BY <2>1, <2>2, <2>7, <2>8, OpenedMatch DEF SuppliersMatch
    <2>10. MatchInv'
      BY <1>1, <2>1, <2>3, <2>9, KeptMatches DEF MatchInv
    <2> QED BY <2>1, <2>3, <2>6, <2>10 DEF Leaves
  <1> QED BY <1>4, <1>5 DEF CreateSupplier

\* Its decision takes both away.
LEMMA DecideSupplierKeeps ==
  ASSUME CatalogTablesOK, MatchInv, NEW r \in DOMAIN request, NEW u, NEW verdict \in Verdicts,
         DecideSupplier(r, u, verdict)
  PROVE  CatalogTablesOK' /\ Carried /\ MatchInv' /\ Leaves("supplier_onboarding")
  <1> DEFINE s == request[r].target
  <1>1. /\ Concludes(r, u, "supplier_onboarding", verdict)
        /\ supplier[s] = "pending" /\ supplier' = [supplier EXCEPT ![s] = verdict]
        /\ UNCHANGED <<sku, relation, agreement, change, priceVersion, bom, batch>>
    BY DEF DecideSupplier
  <1>2. Widens /\ CatalogRows
    BY <1>1, SameRows
  <1>3. /\ Rules(r, verdict)
        /\ request[r] \in Request /\ request'[r].status = verdict
        /\ r \in Opens(request, "supplier_onboarding")
    BY <1>1, DecisionRules
  <1>4. request[r].type = "supplier_onboarding" /\ request[r].status = "pending"
    BY <1>3 DEF Opens
  <1>5. Carried /\ \A type : request[r].type # type => Spares(type)
    BY <1>3, <1>4, RulesKeeps
  <1>6. s \in Suppliers /\ supplier \in [Suppliers -> Verifying]
    BY <1>2, <1>4, ReviewTyped DEF Aims, CatalogRows
  <1> HIDE DEF s
  <1>7. CatalogRows'
    BY <1>1, <1>2, <1>5 DEF CatalogRows, Carried, Verifying
  <1>8. CatalogTablesOK'
    BY <1>2, <1>3, <1>5, <1>7, SameTables DEF Rules
  <1>9. PendingSuppliers' = PendingSuppliers \ {s}
    BY <1>1, <1>6 DEF PendingSuppliers, Verdicts
  <1>10. Matches(request, Opens(request, "supplier_onboarding"), PendingSuppliers)
    BY DEF MatchInv, SuppliersMatch
  <1>11. /\ request[r].target \in PendingSuppliers
         /\ Matches(request', Opens(request', "supplier_onboarding"),
                    PendingSuppliers \ {request[r].target})
    BY <1>3, <1>10, DecidedMatch
  <1>12. SuppliersMatch'
    BY <1>9, <1>11 DEF SuppliersMatch, s
  <1> QED BY <1>1, <1>4, <1>5, <1>8, <1>12, KeptMatches DEF MatchInv, Leaves

\* Batches that are staged or put off touch no review.
LEMMA ImportsKeep ==
  ASSUME CatalogTablesOK, MatchInv, NEW b \in Batches, StageImport(b) \/ DeferCommit(b)
  PROVE  CatalogTablesOK' /\ Carried /\ MatchInv' /\ Leaves("none")
  <1>1. UNCHANGED <<supplier, sku, relation, agreement, change, priceVersion, bom, request>>
    BY DEF StageImport, DeferCommit
  <1>2. Widens /\ CatalogRows
    BY <1>1, SameRows
  <1>3. batch' \in [Batches -> {"none", "awaiting_mapping", "awaiting_duplicate_confirmation",
                                "committed"}]
    <2>1. PICK status \in {"awaiting_mapping", "awaiting_duplicate_confirmation"} :
            batch' = [batch EXCEPT ![b] = status]
      BY DEF StageImport, DeferCommit
    <2> QED BY <1>2, <2>1 DEF CatalogRows
  <1>4. Carried /\ \A type : Spares(type)
    BY <1>1, UnchangedKeeps
  <1>5. CatalogRows'
    BY <1>1, <1>2, <1>3 DEF CatalogRows
  <1>6. CatalogTablesOK'
    BY <1>1, <1>2, <1>4, <1>5, SameTables
  <1> QED BY <1>1, <1>4, <1>6, KeptMatches DEF MatchInv, Leaves

\* An import adds a pending supplier and a review for every one it lists.
LEMMA CommitKeeps ==
  ASSUME CatalogTablesOK, MatchInv, NEW b \in Batches, NEW u \in Internal, CommitSuppliers(b, u)
  PROVE  CatalogTablesOK' /\ Carried /\ MatchInv' /\ Leaves("supplier_onboarding")
  <1> DEFINE listed == BatchOf[b].suppliers
             rows == [i \in DOMAIN listed |-> Ask("supplier_onboarding", listed[i], u)]
             n == Len(request)
             R == Opens(request, "supplier_onboarding")
  <1>1. /\ \A i, j \in DOMAIN listed : /\ supplier[listed[i]] = "none"
                                       /\ listed[i] = listed[j] => i = j
        /\ supplier' = [s \in Suppliers |->
             IF \E i \in DOMAIN listed : listed[i] = s THEN "pending" ELSE supplier[s]]
        /\ request' = request \o rows
        /\ batch' = [batch EXCEPT ![b] = "committed"]
        /\ UNCHANGED <<sku, relation, agreement, change, priceVersion, bom>>
    BY DEF CommitSuppliers, Asks
  <1>2. listed \in Seq(Suppliers)
    BY ListedAssumption
  <1> DEFINE k == Len(listed)
             M == {n + i : i \in 1 .. k}
             more == {listed[i] : i \in 1 .. k}
  <1>3. k \in Nat /\ DOMAIN listed = 1 .. k /\ \A i \in 1 .. k : listed[i] \in Suppliers
    BY <1>2, LenProperties, ElementOfSeq
  <1> HIDE DEF listed
  <1>4. \A i \in 1 .. k : /\ rows[i] \in Request
                          /\ rows[i].type = "supplier_onboarding" /\ rows[i].target = listed[i]
                          /\ rows[i].status = "pending" /\ rows[i].retires = {}
    <2>1. SUFFICES ASSUME NEW i \in 1 .. k
                   PROVE  /\ rows[i] \in Request
                          /\ rows[i].type = "supplier_onboarding" /\ rows[i].target = listed[i]
                          /\ rows[i].status = "pending" /\ rows[i].retires = {}
      OBVIOUS
    <2>2. rows[i] = Ask("supplier_onboarding", listed[i], u)
      BY <1>3
    <2>3. listed[i] \in Suppliers /\ u \in People
      BY <1>3 DEF People
    <2> QED BY <2>2, <2>3, AskTyped DEF Types
  <1>5. rows \in Seq(Request) /\ Len(rows) = k
    <2>1. rows = [i \in 1 .. k |-> Ask("supplier_onboarding", listed[i], u)]
      BY <1>3
    <2>2. rows \in [1 .. k -> Request]
      BY <1>3, <1>4
    <2> QED BY <1>3, <2>2, SeqDef, LenProperties
  <1> HIDE DEF rows
  <1>6. CatalogRows /\ request \in Seq(Request)
    BY DEF CatalogTablesOK, CatalogRows
  <1>7. n \in Nat /\ DOMAIN request = 1 .. n
    BY <1>6, LenProperties
  <1>8. /\ request \o rows \in Seq(Request) /\ Len(request \o rows) = n + k
        /\ \A i \in 1 .. n + k : (request \o rows)[i] = IF i =< n THEN request[i] ELSE rows[i - n]
    <2>1. /\ request \o rows \in Seq(Request)
          /\ Len(request \o rows) = Len(request) + Len(rows)
          /\ \A i \in 1 .. Len(request) + Len(rows) : (request \o rows)[i] =
                IF i =< Len(request) THEN request[i] ELSE rows[i - Len(request)]
      BY <1>5, <1>6, ConcatProperties
    <2> QED BY <1>5, <2>1
  <1>9. /\ request' \in Seq(Request) /\ DOMAIN request' = 1 .. n + k
        /\ \A r \in 1 .. n + k : request'[r] = IF r =< n THEN request[r] ELSE rows[r - n]
    BY <1>1, <1>8, LenProperties
  <1> HIDE DEF n, k
  <1>10. \A r \in 1 .. n : r \in DOMAIN request' /\ request'[r] = request[r]
    BY <1>3, <1>7, <1>9
  <1>11. \A r \in DOMAIN request' : r \notin 1 .. n => \E i \in 1 .. k : r = n + i
    <2>1. SUFFICES ASSUME NEW r \in 1 .. n + k, r \notin 1 .. n PROVE \E i \in 1 .. k : r = n + i
      BY <1>9
    <2>2. r - n \in 1 .. k /\ r = n + (r - n)
      BY <1>3, <1>7, <2>1
    <2> QED BY <2>2
  <1>12. \A i \in 1 .. k : n + i \in DOMAIN request' /\ n + i \notin 1 .. n
                           /\ request'[n + i] = rows[i]
    BY <1>3, <1>7, <1>9
  <1>13. Carried
    <2>1. \A r \in DOMAIN request' : r \notin DOMAIN request => request'[r].status = "pending"
      BY <1>4, <1>7, <1>11, <1>12
    <2> QED BY <1>7, <1>9, <1>10, <2>1 DEF Carried
  <1>14. ASSUME NEW type, type # "supplier_onboarding" PROVE Spares(type)
    BY <1>4, <1>7, <1>10, <1>11, <1>12, <1>14 DEF Spares, Opens
  <1>15. Widens
    BY <1>1, SameRows
  <1>16. CatalogRows'
    <2>1. supplier' \in [Suppliers -> Verifying]
      BY <1>1, <1>6 DEF CatalogRows, Verifying
    <2>2. batch' \in [Batches -> {"none", "awaiting_mapping", "awaiting_duplicate_confirmation",
                                  "committed"}]
      BY <1>1, <1>6 DEF CatalogRows
    <2> QED BY <1>1, <1>6, <1>9, <2>1, <2>2 DEF CatalogRows
  <1>17. CatalogTablesOK'
    <2>1. SUFFICES ASSUME NEW r \in DOMAIN request'
                   PROVE  Aims(request'[r], relation', DOMAIN change', DOMAIN bom')
      BY <1>16 DEF CatalogTablesOK
    <2>2. CASE r \in 1 .. n
      BY <1>7, <1>13, <1>15, <1>16, <2>2, StillAims DEF CatalogRows
    <2>3. CASE r \notin 1 .. n
      <3>1. PICK i \in 1 .. k : r = n + i
        BY <1>11, <2>3
      <3>2. request'[r] = rows[i]
        BY <1>12, <3>1
      <3> QED BY <1>3, <1>4, <3>2 DEF Aims
    <2> QED BY <2>2, <2>3
  <1>18. SuppliersMatch'
    <2>1. Opens(request', "supplier_onboarding") = R \cup M
      <3>1. \A r \in R : r \in Opens(request', "supplier_onboarding")
        BY <1>7, <1>10 DEF Opens
      <3>2. \A r \in M : r \in Opens(request', "supplier_onboarding")
        BY <1>4, <1>12 DEF Opens
      <3>3. ASSUME NEW r \in Opens(request', "supplier_onboarding"), r \notin R
            PROVE  r \in M
        <4>1. r \notin 1 .. n
          BY <1>7, <1>10, <3>3 DEF Opens
        <4> QED BY <1>11, <3>3, <4>1 DEF Opens
      <3> QED BY <3>1, <3>2, <3>3
    <2>2. Matches(request', M, more)
      <3>1. \A i \in 1 .. k : request'[n + i].target = listed[i]
        BY <1>4, <1>12
      <3>2. \A i, j \in 1 .. k : listed[i] = listed[j] => i = j
        BY <1>1, <1>3
      <3> HIDE DEF k
      <3> QED BY <3>1, <3>2 DEF Matches
    <2>3. R \cap M = {}
      BY <1>7, <1>12 DEF Opens
    <2>4. \A r \in R : request'[r].target = request[r].target
      BY <1>7, <1>10 DEF Opens
    <2>5. PendingSuppliers \cap more = {}
      BY <1>1, <1>3 DEF PendingSuppliers
    <2>6. PendingSuppliers' = PendingSuppliers \cup more
      BY <1>1, <1>3 DEF PendingSuppliers
    <2>7. Matches(request, R, PendingSuppliers)
      BY DEF MatchInv, SuppliersMatch
    <2> HIDE DEF R, M, more
    <2>8. Matches(request', R \cup M, PendingSuppliers \cup more)
      BY <2>2, <2>3, <2>4, <2>5, <2>7, MatchesGrow
    <2> QED BY <2>1, <2>6, <2>8 DEF SuppliersMatch
  <1> QED BY <1>1, <1>13, <1>14, <1>17, <1>18, KeptMatches DEF MatchInv, Leaves

-----------------------------------------------------------------------------
(* SKUs *)

\* Submitting a SKU that does not wait adds it and its review.
LEMMA SubmitKeeps ==
  ASSUME CatalogTablesOK, MatchInv, NEW k \in Skus, NEW u \in People,
         NEW conversion \in {"none", "active", "inactive"},
         sku[k].status # "pending", SubmitSku(k, u, conversion)
  PROVE  /\ CatalogTablesOK' /\ Carried /\ MatchInv' /\ Leaves("sku_verification")
         /\ Gains(Ask("sku_verification", k, u))
  <1> DEFINE x == Ask("sku_verification", k, u)
  <1>1. /\ sku' = [sku EXCEPT ![k] = [status |-> "pending", conversion |-> conversion]]
        /\ Asks(<<x>>)
        /\ UNCHANGED <<supplier, relation, agreement, change, priceVersion, bom, batch>>
    BY DEF SubmitSku
  <1>2. Widens /\ CatalogRows
    BY <1>1, SameRows
  <1>3. /\ x \in Request /\ x.type = "sku_verification" /\ x.target = k
        /\ x.status = "pending" /\ x.retires = {}
    BY AskTyped DEF Types
  <1>4. Gains(x)
    BY <1>1, <1>3, AskGains
  <1> HIDE DEF x
  <1>5. Carried /\ \A type : x.type # type => Spares(type)
    BY <1>3, <1>4, GainsKeeps
  <1>6. CatalogRows'
    BY <1>1, <1>2, <1>5 DEF CatalogRows, Carried, Verifying, Verdicts
  <1>7. Aims(x, relation', DOMAIN change', DOMAIN bom')
    BY <1>3 DEF Aims
  <1>8. CatalogTablesOK'
    BY <1>2, <1>3, <1>4, <1>6, <1>7, GainsTables
  <1>9. PendingSkus' = PendingSkus \cup {k} /\ k \notin PendingSkus
    BY <1>1, <1>2 DEF PendingSkus, CatalogRows
  <1>10. Matches(request, Opens(request, x.type), PendingSkus)
    BY <1>3 DEF MatchInv, SkusMatch
  <1>11. SkusMatch'
    BY <1>3, <1>4, <1>9, <1>10, OpenedMatch DEF SkusMatch
  <1>12. MatchInv'
    BY <1>1, <1>3, <1>5, <1>11, KeptMatches DEF MatchInv
  <1>13. Leaves("sku_verification")
    BY <1>3, <1>5 DEF Leaves
  <1> QED BY <1>4, <1>5, <1>8, <1>12, <1>13 DEF x

\* The decision of a SKU takes both away.
LEMMA DecideSkuKeeps ==
  ASSUME CatalogTablesOK, MatchInv, NEW r \in DOMAIN request, NEW u, NEW verdict \in Verdicts,
         DecideSku(r, u, verdict)
  PROVE  CatalogTablesOK' /\ Carried /\ MatchInv' /\ Leaves("sku_verification") /\ Rules(r, verdict)
  <1> DEFINE k == request[r].target
  <1>1. /\ Concludes(r, u, "sku_verification", verdict)
        /\ sku' = [sku EXCEPT ![k].status = verdict]
        /\ UNCHANGED <<supplier, relation, agreement, change, priceVersion, bom, batch>>
    BY DEF DecideSku
  <1>2. Widens /\ CatalogRows
    BY <1>1, SameRows
  <1>3. /\ Rules(r, verdict)
        /\ request[r] \in Request /\ request'[r].status = verdict
        /\ r \in Opens(request, "sku_verification")
    BY <1>1, DecisionRules
  <1>4. request[r].type = "sku_verification" /\ request[r].status = "pending"
    BY <1>3 DEF Opens
  <1>5. Carried /\ \A type : request[r].type # type => Spares(type)
    BY <1>3, <1>4, RulesKeeps
  <1>6. /\ k \in Skus
        /\ sku \in [Skus -> [status: Verifying, conversion: {"none", "active", "inactive"}]]
    BY <1>2, <1>4, ReviewTyped DEF Aims, CatalogRows
  <1> HIDE DEF k
  <1>7. CatalogRows'
    BY <1>1, <1>2, <1>5, ZenonT(60) DEF CatalogRows, Carried, Verifying
  <1>8. CatalogTablesOK'
    BY <1>2, <1>3, <1>5, <1>7, SameTables DEF Rules
  <1>9. PendingSkus' = PendingSkus \ {k}
    BY <1>1, <1>6 DEF PendingSkus, Verdicts
  <1>10. Matches(request, Opens(request, "sku_verification"), PendingSkus)
    BY DEF MatchInv, SkusMatch
  <1>11. /\ request[r].target \in PendingSkus
         /\ Matches(request', Opens(request', "sku_verification"),
                    PendingSkus \ {request[r].target})
    BY <1>3, <1>10, DecidedMatch
  <1>12. SkusMatch'
    BY <1>9, <1>11 DEF SkusMatch, k
  <1> QED BY <1>1, <1>3, <1>4, <1>5, <1>8, <1>12, KeptMatches DEF MatchInv, Leaves

-----------------------------------------------------------------------------
(* Relations *)

\* Reviews of relations other than p that stay as they are, and relations that
\* do, still match.
LEMMA OtherRelationsMatch ==
  ASSUME CatalogTablesOK, MatchInv, NEW p \in Pairs, Carried,
         \A o \in Pairs : o # p => relation'[o].version = relation[o].version,
         \A r \in DOMAIN request : request[r].type = "supplier_sku_change" /\ request[r].target # p
                                   => request'[r].status = request[r].status
  PROVE  LET kept == {r \in Timely(request, relation) : request[r].target # p}
         IN /\ Matches(request', kept, PendingRelations \ {p})
            /\ \A r \in DOMAIN request : r \in Timely(request', relation') /\ request'[r].target # p
                                         <=> r \in kept
  <1> DEFINE kept == {r \in Timely(request, relation) : request[r].target # p}
  <1>1. \A r \in DOMAIN request : /\ r \in DOMAIN request'
                                  /\ request'[r].type = request[r].type
                                  /\ request'[r].target = request[r].target
                                  /\ request'[r].version = request[r].version
    BY DEF Carried
  <1>2. \A r \in Timely(request, relation) : r \in DOMAIN request
    BY DEF Timely, Opens
  <1>3. \A r \in Timely(request, relation) : request'[r].target = request[r].target
    BY <1>1, <1>2
  <1>4. Matches(request, Timely(request, relation), PendingRelations)
    BY DEF MatchInv, RelationsMatch
  <1>5. Matches(request', kept, PendingRelations \ {p})
    BY <1>3, <1>4, MatchesShrink
  <1>6. ASSUME NEW r \in DOMAIN request
        PROVE  r \in Timely(request', relation') /\ request'[r].target # p <=> r \in kept
    <2>1. request[r].type = "supplier_sku_change" => request[r].target \in Pairs
      BY ReviewTyped DEF Aims
    <2>2. request[r].type = "supplier_sku_change" /\ request[r].target # p
          => /\ relation'[request[r].target].version = relation[request[r].target].version
             /\ request'[r].status = request[r].status
      BY <2>1
    <2> QED BY <1>1, <2>2 DEF Timely, Opens
  <1> QED BY <1>5, <1>6

\* A review of an older version of a relation is not about the new one.
LEMMA OlderVersion ==
  ASSUME CatalogTablesOK, NEW r \in DOMAIN request, request[r].type = "supplier_sku_change",
         NEW p, request[r].target = p
  PROVE  /\ p \in Pairs /\ request[r].version \in Nat /\ relation[p].version \in Nat
         /\ request[r].version =< relation[p].version
         /\ request[r].version # relation[p].version + 1
  <1>1. request[r] \in Request /\ p \in Pairs /\ request[r].version =< relation[p].version
    BY ReviewTyped DEF Aims
  <1>2. request[r].version \in Nat
    BY <1>1 DEF Request
  <1>3. relation[p].version \in Nat
    BY <1>1, RelationTyped
  <1> QED BY <1>1, <1>2, <1>3

\* Writing a relation makes all its reviews stale, and adds one for the new
\* version unless the factory writes its own.
LEMMA WriteRelationKeeps ==
  ASSUME CatalogTablesOK, MatchInv, NEW p \in Pairs, NEW u \in People, NEW terms \in Terms,
         NEW primary \in BOOLEAN, WriteRelation(p, u, terms, primary)
  PROVE  CatalogTablesOK' /\ Carried /\ MatchInv' /\ Leaves("supplier_sku_change")
  <1> DEFINE version == relation[p].version + 1
             new(status) == [status |-> status, terms |-> terms, primary |-> primary,
                             version |-> version, by |-> u]
  <1>1. UNCHANGED <<supplier, sku, agreement, change, priceVersion, bom, batch>>
    BY DEF WriteRelation
  <1>2. CatalogRows /\ relation \in Relations
    BY DEF CatalogTablesOK, CatalogRows
  <1>3. version \in Nat \ {0} /\ relation[p].version \in Nat
    BY RelationTyped
  <1>4. \A status \in {"pending", "active"} : new(status) \in Relation
    BY <1>3 DEF Relation
  <1>5. ASSUME NEW status \in {"pending", "active"},
               relation' = [relation EXCEPT ![p] = new(status)]
        PROVE  /\ relation' \in Relations /\ Widens
               /\ relation'[p].version = version /\ relation'[p].status = status
               /\ \A o \in Pairs : o # p => relation'[o] = relation[o]
    <2>1. new(status) \in Relation
      BY <1>4
    <2>2. relation' \in Relations
      BY <1>2, <1>5, <2>1 DEF Relations
    <2>3. relation'[p].version = version /\ relation'[p].status = status
      BY <1>2, <1>5 DEF Relations
    <2>4. \A o \in Pairs : o # p => relation'[o] = relation[o]
      BY <1>2, <1>5 DEF Relations
    <2>5. \A o \in Pairs : relation[o].version \in Nat
      BY RelationTyped
    <2>6. Widens
      BY <1>1, <1>3, <2>3, <2>4, <2>5 DEF Widens
    <2> QED BY <2>2, <2>3, <2>4, <2>6
  <1>6. CASE /\ relation' = [relation EXCEPT ![p] = new("active")]
             /\ UNCHANGED request
    <2>1. /\ relation' \in Relations /\ Widens
          /\ relation'[p].version = version /\ relation'[p].status = "active"
          /\ \A o \in Pairs : o # p => relation'[o] = relation[o]
      BY <1>5, <1>6
    <2>2. Carried /\ \A type : Spares(type)
      BY <1>6, UnchangedKeeps
    <2>3. CatalogRows'
      BY <1>1, <1>2, <1>6, <2>1 DEF CatalogRows
    <2>4. CatalogTablesOK'
      BY <1>6, <2>1, <2>2, <2>3, SameTables
    <2> DEFINE kept == {r \in Timely(request, relation) : request[r].target # p}
    <2>5. /\ Matches(request', kept, PendingRelations \ {p})
          /\ \A r \in DOMAIN request : r \in Timely(request', relation') /\ request'[r].target # p
                                       <=> r \in kept
      BY <1>6, <2>1, <2>2, OtherRelationsMatch
    <2>6. \A r \in Timely(request', relation') : r \in DOMAIN request /\ request'[r].target # p
      BY <1>6, <2>1, OlderVersion DEF Timely, Opens
    <2>7. Timely(request', relation') = kept
      <3> HIDE DEF kept
      <3>1. \A r \in kept : r \in DOMAIN request
        BY DEF kept, Timely, Opens
      <3> QED BY <2>5, <2>6, <3>1
    <2>8. PendingRelations' = PendingRelations \ {p}
      BY <2>1 DEF PendingRelations
    <2>9. RelationsMatch'
      BY <2>5, <2>7, <2>8 DEF RelationsMatch
    <2> QED BY <1>1, <2>2, <2>4, <2>9, KeptMatches DEF MatchInv, Leaves
  <1> DEFINE x == [Ask("supplier_sku_change", p, u) EXCEPT
                     !.version = version,
                     !.proposed = [terms |-> terms, primary |-> primary, by |-> u]]
  <1>7. CASE /\ relation' = [relation EXCEPT ![p] = new("pending")]
             /\ Asks(<<x>>)
    <2>1. /\ relation' \in Relations /\ Widens
          /\ relation'[p].version = version /\ relation'[p].status = "pending"
          /\ \A o \in Pairs : o # p => relation'[o] = relation[o]
      BY <1>5, <1>7
    <2>2. /\ x \in Request /\ x.type = "supplier_sku_change" /\ x.target = p
          /\ x.status = "pending" /\ x.retires = {} /\ x.version = version
      <3>1. [terms |-> terms, primary |-> primary, by |-> u] \in Proposed
        BY DEF Proposed
      <3> QED BY <1>3, <3>1 DEF Ask, Request, Types
    <2>3. Gains(x)
      BY <1>7, <2>2, AskGains
    <2> HIDE DEF x, new, version
    <2>4. Carried /\ \A type : x.type # type => Spares(type)
      BY <2>2, <2>3, GainsKeeps
    <2>5. CatalogRows'
      BY <1>1, <1>2, <2>1, <2>4 DEF CatalogRows, Carried
    <2>6. Aims(x, relation', DOMAIN change', DOMAIN bom')
      BY <1>3, <2>1, <2>2 DEF Aims
    <2>7. CatalogTablesOK'
      BY <2>1, <2>2, <2>3, <2>5, <2>6, GainsTables
    <2> DEFINE kept == {r \in Timely(request, relation) : request[r].target # p}
               n == Len(request) + 1
    <2>8. /\ n \notin DOMAIN request /\ DOMAIN request' = DOMAIN request \cup {n}
          /\ request'[n] = x /\ \A r \in DOMAIN request : request'[r] = request[r]
      BY <2>3 DEF Gains
    <2> HIDE DEF n
    <2>9. /\ Matches(request', kept, PendingRelations \ {p})
          /\ \A r \in DOMAIN request : r \in Timely(request', relation') /\ request'[r].target # p
                                       <=> r \in kept
      BY <2>1, <2>4, <2>8, OtherRelationsMatch
    <2>10. \A r \in DOMAIN request : r \in Timely(request', relation') => request'[r].target # p
      <3>1. SUFFICES ASSUME NEW r \in DOMAIN request, r \in Timely(request', relation'),
                            request'[r].target = p
                     PROVE  FALSE
        OBVIOUS
      <3>2. request'[r] = request[r] /\ request[r].type = "supplier_sku_change"
            /\ request[r].version = relation'[p].version
        BY <2>8, <3>1 DEF Timely, Opens
      <3>3. request[r].version # relation[p].version + 1
        BY <3>1, <3>2, OlderVersion
      <3> QED BY <2>1, <3>2, <3>3 DEF version
    <2>11. n \in Timely(request', relation')
      BY <2>1, <2>2, <2>8 DEF Timely, Opens
    <2>12. \A r \in kept : r \in DOMAIN request
      BY DEF Timely, Opens
    <2>13. \A r \in Timely(request', relation') : r \in DOMAIN request \cup {n}
      BY <2>8 DEF Timely, Opens
    <2> HIDE DEF kept
    <2>14. Timely(request', relation') = kept \cup {n} /\ kept \cap {n} = {}
      BY <2>8, <2>9, <2>10, <2>11, <2>12, <2>13
    <2>15. Matches(request', {n}, {p})
      BY <2>2, <2>8, MatchesOne
    <2>16. (PendingRelations \ {p}) \cap {p} = {}
      OBVIOUS
    <2>17. Matches(request', kept \cup {n}, (PendingRelations \ {p}) \cup {p})
      <3>1. \A r \in kept : request'[r].target = request'[r].target
        OBVIOUS
      <3> QED BY <2>9, <2>14, <2>15, <2>16, <3>1, MatchesGrow
    <2>18. PendingRelations' = (PendingRelations \ {p}) \cup {p}
      BY <2>1 DEF PendingRelations
    <2>19. RelationsMatch'
      BY <2>14, <2>17, <2>18 DEF RelationsMatch
    <2> QED BY <1>1, <2>2, <2>4, <2>7, <2>19, KeptMatches DEF MatchInv, Leaves
  <1> QED BY <1>6, <1>7 DEF WriteRelation

\* A relation that is decided moves by one version and keeps its terms.
LEMMA RelationMoves ==
  ASSUME NEW rel \in Relation, NEW status \in {"active", "inactive"}
  PROVE  LET row == [rel EXCEPT !.version = @ + 1, !.status = status]
         IN /\ row \in Relation
            /\ row.version = rel.version + 1 /\ row.status = status
            /\ row.terms = rel.terms /\ row.by = rel.by /\ row.primary = rel.primary
  <1> DEFINE moved == [rel EXCEPT !.version = rel.version + 1]
             row == [rel EXCEPT !.version = rel.version + 1, !.status = status]
  <1>1. /\ moved \in Relation /\ moved.version = rel.version + 1
        /\ moved.terms = rel.terms /\ moved.by = rel.by
    BY DEF Relation
  <1>2. moved.primary = rel.primary
    BY DEF Relation
  <1>3. row = [moved EXCEPT !.status = status]
    OBVIOUS
  <1> HIDE DEF moved, row
  <1>4. /\ row \in Relation /\ row.version = moved.version /\ row.status = status
        /\ row.terms = moved.terms /\ row.by = moved.by
    BY <1>1, <1>3 DEF Relation
  <1>5. row.primary = moved.primary
    BY <1>1, <1>3 DEF Relation
  <1> QED BY <1>1, <1>2, <1>4, <1>5 DEF row

\* A relation that is not primary any more is as it was otherwise.
LEMMA PrimaryDropped ==
  ASSUME NEW rel \in Relation \cup {NoRelation}
  PROVE  LET row == [rel EXCEPT !.primary = FALSE]
         IN /\ row \in Relation \cup {NoRelation}
            /\ row.version = rel.version /\ row.status = rel.status
            /\ row.terms = rel.terms /\ row.by = rel.by /\ ~row.primary
  <1>1. CASE rel \in Relation
    <2>1. [rel EXCEPT !.primary = FALSE] \in Relation
      BY <1>1 DEF Relation
    <2>2. /\ [rel EXCEPT !.primary = FALSE].version = rel.version
          /\ [rel EXCEPT !.primary = FALSE].status = rel.status
          /\ [rel EXCEPT !.primary = FALSE].terms = rel.terms
          /\ [rel EXCEPT !.primary = FALSE].by = rel.by
          /\ [rel EXCEPT !.primary = FALSE].primary = FALSE
      BY <1>1 DEF Relation
    <2> QED BY <2>1, <2>2
  <1>2. CASE rel = NoRelation
    <2> DEFINE None == [status: {"none"}, terms: {"none"}, primary: {FALSE}, version: {0},
                        by: {"nobody"}]
    <2>1. [rel EXCEPT !.primary = FALSE] \in None
      BY <1>2 DEF NoRelation
    <2>2. ASSUME NEW x \in None PROVE x = NoRelation
      <3>1. x = [status |-> x.status, terms |-> x.terms, primary |-> x.primary,
                 version |-> x.version, by |-> x.by]
        BY <2>2
      <3>2. /\ x.status = "none" /\ x.terms = "none" /\ x.primary = FALSE
            /\ x.version = 0 /\ x.by = "nobody"
        BY <2>2
      <3> QED BY <3>1, <3>2 DEF NoRelation
    <2>3. [rel EXCEPT !.primary = FALSE] = NoRelation
      BY <2>1, <2>2
    <2>4. NoRelation.primary = FALSE
      BY DEF NoRelation
    <2> QED BY <1>2, <2>3, <2>4
  <1> QED BY <1>1, <1>2

\* What the decision of a relation writes.
LEMMA DecideRelationWrites ==
  ASSUME CatalogTablesOK, NEW r \in DOMAIN request, NEW u, NEW verdict \in Verdicts,
         DecideRelation(r, u, verdict)
  PROVE  LET p == request[r].target
         IN /\ p \in Pairs /\ relation' \in Relations /\ Widens
            /\ relation[p].status = "pending" /\ relation[p] \in Relation
            /\ relation'[p].version = relation[p].version + 1
            /\ relation'[p].status = IF verdict = "approved" THEN "active" ELSE "inactive"
            /\ relation'[p].terms = relation[p].terms /\ relation'[p].by = relation[p].by
            /\ relation'[p].primary = relation[p].primary
            /\ \A o \in Pairs : o # p =>
                 /\ relation'[o].version = relation[o].version
                 /\ relation'[o].status = relation[o].status
                 /\ relation'[o].terms = relation[o].terms /\ relation'[o].by = relation[o].by
                 /\ relation'[o].primary => relation[o].primary
  <1> DEFINE p == request[r].target
             replaces(o) == /\ verdict = "approved" /\ relation[p].primary
                            /\ o # p /\ o[2] = p[2]
             status == IF verdict = "approved" THEN "active" ELSE "inactive"
             row == [relation[p] EXCEPT !.version = @ + 1, !.status = status]
  <1>1. /\ relation[p].status = "pending"
        /\ relation' = [o \in Pairs |->
             IF o = p THEN row
             ELSE IF replaces(o) THEN [relation[o] EXCEPT !.primary = FALSE] ELSE relation[o]]
        /\ UNCHANGED <<supplier, sku, agreement, change, priceVersion, bom, batch>>
        /\ request[r].type = "supplier_sku_change"
    BY DEF DecideRelation, Concludes
  <1>2. p \in Pairs
    BY <1>1, ReviewTyped DEF Aims
  <1>3. \A o \in Pairs : relation[o] \in Relation \cup {NoRelation}
    BY RelationTyped
  <1>4. relation[p] \in Relation
    BY <1>1, <1>2, <1>3 DEF NoRelation
  <1>5. /\ row \in Relation
        /\ row.version = relation[p].version + 1
        /\ row.status = status
        /\ row.terms = relation[p].terms /\ row.by = relation[p].by
        /\ row.primary = relation[p].primary
    <2>1. status \in {"active", "inactive"}
      OBVIOUS
    <2> HIDE DEF status
    <2>2. PICK rel : rel = relation[p] /\ rel \in Relation
      BY <1>4
    <2>3. row = [rel EXCEPT !.version = @ + 1, !.status = status]
      BY <2>2
    <2> HIDE DEF row
    <2> QED BY <2>1, <2>2, <2>3, RelationMoves, ZenonT(60)
  <1>6. ASSUME NEW o \in Pairs
        PROVE  LET other == [relation[o] EXCEPT !.primary = FALSE]
               IN /\ other \in Relation \cup {NoRelation}
                  /\ other.version = relation[o].version /\ other.status = relation[o].status
                  /\ other.terms = relation[o].terms /\ other.by = relation[o].by
                  /\ ~other.primary
    BY <1>3, PrimaryDropped
  <1> HIDE DEF row
  <1>7. relation'[p] = row
    BY <1>1, <1>2
  <1>8. ASSUME NEW o \in Pairs, o # p
        PROVE  /\ relation'[o] \in Relation \cup {NoRelation}
               /\ relation'[o].version = relation[o].version
               /\ relation'[o].status = relation[o].status
               /\ relation'[o].terms = relation[o].terms /\ relation'[o].by = relation[o].by
               /\ relation'[o].primary => relation[o].primary
    <2>1. CASE replaces(o)
      <3>1. relation'[o] = [relation[o] EXCEPT !.primary = FALSE]
        BY <1>1, <1>8, <2>1
      <3> QED BY <1>6, <3>1
    <2>2. CASE ~replaces(o)
      <3>1. relation'[o] = relation[o]
        BY <1>1, <1>8, <2>2
      <3> QED BY <1>3, <3>1
    <2> QED BY <2>1, <2>2
  <1> HIDE DEF p, replaces
  <1>9. relation' \in Relations
    <2>1. \A o \in Pairs : relation'[o] \in Relation \cup {NoRelation}
      BY <1>5, <1>7, <1>8
    <2> QED BY <1>1, <2>1 DEF Relations
  <1>10. \A o \in Pairs : relation[o].version \in Nat
    BY RelationTyped
  <1>11. Widens
    BY <1>1, <1>5, <1>7, <1>8, <1>10 DEF Widens
  <1> QED BY <1>1, <1>2, <1>4, <1>5, <1>7, <1>8, <1>9, <1>11 DEF p

\* It takes the relation and the review of its version away.
LEMMA DecideRelationKeeps ==
  ASSUME CatalogTablesOK, MatchInv, NEW r \in DOMAIN request, NEW u, NEW verdict \in Verdicts,
         DecideRelation(r, u, verdict)
  PROVE  /\ CatalogTablesOK' /\ Carried /\ MatchInv'
         /\ Leaves("supplier_sku_change") /\ Rules(r, verdict)
  <1> DEFINE p == request[r].target
             kept == {q \in Timely(request, relation) : request[q].target # p}
  <1>1. /\ Concludes(r, u, "supplier_sku_change", verdict)
        /\ UNCHANGED <<supplier, sku, agreement, change, priceVersion, bom, batch>>
        /\ AsReviewed(r, p)
    BY DEF DecideRelation
  <1>2. /\ p \in Pairs /\ relation' \in Relations /\ Widens
        /\ relation[p].status = "pending" /\ relation[p] \in Relation
        /\ relation'[p].version = relation[p].version + 1
        /\ relation'[p].status = IF verdict = "approved" THEN "active" ELSE "inactive"
        /\ \A o \in Pairs : o # p =>
             /\ relation'[o].version = relation[o].version
             /\ relation'[o].status = relation[o].status
    BY DecideRelationWrites
  <1>3. /\ Rules(r, verdict)
        /\ request[r] \in Request /\ request'[r].status = verdict
        /\ r \in Opens(request, "supplier_sku_change")
    BY <1>1, DecisionRules
  <1>4. request[r].type = "supplier_sku_change" /\ request[r].status = "pending"
    BY <1>3 DEF Opens
  <1>5. Carried /\ \A type : request[r].type # type => Spares(type)
    BY <1>3, <1>4, RulesKeeps
  <1>6. /\ DOMAIN request' = DOMAIN request
        /\ \A q \in DOMAIN request : q # r => request'[q] = request[q]
    BY <1>3 DEF Rules
  <1>7. CatalogRows'
    <2>1. CatalogRows
      BY DEF CatalogTablesOK
    <2> QED BY <1>1, <1>2, <1>5, <2>1 DEF CatalogRows, Carried
  <1>8. CatalogTablesOK'
    BY <1>2, <1>5, <1>6, <1>7, SameTables
  <1>9. \A q \in DOMAIN request : request[q].type = "supplier_sku_change" /\ request[q].target # p
                                  => request'[q].status = request[q].status
    BY <1>6
  <1>10. /\ Matches(request', kept, PendingRelations \ {p})
         /\ \A q \in DOMAIN request : q \in Timely(request', relation') /\ request'[q].target # p
                                      <=> q \in kept
    <2> HIDE DEF p
    <2>1. \A o \in Pairs : o # p => relation'[o].version = relation[o].version
      BY <1>2
    <2> QED BY <1>2, <1>5, <1>9, <2>1, OtherRelationsMatch
  <1>11. \A q \in Timely(request', relation') : q \in DOMAIN request /\ request'[q].target # p
    <2>1. SUFFICES ASSUME NEW q \in Timely(request', relation'), request'[q].target = p
                   PROVE  FALSE
      BY <1>6 DEF Timely, Opens
    <2>2. q \in DOMAIN request /\ request'[q].version = relation'[p].version
          /\ request'[q].type = "supplier_sku_change" /\ request'[q].status = "pending"
      BY <1>6, <2>1 DEF Timely, Opens
    <2>3. q # r
      BY <1>3, <2>2 DEF Verdicts
    <2>4. request'[q] = request[q]
      BY <1>6, <2>2, <2>3
    <2>5. request[q].version # relation[p].version + 1
      BY <2>1, <2>2, <2>4, OlderVersion
    <2> QED BY <1>2, <2>2, <2>4, <2>5
  <1>12. \A q \in kept : q \in DOMAIN request
    BY DEF Timely, Opens
  <1> HIDE DEF kept
  <1>13. Timely(request', relation') = kept
    BY <1>10, <1>11, <1>12
  <1>14. PendingRelations' = PendingRelations \ {p}
    <2> HIDE DEF p
    <2> QED BY <1>2 DEF PendingRelations
  <1>15. RelationsMatch'
    BY <1>10, <1>13, <1>14 DEF RelationsMatch
  <1> QED BY <1>1, <1>3, <1>4, <1>5, <1>8, <1>15, KeptMatches DEF MatchInv, Leaves

-----------------------------------------------------------------------------
(* Prices *)

OfOne(A, a, b) == A[a].of = A[b].of

\* Agreements A of which each pair that has one has one active, begun after all
\* others of it ended, and of which no two overlap.
Follow(A) ==
  /\ \A a \in DOMAIN A : A[a].from =< A[a].to
  /\ \A a \in DOMAIN A : \E b \in DOMAIN A : OfOne(A, a, b) /\ A[b].active
  /\ \A a, b \in DOMAIN A : OfOne(A, a, b) /\ A[a].active /\ A[b].active => a = b
  /\ \A a, b \in DOMAIN A : OfOne(A, a, b) /\ ~A[a].active /\ A[b].active => A[a].to < A[b].from
  /\ \A a, b \in DOMAIN A : OfOne(A, a, b) /\ ~A[a].active /\ ~A[b].active /\ a # b
                            => ~Overlap(A[a], A[b])

\* A change of an agreement in A is for a later day than that began on.
Supersedes(x, A) ==
  x.current # 0 => /\ x.current \in DOMAIN A
                   /\ A[x.current].of = x.of /\ A[x.current].from < x.from

PriceInv == Follow(agreement) /\ \A c \in DOMAIN change : Supersedes(change[c], agreement)

\* Agreements and changes are records of their types.
LEMMA AgreementTyped ==
  ASSUME CatalogTablesOK
  PROVE  /\ agreement \in Seq(Agreement)
         /\ 0 \notin DOMAIN agreement /\ DOMAIN agreement \subseteq Nat
         /\ \A a \in DOMAIN agreement : agreement[a] \in Agreement
         /\ change \in Seq(Change) /\ \A c \in DOMAIN change : change[c] \in Change
         /\ DOMAIN change \subseteq Nat
  <1>1. agreement \in Seq(Agreement) /\ change \in Seq(Change)
    BY DEF CatalogTablesOK, CatalogRows
  <1> QED BY <1>1, LenProperties, ElementOfSeq

\* The agreement that is active is the one that Current returns.
LEMMA CurrentIs ==
  ASSUME CatalogTablesOK, Follow(agreement), NEW p
  PROVE  \/ /\ Current(p) = 0
            /\ \A a \in DOMAIN agreement : agreement[a].of # p
         \/ /\ Current(p) \in DOMAIN agreement /\ Current(p) # 0
            /\ agreement[Current(p)].of = p /\ agreement[Current(p)].active
  <1> DEFINE live == {a \in DOMAIN agreement : agreement[a].of = p /\ agreement[a].active}
             Latest(a) == \A b \in live : \/ agreement[b].from < agreement[a].from
                                          \/ agreement[b].from = agreement[a].from /\ b =< a
  <1>1. Current(p) = IF live = {} THEN 0 ELSE CHOOSE a \in live : Latest(a)
    BY DEF Current
  <1>2. CASE live = {}
    <2>1. \A a \in DOMAIN agreement : agreement[a].of # p
      BY <1>2 DEF Follow, OfOne
    <2> HIDE DEF live, Latest
    <2> QED BY <1>1, <1>2, <2>1
  <1>3. CASE live # {}
    <2>1. PICK a \in live : TRUE
      BY <1>3
    <2>2. \A b \in live : b = a
      BY <2>1 DEF Follow, OfOne
    <2>3. a \in Nat
      BY <2>1, AgreementTyped
    <2>4. Latest(a)
      BY <2>2, <2>3
    <2> HIDE DEF Latest
    <2>5. (CHOOSE x \in live : Latest(x)) \in live
      BY <2>1, <2>4
    <2>6. Current(p) \in live
      BY <1>1, <1>3, <2>5
    <2> QED BY <2>6, AgreementTyped
  <1> QED BY <1>2, <1>3

\* What an agreement that is reached writes.
LEMMA AgreesWrites ==
  ASSUME CatalogTablesOK, NEW p \in Pairs, NEW a \in DOMAIN agreement \cup {0}, NEW day \in Days,
         Agrees(p, a, day)
  PROVE  LET n == Len(agreement) + 1
         IN /\ agreement' \in Seq(Agreement) /\ priceVersion' \in [Pairs -> Nat \ {0}]
            /\ n \notin DOMAIN agreement /\ n \in Nat
            /\ DOMAIN agreement' = DOMAIN agreement \cup {n}
            /\ agreement'[n].of = p /\ agreement'[n].from = day /\ agreement'[n].to = Forever
            /\ agreement'[n].active = TRUE
            /\ \A x \in DOMAIN agreement : x # a => agreement'[x] = agreement[x]
            /\ a # 0 => /\ agreement'[a].of = agreement[a].of
                        /\ agreement'[a].from = agreement[a].from
                        /\ agreement'[a].to = day - 1 /\ agreement'[a].active = FALSE
  <1> DEFINE n == Len(agreement) + 1
             ended == [x \in DOMAIN agreement |->
               IF x = a THEN [agreement[x] EXCEPT !.to = day - 1, !.active = FALSE]
                        ELSE agreement[x]]
             new == [of |-> p, from |-> day, to |-> Forever, active |-> TRUE]
  <1>1. agreement' = Append(ended, new) /\ priceVersion' = [priceVersion EXCEPT ![p] = @ + 1]
    BY DEF Agrees
  <1>2. priceVersion' \in [Pairs -> Nat \ {0}]
    <2>1. priceVersion \in [Pairs -> Nat \ {0}]
      BY DEF CatalogTablesOK, CatalogRows
    <2>2. priceVersion[p] + 1 \in Nat \ {0}
      BY <2>1
    <2> QED BY <1>1, <2>1, <2>2
  <1>3. /\ agreement \in Seq(Agreement) /\ 0 \notin DOMAIN agreement
        /\ \A x \in DOMAIN agreement : agreement[x] \in Agreement
    BY AgreementTyped
  <1>4. Len(agreement) \in Nat /\ DOMAIN agreement = 1 .. Len(agreement)
    BY <1>3, LenProperties
  <1>5. /\ Forever \in Nat \ {0} /\ day \in Nat \ {0} /\ day - 1 \in 0 .. Forever
    BY ForeverIsLast
  <1>6. new \in Agreement
    BY <1>5 DEF Agreement
  <1>7. ASSUME NEW x \in DOMAIN agreement
        PROVE  LET row == [agreement[x] EXCEPT !.to = day - 1, !.active = FALSE]
               IN /\ row \in Agreement /\ row.of = agreement[x].of /\ row.from = agreement[x].from
                  /\ row.to = day - 1 /\ row.active = FALSE
    <2>1. agreement[x] \in Agreement
      BY <1>3
    <2> QED BY <1>5, <2>1 DEF Agreement
  <1>8. ended \in Seq(Agreement) /\ Len(ended) = Len(agreement) /\ DOMAIN ended = DOMAIN agreement
    <2>1. \A x \in DOMAIN agreement : ended[x] \in Agreement
      BY <1>3, <1>7
    <2>2. ended \in [DOMAIN agreement -> Agreement]
      BY <2>1
    <2> DEFINE m == Len(agreement)
    <2> HIDE DEF ended, m
    <2>3. m \in Nat /\ ended \in [1 .. m -> Agreement]
      BY <1>4, <2>2 DEF m
    <2>4. ended \in Seq(Agreement) /\ DOMAIN ended = 1 .. m
      BY <2>3, SeqDef
    <2>5. Len(ended) = m
      BY <2>3, <2>4, LenProperties
    <2> QED BY <1>4, <2>4, <2>5 DEF m
  <1>9. /\ \A x \in DOMAIN agreement : x # a => ended[x] = agreement[x]
        /\ a # 0 => ended[a] = [agreement[a] EXCEPT !.to = day - 1, !.active = FALSE]
    OBVIOUS
  <1>10. new.of = p /\ new.from = day /\ new.to = Forever /\ new.active = TRUE
    OBVIOUS
  <1> HIDE DEF ended, new
  <1>11. /\ Append(ended, new) \in Seq(Agreement)
         /\ Len(Append(ended, new)) = Len(ended) + 1
         /\ DOMAIN Append(ended, new) = DOMAIN ended \cup {Len(ended) + 1}
         /\ Append(ended, new)[Len(ended) + 1] = new
         /\ \A x \in DOMAIN ended : Append(ended, new)[x] = ended[x]
         /\ Len(ended) + 1 \notin DOMAIN ended
    BY <1>6, <1>8, RowAppended
  <1>12. /\ agreement' \in Seq(Agreement) /\ n \notin DOMAIN agreement /\ n \in Nat
         /\ DOMAIN agreement' = DOMAIN agreement \cup {n}
         /\ agreement'[n] = new
         /\ \A x \in DOMAIN agreement : agreement'[x] = ended[x]
    BY <1>1, <1>4, <1>8, <1>11
  <1> HIDE DEF n
  <1>13. a # 0 => /\ agreement'[a].of = agreement[a].of
                  /\ agreement'[a].from = agreement[a].from
                  /\ agreement'[a].to = day - 1 /\ agreement'[a].active = FALSE
    <2>1. SUFFICES ASSUME a # 0
                   PROVE  /\ agreement'[a].of = agreement[a].of
                          /\ agreement'[a].from = agreement[a].from
                          /\ agreement'[a].to = day - 1 /\ agreement'[a].active = FALSE
      OBVIOUS
    <2>2. a \in DOMAIN agreement
      BY <2>1
    <2>3. agreement'[a] = [agreement[a] EXCEPT !.to = day - 1, !.active = FALSE]
      BY <1>9, <1>12, <2>1, <2>2
    <2> QED BY <1>7, <2>2, <2>3
  <1> QED BY <1>2, <1>9, <1>10, <1>12, <1>13 DEF n

\* An agreement that replaces the active one, later, follows it.
LEMMA AgreesFollow ==
  ASSUME CatalogTablesOK, PriceInv, NEW p \in Pairs, NEW day \in Days, BeginsAfter(p, day),
         Agrees(p, Current(p), day)
  PROVE  /\ agreement' \in Seq(Agreement) /\ priceVersion' \in [Pairs -> Nat \ {0}]
         /\ Follow(agreement')
         /\ \A c \in DOMAIN change : Supersedes(change[c], agreement')
  <1> DEFINE n == Len(agreement) + 1
             a == Current(p)
             B == agreement'
  <1>1. a \in DOMAIN agreement \cup {0}
    BY CurrentIs DEF PriceInv
  <1>2. /\ B \in Seq(Agreement) /\ priceVersion' \in [Pairs -> Nat \ {0}]
        /\ n \notin DOMAIN agreement /\ n \in Nat
        /\ DOMAIN B = DOMAIN agreement \cup {n}
        /\ B[n].of = p /\ B[n].from = day /\ B[n].to = Forever
        /\ B[n].active = TRUE
        /\ \A x \in DOMAIN agreement : x # a => B[x] = agreement[x]
        /\ a # 0 => /\ B[a].of = agreement[a].of
                    /\ B[a].from = agreement[a].from
                    /\ B[a].to = day - 1 /\ B[a].active = FALSE
    BY <1>1, AgreesWrites
  <1>3. \/ a = 0 /\ \A x \in DOMAIN agreement : agreement[x].of # p
        \/ /\ a \in DOMAIN agreement /\ a # 0
           /\ agreement[a].of = p /\ agreement[a].active
    BY CurrentIs DEF PriceInv
  <1>4. a # 0 => agreement[a].from < day
    BY <1>3, AgreementTyped, DaysAssumption DEF BeginsAfter, Agreement
  <1>5. /\ 0 \notin DOMAIN agreement
        /\ \A x \in DOMAIN agreement : /\ agreement[x].from \in Nat /\ agreement[x].to \in Nat
                                       /\ agreement[x].active \in BOOLEAN
    <2>1. Forever \in Nat
      BY ForeverIsLast
    <2>2. \A x \in DOMAIN agreement : agreement[x] \in Agreement
      BY AgreementTyped
    <2>3. ASSUME NEW x \in DOMAIN agreement
          PROVE  /\ agreement[x].from \in Nat /\ agreement[x].to \in Nat
                 /\ agreement[x].active \in BOOLEAN
      <3>1. agreement[x] \in Agreement
        BY <2>2
      <3>2. agreement[x].from \in Days /\ agreement[x].to \in 0 .. Forever
        BY <3>1 DEF Agreement
      <3>3. agreement[x].active \in BOOLEAN
        BY <3>1 DEF Agreement
      <3>4. agreement[x].from \in Nat
        BY <3>2, ForeverIsLast
      <3>5. agreement[x].to \in Nat
        BY <2>1, <3>2
      <3> QED BY <3>3, <3>4, <3>5
    <2> QED BY <2>3, AgreementTyped
  <1>6. day \in Nat /\ day =< Forever /\ Forever \in Nat
    BY ForeverIsLast
  <1>7. Follow(agreement)
    BY DEF PriceInv
  <1> HIDE DEF a, B, n
  <1>8. \A x \in DOMAIN agreement : B[x].of = agreement[x].of /\ B[x].from = agreement[x].from
    BY <1>2, <1>5
  <1>9. \A x \in DOMAIN agreement : agreement[x].of # p => B[x] = agreement[x]
    BY <1>2, <1>3, <1>5
  <1>10. \A x \in DOMAIN agreement : agreement[x].of = p => ~B[x].active /\ B[x].to < day
    <2>1. SUFFICES ASSUME NEW x \in DOMAIN agreement, agreement[x].of = p
                   PROVE  ~B[x].active /\ B[x].to < day
      OBVIOUS
    <2>2. a \in DOMAIN agreement /\ a # 0 /\ agreement[a].of = p /\ agreement[a].active
      BY <1>3, <2>1
    <2>3. CASE x = a
      BY <1>2, <1>6, <2>2, <2>3
    <2>4. CASE x # a
      <3>1. ~agreement[x].active
        BY <1>7, <2>1, <2>2, <2>4 DEF Follow, OfOne
      <3>2. agreement[x].to < agreement[a].from
        BY <1>7, <2>1, <2>2, <3>1 DEF Follow, OfOne
      <3>3. agreement[x].to < day
        BY <1>4, <1>5, <1>6, <2>2, <3>2
      <3> QED BY <1>2, <2>4, <3>1, <3>3
    <2> QED BY <2>3, <2>4
  <1>11. \A x \in DOMAIN B : B[x].from =< B[x].to
    <2>1. B[n].from =< B[n].to
      BY <1>2, <1>6
    <2>2. a # 0 => B[a].from =< B[a].to
      <3>1. SUFFICES ASSUME a # 0 PROVE B[a].from =< B[a].to
        OBVIOUS
      <3>2. a \in DOMAIN agreement /\ agreement[a].from < day
        BY <1>3, <1>4, <3>1
      <3>3. B[a].from = agreement[a].from /\ B[a].to = day - 1
        BY <1>2, <3>1
      <3> QED BY <1>5, <1>6, <3>2, <3>3
    <2>3. \A x \in DOMAIN agreement : x # a => B[x].from =< B[x].to
      BY <1>2, <1>7 DEF Follow
    <2> QED BY <1>2, <1>5, <2>1, <2>2, <2>3
  <1>12. \A x \in DOMAIN B : \E y \in DOMAIN B : OfOne(B, x, y) /\ B[y].active
    <2>1. SUFFICES ASSUME NEW x \in DOMAIN B
                   PROVE  \E y \in DOMAIN B : OfOne(B, x, y) /\ B[y].active
      OBVIOUS
    <2>2. CASE B[x].of = p
      BY <1>2, <2>2 DEF OfOne
    <2>3. CASE B[x].of # p
      <3>1. x \in DOMAIN agreement /\ agreement[x].of # p
        BY <1>2, <1>8, <2>3
      <3>2. PICK y \in DOMAIN agreement : OfOne(agreement, x, y) /\ agreement[y].active
        BY <1>7, <3>1 DEF Follow
      <3>3. B[y] = agreement[y] /\ B[x] = agreement[x]
        BY <1>9, <3>1, <3>2 DEF OfOne
      <3> QED BY <1>2, <3>2, <3>3 DEF OfOne
    <2> QED BY <2>2, <2>3
  <1>13. \A x, y \in DOMAIN B : OfOne(B, x, y) /\ B[x].active /\ B[y].active => x = y
    <2>1. SUFFICES ASSUME NEW x \in DOMAIN B, NEW y \in DOMAIN B,
                          OfOne(B, x, y), B[x].active, B[y].active
                   PROVE  x = y
      OBVIOUS
    <2>2. CASE B[x].of = p
      BY <1>2, <1>8, <1>10, <2>1, <2>2 DEF OfOne
    <2>3. CASE B[x].of # p
      BY <1>2, <1>7, <1>8, <1>9, <2>1, <2>3 DEF OfOne, Follow
    <2> QED BY <2>2, <2>3
  <1>14. \A x, y \in DOMAIN B : OfOne(B, x, y) /\ ~B[x].active /\ B[y].active => B[x].to < B[y].from
    <2>1. SUFFICES ASSUME NEW x \in DOMAIN B, NEW y \in DOMAIN B,
                          OfOne(B, x, y), ~B[x].active, B[y].active
                   PROVE  B[x].to < B[y].from
      OBVIOUS
    <2>2. CASE B[x].of = p
      <3>1. y = n /\ x \in DOMAIN agreement
        BY <1>2, <1>8, <1>10, <2>1, <2>2 DEF OfOne
      <3> QED BY <1>2, <1>8, <1>10, <2>2, <3>1
    <2>3. CASE B[x].of # p
      BY <1>2, <1>7, <1>8, <1>9, <2>1, <2>3 DEF OfOne, Follow
    <2> QED BY <2>2, <2>3
  <1>15. \A x, y \in DOMAIN B : OfOne(B, x, y) /\ ~B[x].active /\ ~B[y].active /\ x # y
                                => ~Overlap(B[x], B[y])
    <2>1. SUFFICES ASSUME NEW x \in DOMAIN B, NEW y \in DOMAIN B,
                          OfOne(B, x, y), ~B[x].active, ~B[y].active, x # y
                   PROVE  ~Overlap(B[x], B[y])
      OBVIOUS
    <2>2. x \in DOMAIN agreement /\ y \in DOMAIN agreement /\ OfOne(agreement, x, y)
      BY <1>2, <1>8, <2>1 DEF OfOne
    <2>3. CASE x # a /\ y # a
      <3>1. B[x] = agreement[x] /\ B[y] = agreement[y]
        BY <1>2, <2>2, <2>3
      <3> QED BY <1>7, <2>1, <2>2, <3>1 DEF Follow
    <2>4. CASE x = a
      <3>1. a # 0 /\ agreement[a].of = p /\ agreement[a].active /\ y # a
        BY <1>3, <1>5, <2>1, <2>2, <2>4
      <3>2. ~agreement[y].active
        BY <1>7, <2>2, <2>4, <3>1 DEF Follow
      <3>3. agreement[y].to < agreement[a].from
        BY <1>7, <2>2, <2>4, <3>1, <3>2 DEF Follow, OfOne
      <3>4. B[y] = agreement[y] /\ B[a].from = agreement[a].from
        BY <1>2, <2>2, <3>1
      <3>5. agreement[y].to \in Nat /\ agreement[a].from \in Nat
        BY <1>5, <2>2, <2>4
      <3> QED BY <2>4, <3>3, <3>4, <3>5 DEF Overlap
    <2>5. CASE y = a
      <3>1. a # 0 /\ agreement[a].of = p /\ agreement[a].active /\ x # a
        BY <1>3, <1>5, <2>1, <2>2, <2>5
      <3>2. ~agreement[x].active
        BY <1>7, <2>2, <2>5, <3>1 DEF Follow
      <3>3. agreement[x].to < agreement[a].from
        BY <1>7, <2>2, <2>5, <3>1, <3>2 DEF Follow
      <3>4. B[x] = agreement[x] /\ B[a].from = agreement[a].from
        BY <1>2, <2>2, <3>1
      <3>5. agreement[x].to \in Nat /\ agreement[a].from \in Nat
        BY <1>5, <2>2, <2>5
      <3> QED BY <2>5, <3>3, <3>4, <3>5 DEF Overlap
    <2> QED BY <2>3, <2>4, <2>5
  <1>16. Follow(B)
    BY <1>11, <1>12, <1>13, <1>14, <1>15 DEF Follow
  <1>17. \A c \in DOMAIN change : Supersedes(change[c], B)
    BY <1>2, <1>8 DEF PriceInv, Supersedes
  <1> QED BY <1>2, <1>16, <1>17 DEF B

\* A price the factory sets writes no review.
LEMMA SetPriceKeeps ==
  ASSUME CatalogTablesOK, MatchInv, PriceInv, NEW p \in Pairs, NEW u, NEW day \in Days,
         SetPrice(p, u, day)
  PROVE  CatalogTablesOK' /\ Carried /\ MatchInv' /\ Leaves("none") /\ PriceInv'
  <1>1. /\ BeginsAfter(p, day) /\ Agrees(p, Current(p), day)
        /\ UNCHANGED <<supplier, sku, relation, change, bom, batch, request>>
    BY DEF SetPrice, Priceable
  <1>2. /\ agreement' \in Seq(Agreement) /\ priceVersion' \in [Pairs -> Nat \ {0}]
        /\ Follow(agreement')
        /\ \A c \in DOMAIN change : Supersedes(change[c], agreement')
    BY <1>1, AgreesFollow
  <1>3. PriceInv'
    BY <1>1, <1>2 DEF PriceInv
  <1>4. CatalogRows /\ Widens
    BY <1>1, SameRows
  <1>5. Carried /\ \A type : Spares(type)
    BY <1>1, UnchangedKeeps
  <1>6. CatalogRows'
    BY <1>1, <1>2, <1>4 DEF CatalogRows
  <1>7. CatalogTablesOK'
    BY <1>1, <1>4, <1>5, <1>6, SameTables
  <1> QED BY <1>1, <1>3, <1>5, <1>7, KeptMatches DEF MatchInv, Leaves

\* Asking for a price adds a pending change and its review; the change is for
\* a later day than the price it would replace began on.
LEMMA RequestPriceKeeps ==
  ASSUME CatalogTablesOK, MatchInv, PriceInv, NEW p \in Pairs, NEW u \in People, NEW day \in Days,
         RequestPrice(p, u, day)
  PROVE  CatalogTablesOK' /\ Carried /\ MatchInv' /\ Leaves("supplier_price_change") /\ PriceInv'
  <1> DEFINE n == Len(change) + 1
             row == [of |-> p, current |-> Current(p), from |-> day, decision |-> "pending"]
             x == [Ask("supplier_price_change", n, u) EXCEPT !.version = priceVersion[p]]
  <1>1. /\ BeginsAfter(p, day) /\ change' = Append(change, row) /\ Asks(<<x>>)
        /\ UNCHANGED <<supplier, sku, relation, agreement, priceVersion, bom, batch>>
    BY DEF RequestPrice, Priceable
  <1>2. \/ Current(p) = 0
        \/ /\ Current(p) \in DOMAIN agreement /\ agreement[Current(p)].of = p
           /\ Current(p) # 0
    BY CurrentIs DEF PriceInv
  <1>3. Current(p) \in Nat
    BY <1>2, AgreementTyped
  <1>4. row \in Change /\ row.decision = "pending"
    BY <1>3 DEF Change
  <1>5. Supersedes(row, agreement)
    <2>1. SUFFICES ASSUME Current(p) # 0
                   PROVE  /\ Current(p) \in DOMAIN agreement
                          /\ agreement[Current(p)].of = p /\ agreement[Current(p)].from < day
      BY DEF Supersedes
    <2>2. Current(p) \in DOMAIN agreement /\ agreement[Current(p)].of = p
      BY <1>2, <2>1
    <2>3. agreement[Current(p)] \in Agreement
      BY <2>2, AgreementTyped
    <2>4. agreement[Current(p)].from \in Nat
      BY <2>3, DaysAssumption DEF Agreement
    <2>5. day > agreement[Current(p)].from
      BY <1>1, <2>1 DEF BeginsAfter
    <2> QED BY <2>2, <2>4, <2>5, DaysAssumption
  <1>6. change \in Seq(Change) /\ CatalogRows
    BY DEF CatalogTablesOK, CatalogRows
  <1>7. Len(change) \in Nat
    BY <1>6, LenProperties
  <1>8. priceVersion[p] \in Nat
    BY <1>6 DEF CatalogRows
  <1> HIDE DEF row
  <1>9. /\ change' \in Seq(Change) /\ n \notin DOMAIN change
        /\ DOMAIN change' = DOMAIN change \cup {n}
        /\ change'[n] = row
        /\ \A c \in DOMAIN change : change'[c] = change[c]
    BY <1>1, <1>4, <1>6, RowAppended
  <1>10. PriceInv'
    BY <1>1, <1>5, <1>9 DEF PriceInv
  <1>11. n \in Nat
    BY <1>7
  <1> HIDE DEF n
  <1>12. /\ x \in Request /\ x.type = "supplier_price_change" /\ x.target = n
         /\ x.status = "pending" /\ x.retires = {}
    BY <1>8, <1>11 DEF Ask, Request, Types, Proposed
  <1>13. Gains(x)
    BY <1>1, <1>12, AskGains
  <1> HIDE DEF x
  <1>14. Carried /\ \A type : x.type # type => Spares(type)
    BY <1>12, <1>13, GainsKeeps
  <1>15. \A o \in Pairs : relation[o].version \in Nat
    BY RelationTyped
  <1>16. Widens
    BY <1>1, <1>9, <1>15 DEF Widens
  <1>17. CatalogRows'
    BY <1>1, <1>6, <1>9, <1>14 DEF CatalogRows, Carried
  <1>18. Aims(x, relation', DOMAIN change', DOMAIN bom')
    BY <1>9, <1>12 DEF Aims
  <1>19. CatalogTablesOK'
    BY <1>12, <1>13, <1>16, <1>17, <1>18, GainsTables
  <1>20. PendingChanges' = PendingChanges \cup {n} /\ n \notin PendingChanges
    BY <1>4, <1>9 DEF PendingChanges
  <1>21. Matches(request, Opens(request, x.type), PendingChanges)
    BY <1>12 DEF MatchInv, ChangesMatch
  <1>22. ChangesMatch'
    BY <1>12, <1>13, <1>20, <1>21, OpenedMatch DEF ChangesMatch
  <1> QED BY <1>1, <1>10, <1>12, <1>14, <1>19, <1>22, KeptMatches DEF MatchInv, Leaves

\* Its decision takes both away, and agrees on a price only if the one it
\* replaces is still the active one.
LEMMA DecidePriceKeeps ==
  ASSUME CatalogTablesOK, MatchInv, PriceInv, NEW r \in DOMAIN request, NEW u,
         NEW verdict \in Verdicts, DecidePrice(r, u, verdict)
  PROVE  CatalogTablesOK' /\ Carried /\ MatchInv' /\ Leaves("supplier_price_change") /\ PriceInv'
  <1> DEFINE t == request[r].target
             c == change[t]
             row == [c EXCEPT !.decision = verdict]
  <1>1. /\ Concludes(r, u, "supplier_price_change", verdict)
        /\ SamePrice(r, c, verdict)
        /\ IF verdict = "approved" THEN Agrees(c.of, c.current, c.from)
                                   ELSE UNCHANGED <<agreement, priceVersion>>
        /\ change' = [change EXCEPT ![t].decision = verdict]
        /\ UNCHANGED <<supplier, sku, relation, bom, batch>>
    BY DEF DecidePrice
  <1>2. /\ Rules(r, verdict)
        /\ request[r] \in Request /\ request'[r].status = verdict
        /\ r \in Opens(request, "supplier_price_change")
    BY <1>1, DecisionRules
  <1>3. request[r].type = "supplier_price_change" /\ request[r].status = "pending"
    BY <1>2 DEF Opens
  <1>4. Carried /\ \A type : request[r].type # type => Spares(type)
    BY <1>2, <1>3, RulesKeeps
  <1>5. t \in DOMAIN change
    BY <1>3, ReviewTyped DEF Aims
  <1>6. c \in Change /\ change \in Seq(Change) /\ CatalogRows
    BY <1>5, AgreementTyped DEF CatalogTablesOK
  <1>7. row \in Change /\ row.of = c.of /\ row.current = c.current /\ row.from = c.from
        /\ row.decision = verdict
    BY <1>6 DEF Change
  <1>8. change' = [change EXCEPT ![t] = row]
    BY <1>1
  <1> HIDE DEF row
  <1>9. /\ change' \in Seq(Change) /\ DOMAIN change' = DOMAIN change
        /\ change'[t] = row /\ \A d \in DOMAIN change : d # t => change'[d] = change[d]
    BY <1>5, <1>6, <1>7, <1>8, RowWritten
  <1>10. Supersedes(c, agreement) /\ Follow(agreement)
    BY <1>5 DEF PriceInv
  <1>11. /\ agreement' \in Seq(Agreement) /\ priceVersion' \in [Pairs -> Nat \ {0}]
         /\ Follow(agreement')
         /\ \A d \in DOMAIN change : Supersedes(change[d], agreement')
    <2>1. CASE verdict = "approved"
      <3>1. Current(c.of) = c.current /\ Agrees(c.of, c.current, c.from)
        BY <1>1, <2>1 DEF SamePrice
      <3>2. c.of \in Pairs /\ c.from \in Days
        BY <1>6 DEF Change
      <3>3. BeginsAfter(c.of, c.from)
        <4>1. SUFFICES ASSUME Current(c.of) # 0
                       PROVE  c.from > agreement[Current(c.of)].from
          BY DEF BeginsAfter
        <4>2. c.current \in DOMAIN agreement /\ agreement[c.current].from < c.from
          BY <1>10, <3>1, <4>1 DEF Supersedes
        <4>3. agreement[c.current] \in Agreement
          BY <4>2, AgreementTyped
        <4>4. agreement[c.current].from \in Nat
          BY <4>3, DaysAssumption DEF Agreement
        <4> HIDE DEF c
        <4> QED BY <3>1, <3>2, <4>2, <4>4, DaysAssumption
      <3>4. Agrees(c.of, Current(c.of), c.from)
        BY <3>1
      <3> HIDE DEF c
      <3> QED BY <3>2, <3>3, <3>4, AgreesFollow
    <2>2. CASE verdict # "approved"
      BY <1>1, <1>6, <2>2 DEF PriceInv, CatalogRows
    <2> QED BY <2>1, <2>2
  <1>12. \A d \in DOMAIN change' : Supersedes(change'[d], agreement')
    BY <1>5, <1>7, <1>9, <1>11 DEF Supersedes
  <1>13. PriceInv'
    BY <1>11, <1>12 DEF PriceInv
  <1>14. \A o \in Pairs : relation[o].version \in Nat
    BY RelationTyped
  <1>15. Widens
    BY <1>1, <1>9, <1>14 DEF Widens
  <1>16. CatalogRows'
    BY <1>1, <1>4, <1>6, <1>9, <1>11 DEF CatalogRows, Carried
  <1>17. CatalogTablesOK'
    BY <1>2, <1>4, <1>15, <1>16, SameTables DEF Rules
  <1>18. PendingChanges' = PendingChanges \ {t}
    <2>1. verdict # "pending"
      BY DEF Verdicts
    <2> HIDE DEF t, c
    <2> QED BY <1>5, <1>7, <1>9, <2>1 DEF PendingChanges
  <1>19. Matches(request, Opens(request, "supplier_price_change"), PendingChanges)
    BY DEF MatchInv, ChangesMatch
  <1>20. Matches(request', Opens(request', "supplier_price_change"),
                 PendingChanges \ {request[r].target})
    BY <1>2, <1>19, DecidedMatch
  <1>21. ChangesMatch'
    BY <1>18, <1>20 DEF ChangesMatch
  <1> QED BY <1>1, <1>3, <1>4, <1>13, <1>17, <1>21, KeptMatches DEF MatchInv, Leaves

-----------------------------------------------------------------------------
(* Bills of materials *)

\* No version ends before it begins, and one that waits begins after those that
\* it will end.
BomInv ==
  /\ \A b \in DOMAIN bom : bom[b].from =< bom[b].to
  /\ \A r \in Opens(request, "bom_version") :
       \A b \in request[r].retires : bom[b].from < bom[request[r].target].from

\* A BOM is a record of its type, of which the days are numbers.
LEMMA BomTyped ==
  ASSUME CatalogTablesOK
  PROVE  /\ bom \in Seq(BomRow) /\ DOMAIN bom \subseteq Nat
         /\ \A b \in DOMAIN bom : /\ bom[b] \in BomRow
                                  /\ bom[b].from \in Days /\ bom[b].from \in Nat
                                  /\ bom[b].to \in 0 .. Forever /\ bom[b].to \in Nat
  <1>1. bom \in Seq(BomRow)
    BY DEF CatalogTablesOK, CatalogRows
  <1>2. DOMAIN bom \subseteq Nat /\ \A b \in DOMAIN bom : bom[b] \in BomRow
    BY <1>1, LenProperties, ElementOfSeq
  <1>3. ASSUME NEW b \in DOMAIN bom
        PROVE  /\ bom[b].from \in Days /\ bom[b].from \in Nat
               /\ bom[b].to \in 0 .. Forever /\ bom[b].to \in Nat
    <2>1. bom[b] \in BomRow
      BY <1>2
    <2>2. bom[b].from \in Days /\ bom[b].to \in 0 .. Forever
      BY <2>1 DEF BomRow
    <2>3. bom[b].from \in Nat
      BY <2>2, ForeverIsLast
    <2>4. bom[b].to \in Nat
      BY <2>2, ForeverIsLast
    <2> QED BY <2>2, <2>3, <2>4
  <1> QED BY <1>1, <1>2, <1>3

\* Entering a BOM adds it and its review, which will end earlier ones only.
LEMMA CreateBomKeeps ==
  ASSUME CatalogTablesOK, MatchInv, BomInv, NEW u, NEW new \in Versions, CreateBom(u, new)
  PROVE  CatalogTablesOK' /\ Carried /\ MatchInv' /\ Leaves("bom_version") /\ BomInv'
  <1> DEFINE n == Len(bom) + 1
             conflicting == {b \in DOMAIN bom : bom[b].status # "rejected" /\ Overlap(new, bom[b])}
             ending == IF new.overlap THEN {}
                       ELSE {b \in conflicting : bom[b].status = "approved"}
             x == [Ask("bom_version", n, u) EXCEPT !.retires = ending]
  <1>1. /\ u \in Internal
        /\ new.from =< new.to
        /\ ~new.overlap => \A b \in conflicting : bom[b].from < new.from
        /\ bom' = Append(bom, new)
        /\ Asks(<<x>>)
        /\ UNCHANGED <<supplier, sku, relation, agreement, change, priceVersion, batch>>
    BY DEF CreateBom
  <1>2. CatalogRows /\ bom \in Seq(BomRow)
    BY DEF CatalogTablesOK, CatalogRows
  <1>3. new \in BomRow /\ new.status = "pending"
    <2>1. /\ new.from \in Days /\ new.to \in Days \cup {Forever} /\ new.overlap \in BOOLEAN
          /\ new.status = "pending"
          /\ new = [from |-> new.from, to |-> new.to, overlap |-> new.overlap,
                    status |-> new.status]
      BY DEF Versions
    <2>2. new.to \in 0 .. Forever
      BY <2>1, ForeverIsLast
    <2> QED BY <2>1, <2>2 DEF BomRow
  <1>4. /\ bom' \in Seq(BomRow)
        /\ DOMAIN bom' = DOMAIN bom \cup {n}
        /\ bom'[n] = new
        /\ \A b \in DOMAIN bom : bom'[b] = bom[b]
        /\ n \notin DOMAIN bom
    BY <1>1, <1>2, <1>3, RowAppended
  <1>5. n \in Nat
    BY <1>2, LenProperties
  <1>6. ending \subseteq DOMAIN bom /\ \A b \in ending : bom[b].from < new.from
    BY <1>1
  <1>7. ending \subseteq Nat
    BY <1>6, BomTyped
  <1> HIDE DEF n, ending
  <1>8. u \in People
    BY <1>1 DEF People
  <1>9. /\ x \in Request /\ x.type = "bom_version" /\ x.target = n
        /\ x.status = "pending" /\ x.retires = ending
    BY <1>5, <1>7, <1>8 DEF Ask, Request, Types, Proposed
  <1>10. Gains(x)
    BY <1>1, <1>9, AskGains
  <1> HIDE DEF x
  <1>11. Carried /\ \A type : x.type # type => Spares(type)
    BY <1>9, <1>10, GainsKeeps
  <1>12. \A o \in Pairs : relation[o].version \in Nat
    BY RelationTyped
  <1>13. Widens
    BY <1>1, <1>4, <1>12 DEF Widens
  <1>14. CatalogRows'
    BY <1>1, <1>2, <1>4, <1>11 DEF CatalogRows, Carried
  <1>15. Aims(x, relation', DOMAIN change', DOMAIN bom')
    BY <1>4, <1>6, <1>9 DEF Aims
  <1>16. CatalogTablesOK'
    BY <1>9, <1>10, <1>13, <1>14, <1>15, GainsTables
  <1>17. PendingBoms' = PendingBoms \cup {n} /\ n \notin PendingBoms
    BY <1>3, <1>4 DEF PendingBoms
  <1>18. Matches(request, Opens(request, x.type), PendingBoms)
    BY <1>9 DEF MatchInv, BomsMatch
  <1>19. BomsMatch'
    BY <1>9, <1>10, <1>17, <1>18, OpenedMatch DEF BomsMatch
  <1>20. BomInv'
    <2>1. \A b \in DOMAIN bom' : bom'[b].from =< bom'[b].to
      BY <1>1, <1>4 DEF BomInv
    <2>2. ASSUME NEW r \in Opens(request', "bom_version"), NEW b \in request'[r].retires
          PROVE  bom'[b].from < bom'[request'[r].target].from
      <3>1. r \in DOMAIN request \cup {Len(request) + 1}
        BY <1>10, <2>2 DEF Gains, Opens
      <3>2. CASE r \in DOMAIN request
        <4>1. request'[r] = request[r] /\ r \in Opens(request, "bom_version")
          BY <1>10, <2>2, <3>2 DEF Gains, Opens
        <4>2. request[r].target \in DOMAIN bom /\ request[r].retires \subseteq DOMAIN bom
          BY <3>2, <4>1, ReviewTyped DEF Aims, Opens
        <4> QED BY <1>4, <2>2, <4>1, <4>2 DEF BomInv
      <3>3. CASE r = Len(request) + 1
        <4>1. request'[r] = x
          BY <1>10, <3>3 DEF Gains
        <4> QED BY <1>4, <1>6, <1>9, <2>2, <4>1
      <3> QED BY <3>1, <3>2, <3>3
    <2> QED BY <2>1, <2>2 DEF BomInv
  <1> QED BY <1>1, <1>9, <1>11, <1>16, <1>19, <1>20, KeptMatches DEF MatchInv, Leaves

\* Its decision takes both away, and no BOM ends before it begins.
LEMMA DecideBomKeeps ==
  ASSUME CatalogTablesOK, MatchInv, BomInv, NEW r \in DOMAIN request, NEW u,
         NEW verdict \in Verdicts, DecideBom(r, u, verdict)
  PROVE  CatalogTablesOK' /\ Carried /\ MatchInv' /\ Leaves("bom_version") /\ BomInv'
  <1> DEFINE new == request[r].target
             day == bom[new].from - 1
             ends(b) == verdict = "approved" /\ b \in request[r].retires
  <1>1. /\ Concludes(r, u, "bom_version", verdict)
        /\ bom' = [b \in DOMAIN bom |->
             IF b = new THEN [bom[b] EXCEPT !.status = verdict]
             ELSE IF ends(b) THEN [bom[b] EXCEPT !.to = day] ELSE bom[b]]
        /\ UNCHANGED <<supplier, sku, relation, agreement, change, priceVersion, batch>>
    BY DEF DecideBom
  <1>2. /\ Rules(r, verdict)
        /\ request[r] \in Request /\ request'[r].status = verdict
        /\ r \in Opens(request, "bom_version")
    BY <1>1, DecisionRules
  <1>3. request[r].type = "bom_version" /\ request[r].status = "pending"
    BY <1>2 DEF Opens
  <1>4. Carried /\ \A type : request[r].type # type => Spares(type)
    BY <1>2, <1>3, RulesKeeps
  <1>5. new \in DOMAIN bom /\ request[r].retires \subseteq DOMAIN bom
    BY <1>3, ReviewTyped DEF Aims
  <1>6. \A b \in request[r].retires : bom[b].from < bom[new].from
    BY <1>2 DEF BomInv
  <1>7. day \in 0 .. Forever /\ bom[new].from \in Nat
    BY <1>5, BomTyped, ForeverIsLast
  <1>8. ASSUME NEW b \in DOMAIN bom
        PROVE  /\ bom'[b] \in BomRow /\ bom'[b].from = bom[b].from /\ bom'[b].from =< bom'[b].to
               /\ bom'[b].status = IF b = new THEN verdict ELSE bom[b].status
    <2>1. /\ bom[b] \in BomRow /\ bom[b].from \in Nat /\ bom[b].to \in Nat
          /\ bom[b].from =< bom[b].to
      BY BomTyped DEF BomInv
    <2>2. CASE b = new
      <3>1. bom'[b] = [bom[b] EXCEPT !.status = verdict]
        BY <1>1, <2>2
      <3> HIDE DEF new
      <3>2. bom'[b] \in BomRow /\ bom'[b].from = bom[b].from /\ bom'[b].to = bom[b].to
            /\ bom'[b].status = verdict
        BY <2>1, <3>1 DEF BomRow, Verdicts
      <3> QED BY <2>1, <2>2, <3>2
    <2>3. CASE b # new /\ ends(b)
      <3>1. bom'[b] = [bom[b] EXCEPT !.to = day]
        BY <1>1, <2>3
      <3>2. bom[b].from < bom[new].from
        BY <1>6, <2>3
      <3>3. bom[b].from =< day
        BY <1>7, <2>1, <3>2
      <3> HIDE DEF day, new
      <3>4. bom'[b] \in BomRow /\ bom'[b].from = bom[b].from /\ bom'[b].to = day
            /\ bom'[b].status = bom[b].status
        BY <1>7, <2>1, <3>1 DEF BomRow
      <3> QED BY <2>3, <3>3, <3>4
    <2>4. CASE b # new /\ ~ends(b)
      <3>1. bom'[b] = bom[b]
        BY <1>1, <2>4
      <3> QED BY <2>1, <2>4, <3>1
    <2> QED BY <2>2, <2>3, <2>4
  <1>9. bom' \in Seq(BomRow) /\ DOMAIN bom' = DOMAIN bom
    <2>1. bom \in Seq(BomRow)
      BY BomTyped
    <2>2. Len(bom) \in Nat /\ DOMAIN bom = 1 .. Len(bom)
      BY <2>1, LenProperties
    <2>3. bom' = [b \in DOMAIN bom |-> bom'[b]]
      BY <1>1
    <2>4. bom' \in [1 .. Len(bom) -> BomRow]
      BY <1>8, <2>2, <2>3
    <2> DEFINE m == Len(bom)
    <2> HIDE DEF m
    <2>5. m \in Nat /\ bom' \in [1 .. m -> BomRow] /\ DOMAIN bom = 1 .. m
      BY <2>2, <2>4 DEF m
    <2> QED BY <2>5, SeqDef
  <1>10. CatalogRows
    BY DEF CatalogTablesOK
  <1>11. \A o \in Pairs : relation[o].version \in Nat
    BY RelationTyped
  <1>12. Widens
    BY <1>1, <1>9, <1>11 DEF Widens
  <1>13. CatalogRows'
    BY <1>1, <1>4, <1>9, <1>10 DEF CatalogRows, Carried
  <1>14. CatalogTablesOK'
    BY <1>2, <1>4, <1>12, <1>13, SameTables DEF Rules
  <1>15. PendingBoms' = PendingBoms \ {new}
    <2>1. verdict # "pending"
      BY DEF Verdicts
    <2> HIDE DEF new
    <2> QED BY <1>8, <1>9, <2>1 DEF PendingBoms
  <1>16. Matches(request, Opens(request, "bom_version"), PendingBoms)
    BY DEF MatchInv, BomsMatch
  <1>17. Matches(request', Opens(request', "bom_version"), PendingBoms \ {request[r].target})
    BY <1>2, <1>16, DecidedMatch
  <1>18. BomsMatch'
    BY <1>15, <1>17 DEF BomsMatch
  <1>19. BomInv'
    <2>1. \A b \in DOMAIN bom' : bom'[b].from =< bom'[b].to
      BY <1>8, <1>9
    <2>2. ASSUME NEW q \in Opens(request', "bom_version"), NEW b \in request'[q].retires
          PROVE  bom'[b].from < bom'[request'[q].target].from
      <3>1. q \in DOMAIN request /\ q # r
        BY <1>2, <2>2 DEF Rules, Opens, Verdicts
      <3>2. request'[q] = request[q] /\ q \in Opens(request, "bom_version")
        BY <1>2, <2>2, <3>1 DEF Rules, Opens
      <3>3. request[q].target \in DOMAIN bom /\ request[q].retires \subseteq DOMAIN bom
        BY <3>1, <3>2, ReviewTyped DEF Aims, Opens
      <3>4. bom[b].from < bom[request[q].target].from
        BY <2>2, <3>2 DEF BomInv
      <3>5. bom'[b].from = bom[b].from
            /\ bom'[request[q].target].from = bom[request[q].target].from
        BY <1>8, <2>2, <3>2, <3>3
      <3> QED BY <3>2, <3>4, <3>5
    <2> QED BY <2>1, <2>2 DEF BomInv
  <1> QED BY <1>1, <1>3, <1>4, <1>14, <1>18, <1>19, KeptMatches DEF MatchInv, Leaves

-----------------------------------------------------------------------------
(* What is shown of relations, SKUs and terms *)

\* Whoever supplies something was entered, and what is supplied is in use.
SuppliedInv ==
  \A p \in Pairs : relation[p].status # "none"
                   => supplier[p[1]] # "none" /\ sku[p[2]].status = "approved"

SkuReviews(req, k) == {r \in DOMAIN req : req[r].type = "sku_verification" /\ req[r].target = k}

\* The latest review of a SKU says what the SKU is.
SkuInv ==
  \A k \in Skus : \A r \in SkuReviews(request, k) :
    (\A q \in SkuReviews(request, k) : q =< r) => request[r].status = sku[k].status

\* TermsAreApproved of one relation.
TermsHold(p) ==
  relation[p].status = "active" =>
    \/ Direct(relation[p].by, p[1])
    \/ \E r \in DOMAIN request :
         /\ request[r].type = "supplier_sku_change" /\ request[r].target = p
         /\ request[r].status = "approved" /\ request[r].version + 1 = relation[p].version
         /\ request[r].proposed.terms = relation[p].terms
         /\ request[r].proposed.by = relation[p].by
         /\ relation[p].primary => request[r].proposed.primary

\* Suppliers and SKUs that are in use stay so.
MastersStay ==
  /\ \A s \in Suppliers : supplier[s] # "none" => supplier'[s] # "none"
  /\ \A k \in Skus : sku[k].status = "approved" => sku'[k].status = "approved"

\* Whatever stays in use goes on being supplied.
LEMMA SuppliedStays ==
  ASSUME SuppliedInv, MastersStay,
         \A p \in Pairs : relation'[p].status # "none" => relation[p].status # "none"
  PROVE  SuppliedInv'
  BY DEF SuppliedInv, MastersStay, Pairs

\* A step that is not about SKUs leaves their latest reviews as they are.
LEMMA SkuReviewsStay ==
  ASSUME SkuInv, Carried, Spares("sku_verification"), UNCHANGED sku
  PROVE  SkuInv'
  <1>1. \A r \in DOMAIN request' : request'[r].type = "sku_verification" => r \in DOMAIN request
    BY DEF Carried, Spares, Opens
  <1>2. \A r \in DOMAIN request : request'[r].type = request[r].type
                                  /\ request'[r].target = request[r].target
    BY DEF Carried
  <1>3. \A r \in DOMAIN request : request[r].type = "sku_verification"
                                  => request'[r].status = request[r].status
    BY DEF Carried, Spares, Opens
  <1>4. \A k : SkuReviews(request', k) = SkuReviews(request, k)
    BY <1>1, <1>2 DEF SkuReviews, Carried
  <1>5. SUFFICES ASSUME NEW k \in Skus, NEW r \in SkuReviews(request', k),
                        \A q \in SkuReviews(request', k) : q =< r
                 PROVE  request'[r].status = sku'[k].status
    BY DEF SkuInv
  <1>6. request[r].status = sku[k].status
    BY <1>4, <1>5 DEF SkuInv
  <1>7. request'[r].status = request[r].status
    BY <1>3, <1>4 DEF SkuReviews
  <1> QED BY <1>6, <1>7

\* A relation that keeps its version and its terms keeps them approved.
LEMMA TermsStay ==
  ASSUME CatalogTablesOK, Carried, NEW p, TermsHold(p),
         relation'[p].status = "active" =>
           /\ relation[p].status = "active" /\ relation'[p].version = relation[p].version
           /\ relation'[p].terms = relation[p].terms /\ relation'[p].by = relation[p].by
           /\ relation'[p].primary => relation[p].primary
  PROVE  TermsHold(p)'
  <1>1. SUFFICES ASSUME relation'[p].status = "active", ~Direct(relation'[p].by, p[1])
                 PROVE  \E r \in DOMAIN request' :
                          /\ request'[r].type = "supplier_sku_change" /\ request'[r].target = p
                          /\ request'[r].status = "approved"
                          /\ request'[r].version + 1 = relation'[p].version
                          /\ request'[r].proposed.terms = relation'[p].terms
                          /\ request'[r].proposed.by = relation'[p].by
                          /\ relation'[p].primary => request'[r].proposed.primary
    BY DEF TermsHold
  <1>2. PICK r \in DOMAIN request :
          /\ request[r].type = "supplier_sku_change" /\ request[r].target = p
          /\ request[r].status = "approved" /\ request[r].version + 1 = relation[p].version
          /\ request[r].proposed.terms = relation[p].terms
          /\ request[r].proposed.by = relation[p].by
          /\ relation[p].primary => request[r].proposed.primary
    BY <1>1 DEF TermsHold
  <1>3. /\ r \in DOMAIN request'
        /\ request'[r].type = request[r].type /\ request'[r].target = request[r].target
        /\ request'[r].version = request[r].version
        /\ request'[r].proposed = request[r].proposed
        /\ request'[r].status = "approved"
    BY <1>2 DEF Carried
  <1> QED BY <1>1, <1>2, <1>3

\* A step that leaves relations alone.
LEMMA AllTermsStay ==
  ASSUME CatalogTablesOK, Carried, UNCHANGED relation, TermsAreApproved
  PROVE  TermsAreApproved'
  <1>1. SUFFICES ASSUME NEW p \in Pairs PROVE TermsHold(p)'
    BY DEF TermsAreApproved, TermsHold
  <1>2. TermsHold(p)
    BY DEF TermsAreApproved, TermsHold
  <1> QED BY <1>2, TermsStay

ShownInv == SuppliedInv /\ SkuInv /\ TermsAreApproved

\* A step that is about neither SKUs nor relations.
LEMMA ShownStays ==
  ASSUME CatalogTablesOK, ShownInv, Carried, Spares("sku_verification"),
         UNCHANGED <<sku, relation>>,
         \A s \in Suppliers : supplier[s] # "none" => supplier'[s] # "none"
  PROVE  ShownInv'
  <1>1. MastersStay
    BY DEF MastersStay
  <1>2. SuppliedInv'
    BY <1>1, SuppliedStays DEF ShownInv
  <1> QED BY <1>2, SkuReviewsStay, AllTermsStay DEF ShownInv

\* The review of a SKU that is submitted becomes its latest.
LEMMA SubmitShown ==
  ASSUME CatalogTablesOK, MatchInv, ShownInv, NEW k \in Skus, NEW u \in People,
         NEW conversion \in {"none", "active", "inactive"},
         sku[k].status \in {"none", "rejected"}, SubmitSku(k, u, conversion)
  PROVE  ShownInv'
  <1> DEFINE x == Ask("sku_verification", k, u)
             n == Len(request) + 1
  <1>1. Carried /\ Gains(x)
    BY SubmitKeeps
  <1>2. /\ sku' = [sku EXCEPT ![k] = [status |-> "pending", conversion |-> conversion]]
        /\ UNCHANGED <<supplier, relation>>
    BY DEF SubmitSku
  <1>3. sku \in [Skus -> [status: Verifying, conversion: {"none", "active", "inactive"}]]
    BY DEF CatalogTablesOK, CatalogRows
  <1>4. sku'[k].status = "pending" /\ \A j \in Skus : j # k => sku'[j] = sku[j]
    BY <1>2, <1>3
  <1>5. MastersStay
    BY <1>2, <1>4 DEF MastersStay
  <1>6. SuppliedInv'
    BY <1>2, <1>5, SuppliedStays DEF ShownInv
  <1>7. TermsAreApproved'
    BY <1>1, <1>2, AllTermsStay DEF ShownInv
  <1>8. SkuInv'
    <2>1. x.type = "sku_verification" /\ x.target = k /\ x.status = "pending"
      BY DEF Ask
    <2> HIDE DEF x
    <2>2. /\ DOMAIN request' = DOMAIN request \cup {n} /\ request'[n] = x /\ n \notin DOMAIN request
          /\ \A r \in DOMAIN request : request'[r] = request[r] /\ r < n
      BY <1>1 DEF Gains
    <2>3. DOMAIN request \subseteq Nat /\ n \in Nat
      <3>1. request \in Seq(Request)
        BY DEF CatalogTablesOK, CatalogRows
      <3> QED BY <3>1, LenProperties
    <2> HIDE DEF n
    <2>4. SUFFICES ASSUME NEW j \in Skus, NEW r \in SkuReviews(request', j),
                          \A q \in SkuReviews(request', j) : q =< r
                   PROVE  request'[r].status = sku'[j].status
      BY DEF SkuInv
    <2>5. CASE j = k
      <3>1. n \in SkuReviews(request', k)
        BY <2>1, <2>2 DEF SkuReviews
      <3>2. r \in DOMAIN request \cup {n} /\ n =< r
        BY <2>2, <2>4, <2>5, <3>1 DEF SkuReviews
      <3>3. r = n
        BY <2>2, <2>3, <3>2
      <3> QED BY <1>4, <2>1, <2>2, <2>5, <3>3
    <2>6. CASE j # k
      <3>1. SkuReviews(request', j) = SkuReviews(request, j)
        BY <2>1, <2>2, <2>6 DEF SkuReviews
      <3>2. request'[r] = request[r]
        BY <2>2, <2>4, <3>1 DEF SkuReviews
      <3>3. request[r].status = sku[j].status
        BY <2>4, <3>1 DEF ShownInv, SkuInv
      <3> QED BY <1>4, <2>6, <3>2, <3>3
    <2> QED BY <2>5, <2>6
  <1> QED BY <1>6, <1>7, <1>8 DEF ShownInv

\* The review that is decided is the latest one: the SKU waits for no other.
LEMMA DecideSkuShown ==
  ASSUME CatalogTablesOK, MatchInv, ShownInv, NEW r \in DOMAIN request, NEW u,
         NEW verdict \in Verdicts, DecideSku(r, u, verdict)
  PROVE  ShownInv'
  <1> DEFINE k == request[r].target
  <1>1. Carried /\ Rules(r, verdict)
    BY DecideSkuKeeps
  <1>2. /\ request[r].type = "sku_verification" /\ request[r].status = "pending"
        /\ sku[k].status = "pending"
        /\ sku' = [sku EXCEPT ![k].status = verdict]
        /\ UNCHANGED <<supplier, relation>>
    BY DEF DecideSku, Concludes
  <1>3. /\ sku \in [Skus -> [status: Verifying, conversion: {"none", "active", "inactive"}]]
        /\ k \in Skus
    BY <1>2, ReviewTyped DEF CatalogTablesOK, CatalogRows, Aims
  <1>4. sku'[k].status = verdict /\ \A j \in Skus : j # k => sku'[j] = sku[j]
    <2> HIDE DEF k
    <2> QED BY <1>2, <1>3
  <1>5. MastersStay
    <2> HIDE DEF k
    <2> QED BY <1>2, <1>4 DEF MastersStay
  <1>6. SuppliedInv'
    BY <1>2, <1>5, SuppliedStays DEF ShownInv
  <1>7. TermsAreApproved'
    BY <1>1, <1>2, AllTermsStay DEF ShownInv
  <1>8. SkuInv'
    <2>1. /\ DOMAIN request' = DOMAIN request
          /\ \A q \in DOMAIN request : q # r => request'[q] = request[q]
          /\ \A q \in DOMAIN request : request'[q].type = request[q].type
                                       /\ request'[q].target = request[q].target
      BY <1>1 DEF Rules, Carried
    <2>2. request'[r].status = verdict
      <3>1. request[r] \in Request
        BY ReviewTyped
      <3> QED BY <1>1, <3>1 DEF Rules, Request
    <2>3. \A j : SkuReviews(request', j) = SkuReviews(request, j)
      BY <2>1 DEF SkuReviews
    <2>4. SUFFICES ASSUME NEW j \in Skus, NEW q \in SkuReviews(request, j),
                          \A o \in SkuReviews(request, j) : o =< q
                   PROVE  request'[q].status = sku'[j].status
      BY <2>3 DEF SkuInv
    <2>5. request[q].status = sku[j].status
      BY <2>4 DEF ShownInv, SkuInv
    <2>6. q \in DOMAIN request /\ request[q].type = "sku_verification" /\ request[q].target = j
      BY DEF SkuReviews
    <2>7. CASE j = k
      <3>1. q \in Opens(request, "sku_verification") /\ r \in Opens(request, "sku_verification")
        BY <1>2, <2>5, <2>6, <2>7 DEF Opens
      <3>2. q = r
        BY <2>6, <2>7, <3>1 DEF MatchInv, SkusMatch, Matches
      <3> QED BY <1>4, <2>2, <2>7, <3>2
    <2>8. CASE j # k
      <3>1. q # r
        BY <2>6, <2>8
      <3> QED BY <1>4, <2>1, <2>5, <2>6, <2>8, <3>1
    <2> QED BY <2>7, <2>8
  <1> QED BY <1>6, <1>7, <1>8 DEF ShownInv

\* Terms that are written are in force only if the factory wrote its own.
LEMMA WriteRelationShown ==
  ASSUME CatalogTablesOK, MatchInv, ShownInv, NEW p \in Pairs, NEW u \in People,
         NEW terms \in Terms, NEW primary \in BOOLEAN, WriteRelation(p, u, terms, primary)
  PROVE  ShownInv'
  <1> DEFINE new(status) == [status |-> status, terms |-> terms, primary |-> primary,
                             version |-> relation[p].version + 1, by |-> u]
  <1>1. /\ supplier[p[1]] # "none" /\ sku[p[2]].status = "approved"
        /\ \/ Direct(u, p[1]) /\ relation' = [relation EXCEPT ![p] = new("active")]
           \/ relation' = [relation EXCEPT ![p] = new("pending")]
        /\ UNCHANGED <<supplier, sku>>
    BY DEF WriteRelation
  <1>2. Carried /\ Spares("sku_verification")
    BY WriteRelationKeeps DEF Leaves, Types
  <1>3. relation \in Relations
    BY DEF CatalogTablesOK, CatalogRows
  <1>4. /\ \A o \in Pairs : o # p => relation'[o] = relation[o]
        /\ relation'[p].by = u
        /\ relation'[p].status = "active" => Direct(u, p[1])
    BY <1>1, <1>3 DEF Relations
  <1>5. SuppliedInv'
    BY <1>1, <1>4 DEF ShownInv, SuppliedInv
  <1>6. SkuInv'
    BY <1>1, <1>2, SkuReviewsStay DEF ShownInv
  <1>7. TermsAreApproved'
    <2>1. SUFFICES ASSUME NEW o \in Pairs PROVE TermsHold(o)'
      BY DEF TermsAreApproved, TermsHold
    <2>2. TermsHold(o)
      BY DEF ShownInv, TermsAreApproved, TermsHold
    <2>3. CASE o = p
      BY <1>4, <2>3 DEF TermsHold
    <2>4. CASE o # p
      <3>1. relation'[o] = relation[o]
        BY <1>4, <2>4
      <3> QED BY <1>2, <2>2, <3>1, TermsStay
    <2> QED BY <2>3, <2>4
  <1> QED BY <1>5, <1>6, <1>7 DEF ShownInv

\* Terms that come into force are those of the review.
LEMMA DecideRelationShown ==
  ASSUME CatalogTablesOK, MatchInv, ShownInv, NEW r \in DOMAIN request, NEW u,
         NEW verdict \in Verdicts, DecideRelation(r, u, verdict)
  PROVE  ShownInv'
  <1> DEFINE p == request[r].target
  <1>1. Carried /\ Spares("sku_verification") /\ Rules(r, verdict)
    BY DecideRelationKeeps DEF Leaves, Types
  <1>2. /\ p \in Pairs
        /\ relation[p].status = "pending" /\ relation[p] \in Relation
        /\ relation'[p].version = relation[p].version + 1
        /\ relation'[p].status = IF verdict = "approved" THEN "active" ELSE "inactive"
        /\ relation'[p].terms = relation[p].terms /\ relation'[p].by = relation[p].by
        /\ relation'[p].primary = relation[p].primary
        /\ \A o \in Pairs : o # p =>
             /\ relation'[o].version = relation[o].version
             /\ relation'[o].status = relation[o].status
             /\ relation'[o].terms = relation[o].terms /\ relation'[o].by = relation[o].by
             /\ relation'[o].primary => relation[o].primary
    BY DecideRelationWrites
  <1>3. /\ request[r].type = "supplier_sku_change"
        /\ relation[p].version = request[r].version
        /\ [terms |-> relation[p].terms, primary |-> relation[p].primary, by |-> relation[p].by]
             = request[r].proposed
        /\ UNCHANGED <<supplier, sku>>
    BY DEF DecideRelation, Concludes, AsReviewed
  <1>4. /\ request[r].proposed.terms = relation[p].terms
        /\ request[r].proposed.by = relation[p].by
        /\ request[r].proposed.primary = relation[p].primary
    BY <1>3
  <1>5. /\ r \in DOMAIN request' /\ request'[r].type = "supplier_sku_change"
        /\ request'[r].target = p /\ request'[r].version = request[r].version
        /\ request'[r].proposed = request[r].proposed
    BY <1>1, <1>3 DEF Carried
  <1>6. request'[r].status = verdict
    <2>1. request[r] \in Request
      BY ReviewTyped
    <2> QED BY <1>1, <2>1 DEF Rules, Request
  <1> HIDE DEF p
  <1>7. SuppliedInv'
    <2>1. MastersStay
      BY <1>3 DEF MastersStay
    <2>2. \A o \in Pairs : relation'[o].status # "none" => relation[o].status # "none"
      BY <1>2
    <2> QED BY <2>1, <2>2, SuppliedStays DEF ShownInv
  <1>8. SkuInv'
    BY <1>1, <1>3, SkuReviewsStay DEF ShownInv
  <1>9. ASSUME NEW o \in Pairs, o = p PROVE TermsHold(o)'
    <2>1. SUFFICES ASSUME relation'[o].status = "active"
                   PROVE  \E q \in DOMAIN request' :
                            /\ request'[q].type = "supplier_sku_change" /\ request'[q].target = o
                            /\ request'[q].status = "approved"
                            /\ request'[q].version + 1 = relation'[o].version
                            /\ request'[q].proposed.terms = relation'[o].terms
                            /\ request'[q].proposed.by = relation'[o].by
                            /\ relation'[o].primary => request'[q].proposed.primary
      BY DEF TermsHold
    <2>2. verdict = "approved"
      BY <1>2, <1>9, <2>1
    <2>3. request'[r].version + 1 = relation'[o].version
      BY <1>2, <1>3, <1>5, <1>9
    <2>4. relation'[o].primary => request'[r].proposed.primary
      BY <1>2, <1>4, <1>5, <1>9
    <2> QED BY <1>9, <1>2, <1>4, <1>5, <1>6, <2>2, <2>3, <2>4
  <1>10. TermsAreApproved'
    <2>1. SUFFICES ASSUME NEW o \in Pairs PROVE TermsHold(o)'
      BY DEF TermsAreApproved, TermsHold
    <2>2. TermsHold(o)
      BY DEF ShownInv, TermsAreApproved, TermsHold
    <2>3. CASE o # p
      BY <1>1, <1>2, <2>2, <2>3, TermsStay
    <2> QED BY <1>9, <2>3
  <1> QED BY <1>7, <1>8, <1>10 DEF ShownInv

-----------------------------------------------------------------------------
(* The invariant *)

CatalogInv == CatalogTablesOK /\ MatchInv /\ PriceInv /\ BomInv /\ ShownInv

\* A step that writes no agreement and asks for no change of one.
LEMMA PricesStay ==
  ASSUME PriceInv, UNCHANGED <<agreement, change>>
  PROVE  PriceInv'
  BY DEF PriceInv

\* A step that is not about BOMs.
LEMMA BomsStay ==
  ASSUME CatalogTablesOK, BomInv, Carried, Spares("bom_version"), UNCHANGED bom
  PROVE  BomInv'
  BY DEF BomInv, Carried, Spares, Opens

\* Entering a supplier preserves the invariant.
LEMMA CreateSupplierStep ==
  ASSUME CatalogInv, NEW s \in Suppliers, NEW u \in People, CreateSupplier(s, u)
  PROVE  CatalogInv'
  <1>1. CatalogTablesOK' /\ Carried /\ MatchInv' /\ Leaves("supplier_onboarding")
    BY CreateSupplierKeeps DEF CatalogInv
  <1>2. /\ UNCHANGED <<sku, relation, agreement, change, bom>>
        /\ \/ supplier' = [supplier EXCEPT ![s] = "approved"]
           \/ supplier' = [supplier EXCEPT ![s] = "pending"]
    BY DEF CreateSupplier
  <1>3. Spares("sku_verification") /\ Spares("bom_version")
    BY <1>1 DEF Leaves, Types
  <1>4. supplier \in [Suppliers -> Verifying]
    BY DEF CatalogInv, CatalogTablesOK, CatalogRows
  <1>5. \A t \in Suppliers : supplier[t] # "none" => supplier'[t] # "none"
    BY <1>2, <1>4
  <1>6. ShownInv'
    BY <1>1, <1>2, <1>3, <1>5, ShownStays DEF CatalogInv
  <1>7. PriceInv' /\ BomInv'
    BY <1>1, <1>2, <1>3, PricesStay, BomsStay DEF CatalogInv
  <1> QED BY <1>1, <1>6, <1>7 DEF CatalogInv

\* The decision of a supplier preserves the invariant.
LEMMA DecideSupplierStep ==
  ASSUME CatalogInv, NEW r \in DOMAIN request, NEW u, NEW verdict \in Verdicts,
         DecideSupplier(r, u, verdict)
  PROVE  CatalogInv'
  <1>1. CatalogTablesOK' /\ Carried /\ MatchInv' /\ Leaves("supplier_onboarding")
    BY DecideSupplierKeeps DEF CatalogInv
  <1>2. /\ UNCHANGED <<sku, relation, agreement, change, bom>>
        /\ supplier' = [supplier EXCEPT ![request[r].target] = verdict]
    BY DEF DecideSupplier
  <1>3. Spares("sku_verification") /\ Spares("bom_version")
    BY <1>1 DEF Leaves, Types
  <1>4. supplier \in [Suppliers -> Verifying]
    BY DEF CatalogInv, CatalogTablesOK, CatalogRows
  <1>5. \A t \in Suppliers : supplier[t] # "none" => supplier'[t] # "none"
    BY <1>2, <1>4 DEF Verdicts
  <1>6. ShownInv'
    BY <1>1, <1>2, <1>3, <1>5, ShownStays DEF CatalogInv
  <1>7. PriceInv' /\ BomInv'
    BY <1>1, <1>2, <1>3, PricesStay, BomsStay DEF CatalogInv
  <1> QED BY <1>1, <1>6, <1>7 DEF CatalogInv

\* So does an import,
LEMMA CommitStep ==
  ASSUME CatalogInv, NEW b \in Batches, NEW u \in Internal, CommitSuppliers(b, u)
  PROVE  CatalogInv'
  <1>1. CatalogTablesOK' /\ Carried /\ MatchInv' /\ Leaves("supplier_onboarding")
    BY CommitKeeps DEF CatalogInv
  <1>2. /\ UNCHANGED <<sku, relation, agreement, change, bom>>
        /\ supplier' = [s \in Suppliers |->
             IF \E i \in DOMAIN BatchOf[b].suppliers : BatchOf[b].suppliers[i] = s
             THEN "pending" ELSE supplier[s]]
    BY DEF CommitSuppliers
  <1>3. Spares("sku_verification") /\ Spares("bom_version")
    BY <1>1 DEF Leaves, Types
  <1>4. \A t \in Suppliers : supplier[t] # "none" => supplier'[t] # "none"
    BY <1>2
  <1>5. ShownInv'
    BY <1>1, <1>2, <1>3, <1>4, ShownStays DEF CatalogInv
  <1>6. PriceInv' /\ BomInv'
    BY <1>1, <1>2, <1>3, PricesStay, BomsStay DEF CatalogInv
  <1> QED BY <1>1, <1>5, <1>6 DEF CatalogInv

\* one that is staged or put off,
LEMMA ImportStep ==
  ASSUME CatalogInv, NEW b \in Batches, StageImport(b) \/ DeferCommit(b)
  PROVE  CatalogInv'
  <1>1. CatalogTablesOK' /\ Carried /\ MatchInv' /\ Leaves("none")
    BY ImportsKeep DEF CatalogInv
  <1>2. UNCHANGED <<supplier, sku, relation, agreement, change, bom>>
    BY DEF StageImport, DeferCommit
  <1>3. Spares("sku_verification") /\ Spares("bom_version")
    BY <1>1 DEF Leaves, Types
  <1>4. ShownInv'
    BY <1>1, <1>2, <1>3, ShownStays DEF CatalogInv
  <1>5. PriceInv' /\ BomInv'
    BY <1>1, <1>2, <1>3, PricesStay, BomsStay DEF CatalogInv
  <1> QED BY <1>1, <1>4, <1>5 DEF CatalogInv

\* a SKU that is entered or submitted again,
LEMMA SkuStep ==
  ASSUME CatalogInv, NEW k \in Skus, NEW u \in Internal, CreateSku(k, u) \/ ResubmitSku(k, u)
  PROVE  CatalogInv'
  <1>1. PICK conversion \in {"none", "active", "inactive"} :
          sku[k].status \in {"none", "rejected"} /\ SubmitSku(k, u, conversion)
    <2>1. sku[k].conversion \in {"none", "active", "inactive"}
      BY DEF CatalogInv, CatalogTablesOK, CatalogRows
    <2> QED BY <2>1 DEF CreateSku, ResubmitSku, CanResubmit
  <1>2. u \in People
    BY DEF People
  <1>3. CatalogTablesOK' /\ Carried /\ MatchInv' /\ Leaves("sku_verification")
    BY <1>1, <1>2, SubmitKeeps DEF CatalogInv
  <1>4. UNCHANGED <<supplier, relation, agreement, change, bom>>
    BY <1>1 DEF SubmitSku
  <1>5. Spares("bom_version")
    BY <1>3 DEF Leaves, Types
  <1>6. ShownInv'
    BY <1>1, <1>2, SubmitShown DEF CatalogInv
  <1>7. PriceInv' /\ BomInv'
    BY <1>3, <1>4, <1>5, PricesStay, BomsStay DEF CatalogInv
  <1> QED BY <1>3, <1>6, <1>7 DEF CatalogInv

\* its decision,
LEMMA DecideSkuStep ==
  ASSUME CatalogInv, NEW r \in DOMAIN request, NEW u, NEW verdict \in Verdicts,
         DecideSku(r, u, verdict)
  PROVE  CatalogInv'
  <1>1. CatalogTablesOK' /\ Carried /\ MatchInv' /\ Leaves("sku_verification")
    BY DecideSkuKeeps DEF CatalogInv
  <1>2. UNCHANGED <<agreement, change, bom>>
    BY DEF DecideSku
  <1>3. Spares("bom_version")
    BY <1>1 DEF Leaves, Types
  <1>4. ShownInv'
    BY DecideSkuShown DEF CatalogInv
  <1>5. PriceInv' /\ BomInv'
    BY <1>1, <1>2, <1>3, PricesStay, BomsStay DEF CatalogInv
  <1> QED BY <1>1, <1>4, <1>5 DEF CatalogInv

\* a relation that is written,
LEMMA WriteRelationStep ==
  ASSUME CatalogInv, NEW p \in Pairs, NEW u \in People, NEW terms \in Terms,
         NEW primary \in BOOLEAN, WriteRelation(p, u, terms, primary)
  PROVE  CatalogInv'
  <1>1. CatalogTablesOK' /\ Carried /\ MatchInv' /\ Leaves("supplier_sku_change")
    BY WriteRelationKeeps DEF CatalogInv
  <1>2. UNCHANGED <<agreement, change, bom>>
    BY DEF WriteRelation
  <1>3. Spares("bom_version")
    BY <1>1 DEF Leaves, Types
  <1>4. ShownInv'
    BY WriteRelationShown DEF CatalogInv
  <1>5. PriceInv' /\ BomInv'
    BY <1>1, <1>2, <1>3, PricesStay, BomsStay DEF CatalogInv
  <1> QED BY <1>1, <1>4, <1>5 DEF CatalogInv

\* its decision,
LEMMA DecideRelationStep ==
  ASSUME CatalogInv, NEW r \in DOMAIN request, NEW u, NEW verdict \in Verdicts,
         DecideRelation(r, u, verdict)
  PROVE  CatalogInv'
  <1>1. CatalogTablesOK' /\ Carried /\ MatchInv' /\ Leaves("supplier_sku_change")
    BY DecideRelationKeeps DEF CatalogInv
  <1>2. UNCHANGED <<agreement, change, bom>>
    BY DEF DecideRelation
  <1>3. Spares("bom_version")
    BY <1>1 DEF Leaves, Types
  <1>4. ShownInv'
    BY DecideRelationShown DEF CatalogInv
  <1>5. PriceInv' /\ BomInv'
    BY <1>1, <1>2, <1>3, PricesStay, BomsStay DEF CatalogInv
  <1> QED BY <1>1, <1>4, <1>5 DEF CatalogInv

\* Of a step about prices, everything but the prices.
LEMMA PriceStep ==
  ASSUME CatalogInv, CatalogTablesOK', Carried, MatchInv', PriceInv',
         Spares("sku_verification"), Spares("bom_version"),
         UNCHANGED <<supplier, sku, relation, bom>>
  PROVE  CatalogInv'
  <1>1. ShownInv'
    BY ShownStays DEF CatalogInv
  <1>2. BomInv'
    BY BomsStay DEF CatalogInv
  <1> QED BY <1>1, <1>2 DEF CatalogInv

\* a price that is set or asked for,
LEMMA WritePriceStep ==
  ASSUME CatalogInv, NEW p \in Pairs, NEW u \in People, NEW day \in Days,
         SetPrice(p, u, day) \/ RequestPrice(p, u, day)
  PROVE  CatalogInv'
  <1>1. CASE SetPrice(p, u, day)
    <2>1. CatalogTablesOK' /\ Carried /\ MatchInv' /\ Leaves("none") /\ PriceInv'
      BY <1>1, SetPriceKeeps DEF CatalogInv
    <2>2. Spares("sku_verification") /\ Spares("bom_version")
      BY <2>1 DEF Leaves, Types
    <2>3. UNCHANGED <<supplier, sku, relation, bom>>
      BY <1>1 DEF SetPrice
    <2> QED BY <2>1, <2>2, <2>3, PriceStep
  <1>2. CASE RequestPrice(p, u, day)
    <2>1. CatalogTablesOK' /\ Carried /\ MatchInv' /\ Leaves("supplier_price_change") /\ PriceInv'
      BY <1>2, RequestPriceKeeps DEF CatalogInv
    <2>2. Spares("sku_verification") /\ Spares("bom_version")
      BY <2>1 DEF Leaves, Types
    <2>3. UNCHANGED <<supplier, sku, relation, bom>>
      BY <1>2 DEF RequestPrice
    <2> QED BY <2>1, <2>2, <2>3, PriceStep
  <1> QED BY <1>1, <1>2

\* its decision,
LEMMA DecidePriceStep ==
  ASSUME CatalogInv, NEW r \in DOMAIN request, NEW u, NEW verdict \in Verdicts,
         DecidePrice(r, u, verdict)
  PROVE  CatalogInv'
  <1>1. CatalogTablesOK' /\ Carried /\ MatchInv' /\ Leaves("supplier_price_change") /\ PriceInv'
    BY DecidePriceKeeps DEF CatalogInv
  <1>2. Spares("sku_verification") /\ Spares("bom_version")
    BY <1>1 DEF Leaves, Types
  <1>3. UNCHANGED <<supplier, sku, relation, bom>>
    BY DEF DecidePrice
  <1> QED BY <1>1, <1>2, <1>3, PriceStep

\* Of a step about BOMs, everything but the BOMs.
LEMMA BomStep ==
  ASSUME CatalogInv, CatalogTablesOK', Carried, MatchInv', Leaves("bom_version"), BomInv',
         UNCHANGED <<supplier, sku, relation, agreement, change>>
  PROVE  CatalogInv'
  <1>1. Spares("sku_verification")
    BY DEF Leaves, Types
  <1>2. ShownInv'
    BY <1>1, ShownStays DEF CatalogInv
  <1>3. PriceInv'
    BY PricesStay DEF CatalogInv
  <1> QED BY <1>2, <1>3 DEF CatalogInv

\* a BOM that is entered, and its decision.
LEMMA AnyBomStep ==
  ASSUME CatalogInv
  PROVE  /\ \A u \in Internal : \A new \in Versions : CreateBom(u, new) => CatalogInv'
         /\ \A r \in DOMAIN request : \A u \in Internal : \A verdict \in Verdicts :
              DecideBom(r, u, verdict) => CatalogInv'
  <1>1. ASSUME NEW u \in Internal, NEW new \in Versions, CreateBom(u, new)
        PROVE  CatalogInv'
    <2>1. CatalogTablesOK' /\ Carried /\ MatchInv' /\ Leaves("bom_version") /\ BomInv'
      BY <1>1, CreateBomKeeps DEF CatalogInv
    <2>2. UNCHANGED <<supplier, sku, relation, agreement, change>>
      BY <1>1 DEF CreateBom
    <2> QED BY <2>1, <2>2, BomStep
  <1>2. ASSUME NEW r \in DOMAIN request, NEW u \in Internal, NEW verdict \in Verdicts,
               DecideBom(r, u, verdict)
        PROVE  CatalogInv'
    <2>1. CatalogTablesOK' /\ Carried /\ MatchInv' /\ Leaves("bom_version") /\ BomInv'
      BY <1>2, DecideBomKeeps DEF CatalogInv
    <2>2. UNCHANGED <<supplier, sku, relation, agreement, change>>
      BY <1>2 DEF DecideBom
    <2> QED BY <2>1, <2>2, BomStep
  <1> QED BY <1>1, <1>2

\* It holds at first,
LEMMA CatalogStart ==
  ASSUME CatalogInit
  PROVE  CatalogInv
  <1>1. /\ supplier = [s \in Suppliers |-> IF s \in KnownSuppliers THEN "approved" ELSE "none"]
        /\ sku = [k \in Skus |-> [status |-> IF k \in KnownSkus THEN "approved" ELSE "none",
                                  conversion |-> "none"]]
        /\ relation = [p \in Pairs |-> NoRelation]
        /\ agreement = <<>> /\ change = <<>> /\ bom = <<>> /\ request = <<>>
        /\ priceVersion = [p \in Pairs |-> 1]
        /\ batch = [b \in Batches |-> "none"]
    BY DEF CatalogInit
  <1>2. \A S : <<>> \in Seq(S) /\ DOMAIN <<>> = {}
    BY EmptySeq, LenProperties
  <1>3. supplier \in [Suppliers -> Verifying] /\ \A s \in Suppliers : supplier[s] # "pending"
    BY <1>1 DEF Verifying, Verdicts
  <1>4. /\ sku \in [Skus -> [status: Verifying, conversion: {"none", "active", "inactive"}]]
        /\ \A k \in Skus : sku[k].status # "pending"
    BY <1>1 DEF Verifying, Verdicts
  <1>5. relation \in Relations /\ \A p \in Pairs : relation[p].status = "none"
    BY <1>1 DEF Relations, NoRelation
  <1>6. CatalogTablesOK
    BY <1>1, <1>2, <1>3, <1>4, <1>5 DEF CatalogTablesOK, CatalogRows
  <1>7. \A type : Opens(request, type) = {}
    BY <1>1, <1>2 DEF Opens
  <1>8. /\ PendingSuppliers = {} /\ PendingSkus = {} /\ PendingChanges = {} /\ PendingBoms = {}
        /\ PendingRelations = {} /\ Timely(request, relation) = {}
    BY <1>1, <1>2, <1>3, <1>4, <1>5, <1>7
       DEF PendingSuppliers, PendingSkus, PendingChanges, PendingBoms, PendingRelations, Timely
  <1>9. MatchInv
    BY <1>7, <1>8 DEF MatchInv, SuppliersMatch, SkusMatch, ChangesMatch, BomsMatch,
                      RelationsMatch, Matches
  <1>10. PriceInv
    BY <1>1, <1>2 DEF PriceInv, Follow
  <1>11. BomInv
    BY <1>1, <1>2, <1>7 DEF BomInv
  <1>12. SuppliedInv /\ SkuInv /\ TermsAreApproved
    BY <1>1, <1>2, <1>5 DEF SuppliedInv, SkuInv, SkuReviews, TermsAreApproved
  <1> QED BY <1>6, <1>9, <1>10, <1>11, <1>12 DEF CatalogInv, ShownInv

\* of a step that changes nothing,
LEMMA CatalogStutter ==
  ASSUME CatalogInv, UNCHANGED catalogVars
  PROVE  CatalogInv'
  <1>1. UNCHANGED <<supplier, sku, relation, agreement, change, priceVersion, bom, batch, request>>
    BY DEF catalogVars
  <1>2. CatalogTablesOK'
    BY <1>1 DEF CatalogInv, CatalogTablesOK, CatalogRows
  <1>3. Carried /\ \A type : Spares(type)
    BY <1>1, UnchangedKeeps DEF CatalogInv
  <1>4. MatchInv'
    BY <1>1, <1>3, KeptMatches DEF CatalogInv, MatchInv
  <1>5. PriceInv' /\ BomInv'
    BY <1>1, <1>3, PricesStay, BomsStay DEF CatalogInv
  <1>6. ShownInv'
    BY <1>1, <1>3, ShownStays DEF CatalogInv
  <1> QED BY <1>2, <1>4, <1>5, <1>6 DEF CatalogInv

\* and of every step.
LEMMA CatalogStep ==
  ASSUME CatalogInv, [CatalogNext]_catalogVars
  PROVE  CatalogInv'
  <1>1. CASE \E u \in People :
               \/ \E s \in Suppliers : CreateSupplier(s, u)
               \/ \E p \in Pairs :
                    \/ \E terms \in Terms, primary \in BOOLEAN : WriteRelation(p, u, terms, primary)
                    \/ \E day \in Days : SetPrice(p, u, day) \/ RequestPrice(p, u, day)
    BY <1>1, CreateSupplierStep, WriteRelationStep, WritePriceStep
  <1>2. CASE \E u \in Internal :
               \/ \E b \in Batches : CommitSuppliers(b, u)
               \/ \E k \in Skus : CreateSku(k, u) \/ ResubmitSku(k, u)
               \/ \E new \in Versions : CreateBom(u, new)
    BY <1>2, CommitStep, SkuStep, AnyBomStep
  <1>3. CASE \E u \in Internal : \E r \in DOMAIN request, verdict \in Verdicts :
               \/ DecideSupplier(r, u, verdict) \/ DecideSku(r, u, verdict)
               \/ DecideRelation(r, u, verdict) \/ DecidePrice(r, u, verdict)
               \/ DecideBom(r, u, verdict)
    BY <1>3, DecideSupplierStep, DecideSkuStep, DecideRelationStep, DecidePriceStep, AnyBomStep
  <1>4. CASE \E b \in Batches : StageImport(b) \/ DeferCommit(b)
    BY <1>4, ImportStep
  <1>5. CASE UNCHANGED catalogVars
    BY <1>5, CatalogStutter
  <1> QED BY <1>1, <1>2, <1>3, <1>4, <1>5 DEF CatalogNext

\* The invariant holds of all that suppliers, SKUs, terms, prices and BOMs go
\* through, for any suppliers, users, days and imports.
LEMMA CatalogInvariant == CatalogSpec => []CatalogInv
  <1>1. CatalogInit => CatalogInv
    BY CatalogStart
  <1>2. CatalogInv /\ [CatalogNext]_catalogVars => CatalogInv'
    BY CatalogStep
  <1> QED BY <1>1, <1>2, PTL DEF CatalogSpec

-----------------------------------------------------------------------------
(* The theorems *)

\* The tables hold what they should (CatalogTypeOK), for any suppliers, SKUs,
\* users, days and imports.
THEOREM CatalogTypes == CatalogSpec => []CatalogTypeOK
  <1>1. ASSUME CatalogInv PROVE CatalogTypeOK
    <2>1. CatalogTablesOK /\ CatalogRows
      BY <1>1 DEF CatalogInv, CatalogTablesOK
    <2>2. \A r \in DOMAIN request : /\ request[r].by \in People
                                    /\ request[r].status \in {"pending"} \cup Verdicts
                                    /\ request[r].proposed \in Proposed
                                    /\ request[r].retires \subseteq DOMAIN bom
      BY <2>1, ReviewTyped DEF Request, Aims
    <2> QED BY <2>1, <2>2 DEF CatalogRows, CatalogTypeOK, Relations, Relation, Agreement, Change,
                              BomRow
  <1> QED BY <1>1, CatalogInvariant, PTL

\* What is pending waits for one review, and only what is pending does
\* (TargetsWait): no import, resubmission, or second request of a price or of
\* terms leaves two of them, or none.
THEOREM ReviewsMatchTargets == CatalogSpec => []TargetsWait
  <1>1. ASSUME CatalogInv PROVE TargetsWait
    <2>1. \A type, d : Waiting(type, d) = {r \in Opens(request, type) : request[r].target = d}
      BY DEF Waiting, Opens
    <2>2. ASSUME NEW type, NEW docs, NEW d, Matches(request, Opens(request, type), docs)
          PROVE  Cardinality(Waiting(type, d)) = IF d \in docs THEN 1 ELSE 0
      BY <2>1, <2>2, MatchesCount
    <2>3. /\ SuppliersMatch /\ SkusMatch /\ ChangesMatch /\ BomsMatch /\ RelationsMatch
      BY <1>1 DEF CatalogInv, MatchInv
    <2>4. \A s \in Suppliers : OneWaits(supplier[s] = "pending", "supplier_onboarding", s)
      BY <2>2, <2>3 DEF SuppliersMatch, PendingSuppliers, OneWaits
    <2>5. \A k \in Skus : OneWaits(sku[k].status = "pending", "sku_verification", k)
      BY <2>2, <2>3 DEF SkusMatch, PendingSkus, OneWaits
    <2>6. \A c \in DOMAIN change :
            OneWaits(change[c].decision = "pending", "supplier_price_change", c)
      BY <2>2, <2>3 DEF ChangesMatch, PendingChanges, OneWaits
    <2>7. \A b \in DOMAIN bom : OneWaits(bom[b].status = "pending", "bom_version", b)
      BY <2>2, <2>3 DEF BomsMatch, PendingBoms, OneWaits
    <2>8. ASSUME NEW p \in Pairs
          PROVE  Cardinality({r \in Waiting("supplier_sku_change", p) :
                                request[r].version = relation[p].version})
                   = IF relation[p].status = "pending" THEN 1 ELSE 0
      <3>1. {r \in Waiting("supplier_sku_change", p) : request[r].version = relation[p].version}
              = {r \in Timely(request, relation) : request[r].target = p}
        BY <2>1 DEF Timely
      <3>2. Cardinality({r \in Timely(request, relation) : request[r].target = p})
              = IF p \in PendingRelations THEN 1 ELSE 0
        BY <2>3, MatchesCount DEF RelationsMatch
      <3> QED BY <3>1, <3>2 DEF PendingRelations
    <2> QED BY <2>4, <2>5, <2>6, <2>7, <2>8 DEF TargetsWait
  <1> QED BY <1>1, CatalogInvariant, PTL

\* Prices of one supplier's SKU follow one another (PricesDisjoint), in whatever
\* order the requests against them are decided.
THEOREM PricesFollow == CatalogSpec => []PricesDisjoint
  <1>1. ASSUME CatalogInv PROVE PricesDisjoint
    <2>1. Follow(agreement)
      BY <1>1 DEF CatalogInv, PriceInv
    <2>2. \A a \in DOMAIN agreement : agreement[a].from \in Nat /\ agreement[a].to \in Nat
      <3>1. ASSUME NEW a \in DOMAIN agreement
            PROVE  agreement[a].from \in Nat /\ agreement[a].to \in Nat
        <4>1. agreement[a] \in Agreement
          BY <1>1, AgreementTyped DEF CatalogInv
        <4>2. agreement[a].from \in Days /\ agreement[a].to \in 0 .. Forever
          BY <4>1 DEF Agreement
        <4>3. agreement[a].from \in Nat
          BY <4>2, ForeverIsLast
        <4>4. agreement[a].to \in Nat
          BY <4>2, ForeverIsLast
        <4> QED BY <4>3, <4>4
      <3> QED BY <3>1
    <2>3. SUFFICES ASSUME NEW a \in DOMAIN agreement, NEW b \in DOMAIN agreement,
                          a # b, OfOne(agreement, a, b)
                   PROVE  /\ ~Overlap(agreement[a], agreement[b])
                          /\ ~(agreement[a].active /\ agreement[b].active)
      BY <2>1 DEF Follow, PricesDisjoint, OfOne
    <2>4. ~(agreement[a].active /\ agreement[b].active)
      BY <2>1, <2>3 DEF Follow
    <2>5. ~Overlap(agreement[a], agreement[b])
      <3>1. CASE ~agreement[a].active /\ agreement[b].active
        <4>1. agreement[a].to < agreement[b].from
          BY <2>1, <2>3, <3>1 DEF Follow
        <4> QED BY <2>2, <4>1 DEF Overlap
      <3>2. CASE agreement[a].active /\ ~agreement[b].active
        <4>1. agreement[b].to < agreement[a].from
          BY <2>1, <2>3, <3>2 DEF Follow, OfOne
        <4> QED BY <2>2, <4>1 DEF Overlap
      <3>3. CASE ~agreement[a].active /\ ~agreement[b].active
        BY <2>1, <2>3, <3>3 DEF Follow
      <3> QED BY <2>4, <3>1, <3>2, <3>3
    <2> QED BY <2>4, <2>5
  <1> QED BY <1>1, CatalogInvariant, PTL

\* A supplier delivers on terms that were approved as they were reviewed, or
\* that the factory set for its own (TermsAreApproved), however often they are
\* written meanwhile.
THEOREM TermsWereReviewed == CatalogSpec => []TermsAreApproved
  BY CatalogInvariant, PTL DEF CatalogInv, ShownInv

\* The pages of suppliers, relations, prices and master data answer, and show
\* what the reviews made of them (CatalogShown).
THEOREM CatalogIsShown == CatalogSpec => []CatalogShown
  <1>1. ASSUME CatalogInv PROVE CatalogShown
    <2>1. /\ supplier \in [Suppliers -> Verifying]
          /\ sku \in [Skus -> [status: Verifying, conversion: {"none", "active", "inactive"}]]
      BY <1>1 DEF CatalogInv, CatalogTablesOK, CatalogRows
    <2>2. \A u \in People : SuppliersReply(u) = 200
      <3>1. \A s \in Suppliers : supplier[s] # "none" => SupplierParses(s)
        BY <2>1 DEF SupplierParses, Verifying, Verdicts
      <3> QED BY <3>1 DEF SuppliersReply, InScope
    <2>3. ASSUME NEW u \in People PROVE SupplierSkusReply(u) = 200
      <3>1. ASSUME NEW p \in ShownRelations(FALSE)
            PROVE  RelationParses(p) /\ SummaryShown(u, p[1]) /\ ActiveSku(p[2])
        <4>1. p \in Pairs /\ relation[p].status # "none"
          BY <3>1 DEF ShownRelations
        <4>2. RelationParses(p)
          <5>1. relation[p] \in Relation
            BY <1>1, <4>1, RelationTyped DEF CatalogInv
          <5> QED BY <5>1 DEF Relation, RelationParses
        <4>3. SummaryShown(u, p[1])
          BY <3>1 DEF SummaryShown
        <4>4. ActiveSku(p[2])
          BY <1>1, <4>1 DEF CatalogInv, ShownInv, SuppliedInv, ActiveSku
        <4> QED BY <4>2, <4>3, <4>4
      <3>2. ~ \E p \in ShownRelations(FALSE) : \/ ~RelationParses(p)
                                              \/ ~SummaryShown(u, p[1])
                                              \/ ~ActiveSku(p[2])
        BY <3>1, Zenon
      <3>3. u \in People
        BY <2>3
      <3> QED BY <3>2, <3>3 DEF SupplierSkusReply
    <2>4. \A u \in People : SupplierPricesReply(u) = 200
      <3>1. \A a \in DOMAIN agreement : AgreementParses(a)
        <4>1. SUFFICES ASSUME NEW a \in DOMAIN agreement PROVE AgreementParses(a)
          OBVIOUS
        <4>2. agreement[a].from =< agreement[a].to
          BY <1>1 DEF CatalogInv, PriceInv, Follow
        <4>3. agreement[a] \in Agreement
          BY <1>1, AgreementTyped DEF CatalogInv
        <4>4. agreement[a].from \in Days /\ agreement[a].to \in 0 .. Forever
          BY <4>3 DEF Agreement
        <4>5. agreement[a].from \in Nat /\ Forever \in Nat
          BY <4>4, ForeverIsLast
        <4> QED BY <4>2, <4>4, <4>5 DEF AgreementParses
      <3>2. \A c \in DOMAIN change : PriceRequestParses(c)
        BY <1>1, AgreementTyped DEF CatalogInv, Change, PriceRequestParses, Verdicts
      <3> QED BY <3>1, <3>2 DEF SupplierPricesReply, ShownAgreements, ShownChanges
    <2>5. \A u \in People : MasterDataReply(u) = 200
      <3>1. ASSUME NEW u \in People PROVE MasterDataScope(u) # "forbidden"
        BY DEF MasterDataScope, People
      <3>2. \A u, k : k \in Skus /\ SkuShown(u, k) => SkuParses(k)
        BY <2>1 DEF SkuShown, SkuParses, ActiveSku, Verifying, Verdicts
      <3>3. \A u : \A k \in ShownConversions(u) : ConversionParses(k)
        BY <2>1 DEF ShownConversions, ConversionParses
      <3>4. \A b \in DOMAIN bom : BomParses(b)
        BY <1>1, BomTyped DEF CatalogInv, BomRow, BomParses, Verdicts
      <3> QED BY <3>1, <3>2, <3>3, <3>4 DEF MasterDataReply
    <2>6. \A k \in Skus : LatestReview(k) # {} => LatestReview(k) = {sku[k].status}
      <3>1. SUFFICES ASSUME NEW k \in Skus, LatestReview(k) # {}
                     PROVE  LatestReview(k) = {sku[k].status}
        OBVIOUS
      <3>2. LatestReview(k) = {request[r].status :
              r \in {r \in SkuReviews(request, k) : \A q \in SkuReviews(request, k) : q =< r}}
        BY DEF LatestReview, SkuReviews
      <3>3. \A r \in SkuReviews(request, k) :
              (\A q \in SkuReviews(request, k) : q =< r) => request[r].status = sku[k].status
        BY <1>1 DEF CatalogInv, ShownInv, SkuInv
      <3> QED BY <3>1, <3>2, <3>3
    <2>7. \A k \in Skus : ResubmitOffered(k) => Waiting("sku_verification", k) = {}
      BY <1>1 DEF ResubmitOffered, Waiting, CatalogInv, MatchInv, SkusMatch, Matches, Opens,
                  PendingSkus
    <2>8. \A b \in DOMAIN bom :
            bom[b].status = "approved" => Lifecycle(b, bom[b].from) = "effective"
      <3>1. SUFFICES ASSUME NEW b \in DOMAIN bom, bom[b].status = "approved"
                     PROVE  Lifecycle(b, bom[b].from) = "effective"
        OBVIOUS
      <3>2. bom[b].from =< bom[b].to /\ bom[b].from \in Nat /\ bom[b].to \in Nat
        BY <1>1, BomTyped DEF CatalogInv, BomInv
      <3> QED BY <3>1, <3>2 DEF Lifecycle
    <2> QED BY <2>2, <2>3, <2>4, <2>5, <2>6, <2>7, <2>8 DEF CatalogShown
  <1> QED BY <1>1, CatalogInvariant, PTL

-----------------------------------------------------------------------------
(* What a score is *)

\* What a quotient of natural numbers is rounded to lies between the integers
\* it lies between.
LEMMA RoundedBetween ==
  ASSUME NEW a \in Int, NEW b \in Nat, b > 0, NEW lo \in Int, NEW hi \in Int,
         lo * b =< a, a =< hi * b
  PROVE  Rounded(a, b) \in lo .. hi
  <1> DEFINE c == 2 * b
             n == 2 * a + b
             q == n \div c
  <1>1. c \in Int /\ n \in Int /\ c > 0
    OBVIOUS
  <1>2. c * lo =< n /\ n < c * (hi + 1)
    <2>1. c * lo = 2 * (lo * b) /\ c * (hi + 1) = 2 * (hi * b) + 2 * b
      BY SMT
    <2> QED BY <2>1
  <1>3. q \in Int /\ c * q =< n /\ n < c * (q + 1)
    <2> HIDE DEF c, n
    <2>1. q \in Int /\ c * q =< n /\ n < c * q + c
      BY <1>1, SMT
    <2> QED BY <1>1, <2>1, SMT
  <1>4. lo < q + 1 /\ q < hi + 1
    <2> HIDE DEF c, n, q
    <2>1. \A x \in Int, y \in Int : c * x < c * y => x < y
      <3> TAKE x \in Int, y \in Int
      <3>1. c * y - c * x = c * (y - x)
        BY <1>1, SMT
      <3>2. y - x =< 0 => c * (y - x) =< 0
        BY <1>1, SMT
      <3> QED BY <1>1, <3>1, <3>2, SMT
    <2>2. c * lo < c * (q + 1) /\ c * q < c * (hi + 1)
      BY <1>1, <1>2, <1>3
    <2> QED BY <1>3, <2>1, <2>2
  <1> QED BY <1>3, <1>4 DEF Rounded

LEMMA RoundedType ==
  ASSUME NEW a \in Int, NEW b \in Nat, b > 0
  PROVE  Rounded(a, b) \in Int
  <1>1. 2 * b > 0 /\ 2 * a + b \in Int /\ 2 * b \in Int
    OBVIOUS
  <1> QED BY <1>1, SMT DEF Rounded

\* A finite set of keys has one with the greatest and one with the least value.
LEMMA Extremes ==
  ASSUME NEW S, IsFiniteSet(S), S # {}, NEW f, \A x \in S : f[x] \in Int
  PROVE  /\ \E x \in S : Max({f[y] : y \in S}) = f[x] /\ \A y \in S : f[y] =< f[x]
         /\ \E x \in S : Min({f[y] : y \in S}) = f[x] /\ \A y \in S : f[x] =< f[y]
  <1> DEFINE C == {T \in SUBSET S : T = {} \/ /\ \E x \in T : \A y \in T : f[y] =< f[x]
                                              /\ \E x \in T : \A y \in T : f[x] =< f[y]}
  <1>1. {} \in C
    OBVIOUS
  <1>2. ASSUME NEW T \in SUBSET S, NEW z \in S, T \in C, z \notin T
        PROVE  T \cup {z} \in C
    <2>1. CASE T = {}
      BY <2>1
    <2>2. CASE T # {}
      <3>1. PICK x \in T : \A y \in T : f[y] =< f[x]
        BY <1>2, <2>2
      <3>2. PICK w \in T : \A y \in T : f[w] =< f[y]
        BY <1>2, <2>2
      <3>3. \E u \in T \cup {z} : \A y \in T \cup {z} : f[y] =< f[u]
        BY <3>1
      <3>4. \E u \in T \cup {z} : \A y \in T \cup {z} : f[u] =< f[y]
        BY <3>2
      <3> QED BY <3>3, <3>4
    <2> QED BY <2>1, <2>2
  <1>3. S \in C
    <2> HIDE DEF C
    <2> QED BY <1>1, <1>2, SetInduction
  <1> DEFINE V == {f[y] : y \in S}
  <1>4. PICK x \in S : \A y \in S : f[y] =< f[x]
    BY <1>3
  <1>5. PICK w \in S : \A y \in S : f[w] =< f[y]
    BY <1>3
  <1>6. Max(V) = f[x]
    BY <1>4 DEF Max
  <1>7. Min(V) = f[w]
    BY <1>5 DEF Min
  <1> QED BY <1>4, <1>5, <1>6, <1>7

-----------------------------------------------------------------------------
(* Rankings *)

Weights == [Metrics -> Nat]
Measured == [Metrics -> Int]

\* What the server may reply with.
Rankings == UNION {[S -> [metrics: Measured, score: Int]] : S \in SUBSET Suppliers}
RatingSets == UNION {[K -> 1 .. 5] : K \in SUBSET Ratings}
Replies == [selection: Selections, weights: Weights, rankings: Rankings, ratings: RatingSets]

WeightingSets == UNION {[K -> Weights] : K \in SUBSET (Tiers \X Effective)}

ServerTypeOK == /\ today \in Nat
                /\ rating \in RatingSets /\ IsFiniteSet(DOMAIN rating)
                /\ weighting \in WeightingSets
                /\ shipped \in [Shipments -> Nat]

LEMMA MetricsFinite == IsFiniteSet(Metrics)
  <1>1. Metrics = (((((({} \cup {"delivery"}) \cup {"quality"}) \cup {"exception"}) \cup {"preparation"})
                     \cup {"satisfaction"}) \cup {"sampling"})
    BY DEF Metrics, Ways
  <1> QED BY <1>1, FS_EmptySet, FS_AddElement

LEMMA DefaultsAreWeights == \A t \in Tiers : DefaultWeights[t] \in Weights
  BY DEF Tiers, DefaultWeights, Weights, Metrics, Ways

LEMMA WeightsType ==
  ASSUME ServerTypeOK, NEW t \in Tiers
  PROVE  WeightsOf(t) \in Weights
  <1> DEFINE begun == {day \in Effective : day =< today /\ <<t, day>> \in DOMAIN weighting}
  <1>1. CASE begun = {}
    BY <1>1, DefaultsAreWeights DEF WeightsOf
  <1>2. CASE begun # {}
    <2>1. IsFiniteSet(begun) /\ \A day \in begun : day \in Int
      <3>1. begun \in SUBSET Effective /\ IsFiniteSet(Effective) /\ Effective \subseteq Nat
        BY PerformanceAssumption
      <3> HIDE DEF begun
      <3>2. IsFiniteSet(begun)
        BY <3>1, FS_Subset, Zenon
      <3>3. \A day \in begun : day \in Int
        BY <3>1
      <3> QED BY <3>2, <3>3
    <2> DEFINE f == [day \in begun |-> day]
    <2>2. \A day \in begun : f[day] \in Int
      BY <2>1
    <2>3. \E day \in begun : Max({f[y] : y \in begun}) = f[day]
      <3> HIDE DEF f, begun
      <3> QED BY <1>2, <2>1, <2>2, Extremes
    <2>4. Max(begun) \in begun
      <3>1. {f[y] : y \in begun} = begun
        OBVIOUS
      <3> QED BY <2>3, <3>1
    <2>5. WeightsOf(t) = weighting[<<t, Max(begun)>>] /\ <<t, Max(begun)>> \in DOMAIN weighting
      BY <1>2, <2>4 DEF WeightsOf
    <2> QED BY <2>5 DEF ServerTypeOK, WeightingSets
  <1> QED BY <1>1, <1>2

LEMMA AverageType ==
  ASSUME ServerTypeOK, NEW s, NEW q, NEW way
  PROVE  Average(s, q, way) \in Int
  <1> DEFINE own == {k \in DOMAIN rating : k[1] = s /\ k[2] = q /\ k[3] = way}
  <1>1. CASE own = {}
    BY <1>1 DEF Average
  <1>2. CASE own # {}
    <2>1. IsFiniteSet(own) /\ IsFiniteSet(DOMAIN rating) /\ own \in SUBSET (DOMAIN rating)
      BY FS_Subset DEF ServerTypeOK
    <2>2. rating \in [DOMAIN rating -> Int]
      BY DEF ServerTypeOK, RatingSets
    <2>3. SumOf(rating, own) \in Int
      BY <2>1, <2>2, SumType
    <2>4. Cardinality(own) \in Nat /\ Cardinality(own) > 0
      BY <1>2, <2>1, FS_CardinalityType, FS_EmptySet
    <2>5. Average(s, q, way) = Rounded(200 * SumOf(rating, own), Cardinality(own))
      BY <1>2 DEF Average, SumOf
    <2> QED BY <2>3, <2>4, <2>5, RoundedType
  <1> QED BY <1>1, <1>2

LEMMA DeliveryRateType ==
  ASSUME ServerTypeOK, NEW s, NEW q
  PROVE  DeliveryRate(s, q) \in Int
  <1> DEFINE counted == {d \in Shipments : /\ ShippedBy[d] = s /\ DueIn(d, q)
                                           /\ shipped[d] > 0 \/ PlannedOn[d] < today}
             punctual == {d \in counted : shipped[d] = PlannedOn[d]}
  <1>1. CASE counted = {}
    BY <1>1 DEF DeliveryRate
  <1>2. CASE counted # {}
    <2>1. IsFiniteSet(counted) /\ IsFiniteSet(punctual)
      BY PerformanceAssumption, FS_Subset
    <2>2. /\ Cardinality(counted) \in Nat /\ Cardinality(counted) > 0
          /\ Cardinality(punctual) \in Nat
      BY <1>2, <2>1, FS_CardinalityType, FS_EmptySet
    <2>3. DeliveryRate(s, q) = Rounded(1000 * Cardinality(punctual), Cardinality(counted))
      BY <1>2 DEF DeliveryRate
    <2> QED BY <2>2, <2>3, RoundedType
  <1> QED BY <1>1, <1>2

LEMMA MetricsType ==
  ASSUME ServerTypeOK, NEW s, NEW q
  PROVE  MetricsOf(s, q) \in Measured
  BY AverageType, DeliveryRateType DEF MetricsOf, Measured

\* The score of a supplier lies between the lowest and the highest metric that
\* there is and that counts.
LEMMA ScoreBetween ==
  ASSUME NEW metrics \in Measured, NEW weights \in Weights,
         Available(metrics, weights) # {}
  PROVE  LET given == {metrics[m] : m \in Available(metrics, weights)}
         IN  Score(metrics, weights) \in Int /\ Score(metrics, weights) \in Min(given) .. Max(given)
  <1> DEFINE A == Available(metrics, weights)
             given == {metrics[m] : m \in A}
             total == SumOf(weights, A)
             p == [m \in Metrics |-> Max({metrics[m], 0}) * weights[m]]
  <1>1. /\ IsFiniteSet(A) /\ A \in SUBSET Metrics /\ A # {}
        /\ \A m \in A : metrics[m] \in Nat /\ weights[m] \in Nat /\ weights[m] > 0
    BY MetricsFinite, FS_Subset DEF Available, Measured, Weights
  <1>2. PICK top \in A : Max(given) = metrics[top] /\ \A y \in A : metrics[y] =< metrics[top]
    <2>1. \A x \in A : metrics[x] \in Int
      BY <1>1
    <2> HIDE DEF A
    <2> QED BY <1>1, <2>1, Extremes
  <1>3. PICK low \in A : Min(given) = metrics[low] /\ \A y \in A : metrics[low] =< metrics[y]
    <2>1. \A x \in A : metrics[x] \in Int
      BY <1>1
    <2> HIDE DEF A
    <2> QED BY <1>1, <2>1, Extremes
  <1> DEFINE w == [m \in A |-> weights[m]]
             v == [m \in A |-> metrics[m] * weights[m]]
             lo == metrics[low]
             hi == metrics[top]
             l == [m \in A |-> lo * weights[m]]
             h == [m \in A |-> hi * weights[m]]
  <1>4. lo \in Nat /\ hi \in Nat
    BY <1>1
  <1>5. \A a, b \in Nat : a * b \in Nat
    BY SMT
  <1>6. \A a, b, c \in Nat : a =< b => a * c =< b * c
    BY SMT
  <1> HIDE DEF lo, hi, A
  <1>7. /\ w \in [A -> Int] /\ w \in [A -> Nat] /\ v \in [A -> Int]
        /\ l \in [A -> Int] /\ h \in [A -> Int]
    <2>1. /\ \A m \in A : weights[m] \in Nat
          /\ \A m \in A : metrics[m] * weights[m] \in Nat
          /\ \A m \in A : lo * weights[m] \in Nat
          /\ \A m \in A : hi * weights[m] \in Nat
      BY <1>1, <1>4, <1>5
    <2>2. \A n \in Nat : n \in Int
      OBVIOUS
    <2> QED BY <2>1, <2>2, Zenon
  <1>8. \A m \in A : l[m] =< v[m] /\ v[m] =< h[m]
    BY <1>1, <1>2, <1>3, <1>4, <1>6 DEF lo, hi
  <1>9. SumOf(l, A) =< SumOf(v, A) /\ SumOf(v, A) =< SumOf(h, A)
    <2> HIDE DEF l, v, h
    <2> QED BY <1>1, <1>7, <1>8, SumAtMost
  <1>10. SumOf(l, A) = lo * SumOf(w, A) /\ SumOf(h, A) = hi * SumOf(w, A)
    <2>1. \A m \in A : l[m] = lo * w[m] /\ h[m] = hi * w[m]
      OBVIOUS
    <2>2. lo \in Int /\ hi \in Int
      BY <1>4
    <2> HIDE DEF l, h, w
    <2> QED BY <1>1, <1>7, <2>1, <2>2, SumScaled
  <1>11. SumOf(weights, A) = SumOf(w, A)
    <2>1. Same(w, weights, A)
      BY <1>1 DEF Same
    <2> QED BY <2>1, SumSame
  <1>12. SumOf(p, A) = SumOf(v, A)
    <2>1. \A n \in Nat : Max({n, 0}) = n
      BY DEF Max
    <2>2. \A m \in A : p[m] = v[m]
      BY <1>1, <2>1
    <2>3. Same(v, p, A)
      BY <1>1, <2>2 DEF Same
    <2> HIDE DEF v, p
    <2> QED BY <2>3, SumSame
  <1>13. SumOf(v, A) \in Int /\ SumOf(w, A) \in Nat /\ SumOf(w, A) > 0
    <2>1. A \in SUBSET A
      OBVIOUS
    <2>2. SumOf(v, A) \in Int
      <3> HIDE DEF v
      <3> QED BY <1>1, <1>7, <2>1, SumType
    <2>3. SumOf(w, A) \in Nat /\ \A m \in A : w[m] =< SumOf(w, A)
      <3> HIDE DEF w
      <3> QED BY <1>1, <1>7, <2>1, SumNat
    <2> QED BY <1>1, <2>2, <2>3
  <1>14. Score(metrics, weights) = Rounded(SumOf(p, A), SumOf(weights, A))
    BY <1>1 DEF Score, SumOf, A
  <1>15. Score(metrics, weights) \in lo .. hi
    <2> HIDE DEF v, w, l, h, p
    <2> QED BY <1>4, <1>9, <1>10, <1>11, <1>12, <1>13, <1>14, RoundedBetween
  <1>16. Score(metrics, weights) \in Int
    BY <1>4, <1>15
  <1> QED BY <1>2, <1>3, <1>15, <1>16 DEF A, lo, hi

\* A row of a ranking as NoFalseScore has it.
TrueScore(row, weights) ==
  LET given == {row.metrics[m] : m \in {x \in Metrics : row.metrics[x] >= 0 /\ weights[x] > 0}}
  IN IF given = {} THEN row.score = -1 ELSE row.score \in Min(given) .. Max(given)

\* What the server replies is well formed, ranks nobody by missing data, and
\* holds every rating of the quarter of each supplier it ranks.
LEMMA ReplyIsTrue ==
  ASSUME ServerTypeOK, NEW sel \in Selections
  PROVE  /\ Reply(sel) \in Replies
         /\ NoFalseScore(Reply(sel))
  <1> DEFINE ranked == Ranked(sel[2])
             weights == WeightsOf(sel[2])
             row(s) == [metrics |-> MetricsOf(s, sel[1]), score |-> Score(MetricsOf(s, sel[1]), weights)]
             shown == {r \in DOMAIN rating : r[1] \in ranked /\ r[2] = sel[1]}
  <1>1. weights \in Weights /\ ranked \in SUBSET Suppliers
    BY PerformanceAssumption, WeightsType DEF Tiers, Ranked
  <1>2. ASSUME NEW s \in ranked
        PROVE  row(s) \in [metrics: Measured, score: Int] /\ TrueScore(row(s), weights)
    <2> DEFINE metrics == MetricsOf(s, sel[1])
    <2>1. metrics \in Measured
      BY MetricsType
    <2>2. {x \in Metrics : metrics[x] >= 0 /\ weights[x] > 0} = Available(metrics, weights)
      BY DEF Available
    <2>3. CASE Available(metrics, weights) = {}
      <3>1. Score(metrics, weights) = -1
        BY <2>3 DEF Score
      <3> QED BY <2>1, <2>2, <2>3, <3>1 DEF TrueScore
    <2>4. CASE Available(metrics, weights) # {}
      <3> HIDE DEF metrics, weights
      <3>1. /\ Score(metrics, weights) \in Int
            /\ Score(metrics, weights) \in Min({metrics[m] : m \in Available(metrics, weights)})
                                           .. Max({metrics[m] : m \in Available(metrics, weights)})
        BY <1>1, <2>1, <2>4, ScoreBetween
      <3>2. {metrics[m] : m \in Available(metrics, weights)} # {}
        BY <2>4
      <3> QED BY <2>1, <2>2, <3>1, <3>2 DEF metrics, TrueScore
    <2> QED BY <2>3, <2>4
  <1>3. Reply(sel) = [selection |-> sel, weights |-> weights, rankings |-> [s \in ranked |-> row(s)],
                      ratings |-> [k \in shown |-> rating[k]]]
    BY DEF Reply
  <1>4. [s \in ranked |-> row(s)] \in Rankings
    <2>1. [s \in ranked |-> row(s)] \in [ranked -> [metrics: Measured, score: Int]]
      <3> HIDE DEF row, ranked
      <3> QED BY <1>2
    <2>2. \A S \in SUBSET Suppliers : \A f : f \in [S -> [metrics: Measured, score: Int]] => f \in Rankings
      BY DEF Rankings
    <2> DEFINE rankings == [s \in ranked |-> row(s)]
    <2>3. ranked \in SUBSET Suppliers
      BY <1>1
    <2> HIDE DEF rankings, ranked
    <2> QED BY <2>1, <2>2, <2>3 DEF rankings
  <1>5. [k \in shown |-> rating[k]] \in RatingSets
    <2>1. shown \in SUBSET Ratings /\ \A k \in shown : rating[k] \in 1 .. 5
      BY DEF ServerTypeOK, RatingSets
    <2> HIDE DEF shown
    <2>2. [k \in shown |-> rating[k]] \in [shown -> 1 .. 5]
      BY <2>1
    <2>3. \A K \in SUBSET Ratings : \A f : f \in [K -> 1 .. 5] => f \in RatingSets
      BY DEF RatingSets
    <2> DEFINE ratings == [k \in shown |-> rating[k]]
    <2> HIDE DEF ratings
    <2> QED BY <2>1, <2>2, <2>3 DEF ratings
  <1>6. Reply(sel) \in Replies
    <2> HIDE DEF row, ranked, weights, shown
    <2> QED BY <1>1, <1>3, <1>4, <1>5 DEF Replies
  <1>7. NoFalseScore(Reply(sel))
    <2>1. \A s \in ranked : Reply(sel).rankings[s] = row(s)
      BY <1>3
    <2>2. DOMAIN Reply(sel).rankings = ranked /\ Reply(sel).weights = weights
      BY <1>3
    <2>3. \A s \in DOMAIN Reply(sel).rankings :
            TrueScore(Reply(sel).rankings[s], Reply(sel).weights)
      <3> HIDE DEF ranked, weights, row
      <3> QED BY <1>2, <2>1, <2>2
    <2> QED BY <2>3 DEF NoFalseScore, TrueScore
  <1> QED BY <1>6, <1>7

-----------------------------------------------------------------------------
(* The page of rankings *)

LoadRequest == [selection: Selections \cup {Nothing}, effect: BOOLEAN,
                state: {"open", "answered", "refused", "done", "failed", "aborted"},
                reply: Replies \cup {Nothing}]
ReviewCommands == [key: Ratings, score: 1 .. 5]
WeightCommands == [tier: Tiers, from: Effective, weights: Weightings]

PageTypeOK ==
  /\ selection \in Selections
  /\ load \in Seq(LoadRequest) /\ Len(load) > 0
  /\ loaded \in Replies
  /\ saving \in [phase: {"no", "sent", "saved", "loading"}, load: Nat,
                 command: {Nothing} \cup ReviewCommands \cup WeightCommands]

\* A reply that shows the selection, with my ratings as they are.
Fresh(reply) ==
  /\ reply.selection = selection
  /\ \A k \in DOMAIN rating :
       (k[4] = Me /\ k[1] \in DOMAIN reply.rankings /\ k[2] = selection[1]) =>
         k \in DOMAIN reply.ratings /\ reply.ratings[k] = rating[k]

\* What is sent names rows that may be written, and is not a request yet.
SavingOK ==
  /\ saving.phase = "sent" => saving.command \in ReviewCommands \cup WeightCommands
  /\ saving.phase \in {"sent", "saved"} => saving.load = 0

\* Answers are replies that make no false score. The newest request is for what
\* is selected, and its reply is fresh, unless a rating was saved since: then
\* another request is to come before the page settles.
RankingInv ==
  /\ ServerTypeOK /\ PageTypeOK /\ SavingOK
  /\ \A n \in DOMAIN load :
       /\ load[n].state = "open" => load[n].selection \in Selections
       /\ load[n].state = "answered" => load[n].reply \in Replies /\ NoFalseScore(load[n].reply)
  /\ LET newest == load[Len(load)]
     IN /\ newest.state \in {"open", "answered", "refused"} => newest.selection = selection
        /\ saving.phase # "saved" =>
             /\ newest.state = "answered" => Fresh(newest.reply)
             /\ newest.state = "done" => Fresh(loaded)

\* A rating saved is the rating of its key; the others stay.
LEMMA WriteReviewEffect ==
  ASSUME ServerTypeOK, NEW key \in Ratings, NEW score \in 1 .. 5, WriteReview(key, score)
  PROVE  /\ ServerTypeOK'
         /\ \A k \in DOMAIN rating' : k # key => k \in DOMAIN rating /\ rating'[k] = rating[k]
  <1> DEFINE K == DOMAIN rating \cup {key}
             f == [k \in K |-> IF k = key THEN score ELSE rating[k]]
  <1>1. rating' = f
    BY DEF WriteReview, Upserted
  <1>2. K \in SUBSET Ratings /\ \A k \in K : f[k] \in 1 .. 5
    BY DEF ServerTypeOK, RatingSets
  <1>3. f \in [K -> 1 .. 5]
    BY <1>2
  <1>4. \A L \in SUBSET Ratings : \A g : g \in [L -> 1 .. 5] => g \in RatingSets
    BY DEF RatingSets
  <1>5. rating' \in RatingSets /\ DOMAIN rating' = K
    <2>1. DOMAIN f = K
      OBVIOUS
    <2> HIDE DEF f, K
    <2> QED BY <1>1, <1>2, <1>3, <1>4, <2>1
  <1>6. IsFiniteSet(K)
    BY FS_AddElement DEF ServerTypeOK
  <1>7. UNCHANGED <<today, weighting, shipped>>
    BY DEF WriteReview
  <1>8. ServerTypeOK'
    <2> HIDE DEF K
    <2> QED BY <1>5, <1>6, <1>7 DEF ServerTypeOK
  <1>9. \A k \in DOMAIN rating' : k # key => k \in DOMAIN rating /\ rating'[k] = rating[k]
    BY <1>1
  <1> QED BY <1>8, <1>9

LEMMA WriteWeightsEffect ==
  ASSUME ServerTypeOK, NEW t \in Tiers, NEW from \in Effective, NEW w \in Weightings,
         WriteWeights(t, from, w)
  PROVE  ServerTypeOK' /\ UNCHANGED rating
  <1> DEFINE key == <<t, from>>
             K == DOMAIN weighting \cup {key}
             f == [k \in K |-> IF k = key THEN w ELSE weighting[k]]
  <1>1. weighting' = f
    BY DEF WriteWeights, Upserted
  <1>2. w \in Weights
    <2>1. w \in [Metrics -> Int] /\ \A m \in Metrics : w[m] >= 0
      BY WeightingsAssumption DEF WriteWeights
    <2>2. \A m \in Metrics : w[m] \in Nat
      BY <2>1
    <2> QED BY <2>1, <2>2, Zenon DEF Weights
  <1>3. K \in SUBSET (Tiers \X Effective) /\ \A k \in K : f[k] \in Weights
    BY <1>2 DEF ServerTypeOK, WeightingSets
  <1>4. f \in [K -> Weights]
    BY <1>3
  <1>5. \A L \in SUBSET (Tiers \X Effective) : \A g : g \in [L -> Weights] => g \in WeightingSets
    BY DEF WeightingSets
  <1>6. weighting' \in WeightingSets
    <2> HIDE DEF f, K
    <2> QED BY <1>1, <1>3, <1>4, <1>5
  <1> QED BY <1>6 DEF ServerTypeOK, WriteWeights

\* What happens elsewhere leaves my ratings alone.
LEMMA ElsewhereEffect ==
  ASSUME ServerTypeOK, Elsewhere
  PROVE  /\ ServerTypeOK' /\ UNCHANGED pageVars
         /\ \A k \in DOMAIN rating' : k[4] = Me => k \in DOMAIN rating /\ rating'[k] = rating[k]
  <1>1. ASSUME NEW key \in Ratings, NEW score \in Scores, key[4] # Me, WriteReview(key, score)
        PROVE  /\ ServerTypeOK'
               /\ \A k \in DOMAIN rating' : k[4] = Me => k \in DOMAIN rating /\ rating'[k] = rating[k]
    <2>1. score \in 1 .. 5
      BY PerformanceAssumption
    <2> QED BY <1>1, <2>1, WriteReviewEffect
  <1>2. ASSUME NEW t \in Tiers, NEW from \in Effective, NEW w \in Weightings, WriteWeights(t, from, w)
        PROVE  ServerTypeOK' /\ UNCHANGED rating
    BY <1>2, WriteWeightsEffect
  <1>3. ASSUME NEW d \in Shipments, shipped' = [shipped EXCEPT ![d] = today],
               UNCHANGED <<today, rating, weighting>>
        PROVE  ServerTypeOK' /\ UNCHANGED rating
    BY <1>3 DEF ServerTypeOK
  <1>4. ASSUME today' = today + 1, UNCHANGED <<rating, weighting, shipped>>
        PROVE  ServerTypeOK' /\ UNCHANGED rating
    BY <1>4 DEF ServerTypeOK
  <1> QED BY <1>1, <1>2, <1>3, <1>4 DEF Elsewhere

\* A request more.
LEMMA Requested ==
  ASSUME NEW s \in Seq(LoadRequest), NEW sel \in Selections, NEW effect \in BOOLEAN
  PROVE  LET more == Append(s, Loading(sel, effect))
         IN  /\ more \in Seq(LoadRequest) /\ Len(more) = Len(s) + 1
             /\ DOMAIN more = 1 .. Len(s) + 1
             /\ more[Len(s) + 1] = Loading(sel, effect)
             /\ \A n \in 1 .. Len(s) : more[n] = s[n]
  <1>1. Loading(sel, effect) \in LoadRequest
    BY DEF Loading, LoadRequest
  <1> QED BY <1>1

\* One request changed.
LEMMA Answered ==
  ASSUME NEW s \in Seq(LoadRequest), NEW n \in DOMAIN s, NEW r \in LoadRequest,
         NEW t, t = [s EXCEPT ![n] = r]
  PROVE  /\ t \in Seq(LoadRequest) /\ Len(t) = Len(s) /\ DOMAIN t = DOMAIN s
         /\ t[n] = r /\ \A m \in DOMAIN s : m # n => t[m] = s[m]
  <1>1. t \in [1 .. Len(s) -> LoadRequest] /\ Len(s) \in Nat
    OBVIOUS
  <1> QED BY <1>1

LEMMA RequestsInit == PerformanceInit => RankingInv
  <1> SUFFICES ASSUME PerformanceInit PROVE RankingInv
    OBVIOUS
  <1>1. ServerTypeOK
    <2>1. rating \in RatingSets /\ weighting \in WeightingSets /\ DOMAIN rating = {}
      <3>1. <<>> \in [{} -> 1 .. 5] /\ <<>> \in [{} -> Weights] /\ DOMAIN <<>> = {}
        OBVIOUS
      <3> QED BY <3>1 DEF PerformanceInit, RatingSets, WeightingSets
    <2> QED BY <2>1, FS_EmptySet DEF PerformanceInit, ServerTypeOK
  <1>2. FirstSelection \in Selections
    BY PerformanceAssumption
  <1>3. loaded \in Replies /\ loaded.selection = selection /\ selection \in Selections
    BY <1>1, <1>2, ReplyIsTrue DEF PerformanceInit, Reply
  <1>4. Closed("done") \in LoadRequest
    BY DEF Closed, LoadRequest
  <1>5. /\ load \in Seq(LoadRequest) /\ Len(load) = 1 /\ DOMAIN load = {1}
        /\ load[1].state = "done"
    BY <1>4 DEF PerformanceInit, Closed
  <1>6. PageTypeOK
    BY <1>3, <1>5 DEF PageTypeOK, PerformanceInit, NotSaving
  <1>7. DOMAIN rating = {}
    BY DEF PerformanceInit
  <1> QED BY <1>1, <1>3, <1>5, <1>6, <1>7 DEF RankingInv, SavingOK, PerformanceInit, NotSaving, Fresh

LEMMA SelectStep ==
  ASSUME RankingInv, NEW sel \in Selections, Select(sel)
  PROVE  RankingInv'
  <1> DEFINE N == Len(load)
             s == [n \in DOMAIN load |-> IF load[n].effect THEN Closed("aborted") ELSE load[n]]
  <1>1. /\ load \in Seq(LoadRequest) /\ N \in Nat /\ N > 0 /\ DOMAIN load = 1 .. N
        /\ \A n \in 1 .. N : load[n] \in LoadRequest
    BY DEF RankingInv, PageTypeOK
  <1>2. Closed("aborted") \in LoadRequest
    BY DEF Closed, LoadRequest
  <1>3. s \in Seq(LoadRequest) /\ Len(s) = N
    <2>1. s \in [1 .. N -> LoadRequest]
      BY <1>1, <1>2
    <2> HIDE DEF s, N
    <2> QED BY <1>1, <2>1
  <1>4. load' = Append(s, Loading(sel, TRUE)) /\ selection' = sel
        /\ UNCHANGED <<serverVars, loaded, saving>>
    BY DEF Select
  <1>5. /\ load' \in Seq(LoadRequest) /\ Len(load') = N + 1 /\ DOMAIN load' = 1 .. N + 1
        /\ load'[N + 1] = Loading(sel, TRUE)
        /\ \A n \in 1 .. N : load'[n] = s[n]
    <2> HIDE DEF s, N
    <2>1. LET more == Append(s, Loading(sel, TRUE))
          IN  /\ more \in Seq(LoadRequest) /\ Len(more) = N + 1 /\ DOMAIN more = 1 .. N + 1
              /\ more[N + 1] = Loading(sel, TRUE)
              /\ \A n \in 1 .. N : more[n] = s[n]
      <3>1. TRUE \in BOOLEAN
        OBVIOUS
      <3> QED BY <1>3, <3>1, Requested
    <2> QED BY <1>4, <2>1
  <1>6. \A n \in 1 .. N : load'[n] = load[n] \/ load'[n] = Closed("aborted")
    BY <1>1, <1>5
  <1>7. \A n \in DOMAIN load' :
          /\ load'[n].state = "open" => load'[n].selection \in Selections
          /\ load'[n].state = "answered" => load'[n].reply \in Replies /\ NoFalseScore(load'[n].reply)
    <2> HIDE DEF s, N
    <2> QED BY <1>1, <1>5, <1>6 DEF RankingInv, Loading, Closed
  <1>8. ServerTypeOK' /\ PageTypeOK' /\ SavingOK'
    <2>1. ServerTypeOK' /\ SavingOK'
      BY <1>4 DEF RankingInv, ServerTypeOK, SavingOK, serverVars
    <2>2. PageTypeOK'
      <3> HIDE DEF s, N
      <3>1. Len(load') > 0
        BY <1>1, <1>5
      <3> QED BY <1>4, <1>5, <3>1 DEF RankingInv, PageTypeOK
    <2> QED BY <2>1, <2>2
  <1>9. load'[Len(load')].state = "open" /\ load'[Len(load')].selection = selection'
    BY <1>4, <1>5 DEF Loading
  <1> QED BY <1>7, <1>8, <1>9 DEF RankingInv

LEMMA ServeStep ==
  ASSUME RankingInv, NEW n \in DOMAIN load, Serve(n)
  PROVE  RankingInv'
  <1> DEFINE N == Len(load)
             sel == load[n].selection
  <1>1. /\ load \in Seq(LoadRequest) /\ N \in Nat /\ N > 0 /\ DOMAIN load = 1 .. N
        /\ load[n] \in LoadRequest /\ N \in DOMAIN load
    BY DEF RankingInv, PageTypeOK
  <1>2. load[n].state = "open" /\ sel \in Selections
    BY DEF RankingInv, Serve
  <1>3. Reply(sel) \in Replies /\ NoFalseScore(Reply(sel))
    BY <1>2, ReplyIsTrue DEF RankingInv
  <1>4. UNCHANGED <<serverVars, selection, loaded, saving>>
    BY DEF Serve
  <1>5. \E r \in LoadRequest :
          /\ load' = [load EXCEPT ![n] = r] /\ r.selection = sel
          /\ r.state \in {"answered", "refused"}
          /\ r.state = "answered" => r.reply = Reply(sel)
    <2>1. CASE load' = [load EXCEPT ![n].state = "answered", ![n].reply = Reply(load[n].selection)]
      <3> DEFINE r == [load[n] EXCEPT !.state = "answered", !.reply = Reply(sel)]
      <3>1. /\ r \in LoadRequest /\ r.selection = sel /\ r.state = "answered" /\ r.reply = Reply(sel)
        BY <1>1, <1>3 DEF LoadRequest
      <3>2. load' = [load EXCEPT ![n] = r]
        BY <2>1
      <3> QED BY <3>1, <3>2
    <2>2. CASE load' = [load EXCEPT ![n].state = "refused"]
      <3> DEFINE r == [load[n] EXCEPT !.state = "refused"]
      <3>1. r \in LoadRequest /\ r.selection = sel /\ r.state = "refused"
        BY <1>1 DEF LoadRequest
      <3>2. load' = [load EXCEPT ![n] = r]
        BY <2>2
      <3> QED BY <3>1, <3>2
    <2> QED BY <2>1, <2>2 DEF Serve
  <1>6. PICK r \in LoadRequest : <1>5!(r)
    BY <1>5
  <1>7. /\ load' \in Seq(LoadRequest) /\ Len(load') = N /\ DOMAIN load' = DOMAIN load
        /\ load'[n] = r /\ \A m \in DOMAIN load : m # n => load'[m] = load[m]
    BY <1>1, <1>6, Answered
  <1>8. ServerTypeOK' /\ PageTypeOK' /\ SavingOK'
    BY <1>1, <1>4, <1>7 DEF RankingInv, ServerTypeOK, PageTypeOK, SavingOK, serverVars
  <1>9. \A m \in DOMAIN load' :
          /\ load'[m].state = "open" => load'[m].selection \in Selections
          /\ load'[m].state = "answered" => load'[m].reply \in Replies /\ NoFalseScore(load'[m].reply)
    BY <1>3, <1>6, <1>7 DEF RankingInv
  <1>10. n = N => sel = selection
    BY <1>2 DEF RankingInv
  <1>11. sel = selection => Fresh(Reply(sel))
    BY <1>2 DEF Fresh, Reply
  <1>13. LET newest == load'[Len(load')]
         IN /\ newest.state \in {"open", "answered", "refused"} => newest.selection = selection'
            /\ saving'.phase # "saved" =>
                 /\ newest.state = "answered" => Fresh(newest.reply)
                 /\ newest.state = "done" => Fresh(loaded)
    <2>1. CASE n = N
      BY <1>4, <1>6, <1>7, <1>10, <1>11, <2>1
    <2>2. CASE n # N
      BY <1>1, <1>4, <1>7, <2>2 DEF RankingInv
    <2> QED BY <2>1, <2>2
  <1> QED BY <1>4, <1>8, <1>9, <1>13 DEF RankingInv, Fresh, serverVars

Savings == [phase: {"no", "sent", "saved", "loading"}, load: Nat,
            command: {Nothing} \cup ReviewCommands \cup WeightCommands]

LEMMA ReceiveStep ==
  ASSUME RankingInv, NEW n \in DOMAIN load, Receive(n)
  PROVE  RankingInv'
  <1> DEFINE N == Len(load)
             r == Closed(IF load[n].state = "answered" THEN "done" ELSE "failed")
  <1>1. /\ load \in Seq(LoadRequest) /\ N \in Nat /\ N > 0 /\ DOMAIN load = 1 .. N
        /\ load[n] \in LoadRequest /\ N \in DOMAIN load
    BY DEF RankingInv, PageTypeOK
  <1>2. r \in LoadRequest /\ r.state \in {"done", "failed"}
        /\ (r.state = "done" => load[n].state = "answered")
    BY DEF Closed, LoadRequest
  <1>3. /\ load' \in Seq(LoadRequest) /\ Len(load') = N /\ DOMAIN load' = DOMAIN load
        /\ load'[n] = r /\ \A m \in DOMAIN load : m # n => load'[m] = load[m]
    <2>1. load' = [load EXCEPT ![n] = r]
      BY DEF Receive
    <2> HIDE DEF r, N
    <2> QED BY <1>1, <1>2, <2>1, Answered DEF N
  <1>4. /\ UNCHANGED <<serverVars, selection>>
        /\ saving' = IF saving.load = n THEN NotSaving ELSE saving
        /\ loaded' = IF load[n].state = "answered" /\ IsNewest(n) THEN load[n].reply ELSE loaded
    BY DEF Receive
  <1>5. load[n].state = "answered" => load[n].reply \in Replies
    BY DEF RankingInv
  <1>6. /\ saving' \in Savings /\ SavingOK'
        /\ saving'.phase # "saved" => saving.phase # "saved"
    BY <1>1, <1>4 DEF RankingInv, PageTypeOK, SavingOK, NotSaving, Savings
  <1>7. ServerTypeOK' /\ PageTypeOK'
    <2> HIDE DEF r, N
    <2>1. ServerTypeOK'
      BY <1>4 DEF RankingInv, ServerTypeOK, serverVars
    <2>2. Len(load') > 0
      BY <1>1, <1>3
    <2> QED BY <1>3, <1>4, <1>5, <1>6, <2>1, <2>2 DEF RankingInv, PageTypeOK, Savings
  <1>8. \A m \in DOMAIN load' :
          /\ load'[m].state = "open" => load'[m].selection \in Selections
          /\ load'[m].state = "answered" => load'[m].reply \in Replies /\ NoFalseScore(load'[m].reply)
    <2> HIDE DEF r, N
    <2> QED BY <1>2, <1>3 DEF RankingInv
  <1>9. LET newest == load'[Len(load')]
        IN /\ newest.state \in {"open", "answered", "refused"} => newest.selection = selection'
           /\ saving'.phase # "saved" =>
                /\ newest.state = "answered" => Fresh(newest.reply)
                /\ newest.state = "done" => Fresh(loaded')
    <2> HIDE DEF r
    <2>1. CASE n = N
      <3>1. load[n].state \in {"answered", "refused"} => load[n].selection = selection
        BY <2>1 DEF RankingInv
      <3>2. load[n].state = "answered" => loaded' = load[n].reply
        BY <1>4, <2>1, <3>1 DEF IsNewest
      <3>3. load[n].state = "answered" /\ saving.phase # "saved" => Fresh(load[n].reply)
        BY <2>1 DEF RankingInv
      <3> QED BY <1>2, <1>3, <1>6, <2>1, <3>2, <3>3
    <2>2. CASE n # N
      <3>1. loaded' = loaded
        BY <1>4, <2>2 DEF IsNewest
      <3> QED BY <1>1, <1>3, <1>4, <1>6, <2>2, <3>1 DEF RankingInv
    <2> QED BY <2>1, <2>2
  <1> QED BY <1>4, <1>6, <1>7, <1>8, <1>9 DEF RankingInv, Fresh, serverVars

\* A step that leaves the page as it is, but for what is being saved.
LEMMA SavingStep ==
  ASSUME RankingInv, UNCHANGED <<selection, load, loaded>>, ServerTypeOK', SavingOK',
         saving' \in Savings,
         saving'.phase # "saved" =>
           /\ saving.phase # "saved"
           /\ \A k \in DOMAIN rating' : k[4] = Me => k \in DOMAIN rating /\ rating'[k] = rating[k]
  PROVE  RankingInv'
  <1>1. PageTypeOK'
    BY DEF RankingInv, PageTypeOK, Savings
  <1>2. saving'.phase # "saved" => \A reply : Fresh(reply) => Fresh(reply)'
    BY DEF Fresh
  <1>3. LET newest == load'[Len(load')]
        IN /\ newest.state \in {"open", "answered", "refused"} => newest.selection = selection'
           /\ saving'.phase # "saved" =>
                /\ newest.state = "answered" => Fresh(load[Len(load)].reply)'
                /\ newest.state = "done" => Fresh(loaded)'
    BY <1>2 DEF RankingInv, Fresh
  <1> QED BY <1>1, <1>3 DEF RankingInv

LEMMA CommittedStep ==
  ASSUME RankingInv, CommitSave
  PROVE  RankingInv'
  <1>1. /\ saving \in Savings /\ saving.phase = "sent" /\ saving.load = 0
        /\ saving.command \in ReviewCommands \cup WeightCommands
    BY DEF RankingInv, PageTypeOK, SavingOK, CommitSave, Savings
  <1>2. saving' \in Savings /\ saving'.phase = "saved" /\ saving'.load = 0
    BY <1>1 DEF CommitSave, Savings
  <1>3. ServerTypeOK'
    <2>1. CASE IsReview
      <3>1. saving.command \in ReviewCommands
        BY <1>1, <2>1 DEF IsReview, WeightCommands
      <3> QED BY <2>1, <3>1, WriteReviewEffect DEF RankingInv, CommitSave, ReviewCommands
    <2>2. CASE ~IsReview
      <3>1. saving.command \in WeightCommands
        BY <1>1, <2>2 DEF IsReview, ReviewCommands
      <3> QED BY <2>2, <3>1, WriteWeightsEffect DEF RankingInv, CommitSave, WeightCommands
    <2> QED BY <2>1, <2>2
  <1>4. SavingOK' /\ UNCHANGED <<selection, load, loaded>>
    BY <1>2 DEF SavingOK, CommitSave
  <1> QED BY <1>2, <1>3, <1>4, SavingStep

LEMMA SaveSucceedsStep ==
  ASSUME RankingInv, SaveSucceeds
  PROVE  RankingInv'
  <1> DEFINE N == Len(load)
  <1>1. load \in Seq(LoadRequest) /\ N \in Nat /\ N > 0 /\ DOMAIN load = 1 .. N /\ selection \in Selections
    BY DEF RankingInv, PageTypeOK
  <1>2. load' = Append(load, Loading(selection, FALSE)) /\ UNCHANGED <<serverVars, selection, loaded>>
        /\ saving' = [phase |-> "loading", load |-> N + 1, command |-> Nothing]
    BY DEF SaveSucceeds
  <1>3. /\ load' \in Seq(LoadRequest) /\ Len(load') = N + 1 /\ DOMAIN load' = 1 .. N + 1
        /\ load'[N + 1] = Loading(selection, FALSE)
        /\ \A n \in 1 .. N : load'[n] = load[n]
    BY <1>1, <1>2, Requested
  <1>4. \A n \in DOMAIN load' :
          /\ load'[n].state = "open" => load'[n].selection \in Selections
          /\ load'[n].state = "answered" => load'[n].reply \in Replies /\ NoFalseScore(load'[n].reply)
    BY <1>1, <1>3 DEF RankingInv, Loading
  <1>5. ServerTypeOK' /\ PageTypeOK' /\ SavingOK'
    <2>1. ServerTypeOK' /\ SavingOK'
      BY <1>2 DEF RankingInv, ServerTypeOK, SavingOK, serverVars
    <2>2. Len(load') > 0 /\ N + 1 \in Nat
      BY <1>1, <1>3
    <2> HIDE DEF N
    <2>3. PageTypeOK'
      BY <1>2, <1>3, <2>2 DEF RankingInv, PageTypeOK
    <2> QED BY <2>1, <2>3
  <1>6. load'[Len(load')].state = "open" /\ load'[Len(load')].selection = selection'
    BY <1>2, <1>3 DEF Loading
  <1> QED BY <1>4, <1>5, <1>6 DEF RankingInv

\* A save is sent, or refused.
LEMMA SendStep ==
  ASSUME RankingInv,
         \/ \E s \in Suppliers, way \in Ways, score \in Scores : SaveReview(s, way, score)
         \/ \E from \in Effective, w \in Weightings : SaveWeights(from, w)
         \/ SaveFails
  PROVE  RankingInv'
  <1>1. selection \in Selections /\ selection[1] \in Quarters /\ selection[2] \in Tiers
    BY PerformanceAssumption DEF RankingInv, PageTypeOK, Tiers
  <1>2. ASSUME NEW command \in ReviewCommands \cup WeightCommands, saving = NotSaving,
               saving' = [phase |-> "sent", load |-> 0, command |-> command],
               UNCHANGED <<serverVars, selection, load, loaded>>
        PROVE  RankingInv'
    <2>1. saving' \in Savings /\ SavingOK' /\ ServerTypeOK' /\ saving.phase # "saved"
      BY <1>2 DEF Savings, SavingOK, NotSaving, RankingInv, ServerTypeOK, serverVars
    <2> QED BY <1>2, <2>1, SavingStep DEF serverVars
  <1>3. ASSUME NEW s \in Suppliers, NEW way \in Ways, NEW score \in Scores, SaveReview(s, way, score)
        PROVE  RankingInv'
    <2> DEFINE command == [key |-> <<s, selection[1], way, Me>>, score |-> score]
    <2>1. command \in ReviewCommands
      BY <1>1, PerformanceAssumption DEF ReviewCommands, Ratings
    <2> QED BY <1>2, <1>3, <2>1 DEF SaveReview
  <1>4. ASSUME NEW from \in Effective, NEW w \in Weightings, SaveWeights(from, w)
        PROVE  RankingInv'
    <2> DEFINE command == [tier |-> selection[2], from |-> from, weights |-> w]
    <2>1. command \in WeightCommands
      BY <1>1 DEF WeightCommands
    <2> QED BY <1>2, <1>4, <2>1 DEF SaveWeights
  <1>5. CASE SaveFails
    <2>1. saving' \in Savings /\ SavingOK' /\ ServerTypeOK' /\ saving.phase # "saved"
      BY <1>5 DEF SaveFails, Savings, SavingOK, NotSaving, RankingInv, ServerTypeOK, serverVars
    <2> QED BY <1>5, <2>1, SavingStep DEF SaveFails, serverVars
  <1> QED BY <1>3, <1>4, <1>5

LEMMA RankingStep ==
  ASSUME RankingInv, [PerformanceNext]_performanceVars
  PROVE  RankingInv'
  <1>1. CASE Elsewhere
    <2>1. /\ ServerTypeOK' /\ UNCHANGED pageVars
          /\ \A k \in DOMAIN rating' : k[4] = Me => k \in DOMAIN rating /\ rating'[k] = rating[k]
      BY <1>1, ElsewhereEffect DEF RankingInv
    <2>2. saving' \in Savings /\ SavingOK'
      BY <2>1 DEF RankingInv, PageTypeOK, SavingOK, Savings, pageVars
    <2> QED BY <2>1, <2>2, SavingStep DEF pageVars
  <1>2. CASE UNCHANGED performanceVars
    <2>1. saving' \in Savings /\ SavingOK' /\ ServerTypeOK'
      BY <1>2 DEF RankingInv, PageTypeOK, ServerTypeOK, SavingOK, Savings, performanceVars, serverVars,
                  pageVars
    <2> QED BY <1>2, <2>1, SavingStep DEF performanceVars, serverVars, pageVars
  <1> QED BY <1>1, <1>2, SelectStep, ServeStep, ReceiveStep, SendStep, CommittedStep, SaveSucceedsStep
             DEF PerformanceNext

\* No ranking scores what has no data, and a page at rest shows its own
\* selection and its viewer's last ratings: whatever suppliers, people and
\* quarters there are, however often the selection changes, in whatever order
\* requests and saves are answered or fail, and whatever becomes of the
\* suppliers meanwhile.
THEOREM RankingsAreShown == PerformanceSpec => []RankingShown
  <1>1. RankingInv => RankingShown
    BY DEF RankingInv, RankingShown, Settled, NotSaving, Fresh
  <1> QED BY <1>1, RequestsInit, RankingStep, PTL DEF PerformanceSpec
=============================================================================
