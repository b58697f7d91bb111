---------------------------- MODULE Performance -----------------------------
(***************************************************************************)
(* How suppliers perform: the staff rate them each quarter and weigh the   *)
(* metrics of each tier, the days on which batches were shipped are a      *)
(* metric of their own, and a page ranks one tier's suppliers in one       *)
(* quarter. The page loads at every selection and after every save, and    *)
(* its requests are answered in any order, or fail.                        *)
(*                                                                         *)
(* A request reads in two rounds outside a transaction, taken as one here: *)
(* no row of one round depends on a row of the other. Scores are tenths of *)
(* a percent. Quality, exceptions and preparation have no data in the      *)
(* code, so they are never available. Days are numbers.                    *)
(***************************************************************************)
EXTENDS Catalog, FiniteSetsExt

CONSTANTS Evaluators, Me,   \* those who rate, and the one at the page
          Quarters, QuarterOf, \* QuarterOf[d]: the quarter of a day
          Selections,       \* <<quarter, tier>> that are looked at (a bound),
          FirstSelection,   \* and at first
          Scores,           \* of 1 .. 5, those that are tried (a bound)
          Weightings,       \* weights that are tried (a bound)
          Effective,        \* days they are tried from (a bound)
          Shipments,        \* delivery batches
          ShippedBy,        \* ShippedBy[d]: its supplier
          PlannedOn,        \* PlannedOn[d]: the day it should be shipped
          LastDay,          \* bounds of time, and of the page's requests
          MaxLoads,
          Nothing           \* what no row, request or reply is

ASSUME PerformanceAssumption == /\ Me \in Evaluators /\ Scores \subseteq 1 .. 5
                                /\ FirstSelection \in Selections
                                /\ Selections \subseteq Quarters \X (1 .. 3)
                                /\ Effective \subseteq Nat
                                /\ IsFiniteSet(Effective) /\ IsFiniteSet(Shipments)

VARIABLES today,
          rating,    \* supplier_performance_reviews, by what is unique in a row
          weighting, \* supplier_performance_weight_versions, likewise
          shipped,   \* delivery_batches.shipped_at, 0 before that
          selection, \* the page: selectionRef, requests by requestSequence,
          load,
          loaded,    \* data and loadedSelection,
          saving     \* what busy stands for

serverVars      == <<today, rating, weighting, shipped>>
pageVars        == <<selection, load, loaded, saving>>
performanceVars == <<serverVars, pageVars>>

Tiers   == 1 .. 3
Ways    == {"satisfaction", "sampling"}
Ratings == Suppliers \X Quarters \X Ways \X Evaluators
Metrics == {"delivery", "quality", "exception", "preparation"} \cup Ways

ASSUME WeightingsAssumption == Weightings \subseteq [Metrics -> Int]

-----------------------------------------------------------------------------
(* What the server computes *)

DefaultWeights == <<
  [delivery |-> 2500, quality |-> 2000, exception |-> 1500, preparation |-> 1000,
   satisfaction |-> 1500, sampling |-> 1500],
  [delivery |-> 3000, quality |-> 2500, exception |-> 1500, preparation |-> 1500,
   satisfaction |-> 0, sampling |-> 1500],
  [delivery |-> 3000, quality |-> 2500, exception |-> 2000, preparation |-> 1000,
   satisfaction |-> 0, sampling |-> 1500]>>

\* Math.round of a quotient of natural numbers.
Rounded(a, b) == (2 * a + b) \div (2 * b)

\* -1 stands for null.
Average(s, q, way) ==
  LET own == {k \in DOMAIN rating : k[1] = s /\ k[2] = q /\ k[3] = way}
  IN IF own = {} THEN -1
     ELSE Rounded(200 * SumFunctionOnSet(rating, own), Cardinality(own))

\* The quarter of the day, in Shanghai, of a timestamp.
DueIn(d, q) == QuarterOf[PlannedOn[d]] = q

\* Batches planned for the quarter that were shipped, or should have been: on
\* time is on the very day.
DeliveryRate(s, q) ==
  LET counted == {d \in Shipments : /\ ShippedBy[d] = s /\ DueIn(d, q)
                                    /\ shipped[d] > 0 \/ PlannedOn[d] < today}
  IN IF counted = {} THEN -1
     ELSE Rounded(1000 * Cardinality({d \in counted : shipped[d] = PlannedOn[d]}),
                  Cardinality(counted))

\* Of any quarter, the weights in force today.
WeightsOf(t) ==
  LET begun == {day \in Effective : day =< today /\ <<t, day>> \in DOMAIN weighting}
  IN IF begun = {} THEN DefaultWeights[t] ELSE weighting[<<t, Max(begun)>>]

MetricsOf(s, q) ==
  [m \in Metrics |->
     CASE m = "delivery" -> DeliveryRate(s, q)
       [] m = "sampling" \/ (m = "satisfaction" /\ Tier[s] = 1) -> Average(s, q, m)
       [] OTHER -> -1]

\* Mutant: what has no data counts as zero.
AvailableOrZero(metrics, weights) == {m \in Metrics : weights[m] > 0}

Available(metrics, weights) == {m \in Metrics : metrics[m] >= 0 /\ weights[m] > 0}

Score(metrics, weights) ==
  LET available == Available(metrics, weights)
  IN IF available = {} THEN -1
     ELSE Rounded(SumFunctionOnSet([m \in Metrics |-> Max({metrics[m], 0}) * weights[m]], available),
                  SumFunctionOnSet(weights, available))

Ranked(t) == {s \in Suppliers : supplier[s] = "approved" /\ Tier[s] = t}

\* The reply to a selection, with the ratings of the tier it was made from.
Reply(sel) ==
  LET ranked  == Ranked(sel[2])
      weights == WeightsOf(sel[2])
  IN [selection |-> sel,
      weights |-> weights,
      rankings |-> [s \in ranked |-> LET metrics == MetricsOf(s, sel[1])
                                     IN [metrics |-> metrics, score |-> Score(metrics, weights)]],
      ratings |-> [k \in {r \in DOMAIN rating : r[1] \in ranked /\ r[2] = sel[1]} |-> rating[k]]]

-----------------------------------------------------------------------------
(* What is saved *)

\* UPDATE of the row that has this key, or INSERT of one.
Upserted(table, key, row) ==
  [k \in DOMAIN table \cup {key} |-> IF k = key THEN row ELSE table[k]]

\* A second rating by the same person replaces the first.
WriteReview(key, score) ==
  /\ supplier[key[1]] # "none"
  /\ key[3] = "satisfaction" => Tier[key[1]] = 1
  /\ rating' = Upserted(rating, key, score)
  /\ UNCHANGED <<today, weighting, shipped>>

WriteWeights(t, from, weights) ==
  /\ \A m \in Metrics : weights[m] >= 0
  /\ SumFunctionOnSet(weights, Metrics) = 10000
  /\ t # 1 => weights["satisfaction"] = 0
  /\ weighting' = Upserted(weighting, <<t, from>>, weights)
  /\ UNCHANGED <<today, rating, shipped>>

\* Elsewhere: other people save, batches are shipped, and days pass.
Elsewhere ==
  /\ \/ \E key \in Ratings, score \in Scores : key[4] # Me /\ WriteReview(key, score)
     \/ \E t \in Tiers, from \in Effective, w \in Weightings : WriteWeights(t, from, w)
     \/ \E d \in Shipments : /\ shipped[d] = 0
                             /\ shipped' = [shipped EXCEPT ![d] = today]
                             /\ UNCHANGED <<today, rating, weighting>>
     \/ /\ today < LastDay
        /\ today' = today + 1
        /\ UNCHANGED <<rating, weighting, shipped>>
  /\ UNCHANGED pageVars

-----------------------------------------------------------------------------
(* The page *)

NotSaving == [phase |-> "no", command |-> Nothing, load |-> 0]

Loading(sel, effect) ==
  [selection |-> sel, effect |-> effect, state |-> "open", reply |-> Nothing]

\* A request is closed with what became of it.
Closed(state) == [selection |-> Nothing, effect |-> FALSE, state |-> state, reply |-> Nothing]

\* The page was opened before anything was entered.
PerformanceInit ==
  /\ today = 1
  /\ rating = <<>> /\ weighting = <<>>
  /\ shipped = [d \in Shipments |-> 0]
  /\ selection = FirstSelection
  /\ load = <<Closed("done")>> /\ loaded = Reply(FirstSelection)
  /\ saving = NotSaving

\* The effect: a selection aborts the last effect's request, not that of a save.
Select(sel) ==
  /\ sel # selection
  /\ Len(load) < MaxLoads
  /\ selection' = sel
  /\ load' = Append([n \in DOMAIN load |->
                       IF load[n].effect THEN Closed("aborted") ELSE load[n]],
                    Loading(sel, TRUE))
  /\ UNCHANGED <<serverVars, loaded, saving>>

Serve(n) ==
  /\ load[n].state = "open"
  /\ \/ load' = [load EXCEPT ![n].state = "answered", ![n].reply = Reply(load[n].selection)]
     \/ load' = [load EXCEPT ![n].state = "refused"]
  /\ UNCHANGED <<serverVars, selection, loaded, saving>>

\* The reply is to the newest request, and to what is selected.
IsNewest(n) == n = Len(load) /\ load[n].selection = selection

Receive(n) ==
  /\ load[n].state \in {"answered", "refused"}
  /\ loaded' = IF load[n].state = "answered" /\ IsNewest(n) THEN load[n].reply ELSE loaded
  /\ load' = [load EXCEPT ![n] =
                Closed(IF load[n].state = "answered" THEN "done" ELSE "failed")]
  /\ saving' = IF saving.load = n THEN NotSaving ELSE saving
  /\ UNCHANGED <<serverVars, selection>>

\* saveReview, for the quarter selected. The dialog stays open, and keeps its
\* supplier, when the selection changes behind it.
SaveReview(s, way, score) ==
  /\ saving = NotSaving
  /\ saving' = [phase |-> "sent", load |-> 0,
                command |-> [key |-> <<s, selection[1], way, Me>>, score |-> score]]
  /\ UNCHANGED <<serverVars, selection, load, loaded>>

\* saveWeights, of the tier selected, once its weights were loaded.
SaveWeights(from, weights) ==
  /\ loaded.selection = selection /\ saving = NotSaving
  /\ saving' = [phase |-> "sent", load |-> 0,
                command |-> [tier |-> selection[2], from |-> from, weights |-> weights]]
  /\ UNCHANGED <<serverVars, selection, load, loaded>>

IsReview == "key" \in DOMAIN saving.command

CommitSave ==
  /\ saving.phase = "sent"
  /\ IF IsReview THEN WriteReview(saving.command.key, saving.command.score)
     ELSE WriteWeights(saving.command.tier, saving.command.from, saving.command.weights)
  /\ saving' = [saving EXCEPT !.phase = "saved"]
  /\ UNCHANGED <<selection, load, loaded>>

\* The command was refused. (Answers that are lost are CommandClient's subject.)
SaveFails ==
  /\ saving.phase = "sent"
  /\ saving' = NotSaving
  /\ UNCHANGED <<serverVars, selection, load, loaded>>

\* load(), with the selection as it is by then.
SaveSucceeds ==
  /\ saving.phase = "saved" /\ Len(load) < MaxLoads
  /\ load' = Append(load, Loading(selection, FALSE))
  /\ saving' = [phase |-> "loading", load |-> Len(load) + 1, command |-> Nothing]
  /\ UNCHANGED <<serverVars, selection, loaded>>

PerformanceNext ==
  \/ Elsewhere
  \/ \E sel \in Selections : Select(sel)
  \/ \E n \in DOMAIN load : Serve(n) \/ Receive(n)
  \/ \E s \in Suppliers, way \in Ways, score \in Scores : SaveReview(s, way, score)
  \/ \E from \in Effective, w \in Weightings : SaveWeights(from, w)
  \/ CommitSave \/ SaveFails \/ SaveSucceeds

PerformanceSpec == PerformanceInit /\ [][PerformanceNext]_performanceVars

-----------------------------------------------------------------------------
(* Properties *)

\* What has no data makes no score: a score lies between the lowest and the
\* highest metric that has some, and there is none without one.
NoFalseScore(reply) ==
  \A s \in DOMAIN reply.rankings :
    LET metrics == reply.rankings[s].metrics
        given   == {metrics[m] : m \in {x \in Metrics : metrics[x] >= 0 /\ reply.weights[x] > 0}}
    IN IF given = {} THEN reply.rankings[s].score = -1
       ELSE reply.rankings[s].score \in Min(given) .. Max(given)

\* Nothing is under way, and the newest request did not fail.
Settled == load[Len(load)].state = "done" /\ saving = NotSaving

\* No reply makes a score of missing data; and when all is quiet, the page
\* ranks the tier and the quarter selected, by the ratings saved here up to
\* the last one, whatever order requests, selections and saves were answered in.
RankingShown ==
  /\ \A n \in DOMAIN load : load[n].state = "answered" => NoFalseScore(load[n].reply)
  /\ Settled =>
       /\ loaded.selection = selection
       /\ \A k \in DOMAIN rating :
            (k[4] = Me /\ k[1] \in DOMAIN loaded.rankings /\ k[2] = selection[1]) =>
              k \in DOMAIN loaded.ratings /\ loaded.ratings[k] = rating[k]

=============================================================================
