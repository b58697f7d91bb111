------------------------------- MODULE Stock --------------------------------
(***************************************************************************)
(* The stock tables every inventory command writes: inventory_batches (who *)
(* owns a batch, where it lies, how much of it is in each bucket), the     *)
(* on-hand total of inventory_movements per warehouse and SKU, and the     *)
(* status of the warehouses.                                               *)
(*                                                                         *)
(* A command is one transaction whose reads of these tables lock the rows  *)
(* they read (FOR UPDATE, FOR SHARE), so a command that commits is one     *)
(* step; one that throws rolls back and is no step at all.                 *)
(***************************************************************************)
EXTENDS Integers, FiniteSets, Functions

CONSTANTS Warehouses,  \* ids a warehouse may have (a bound)
          Founded,     \* of these, the warehouses that exist at first, all active
          Skus,        \* SKU codes
          BatchIds     \* AUTO_INCREMENT ids inventory_batches may use (a bound)

ASSUME BatchIdsAssumption == BatchIds \subseteq Nat /\ IsFiniteSet(BatchIds)
ASSUME FoundedAssumption == Founded \subseteq Warehouses /\ "none" \notin Warehouses

VARIABLES lot,      \* lot[b]: the batch's descriptive columns, or NoLot
          qty,      \* qty[b][k]: the batch's quantity in bucket k
          ledger,   \* ledger[w][s]: sum of the movements that change on-hand stock
          active    \* warehouses whose status is 'active'

stockVars == <<lot, qty, ledger, active>>

\* The five quantity columns; a stocktake counts all but quarantine_quantity.
Buckets == {"available", "locked", "defective", "pending", "quarantine"}
Counted == Buckets \ {"quarantine"}

(***************************************************************************)
(* How a batch came to be. Only "receipt" and "production" leave the row   *)
(* (purchase_receipts.batch_id, production_reports.batch_id) by which an   *)
(* inspection finds the batch's provenance.                                *)
(***************************************************************************)
Sources == {"receipt", "production", "variance", "transfer", "return"}
Owners  == {"company", "factory"}
Lots    == [wh: Warehouses, sku: Skus, owner: Owners, source: Sources]
NoLot   == [wh |-> "none", sku |-> "none", owner |-> "none", source |-> "none"]

Rows == {b \in BatchIds : lot[b] # NoLot}

StockTypeOK ==
  /\ lot \in [BatchIds -> Lots \cup {NoLot}]
  /\ qty \in [BatchIds -> [Buckets -> Nat]]
  /\ active \in SUBSET Warehouses

StockInit ==
  /\ lot = [b \in BatchIds |-> NoLot]
  /\ qty = [b \in BatchIds |-> [k \in Buckets |-> 0]]
  /\ ledger = [w \in Warehouses |-> [s \in Skus |-> 0]]
  /\ active = Founded

-----------------------------------------------------------------------------
\* Reading the tables.

RowsOf(w, s) == {b \in Rows : lot[b].wh = w /\ lot[b].sku = s}

OnHand(b) == qty[b]["available"] + qty[b]["locked"] + qty[b]["defective"]
             + qty[b]["pending"] + qty[b]["quarantine"]

Sum(f, S) == SumFunctionOnSet(f, S)

\* What a set of batches holds.
Held(S) == Sum([b \in BatchIds |-> OnHand(b)], S)

\* All the amounts of d together.
Total(d) == Sum(d, DOMAIN d)

\* The id AUTO_INCREMENT hands out next.
IsNextBatch(b) == /\ b \in BatchIds \ Rows
                  /\ \A c \in BatchIds \ Rows : b =< c

(***************************************************************************)
(* A loop that walks rows in a fixed order and takes min(remaining, what   *)
(* the row has) from each until n is reached, described by its outcome d:  *)
(* it takes n in all, and nothing from a row while an earlier one has any  *)
(* left. There is no outcome when the rows hold less than n.               *)
(***************************************************************************)
TakesInOrder(d, has, earlier, n) ==
  /\ d \in [DOMAIN has -> 0 .. n]
  /\ \A x \in DOMAIN has : d[x] =< has[x]
  /\ \A p \in earlier : d[p[2]] > 0 => d[p[1]] = has[p[1]]
  /\ Total(d) = n

(***************************************************************************)
(* Batches a transfer may ship: company stock, none of it quarantined.     *)
(* ORDER BY expiry_date, inbound_date, id is the order of ids: no command  *)
(* sets an expiry date, and later rows have later inbound dates.           *)
(***************************************************************************)
Shippable(w, s) == {b \in RowsOf(w, s) : /\ lot[b].owner = "company"
                                         /\ qty[b]["available"] > 0
                                         /\ qty[b]["quarantine"] = 0}

-----------------------------------------------------------------------------
\* Writing the tables: the new value of one variable.

NewLot(w, s, owner, source) == [wh |-> w, sku |-> s, owner |-> owner, source |-> source]

\* The quantities of a batch inserted with n in bucket k.
Holding(k, n) == [j \in Buckets |-> IF j = k THEN n ELSE 0]

\* UPDATE inventory_batches moving n from one bucket to another.
Moved(q, b, from, to, n) == [q EXCEPT ![b][from] = @ - n, ![b][to] = @ + n]

\* INSERT INTO inventory_movements, for a type that changes on-hand stock.
Posted(w, s, n) == [ledger EXCEPT ![w][s] = @ + n]
=============================================================================
