------------------------------ MODULE Finance -------------------------------
(***************************************************************************)
(* Invoices of purchase orders, the payment requests they cover, the       *)
(* payment ledger, and what happens when an invoice turns out invalid:     *)
(* replacement invoices, refunds, and corrections of ledger records.       *)
(*                                                                         *)
(* A command is one transaction that locks the invoice, request, exception *)
(* and record rows it reads, so a command that commits is one step. Each   *)
(* payment, refund or correction carries a bank reference no other of its  *)
(* kind has; a second use of one is refused and is no step. Sequences      *)
(* stand for tables: the AUTO_INCREMENT id of a row is its position.       *)
(***************************************************************************)
EXTENDS Integers, Sequences, FiniteSets, FiniteSetsExt, Functions

CONSTANTS Payers,        \* people who act on invoices and payments
          RolesOf,       \* RolesOf[u]: the roles of u
          Invoices,
          InvoiceOf,     \* InvoiceOf[i]: order, amount and expected amount
          Requests,      \* payment requests, numbered by planned date and id
          RequestOf,     \* RequestOf[r]: purchase orders and total amount
          MaxExceptions, \* bounds of the three tables that grow
          MaxPayments,
          MaxCorrections,
          MaxCases       \* bound of exceptions and corrections together

ASSUME RolesAssumption == DOMAIN RolesOf = Payers
ASSUME InvoiceAssumption ==
  /\ IsFiniteSet(Invoices) /\ DOMAIN InvoiceOf = Invoices
  /\ \A i \in Invoices : InvoiceOf[i].amount \in Nat \ {0}
ASSUME RequestAssumption ==
  /\ IsFiniteSet(Requests) /\ Requests \subseteq Nat /\ DOMAIN RequestOf = Requests
  /\ \A r \in Requests : RequestOf[r].total \in Nat \ {0}

VARIABLES invoice,     \* invoice[i]: factory_invoices.status
          verdict,     \* verdict[i][role]: the row of invoice_verifications
          alloc,       \* alloc[i][r]: the row of invoice_payment_allocations
          request,     \* request[r]: covered amount and status
          exceptions,  \* invoice_exceptions with their replacement links
          records,     \* payment_records
          corrections  \* financial_record_correction rows of approval_requests

financeVars == <<invoice, verdict, alloc, request, exceptions, records, corrections>>

Verifiers == {"supply_chain", "finance"}
NoVerdict == [by |-> "nobody", decision |-> "none"]
NoAlloc   == [n |-> 0, status |-> "none"]
Amounts   == Nat \ {0}

Has(u, roles) == RolesOf[u] \cap roles # {}

FinanceTypeOK ==
  /\ invoice \in [Invoices -> {"none", "received", "verified", "rejected", "invalidated"}]
  /\ verdict \in [Invoices -> [Verifiers ->
       [by: Payers, decision: {"approved", "rejected"}] \cup {NoVerdict}]]
  /\ alloc \in [Invoices -> [Requests -> [n: Amounts, status: {"active", "frozen"}] \cup {NoAlloc}]]
  /\ request \in [Requests -> [covered: Nat,
       status: {"waiting_invoice", "generated", "partially_paid", "paid", "invoice_exception_frozen"}]]
  /\ exceptions \in Seq([invoice: Invoices, affected: Amounts, replaced: Nat, refunded: Nat,
       status: {"awaiting_remediation", "risk_warning", "resolved"}, links: [Invoices -> Nat],
       released: BOOLEAN])
  /\ records \in Seq([request: Requests, n: Int, exception: Nat, of: Nat,
       type: {"payment", "refund", "reversal", "correction"}])
  /\ corrections \in Seq([record: Amounts, request: Requests, n: Amounts, by: Payers,
       status: {"pending", "approved", "rejected"}])

\* Payment requests exist before: no command of this system creates one.
FinanceInit ==
  /\ invoice = [i \in Invoices |-> "none"]
  /\ verdict = [i \in Invoices |-> [v \in Verifiers |-> NoVerdict]]
  /\ alloc = [i \in Invoices |-> [r \in Requests |-> NoAlloc]]
  /\ request = [r \in Requests |-> [covered |-> 0, status |-> "waiting_invoice"]]
  /\ exceptions = <<>> /\ records = <<>> /\ corrections = <<>>

-----------------------------------------------------------------------------
(* Invoices *)

CreateInvoice(i, u) ==
  /\ Has(u, {"admin", "supply_chain"})
  /\ invoice[i] = "none"
  /\ invoice' = [invoice EXCEPT ![i] = "received"]
  /\ UNCHANGED <<verdict, alloc, request, exceptions, records, corrections>>

\* Mutant: one person may give both verdicts.
CanVerifyTwice(i, role, u) == verdict[i][role] = NoVerdict

\* Each role decides once, and nobody decides for both.
CanVerify(i, role, u) == \A v \in Verifiers : /\ v = role => verdict[i][v] = NoVerdict
                                              /\ verdict[i][v].by # u

\* verify_invoice while it does not settle the invoice as verified.
GiveVerdict(i, role, u, decision) ==
  /\ Has(u, {"admin", role})
  /\ invoice[i] = "received"
  /\ decision = "approved" => InvoiceOf[i].amount = InvoiceOf[i].expected
  /\ CanVerify(i, role, u)
  /\ verdict' = [verdict EXCEPT ![i][role] = [by |-> u, decision |-> decision]]

Verified(v, i) == \A role \in Verifiers : v[i][role].decision = "approved"

RecordVerdict(i, role, u, decision) ==
  /\ GiveVerdict(i, role, u, decision)
  /\ ~Verified(verdict', i)
  /\ invoice' = [invoice EXCEPT ![i] = IF decision = "rejected" THEN "rejected" ELSE @]
  /\ UNCHANGED <<alloc, request, exceptions, records, corrections>>

(***************************************************************************)
(* allocateInvoice: the invoice is spread over the requests of its order,  *)
(* the earliest first, each up to what is not covered yet. d is what each  *)
(* request gets.                                                           *)
(***************************************************************************)
Outstanding(r) == IF request[r].covered < RequestOf[r].total
                  THEN RequestOf[r].total - request[r].covered ELSE 0
RequestsOf(i)  == {r \in Requests : InvoiceOf[i].order \in RequestOf[r].orders}

Spread(i, d) ==
  /\ \A r \in Requests : d[r] =< IF r \in RequestsOf(i) THEN Outstanding(r) ELSE 0
  /\ \A p, r \in RequestsOf(i) : p < r /\ d[r] > 0 => d[p] = Outstanding(p)
  /\ \/ SumFunction(d) = InvoiceOf[i].amount
     \/ /\ SumFunction(d) < InvoiceOf[i].amount
        /\ \A r \in RequestsOf(i) : d[r] = Outstanding(r)

\* The second approval: the invoice is verified and allocated at once. The
\* status of a request that gets something is set whatever it was.
VerifyInvoice(i, role, u, d) ==
  /\ GiveVerdict(i, role, u, "approved")
  /\ Verified(verdict', i)
  /\ Spread(i, d)
  /\ invoice' = [invoice EXCEPT ![i] = "verified"]
  /\ alloc' = [alloc EXCEPT ![i] = [r \in Requests |->
                 IF d[r] = 0 THEN NoAlloc ELSE [n |-> d[r], status |-> "active"]]]
  /\ request' = [r \in Requests |->
       IF d[r] = 0 THEN request[r]
       ELSE [covered |-> request[r].covered + d[r],
             status  |-> IF request[r].covered + d[r] >= RequestOf[r].total
                         THEN "generated" ELSE "waiting_invoice"]]
  /\ UNCHANGED <<exceptions, records, corrections>>

\* Mutant: the coverage of a frozen allocation stays counted.
UncoveredStays(i, r) == [covered |-> request[r].covered, status |-> "invoice_exception_frozen"]

Uncovered(i, r) ==
  [covered |-> IF request[r].covered < alloc[i][r].n THEN 0 ELSE request[r].covered - alloc[i][r].n,
   status  |-> "invoice_exception_frozen"]

\* invalidate_invoice: whatever its status is, once per open exception.
InvalidateInvoice(i, u) ==
  /\ Has(u, {"admin", "finance"})
  /\ invoice[i] # "none"
  /\ \A e \in DOMAIN exceptions : exceptions[e].invoice = i => exceptions[e].status = "resolved"
  /\ Len(exceptions) < MaxExceptions /\ Len(exceptions) + Len(corrections) < MaxCases
  /\ LET held == {r \in Requests : alloc[i][r].status = "active"}
     IN /\ alloc' = [alloc EXCEPT ![i] = [r \in Requests |->
                       IF r \in held THEN [@[r] EXCEPT !.status = "frozen"] ELSE @[r]]]
        /\ request' = [r \in Requests |-> IF r \in held THEN Uncovered(i, r) ELSE request[r]]
  /\ invoice' = [invoice EXCEPT ![i] = "invalidated"]
  /\ exceptions' = Append(exceptions,
       [invoice |-> i, affected |-> InvoiceOf[i].amount, replaced |-> 0, refunded |-> 0,
        status |-> "awaiting_remediation", links |-> [j \in Invoices |-> 0],
        released |-> FALSE])
  /\ UNCHANGED <<verdict, records, corrections>>

-----------------------------------------------------------------------------
(* Remediation of an invalid invoice *)

Open(e) == exceptions[e].status # "resolved"
Settled(x) == x.replaced + x.refunded = x.affected
Closing(x) == [x EXCEPT !.status = IF Settled(x) THEN "resolved" ELSE @]

LinkReplacement(e, j, n, u) ==
  LET x == exceptions[e]
  IN /\ Has(u, {"admin", "finance", "supply_chain"})
     /\ Open(e)
     /\ invoice[j] = "verified"
     /\ InvoiceOf[j].order = InvoiceOf[x.invoice].order
     /\ n =< InvoiceOf[j].amount
     /\ x.replaced + x.refunded + n =< x.affected
     /\ x.links[j] = 0
     /\ exceptions' = [exceptions EXCEPT ![e] =
                         Closing([x EXCEPT !.replaced = @ + n, !.links[j] = n])]
     /\ UNCHANGED <<invoice, verdict, alloc, request, records, corrections>>

\* sweepReminder, for a reminder of type invoice_replacement_overdue thirty
\* days late. (Only rows of the previous system have that type.)
WarnOverdue(e) ==
  /\ exceptions[e].status = "awaiting_remediation"
  /\ exceptions' = [exceptions EXCEPT ![e].status = "risk_warning"]
  /\ UNCHANGED <<invoice, verdict, alloc, request, records, corrections>>

\* Once per exception: the event of a second release has the key of the first
\* (released), which the unique index of the outbox refuses.
ReleaseRisk(e, u) ==
  /\ Has(u, {"admin", "supply_chain_lead"})
  /\ exceptions[e].status = "risk_warning"
  /\ ~exceptions[e].released
  /\ exceptions' = [exceptions EXCEPT ![e].status = "awaiting_remediation", ![e].released = TRUE]
  /\ UNCHANGED <<invoice, verdict, alloc, request, records, corrections>>

-----------------------------------------------------------------------------
(* The payment ledger *)

SumWhere(ledger, Test(_)) == SumFunctionOnSet([k \in DOMAIN ledger |-> ledger[k].n],
                                              {k \in DOMAIN ledger : Test(ledger[k])})

\* payableNet: refunds, and corrections of refunds, do not reopen a request.
Net(ledger, r) == SumWhere(ledger, LAMBDA p : p.request = r /\ p.exception = 0)

Payment(r, n)   == [request |-> r, n |-> n, exception |-> 0, of |-> 0, type |-> "payment"]
Refund(r, n, e) == [request |-> r, n |-> n, exception |-> e, of |-> 0, type |-> "refund"]

\* How many payments and refunds were recorded (what MaxPayments bounds).
Booked == Cardinality({k \in DOMAIN records : records[k].of = 0})

\* Mutant: the status is trusted, the coverage not looked at again.
PayableByStatus(r) == request[r].status \in {"generated", "submitted_to_finance", "partially_paid"}

Payable(r) == /\ request[r].status \in {"generated", "submitted_to_finance", "partially_paid"}
              /\ request[r].covered >= RequestOf[r].total

RecordPayment(r, n, u) ==
  /\ Has(u, {"admin", "finance"})
  /\ Payable(r)
  /\ Net(records, r) + n =< RequestOf[r].total
  /\ Booked < MaxPayments
  /\ records' = Append(records, Payment(r, n))
  /\ request' = [request EXCEPT ![r].status =
                   IF Net(records, r) + n = RequestOf[r].total THEN "paid" ELSE "partially_paid"]
  /\ UNCHANGED <<invoice, verdict, alloc, exceptions, corrections>>

Refunded(ledger, e) == SumWhere(ledger, LAMBDA p : p.exception = e)

RecordRefund(e, r, n, u) ==
  LET x    == exceptions[e]
      back == SumWhere(records, LAMBDA p : p.request = r /\ p.exception = e)
  IN /\ Has(u, {"admin", "finance"})
     /\ Open(e)
     /\ alloc[x.invoice][r] # NoAlloc
     /\ request[r].status \in {"paid", "partially_paid"}
     /\ back = x.refunded
     /\ back + n =< Net(records, r)
     /\ x.replaced + x.refunded + n =< x.affected
     /\ Booked < MaxPayments
     /\ records' = Append(records, Refund(r, n, e))
     /\ exceptions' = [exceptions EXCEPT ![e] = Closing([x EXCEPT !.refunded = @ + n])]
     /\ UNCHANGED <<invoice, verdict, alloc, request, corrections>>

-----------------------------------------------------------------------------
(* Corrections: asked for by one person, decided by another *)

RequestCorrection(k, r, n, u) ==
  /\ Has(u, {"admin", "finance"})
  /\ records[k].type \in {"payment", "refund"}
  /\ Len(corrections) < MaxCorrections /\ Len(exceptions) + Len(corrections) < MaxCases
  /\ corrections' = Append(corrections,
       [record |-> k, request |-> r, n |-> n, by |-> u, status |-> "pending"])
  /\ UNCHANGED <<invoice, verdict, alloc, request, exceptions, records>>

Decides(c, u) == /\ Has(u, {"admin", "finance"})
                 /\ u # corrections[c].by
                 /\ corrections[c].status = "pending"

RejectCorrection(c, u) ==
  /\ Decides(c, u)
  /\ corrections' = [corrections EXCEPT ![c].status = "rejected"]
  /\ UNCHANGED <<invoice, verdict, alloc, request, exceptions, records>>

Uncorrected(k) == \A j \in DOMAIN records : records[j].of # k

\* Where the correction of record k may book the amount.
CanMoveTo(k, r) ==
  IF records[k].type = "payment"
  THEN /\ request[r].covered >= RequestOf[r].total
       /\ request[r].status \notin {"waiting_invoice", "invoice_exception_frozen", "failed", "cancelled"}
  ELSE LET i == exceptions[records[k].exception].invoice
       IN alloc[i][r] # NoAlloc /\ alloc[i][records[k].request] # NoAlloc

\* The record is booked back, and booked again as asked.
Corrected(k, r, n) ==
  records \o << [request |-> records[k].request, n |-> -records[k].n, type |-> "reversal",
                 exception |-> records[k].exception, of |-> k],
                [request |-> r, n |-> n, type |-> "correction",
                 exception |-> records[k].exception, of |-> k] >>

\* Mutant: only the request the amount moves to gets its status anew.
ReprojectedTarget(ledger, from, to, r) ==
  IF r # to THEN request[r].status
  ELSE IF Net(ledger, r) = RequestOf[r].total THEN "paid"
       ELSE IF Net(ledger, r) > 0 THEN "partially_paid" ELSE "generated"

\* Both requests get the status their ledger says, whatever it was.
Reprojected(ledger, from, to, r) ==
  IF r \notin {from, to} THEN request[r].status
  ELSE IF Net(ledger, r) = RequestOf[r].total THEN "paid"
       ELSE IF Net(ledger, r) > 0 THEN "partially_paid" ELSE "generated"

\* Mutant: the exception keeps the refunded amount of before.
RemediedStale(ledger, e) == exceptions[e]

Remedied(ledger, e) ==
  Closing([exceptions[e] EXCEPT !.refunded = Refunded(ledger, e), !.status = "awaiting_remediation"])

\* The approval effect financial_record_correction.
ApplyCorrection(c, u) ==
  LET k      == corrections[c].record
      to     == corrections[c].request
      from   == records[k].request
      e      == records[k].exception
      ledger == Corrected(k, to, corrections[c].n)
  IN /\ Decides(c, u)
     /\ Uncorrected(k)
     /\ CanMoveTo(k, to)
     /\ \A r \in {from, to} : Net(ledger, r) \in 0 .. RequestOf[r].total
     /\ e # 0 => Refunded(ledger, e) + exceptions[e].replaced =< exceptions[e].affected
     /\ records' = ledger
     /\ request' = [r \in Requests |-> [request[r] EXCEPT !.status = Reprojected(ledger, from, to, r)]]
     /\ exceptions' = IF e = 0 THEN exceptions ELSE [exceptions EXCEPT ![e] = Remedied(ledger, e)]
     /\ corrections' = [corrections EXCEPT ![c].status = "approved"]
     /\ UNCHANGED <<invoice, verdict, alloc>>

-----------------------------------------------------------------------------
FinanceNext ==
  \/ \E i \in Invoices, u \in Payers : CreateInvoice(i, u)
  \/ \E i \in Invoices, role \in Verifiers, u \in Payers, decision \in {"approved", "rejected"} :
        RecordVerdict(i, role, u, decision)
  \/ \E i \in Invoices, role \in Verifiers, u \in Payers :
        \E d \in [Requests -> 0 .. InvoiceOf[i].amount] : VerifyInvoice(i, role, u, d)
  \/ \E i \in Invoices, u \in Payers : InvalidateInvoice(i, u)
  \/ \E e \in DOMAIN exceptions, j \in Invoices, u \in Payers :
        \E n \in 1 .. exceptions[e].affected : LinkReplacement(e, j, n, u)
  \/ \E e \in DOMAIN exceptions : WarnOverdue(e)
  \/ \E e \in DOMAIN exceptions, u \in Payers : ReleaseRisk(e, u)
  \/ \E r \in Requests, u \in Payers : \E n \in 1 .. RequestOf[r].total : RecordPayment(r, n, u)
  \/ \E e \in DOMAIN exceptions, r \in Requests, u \in Payers :
        \E n \in 1 .. exceptions[e].affected : RecordRefund(e, r, n, u)
  \/ \E k \in DOMAIN records, r \in Requests, u \in Payers :
        \E n \in 1 .. RequestOf[r].total : RequestCorrection(k, r, n, u)
  \/ \E c \in DOMAIN corrections, u \in Payers : RejectCorrection(c, u) \/ ApplyCorrection(c, u)

FinanceSpec == FinanceInit /\ [][FinanceNext]_financeVars

-----------------------------------------------------------------------------
(* Safety *)

\* An invoice covers requests, or ever did, only after a person of each
\* department approved it, and the two are different people.
TwoVerifiers ==
  \A i \in Invoices :
    invoice[i] = "verified" \/ (\E r \in Requests : alloc[i][r] # NoAlloc)
    => /\ Verified(verdict, i)
       /\ verdict[i]["finance"].by # verdict[i]["supply_chain"].by

ActiveCover(r) == SumFunction([i \in Invoices |->
                    IF alloc[i][r].status = "active" THEN alloc[i][r].n ELSE 0])

\* The covered amount of a request is what valid invoices are allocated to
\* it, never more than its total; and no invoice is allocated beyond its
\* amount, in whatever order invoices are verified, invalidated and replaced.
CoverageIsAllocated ==
  /\ \A r \in Requests : request[r].covered = ActiveCover(r) /\ ActiveCover(r) =< RequestOf[r].total
  /\ \A i \in Invoices :
       SumFunction([r \in Requests |-> alloc[i][r].n]) =< InvoiceOf[i].amount

\* The payments that stand for a request never exceed its total, and what
\* its status says of them is true, through payments, corrections that move
\* money between requests, and invoices that come and go.
StatusTellsNet ==
  \A r \in Requests :
    /\ Net(records, r) \in 0 .. RequestOf[r].total
    /\ request[r].status = "paid" => Net(records, r) = RequestOf[r].total
    /\ request[r].status = "partially_paid" => Net(records, r) \in 1 .. RequestOf[r].total - 1

\* What an exception says was replaced and refunded is what the links and the
\* ledger add up to, together at most the affected amount, and the exception
\* is closed exactly while they make it up: also after refunds are corrected.
RemediationBalanced ==
  \A e \in DOMAIN exceptions :
    LET x == exceptions[e]
    IN /\ x.replaced = SumFunction(x.links) /\ x.refunded = Refunded(records, e)
       /\ x.refunded >= 0 /\ x.replaced + x.refunded =< x.affected
       /\ x.status = "resolved" <=> Settled(x)

(* Action properties *)

\* Money is booked as paid on a request only while invoices that are valid
\* at that moment are allocated to all of it.
FundedWhenPaid ==
  [][\A k \in DOMAIN records' \ DOMAIN records :
       records'[k].exception = 0 /\ records'[k].n > 0
       => ActiveCover(records'[k].request) = RequestOf[records'[k].request].total]_financeVars
=============================================================================
