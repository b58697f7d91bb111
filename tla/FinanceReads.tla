---------------------------- MODULE FinanceReads ----------------------------
(***************************************************************************)
(* GET /finance, and what the finance workspace of the web client makes of *)
(* it: the amounts it adds up and the buttons it offers. A page shows the  *)
(* newest rows of every table up to a limit of its own and answers 503 if  *)
(* one of them does not parse. Columns the model has no variable for       *)
(* always parse; so do the orders and the items of the requests.           *)
(***************************************************************************)
EXTENDS Finance

CONSTANT PaymentLimit \* payment records a page shows (300; a bound here)

ASSUME PaymentLimitAssumption == PaymentLimit \in Nat \ {0}

FinanceRoles == {"admin", "supply_chain", "finance"}

-----------------------------------------------------------------------------
(* The page *)

InvoiceParses(i) == invoice[i] \in {"pending", "received", "verified", "rejected", "invalidated"}
RequestParses(r) ==
  /\ request[r].covered >= 0
  /\ request[r].status \in {"waiting_invoice", "generated", "submitted_to_finance", "paid",
       "partially_paid", "invoice_exception_frozen", "failed", "cancelled"}
RecordParses(k) == records[k].type \in {"payment", "reversal", "correction", "refund"}
VerdictParses(i, role) == verdict[i][role].decision \in {"approved", "rejected"}
AllocationParses(i, r) == alloc[i][r].n >= 0 /\ alloc[i][r].status \in {"active", "frozen", "released"}
ExceptionParses(e) ==
  /\ exceptions[e].affected >= 0 /\ exceptions[e].replaced >= 0 /\ exceptions[e].refunded >= 0
  /\ exceptions[e].status \in {"awaiting_remediation", "risk_warning", "resolved"}
LinkParses(e, j) == exceptions[e].links[j] >= 0

ShownRecords == {k \in DOMAIN records : k > Len(records) - PaymentLimit}

FinanceReply(u) ==
  CASE ~Has(u, FinanceRoles) -> 403
    [] \/ \E i \in Invoices : invoice[i] # "none" /\ ~InvoiceParses(i)
       \/ \E r \in Requests : ~RequestParses(r)
       \/ \E k \in ShownRecords : ~RecordParses(k)
       \/ \E i \in Invoices, role \in Verifiers :
            verdict[i][role] # NoVerdict /\ ~VerdictParses(i, role)
       \/ \E i \in Invoices, r \in Requests : alloc[i][r] # NoAlloc /\ ~AllocationParses(i, r)
       \/ \E e \in DOMAIN exceptions : \/ ~ExceptionParses(e)
                                       \/ \E j \in Invoices : ~LinkParses(e, j)   -> 503
    [] OTHER -> 200

-----------------------------------------------------------------------------
(* The workspace *)

\* isPayableLedgerRecord: it throws on a record that makes no sense, and the
\* workspace does not show at all then.
Senseless(k) ==
  \/ IF records[k].type = "reversal" THEN records[k].n >= 0 ELSE records[k].n =< 0
  \/ records[k].type = "payment" /\ records[k].exception # 0
  \/ records[k].type = "refund" /\ records[k].exception = 0

\* Mutant: refunds and their corrections count as well.
EveryRecordCounts(k) == TRUE

CountsAsPaid(k) == \/ records[k].type = "payment"
                   \/ records[k].type \in {"correction", "reversal"} /\ records[k].exception = 0

Paid(r) == SumFunctionOnSet([k \in DOMAIN records |-> records[k].n],
                            {k \in ShownRecords : records[k].request = r /\ CountsAsPaid(k)})
Due == SumFunctionOnSet([r \in Requests |-> IF Paid(r) < RequestOf[r].total
                                            THEN RequestOf[r].total - Paid(r) ELSE 0],
                        {r \in Requests : request[r].status \notin {"paid", "cancelled"}})

PayOffered(r) ==
  /\ request[r].status \notin {"paid", "cancelled", "invoice_exception_frozen"}
  /\ request[r].covered >= RequestOf[r].total

VerifyOffered(i, decision) ==
  /\ invoice[i] = "received"
  /\ decision = "approved" => InvoiceOf[i].amount = InvoiceOf[i].expected
InvalidateOffered(i) == invoice[i] = "verified"
RemedyOffered(e) == exceptions[e].status # "resolved"
LeftToRemedy(e) == exceptions[e].affected - exceptions[e].replaced - exceptions[e].refunded

-----------------------------------------------------------------------------
(* Safety *)

\* Everyone in finance gets the page in every state the commands reach, and
\* the workspace can show it. As long as no ledger record has dropped out of
\* the page, the balance it shows as due is exactly what is unpaid of all
\* requests, whatever became of their status. A request offered for payment
\* is payable; an invoice offered for verification still lacks somebody's
\* verdict and was rejected by nobody; a valid invoice can be declared
\* invalid, for it has no open exception; and an open exception has something
\* left to be remedied.
WorkspaceTrue ==
  /\ \A u \in Payers : FinanceReply(u) # 503
  /\ \A k \in ShownRecords : ~Senseless(k)
  /\ Len(records) =< PaymentLimit =>
       Due = SumFunction([r \in Requests |-> RequestOf[r].total - Net(records, r)])
  /\ \A r \in Requests : PayOffered(r) => Payable(r)
  /\ \A i \in Invoices :
       /\ VerifyOffered(i, "rejected") =>
            /\ \E role \in Verifiers : verdict[i][role] = NoVerdict
            /\ \A role \in Verifiers : verdict[i][role].decision # "rejected"
       /\ InvalidateOffered(i) =>
            \A e \in DOMAIN exceptions : exceptions[e].invoice = i => ~Open(e)
  /\ \A e \in DOMAIN exceptions : RemedyOffered(e) => LeftToRemedy(e) > 0
=============================================================================
