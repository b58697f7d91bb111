----------------------------- MODULE MCFinance ------------------------------
EXTENDS FinanceReads, TLC

\* An administrator may act for either department; the other is in finance.
MCRolesOf == [ann |-> {"admin"}, bob |-> {"finance"}]

\* Two invoices of one order, alike, so that they may be exchanged.
MCInvoiceOf == [i \in Invoices |-> [order |-> "o", amount |-> 2, expected |-> 2]]
InvoiceSymmetry == Permutations(Invoices)

MCRequestOf == <<[orders |-> {"o"}, total |-> 2], [orders |-> {"o"}, total |-> 1]>>
=============================================================================
