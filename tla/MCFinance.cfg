SPECIFICATION FinanceSpec
CONSTANTS
  Payers = {"ann", "bob"}
  RolesOf <- MCRolesOf
  Invoices = {a, b}
  InvoiceOf <- MCInvoiceOf
  Requests = {1, 2}
  RequestOf <- MCRequestOf
  MaxExceptions = 2
  MaxPayments = 3
  MaxCorrections = 2
  MaxCases = 3
  PaymentLimit = 4
SYMMETRY InvoiceSymmetry
INVARIANTS
  TwoVerifiers
  CoverageIsAllocated
  StatusTellsNet
  RemediationBalanced
  WorkspaceTrue
PROPERTIES
  FundedWhenPaid
CHECK_DEADLOCK FALSE
