--------------------------- MODULE FinanceProofs ----------------------------
(***************************************************************************)
(* The finance tables stay right for any number of people, invoices, requests *)
(* and commands: coverage is what valid invoices are allocated, statuses tell *)
(* what the ledger adds up to, exceptions balance, money is booked as paid *)
(* only where it is covered, and the pages over the tables are true.       *)
(*                                                                         *)
(* The inductive invariant joins these statements, because each needs others: *)
(* that invalidating an invoice never takes more coverage back than there is *)
(* follows from coverage being a sum it is part of; that a verified invoice *)
(* adds what it allocates, from its having allocated nothing while it was only *)
(* received (VerdictInv); that a refunded amount is never negative, from every *)
(* reversal cancelling exactly one record (ReversalsCancel).               *)
(***************************************************************************)
EXTENDS FinanceReads, Sums

\* A row of payment_records.
Row == [request: Requests, n: Int, exception: Nat, of: Nat,
        type: {"payment", "refund", "reversal", "correction"}]

\* The amounts of the rows, and the rows that two of the sums are over.
Booking(ledger) == [k \in DOMAIN ledger |-> ledger[k].n]

OfException(ledger, e) == {k \in DOMAIN ledger : ledger[k].exception = e}
OfRequest(ledger, r) == {k \in DOMAIN ledger : ledger[k].request = r /\ ledger[k].exception = 0}

\* Net and Refunded are sums over sets of rows.
LEMMA SumsAre ==
  ASSUME NEW L
  PROVE  /\ \A r : Net(L, r) = SumOf(Booking(L), OfRequest(L, r))
         /\ \A e : Refunded(L, e) = SumOf(Booking(L), OfException(L, e))
  BY DEF Net, Refunded, SumWhere, SumOf, Booking, OfRequest, OfException

\* A row more adds its amount to the sums it belongs to.
LEMMA Appended ==
  ASSUME NEW L \in Seq(Row), NEW p \in Row
  PROVE  /\ Append(L, p) \in Seq(Row)
         /\ \A r : /\ Net(L, r) \in Int
                   /\ Net(Append(L, p), r) =
                        Net(L, r) + (IF p.request = r /\ p.exception = 0 THEN p.n ELSE 0)
         /\ \A e : /\ Refunded(L, e) \in Int
                   /\ Refunded(Append(L, p), e) =
                        Refunded(L, e) + (IF p.exception = e THEN p.n ELSE 0)
  <1> DEFINE n == Len(L)
             M == Append(L, p)
             f == Booking(L)
             g == Booking(M)
  <1>1. /\ n \in Nat /\ DOMAIN L = 1 .. n /\ DOMAIN M = 1 .. n + 1
        /\ M \in Seq(Row) /\ M[n + 1] = p /\ \A k \in 1 .. n : M[k] = L[k] /\ L[k] \in Row
    OBVIOUS
  <1> DEFINE m == n + 1
  <1>2. f \in [1 .. n -> Int] /\ g \in [1 .. n + 1 -> Int] /\ \A k \in 1 .. n : g[k] = f[k]
    BY <1>1 DEF Booking, Row
  <1>2a. g[m] = p.n /\ p.n \in Int /\ DOMAIN f = 1 .. n
    BY <1>1 DEF Booking, Row
  <1>2b. IsFiniteSet(1 .. n)
    BY <1>1, FS_Interval
  <1>2c. 1 .. n + 1 = (1 .. n) \cup {n + 1}
    BY <1>1
  <1>3. Grown(f, g, m)
    BY <1>2, <1>2a, <1>2b, <1>2c DEF Grown
  <1> HIDE DEF n, f, g, m
  <1>4. ASSUME NEW K, K \subseteq DOMAIN f
        PROVE  /\ SumOf(f, K) \in Int
               /\ SumOf(g, K) = SumOf(f, K)
               /\ SumOf(g, K \cup {m}) = SumOf(f, K) + g[m]
    BY <1>3, <1>4, SumGrown
  <1>5. ASSUME NEW r
        PROVE  /\ Net(L, r) \in Int
               /\ Net(M, r) = Net(L, r) + (IF p.request = r /\ p.exception = 0 THEN p.n ELSE 0)
    <2> DEFINE K == OfRequest(L, r)
    <2>1. /\ K \subseteq DOMAIN f
          /\ OfRequest(M, r) = IF p.request = r /\ p.exception = 0 THEN K \cup {m} ELSE K
      BY <1>1, <1>2a DEF OfRequest, m
    <2> HIDE DEF K
    <2>2. Net(L, r) = SumOf(f, K) /\ Net(M, r) = SumOf(g, OfRequest(M, r))
      BY SumsAre DEF K, f, g
    <2>3. /\ SumOf(f, K) \in Int
          /\ SumOf(g, K) = SumOf(f, K)
          /\ SumOf(g, K \cup {m}) = SumOf(f, K) + p.n
      BY <1>2a, <1>4, <2>1
    <2>4. CASE p.request = r /\ p.exception = 0
      BY <1>2a, <2>1, <2>2, <2>3, <2>4
    <2>5. CASE ~ (p.request = r /\ p.exception = 0)
      BY <1>2a, <2>1, <2>2, <2>3, <2>5
    <2> QED
      BY <2>4, <2>5
  <1>6. ASSUME NEW e
        PROVE  /\ Refunded(L, e) \in Int
               /\ Refunded(M, e) = Refunded(L, e) + (IF p.exception = e THEN p.n ELSE 0)
    <2> DEFINE K == OfException(L, e)
    <2>1. /\ K \subseteq DOMAIN f
          /\ OfException(M, e) = IF p.exception = e THEN K \cup {m} ELSE K
      BY <1>1, <1>2a DEF OfException, m
    <2> HIDE DEF K
    <2>2. Refunded(L, e) = SumOf(f, K) /\ Refunded(M, e) = SumOf(g, OfException(M, e))
      BY SumsAre DEF K, f, g
    <2>3. /\ SumOf(f, K) \in Int
          /\ SumOf(g, K) = SumOf(f, K)
          /\ SumOf(g, K \cup {m}) = SumOf(f, K) + p.n
      BY <1>2a, <1>4, <2>1
    <2>4. CASE p.exception = e
      BY <1>2a, <2>1, <2>2, <2>3, <2>4
    <2>5. CASE ~ (p.exception = e)
      BY <1>2a, <2>1, <2>2, <2>3, <2>5
    <2> QED
      BY <2>4, <2>5
  <1> QED
    BY <1>1, <1>5, <1>6

-----------------------------------------------------------------------------
\* What record k still says was booked: nothing, once it is booked back.
Standing(ledger) ==
  [k \in DOMAIN ledger |->
     IF ledger[k].type = "reversal" \/ (\E j \in DOMAIN ledger : ledger[j].of = k)
     THEN 0 ELSE ledger[k].n]

StandsFor(ledger, e) == SumOf(Standing(ledger), OfException(ledger, e))

\* The rows of a ledger, and what they stand for.
LEMMA StandingType ==
  ASSUME NEW L \in Seq(Row)
  PROVE  /\ Standing(L) \in [1 .. Len(L) -> Int] /\ DOMAIN Standing(L) = 1 .. Len(L)
         /\ Len(L) \in Nat /\ DOMAIN L = 1 .. Len(L) /\ \A k \in 1 .. Len(L) : L[k] \in Row
         /\ IsFiniteSet(1 .. Len(L)) /\ Len(L) + 1 \notin 1 .. Len(L)
         /\ 1 .. Len(L) + 1 = (1 .. Len(L)) \cup {Len(L) + 1}
         /\ \A e : OfException(L, e) \subseteq 1 .. Len(L)
  <1>1. Len(L) \in Nat /\ DOMAIN L = 1 .. Len(L) /\ \A k \in 1 .. Len(L) : L[k] \in Row
    OBVIOUS
  <1>2. Standing(L) \in [1 .. Len(L) -> Int] /\ DOMAIN Standing(L) = 1 .. Len(L)
    BY <1>1 DEF Standing, Row
  <1>3. IsFiniteSet(1 .. Len(L))
    BY <1>1, FS_Interval
  <1>4. \A e : OfException(L, e) \subseteq 1 .. Len(L)
    BY <1>1 DEF OfException
  <1>5. Len(L) + 1 \notin 1 .. Len(L) /\ 1 .. Len(L) + 1 = (1 .. Len(L)) \cup {Len(L) + 1}
    BY <1>1
  <1> QED
    BY <1>1, <1>2, <1>3, <1>4, <1>5

\* The rows of a ledger with one row more.
LEMMA AppendedRows ==
  ASSUME NEW L \in Seq(Row), NEW p \in Row
  PROVE  /\ Append(L, p) \in Seq(Row) /\ Len(Append(L, p)) = Len(L) + 1
         /\ DOMAIN Append(L, p) = 1 .. Len(L) + 1
         /\ Append(L, p)[Len(L) + 1] = p
         /\ \A k \in 1 .. Len(L) : Append(L, p)[k] = L[k]
         /\ \A e : OfException(Append(L, p), e) =
              IF p.exception = e THEN OfException(L, e) \cup {Len(L) + 1} ELSE OfException(L, e)
  <1> DEFINE M == Append(L, p)
  <1>1. /\ M \in Seq(Row) /\ Len(M) = Len(L) + 1 /\ DOMAIN M = 1 .. Len(L) + 1
        /\ M[Len(L) + 1] = p /\ \A k \in 1 .. Len(L) : M[k] = L[k]
        /\ Len(L) \in Nat /\ DOMAIN L = 1 .. Len(L)
    OBVIOUS
  <1> HIDE DEF M
  <1>2. \A e : OfException(M, e) =
              IF p.exception = e THEN OfException(L, e) \cup {Len(L) + 1} ELSE OfException(L, e)
    BY <1>1 DEF OfException
  <1> QED
    BY <1>1, <1>2 DEF M

\* A new record p of ledger L, the record it corrects, if any, being booked
\* back already.
Books(L, p) ==
  /\ L \in Seq(Row) /\ p \in Row /\ p.type # "reversal"
  /\ p.of = 0 \/ (\E j \in DOMAIN L : L[j].of = p.of)
  /\ p.of # Len(L) + 1 /\ \A j \in DOMAIN L : L[j].of # Len(L) + 1

\* It stands for its amount.
LEMMA StandsAppended ==
  ASSUME NEW L, NEW p, Books(L, p), NEW e
  PROVE  /\ StandsFor(L, e) \in Int
         /\ StandsFor(Append(L, p), e) = StandsFor(L, e) + (IF p.exception = e THEN p.n ELSE 0)
  <1> DEFINE M == Append(L, p)
             f == Standing(L)
             g == Standing(M)
             m == Len(L) + 1
             K == OfException(L, e)
  <1>0. /\ L \in Seq(Row) /\ p \in Row /\ p.type # "reversal"
        /\ p.of = 0 \/ (\E j \in DOMAIN L : L[j].of = p.of)
        /\ p.of # Len(L) + 1 /\ \A j \in DOMAIN L : L[j].of # Len(L) + 1
    BY DEF Books
  <1>1. /\ M \in Seq(Row) /\ Len(M) = m /\ DOMAIN M = 1 .. m
        /\ M[m] = p /\ \A k \in 1 .. Len(L) : M[k] = L[k]
    BY <1>0, AppendedRows
  <1>2. OfException(M, e) = IF p.exception = e THEN K \cup {m} ELSE K
    BY <1>0, AppendedRows
  <1>3. /\ f \in [1 .. Len(L) -> Int] /\ DOMAIN f = 1 .. Len(L) /\ IsFiniteSet(1 .. Len(L))
        /\ m \notin 1 .. Len(L) /\ 1 .. m = (1 .. Len(L)) \cup {m} /\ K \subseteq DOMAIN f
        /\ DOMAIN L = 1 .. Len(L) /\ Len(L) \in Nat
    BY <1>0, StandingType
  <1>4. g \in [1 .. m -> Int]
    BY <1>0, <1>1, StandingType
  <1>5. g[m] = p.n
    <2>1. \A j \in DOMAIN M : M[j].of # m
      BY <1>0, <1>1, <1>3
    <2>2. m \in DOMAIN M
      BY <1>0, <1>1, <1>3
    <2> QED
      BY <1>0, <1>1, <2>1, <2>2 DEF Standing
  <1>6. ASSUME NEW k \in 1 .. Len(L) PROVE g[k] = f[k]
    <2>1. M[k] = L[k] /\ k \in DOMAIN M /\ k \in DOMAIN L
      BY <1>0, <1>1, <1>3
    <2>2. (\E j \in DOMAIN M : M[j].of = k) <=> (\E j \in DOMAIN L : L[j].of = k)
      <3>1. ASSUME NEW j \in DOMAIN M, M[j].of = k PROVE \E i \in DOMAIN L : L[i].of = k
        <4>1. CASE j = m
          BY <1>0, <1>1, <1>3, <3>1, <4>1
        <4>2. CASE j # m
          BY <1>0, <1>1, <1>3, <3>1, <4>2
        <4> QED
          BY <4>1, <4>2
      <3>2. ASSUME NEW j \in DOMAIN L, L[j].of = k PROVE \E i \in DOMAIN M : M[i].of = k
        BY <1>0, <1>1, <1>3, <3>2
      <3> QED
        BY <3>1, <3>2
    <2> HIDE DEF M
    <2> QED
      BY <1>0, <2>1, <2>2 DEF Standing
  <1>7. Grown(f, g, m)
    BY <1>3, <1>4, <1>6 DEF Grown
  <1> HIDE DEF f, g, m, K, M
  <1>8. SumOf(f, K) \in Int /\ SumOf(g, K) = SumOf(f, K) /\ SumOf(g, K \cup {m}) = SumOf(f, K) + g[m]
    <2>1. K \subseteq DOMAIN f
      BY <1>3
    <2> QED
      BY <1>7, <2>1, SumGrown
  <1>9. StandsFor(L, e) = SumOf(f, K) /\ StandsFor(M, e) = SumOf(g, OfException(M, e))
    BY DEF StandsFor, f, g, K
  <1>10. p.n \in Int
    BY <1>0 DEF Row
  <1>11. CASE p.exception = e
    BY <1>2, <1>5, <1>8, <1>9, <1>11 DEF M
  <1>12. CASE p.exception # e
    BY <1>2, <1>8, <1>9, <1>12 DEF M
  <1> QED
    BY <1>0, <1>11, <1>12

\* p books record k of ledger L back.
BooksBack(L, p, k) ==
  /\ L \in Seq(Row) /\ p \in Row /\ k \in DOMAIN L
  /\ p.type = "reversal" /\ p.of = k /\ p.exception = L[k].exception
  /\ L[k].type # "reversal"
  /\ \A j \in DOMAIN L : L[j].of # k /\ L[j].of # Len(L) + 1

\* That record no longer stands for its amount, and the reversal for none.
LEMMA StandsReversed ==
  ASSUME NEW L, NEW p, NEW k, BooksBack(L, p, k), NEW e
  PROVE  StandsFor(Append(L, p), e) = StandsFor(L, e) - (IF p.exception = e THEN L[k].n ELSE 0)
  <1> DEFINE M == Append(L, p)
             f == Standing(L)
             h == [f EXCEPT ![k] = 0]
             g == Standing(M)
             m == Len(L) + 1
             K == OfException(L, e)
  <1>0. /\ L \in Seq(Row) /\ p \in Row /\ k \in DOMAIN L
        /\ p.type = "reversal" /\ p.of = k /\ p.exception = L[k].exception
        /\ L[k].type # "reversal"
        /\ \A j \in DOMAIN L : L[j].of # k /\ L[j].of # Len(L) + 1
    BY DEF BooksBack
  <1>1. /\ M \in Seq(Row) /\ Len(M) = m /\ DOMAIN M = 1 .. m
        /\ M[m] = p /\ \A j \in 1 .. Len(L) : M[j] = L[j]
    BY <1>0, AppendedRows
  <1>2. OfException(M, e) = IF p.exception = e THEN K \cup {m} ELSE K
    BY <1>0, AppendedRows
  <1>3. /\ f \in [1 .. Len(L) -> Int] /\ DOMAIN f = 1 .. Len(L) /\ IsFiniteSet(1 .. Len(L))
        /\ m \notin 1 .. Len(L) /\ 1 .. m = (1 .. Len(L)) \cup {m} /\ K \subseteq DOMAIN f
        /\ DOMAIN L = 1 .. Len(L) /\ Len(L) \in Nat
    BY <1>0, StandingType
  <1>4. g \in [1 .. m -> Int]
    BY <1>0, <1>1, StandingType
  <1>5. g[m] = 0
    BY <1>0, <1>1, <1>3 DEF Standing
  <1>6. /\ h \in [1 .. Len(L) -> Int] /\ DOMAIN h = 1 .. Len(L)
        /\ h[k] = 0 /\ \A j \in 1 .. Len(L) : j # k => h[j] = f[j]
    BY <1>0, <1>3
  <1>7. ASSUME NEW j \in 1 .. Len(L) PROVE g[j] = h[j]
    <2>1. M[j] = L[j] /\ j \in DOMAIN M /\ j \in DOMAIN L
      BY <1>0, <1>1, <1>3
    <2>2. CASE j = k
      <3>1. \E i \in DOMAIN M : M[i].of = j
        BY <1>0, <1>1, <1>3, <2>2
      <3>2. g[j] = 0
        BY <1>0, <2>1, <3>1 DEF Standing
      <3> QED
        BY <1>0, <1>6, <2>2, <3>2
    <2>3. CASE j # k
      <3>1. (\E i \in DOMAIN M : M[i].of = j) <=> (\E i \in DOMAIN L : L[i].of = j)
        <4>1. \A i \in 1 .. Len(L) : M[i].of = j <=> L[i].of = j
          BY <1>0, <1>1
        <4>2. M[m].of # j
          BY <1>0, <1>1, <2>3
        <4> QED
          BY <1>0, <1>1, <1>3, <4>1, <4>2
      <3> HIDE DEF M
      <3>2. g[j] = f[j]
        BY <1>0, <2>1, <3>1 DEF Standing
      <3> QED
        BY <1>0, <1>6, <2>3, <3>2
    <2> QED
      BY <1>0, <2>2, <2>3
  <1>8. Grown(h, g, m)
    BY <1>0, <1>3, <1>4, <1>6, <1>7 DEF Grown
  <1>9. f[k] = L[k].n
    BY <1>0, <1>3 DEF Standing
  <1> HIDE DEF f, g, h, m, K, M
  <1>10. /\ SumOf(g, K) = SumOf(h, K) /\ SumOf(g, K \cup {m}) = SumOf(h, K) + g[m]
         /\ SumOf(h, K) \in Int
    <2>1. K \subseteq DOMAIN h
      BY <1>0, <1>3, <1>6
    <2> QED
      BY <1>0, <1>8, <2>1, SumGrown
  <1>11. StandsFor(L, e) = SumOf(f, K) /\ StandsFor(M, e) = SumOf(g, OfException(M, e))
    BY DEF StandsFor, f, g, K
  <1>12. CASE p.exception = e
    <2>1. k \in K
      BY <1>0, <1>12 DEF K, OfException
    <2>2. Changed(f, h, k, K)
      BY <1>0, <1>3, <1>6, <2>1, FS_Subset DEF Changed
    <2>3. SumOf(f, K) \in Int /\ SumOf(h, K) = SumOf(f, K) - f[k] + h[k]
      BY <1>0, <2>2, SumChanged
    <2>4. StandsFor(M, e) = SumOf(f, K) - f[k]
      <3>1. f[k] \in Int
        BY <1>0, <1>3
      <3> QED
        BY <1>0, <1>2, <1>5, <1>6, <1>10, <1>11, <1>12, <2>3, <3>1
    <2> QED
      BY <1>0, <1>9, <1>11, <1>12, <2>4 DEF M
  <1>13. CASE p.exception # e
    <2>1. k \notin K
      BY <1>0, <1>13 DEF K, OfException
    <2>2. SumOf(h, K) = SumOf(f, K)
      <3>1. Same(f, h, K)
        BY <1>0, <1>3, <1>6, <2>1, FS_Subset DEF Same
      <3> QED
        BY <1>0, <3>1, SumSame
    <2> QED
      BY <1>0, <1>2, <1>10, <1>11, <1>13, <2>2 DEF M
  <1> QED
    BY <1>0, <1>12, <1>13

-----------------------------------------------------------------------------
\* The tables of invoices are well formed.
InvoicesOK ==
  /\ invoice \in [Invoices -> {"none", "received", "verified", "rejected", "invalidated"}]
  /\ verdict \in [Invoices -> [Verifiers ->
       [by: Payers, decision: {"approved", "rejected"}] \cup {NoVerdict}]]
  /\ alloc \in [Invoices -> [Requests -> [n: Nat, status: {"active", "frozen"}] \cup {NoAlloc}]]

\* Nobody has given both verdicts of an invoice.
OneVerdictEach ==
  \A i \in Invoices :
    (\A v \in Verifiers : verdict[i][v] # NoVerdict)
    => verdict[i]["finance"].by # verdict[i]["supply_chain"].by

\* An invoice that covers requests, or did, has been verified.
AllocatedWasVerified ==
  \A i \in Invoices :
    (\E r \in Requests : alloc[i][r] # NoAlloc) => invoice[i] \in {"verified", "invalidated"}

VerdictInv == /\ InvoicesOK
              /\ OneVerdictEach
              /\ AllocatedWasVerified
              /\ TwoVerifiers

-----------------------------------------------------------------------------
\* A verdict is stored for a role that had none, by somebody who has not given
\* the other; the verdicts of other invoices stay.
LEMMA GivenVerdict ==
  ASSUME VerdictInv, NEW i \in Invoices, NEW role \in Verifiers, NEW u \in Payers,
         NEW decision \in {"approved", "rejected"}, GiveVerdict(i, role, u, decision)
  PROVE  /\ invoice[i] = "received"
         /\ verdict' \in [Invoices -> [Verifiers ->
              [by: Payers, decision: {"approved", "rejected"}] \cup {NoVerdict}]]
         /\ \A j \in Invoices : j # i => verdict'[j] = verdict[j]
         /\ OneVerdictEach'
  <1>1. /\ invoice[i] = "received"
        /\ verdict' = [verdict EXCEPT ![i][role] = [by |-> u, decision |-> decision]]
        /\ \A v \in Verifiers : verdict[i][v].by # u
    BY DEF GiveVerdict, CanVerify
  <1>2. /\ verdict'[i][role] = [by |-> u, decision |-> decision]
        /\ \A v \in Verifiers : v # role => verdict'[i][v] = verdict[i][v]
        /\ \A j \in Invoices : j # i => verdict'[j] = verdict[j]
    BY <1>1 DEF VerdictInv, InvoicesOK
  <1>3. verdict' \in [Invoices -> [Verifiers ->
          [by: Payers, decision: {"approved", "rejected"}] \cup {NoVerdict}]]
    BY <1>1 DEF VerdictInv, InvoicesOK
  <1>4. verdict'[i]["finance"].by # verdict'[i]["supply_chain"].by
    BY <1>1, <1>2 DEF Verifiers
  <1>5. OneVerdictEach'
    BY <1>2, <1>4 DEF VerdictInv, OneVerdictEach
  <1> QED BY <1>1, <1>2, <1>3, <1>5

\* A verdict that settles nothing, or rejects, concerns an invoice that is not
\* allocated and does not become so.
LEMMA RecordPreserves ==
  ASSUME VerdictInv, NEW i \in Invoices, NEW role \in Verifiers, NEW u \in Payers,
         NEW decision \in {"approved", "rejected"}, RecordVerdict(i, role, u, decision)
  PROVE  VerdictInv'
  <1>1. /\ GiveVerdict(i, role, u, decision)
        /\ invoice' = [invoice EXCEPT ![i] = IF decision = "rejected" THEN "rejected" ELSE @]
        /\ UNCHANGED alloc
    BY DEF RecordVerdict
  <1>2. /\ invoice[i] = "received"
        /\ verdict' \in [Invoices -> [Verifiers ->
              [by: Payers, decision: {"approved", "rejected"}] \cup {NoVerdict}]]
        /\ \A j \in Invoices : j # i => verdict'[j] = verdict[j]
        /\ OneVerdictEach'
    BY <1>1, GivenVerdict
  <1>3. /\ invoice' \in [Invoices -> {"none", "received", "verified", "rejected", "invalidated"}]
        /\ invoice'[i] \in {"received", "rejected"}
        /\ \A j \in Invoices : j # i => invoice'[j] = invoice[j]
    BY <1>1, <1>2 DEF VerdictInv, InvoicesOK
  <1>4. \A r \in Requests : alloc[i][r] = NoAlloc
    BY <1>2 DEF VerdictInv, AllocatedWasVerified
  <1>5. InvoicesOK' /\ AllocatedWasVerified'
    BY <1>1, <1>2, <1>3, <1>4 DEF VerdictInv, InvoicesOK, AllocatedWasVerified
  <1>6. TwoVerifiers'
    BY <1>1, <1>2, <1>3, <1>4 DEF VerdictInv, TwoVerifiers, Verified
  <1> QED BY <1>2, <1>5, <1>6 DEF VerdictInv

\* The second approval verifies and allocates at once.
LEMMA VerifyPreserves ==
  ASSUME VerdictInv, NEW i \in Invoices, NEW role \in Verifiers, NEW u \in Payers,
         NEW d \in [Requests -> 0 .. InvoiceOf[i].amount], VerifyInvoice(i, role, u, d)
  PROVE  VerdictInv'
  <1>1. /\ GiveVerdict(i, role, u, "approved")
        /\ Verified(verdict', i)
        /\ invoice' = [invoice EXCEPT ![i] = "verified"]
        /\ alloc' = [alloc EXCEPT ![i] = [r \in Requests |->
                       IF d[r] = 0 THEN NoAlloc ELSE [n |-> d[r], status |-> "active"]]]
    BY DEF VerifyInvoice
  <1>2. /\ verdict' \in [Invoices -> [Verifiers ->
              [by: Payers, decision: {"approved", "rejected"}] \cup {NoVerdict}]]
        /\ \A j \in Invoices : j # i => verdict'[j] = verdict[j]
        /\ OneVerdictEach'
    BY <1>1, GivenVerdict
  <1>3. /\ invoice' \in [Invoices -> {"none", "received", "verified", "rejected", "invalidated"}]
        /\ invoice'[i] = "verified"
        /\ \A j \in Invoices : j # i => invoice'[j] = invoice[j]
    BY <1>1 DEF VerdictInv, InvoicesOK
  <1>4. \A r \in Requests : d[r] \in Nat
    BY InvoiceAssumption
  <1>5. /\ alloc' \in [Invoices -> [Requests -> [n: Nat, status: {"active", "frozen"}] \cup {NoAlloc}]]
        /\ \A j \in Invoices : j # i => alloc'[j] = alloc[j]
    BY <1>1, <1>4 DEF VerdictInv, InvoicesOK
  <1>6. \A v \in Verifiers : verdict'[i][v] # NoVerdict
    BY <1>1 DEF Verified, NoVerdict
  <1>7. verdict'[i]["finance"].by # verdict'[i]["supply_chain"].by
    BY <1>2, <1>6 DEF OneVerdictEach
  <1>8. InvoicesOK' /\ AllocatedWasVerified'
    BY <1>2, <1>3, <1>5 DEF VerdictInv, InvoicesOK, AllocatedWasVerified
  <1>9. TwoVerifiers'
    BY <1>1, <1>2, <1>3, <1>5, <1>7 DEF VerdictInv, TwoVerifiers, Verified
  <1> QED BY <1>2, <1>8, <1>9 DEF VerdictInv

\* Invalidating freezes the allocations of an invoice: they are no fewer.
LEMMA InvalidatePreserves ==
  ASSUME VerdictInv, NEW i \in Invoices, NEW u \in Payers, InvalidateInvoice(i, u)
  PROVE  VerdictInv'
  <1> DEFINE held == {r \in Requests : alloc[i][r].status = "active"}
             row  == [r \in Requests |->
                        IF r \in held THEN [alloc[i][r] EXCEPT !.status = "frozen"] ELSE alloc[i][r]]
  <1>1. /\ invoice' = [invoice EXCEPT ![i] = "invalidated"]
        /\ alloc' = [alloc EXCEPT ![i] = row]
        /\ UNCHANGED verdict
    BY DEF InvalidateInvoice
  <1>2. \A r \in Requests : /\ row[r] \in [n: Nat, status: {"active", "frozen"}] \cup {NoAlloc}
                            /\ row[r] # NoAlloc => alloc[i][r] # NoAlloc
    <2> SUFFICES ASSUME NEW r \in Requests
                 PROVE  /\ row[r] \in [n: Nat, status: {"active", "frozen"}] \cup {NoAlloc}
                        /\ row[r] # NoAlloc => alloc[i][r] # NoAlloc
      OBVIOUS
    <2>1. alloc[i][r] \in [n: Nat, status: {"active", "frozen"}] \cup {NoAlloc}
      BY DEF VerdictInv, InvoicesOK
    <2>2. alloc[i][r].status = "active" => alloc[i][r] # NoAlloc
      BY DEF NoAlloc
    <2> QED BY <2>1, <2>2
  <1>3. row \in [Requests -> [n: Nat, status: {"active", "frozen"}] \cup {NoAlloc}]
    BY <1>2
  <1> HIDE DEF row
  <1>4. /\ alloc' \in [Invoices -> [Requests -> [n: Nat, status: {"active", "frozen"}] \cup {NoAlloc}]]
        /\ alloc'[i] = row
        /\ \A j \in Invoices : j # i => alloc'[j] = alloc[j]
    BY <1>1, <1>3 DEF VerdictInv, InvoicesOK
  <1>5. /\ invoice' \in [Invoices -> {"none", "received", "verified", "rejected", "invalidated"}]
        /\ invoice'[i] = "invalidated"
        /\ \A j \in Invoices : j # i => invoice'[j] = invoice[j]
    BY <1>1 DEF VerdictInv, InvoicesOK
  <1>6. InvoicesOK' /\ AllocatedWasVerified' /\ OneVerdictEach'
    BY <1>1, <1>4, <1>5 DEF VerdictInv, InvoicesOK, AllocatedWasVerified, OneVerdictEach
  <1>7. TwoVerifiers'
    BY <1>1, <1>2, <1>4, <1>5 DEF VerdictInv, TwoVerifiers, Verified
  <1> QED BY <1>6, <1>7 DEF VerdictInv

\* A new invoice has no allocation.
LEMMA CreatePreserves ==
  ASSUME VerdictInv, NEW i \in Invoices, NEW u \in Payers, CreateInvoice(i, u)
  PROVE  VerdictInv'
  <1>1. /\ invoice[i] = "none" /\ UNCHANGED <<verdict, alloc>>
        /\ invoice' = [invoice EXCEPT ![i] = "received"]
    BY DEF CreateInvoice
  <1>2. \A r \in Requests : alloc[i][r] = NoAlloc
    BY <1>1 DEF VerdictInv, AllocatedWasVerified
  <1>3. /\ invoice' \in [Invoices -> {"none", "received", "verified", "rejected", "invalidated"}]
        /\ invoice'[i] = "received"
        /\ \A j \in Invoices : j # i => invoice'[j] = invoice[j]
    BY <1>1 DEF VerdictInv, InvoicesOK
  <1> QED BY <1>1, <1>2, <1>3
          DEF VerdictInv, InvoicesOK, AllocatedWasVerified, OneVerdictEach, TwoVerifiers, Verified

\* Every command preserves the invariant.
LEMMA VerdictStep ==
  ASSUME VerdictInv, [FinanceNext]_financeVars
  PROVE  VerdictInv'
  <1>1. CASE UNCHANGED <<invoice, verdict, alloc>>
    BY <1>1 DEF VerdictInv, InvoicesOK, AllocatedWasVerified, OneVerdictEach, TwoVerifiers, Verified
  <1>2. FinanceNext =>
          \/ UNCHANGED <<invoice, verdict, alloc>>
          \/ \E i \in Invoices, u \in Payers : CreateInvoice(i, u) \/ InvalidateInvoice(i, u)
          \/ \E i \in Invoices, role \in Verifiers, u \in Payers :
               \/ \E decision \in {"approved", "rejected"} : RecordVerdict(i, role, u, decision)
               \/ \E d \in [Requests -> 0 .. InvoiceOf[i].amount] : VerifyInvoice(i, role, u, d)
    BY ZenonT(60) DEF FinanceNext, LinkReplacement, WarnOverdue, ReleaseRisk, RecordPayment, RecordRefund,
           RequestCorrection, RejectCorrection, ApplyCorrection
  <1> QED BY <1>1, <1>2, CreatePreserves, InvalidatePreserves, RecordPreserves, VerifyPreserves
          DEF financeVars

-----------------------------------------------------------------------------
\* Rows refer to rows and exceptions that exist; reversals alone are negative,
\* and only refunds and what corrects them belong to an exception.
LedgerInv ==
  \A k \in DOMAIN records :
    /\ records[k].exception = 0 \/ records[k].exception \in DOMAIN exceptions
    /\ records[k].type = "payment" => records[k].exception = 0
    /\ records[k].type = "refund"  => records[k].exception # 0
    /\ records[k].type \in {"payment", "refund"} => records[k].of = 0
    /\ IF records[k].type = "reversal" THEN records[k].n < 0 ELSE records[k].n > 0
    /\ records[k].of # 0 => records[k].of \in DOMAIN records

\* Corrections are asked for of payments and refunds.
CorrectionsInv ==
  \A c \in DOMAIN corrections :
    /\ corrections[c].record \in DOMAIN records
    /\ records[corrections[c].record].type \in {"payment", "refund"}

\* What the ledger adds up to for an exception is what still stands: without
\* it, that a refunded amount is not negative would not be inductive.
ReversalsCancel == \A e \in Nat : Refunded(records, e) = StandsFor(records, e)

\* The books are right.
BooksInv == LedgerInv /\ CorrectionsInv /\ ReversalsCancel

\* The inductive invariant.
FinanceInv ==
  /\ FinanceTypeOK
  /\ VerdictInv
  /\ CoverageIsAllocated
  /\ BooksInv
  /\ StatusTellsNet
  /\ RemediationBalanced

\* The payment records are rows; exception ids start at one.
LEMMA RecordsType ==
  ASSUME FinanceTypeOK
  PROVE  /\ records \in Seq(Row) /\ Len(records) \in Nat /\ DOMAIN records = 1 .. Len(records)
         /\ \A k \in DOMAIN records : records[k] \in Row
         /\ \A e \in DOMAIN exceptions : e \in Nat /\ e # 0
  <1>1. records \in Seq(Row)
    BY DEF FinanceTypeOK, Row
  <1>2. \A e \in DOMAIN exceptions : e \in Nat /\ e # 0
    BY SMTT(30) DEF FinanceTypeOK
  <1> QED
    BY <1>1, <1>2

\* What stands is not negative: only reversals are.
LEMMA StandsNotNegative ==
  ASSUME NEW L \in Seq(Row), \A k \in DOMAIN L : L[k].type # "reversal" => L[k].n > 0, NEW e
  PROVE  StandsFor(L, e) \in Nat
  <1> DEFINE f == Standing(L)
             S == 1 .. Len(L)
             K == OfException(L, e)
  <1>1. /\ DOMAIN L = S /\ \A k \in S : L[k] \in Row
        /\ IsFiniteSet(S) /\ K \in SUBSET S
    BY StandingType
  <1>2. f \in [S -> Nat]
    BY <1>1 DEF Standing, Row
  <1> HIDE DEF f, S, K
  <1>3. SumOf(f, K) \in Nat
    BY <1>1, <1>2, SumNat
  <1> QED
    BY <1>3 DEF StandsFor, f, K

\* A payment or a refund is booked.
LEMMA RowBooked ==
  ASSUME FinanceTypeOK, BooksInv, NEW p \in Row, p.of = 0, p.n > 0,
         \/ p.type = "payment" /\ p.exception = 0
         \/ p.type = "refund" /\ p.exception \in DOMAIN exceptions,
         records' = Append(records, p), DOMAIN exceptions' = DOMAIN exceptions,
         UNCHANGED corrections
  PROVE  /\ records' \in Seq(Row) /\ BooksInv'
         /\ \A r : /\ Net(records, r) \in Int
                   /\ Net(records', r) =
                        Net(records, r) + (IF p.request = r /\ p.exception = 0 THEN p.n ELSE 0)
         /\ \A e : /\ Refunded(records, e) \in Int
                   /\ Refunded(records', e) =
                        Refunded(records, e) + (IF p.exception = e THEN p.n ELSE 0)
  <1>1. /\ records \in Seq(Row) /\ Len(records) \in Nat /\ DOMAIN records = 1 .. Len(records)
        /\ \A k \in DOMAIN records : records[k] \in Row
        /\ \A e \in DOMAIN exceptions : e \in Nat /\ e # 0
    BY RecordsType
  <1>2. /\ records' \in Seq(Row)
        /\ DOMAIN records' = 1 .. Len(records) + 1
        /\ records'[Len(records) + 1] = p
        /\ \A k \in 1 .. Len(records) : records'[k] = records[k]
    BY <1>1, AppendedRows
  <1>3. LedgerInv'
    <2> SUFFICES ASSUME NEW k \in DOMAIN records'
        PROVE /\ records'[k].exception = 0 \/ records'[k].exception \in DOMAIN exceptions'
              /\ records'[k].type = "payment" => records'[k].exception = 0
              /\ records'[k].type = "refund"  => records'[k].exception # 0
              /\ records'[k].type \in {"payment", "refund"} => records'[k].of = 0
              /\ IF records'[k].type = "reversal" THEN records'[k].n < 0 ELSE records'[k].n > 0
              /\ records'[k].of # 0 => records'[k].of \in DOMAIN records'
      BY DEF LedgerInv
    <2>1. CASE k = Len(records) + 1
      BY <1>1, <1>2, <2>1
    <2>2. CASE k \in DOMAIN records
      BY <1>1, <1>2, <2>2 DEF BooksInv, LedgerInv
    <2> QED
      BY <1>1, <1>2, <2>1, <2>2
  <1>4. CorrectionsInv'
    BY <1>1, <1>2 DEF BooksInv, CorrectionsInv
  <1>5. \A j \in DOMAIN records : records[j].of # Len(records) + 1
    BY <1>1 DEF BooksInv, LedgerInv
  <1>6. ReversalsCancel'
    <2> SUFFICES ASSUME NEW e \in Nat
                 PROVE  Refunded(records', e) = StandsFor(records', e)
      BY DEF ReversalsCancel
    <2>1. Refunded(records', e) = Refunded(records, e) + (IF p.exception = e THEN p.n ELSE 0)
      BY <1>1, Appended
    <2>2. StandsFor(records', e) = StandsFor(records, e) + (IF p.exception = e THEN p.n ELSE 0)
      <3>1. Books(records, p)
        BY <1>1, <1>5 DEF Books
      <3> QED
        BY <3>1, StandsAppended
    <2>3. Refunded(records, e) = StandsFor(records, e)
      BY DEF BooksInv, ReversalsCancel
    <2> QED
      BY <2>1, <2>2, <2>3
  <1> QED
    BY <1>1, <1>2, <1>3, <1>4, <1>6, Appended DEF BooksInv

\* A record is booked back, and booked again.
LEMMA RowCorrected ==
  ASSUME FinanceTypeOK, BooksInv, NEW k \in DOMAIN records, NEW r \in Requests, NEW n \in Amounts,
         records[k].type \in {"payment", "refund"}, Uncorrected(k),
         records' = Corrected(k, r, n), DOMAIN exceptions' = DOMAIN exceptions,
         \A c \in DOMAIN corrections' : /\ c \in DOMAIN corrections
                                        /\ corrections'[c].record = corrections[c].record
  PROVE  /\ records' \in Seq(Row) /\ BooksInv'
         /\ \A q : q \notin {records[k].request, r} => Net(records', q) = Net(records, q)
         /\ \A e : e # records[k].exception => Refunded(records', e) = Refunded(records, e)
         /\ \A j \in DOMAIN records : records'[j] = records[j]
         /\ \A j \in DOMAIN records' : j \notin DOMAIN records /\ records'[j].n > 0 =>
              records'[j].request = r /\ records'[j].exception = records[k].exception
  <1> DEFINE m == Len(records)
             a == [request |-> records[k].request, n |-> -records[k].n, exception |-> records[k].exception,
                   of |-> k, type |-> "reversal"]
             b == [request |-> r, n |-> n, exception |-> records[k].exception,
                   of |-> k, type |-> "correction"]
             M == Append(records, a)
  <1>1. /\ records \in Seq(Row) /\ m \in Nat /\ DOMAIN records = 1 .. m
        /\ \A j \in DOMAIN records : records[j] \in Row
        /\ \A e \in DOMAIN exceptions : e \in Nat /\ e # 0
    BY RecordsType
  <1>2. a \in Row /\ b \in Row
    BY <1>1 DEF Row, Amounts
  <1>3. records' = Append(M, b)
    BY <1>1 DEF Corrected
  <1>4. /\ M \in Seq(Row) /\ Len(M) = m + 1 /\ DOMAIN M = 1 .. m + 1 /\ M[m + 1] = a
        /\ \A j \in 1 .. m : M[j] = records[j]
    BY <1>1, <1>2, AppendedRows
  <1>5. /\ records' \in Seq(Row) /\ DOMAIN records' = 1 .. m + 2 /\ records'[m + 2] = b
        /\ records'[m + 1] = a /\ \A j \in 1 .. m : records'[j] = records[j]
    <2>0. M \in Seq(Row) /\ b \in Row /\ records' = Append(M, b)
      BY <1>2, <1>3, <1>4
    <2> HIDE DEF M, a, b, m
    <2>1. /\ records' \in Seq(Row) /\ DOMAIN records' = 1 .. Len(M) + 1 /\ records'[Len(M) + 1] = b
          /\ \A j \in 1 .. Len(M) : records'[j] = M[j]
      BY <2>0, AppendedRows
    <2> QED
      BY <1>1, <1>4, <2>1
  <1>6. /\ a.type = "reversal" /\ a.of = k /\ a.exception = records[k].exception
        /\ a.n = -records[k].n /\ a.request = records[k].request
        /\ b.type = "correction" /\ b.of = k /\ b.exception = records[k].exception
        /\ b.n = n /\ b.request = r /\ n > 0 /\ n \in Int /\ records[k].n > 0 /\ records[k].n \in Int
        /\ records[k].of = 0
    BY <1>1 DEF BooksInv, LedgerInv, Amounts, Row
  <1> HIDE DEF M, a, b, m
  <1>7. ASSUME NEW j \in DOMAIN records'
        PROVE  j \in 1 .. m \/ j = m + 1 \/ j = m + 2
    BY <1>1, <1>5
  <1>8. LedgerInv'
    <2> SUFFICES ASSUME NEW j \in DOMAIN records'
        PROVE /\ records'[j].exception = 0 \/ records'[j].exception \in DOMAIN exceptions'
              /\ records'[j].type = "payment" => records'[j].exception = 0
              /\ records'[j].type = "refund"  => records'[j].exception # 0
              /\ records'[j].type \in {"payment", "refund"} => records'[j].of = 0
              /\ IF records'[j].type = "reversal" THEN records'[j].n < 0 ELSE records'[j].n > 0
              /\ records'[j].of # 0 => records'[j].of \in DOMAIN records'
      BY DEF LedgerInv
    <2>0. DOMAIN records \subseteq DOMAIN records'
      BY <1>1, <1>5
    <2>1. CASE j \in 1 .. m
      BY <1>1, <1>5, <2>0, <2>1 DEF BooksInv, LedgerInv
    <2>2. CASE j = m + 1
      BY <1>1, <1>5, <1>6, <2>0, <2>2 DEF BooksInv, LedgerInv
    <2>3. CASE j = m + 2
      BY <1>1, <1>5, <1>6, <2>0, <2>3 DEF BooksInv, LedgerInv
    <2> QED
      BY <1>7, <2>1, <2>2, <2>3
  <1>9. CorrectionsInv'
    BY <1>1, <1>5 DEF BooksInv, CorrectionsInv
  <1>10. ASSUME NEW e
         PROVE  /\ Refunded(records', e) =
                     Refunded(records, e) + (IF a.exception = e THEN a.n + b.n ELSE 0)
                /\ Refunded(records, e) \in Int
    <2>1. /\ Refunded(M, e) = Refunded(records, e) + (IF a.exception = e THEN a.n ELSE 0)
          /\ Refunded(records, e) \in Int
      BY <1>1, <1>2, Appended DEF M
    <2>2. Refunded(records', e) = Refunded(M, e) + (IF b.exception = e THEN b.n ELSE 0)
      BY <1>2, <1>3, <1>4, Appended
    <2> QED
      BY <1>6, <2>1, <2>2
  <1>11. ASSUME NEW e
         PROVE  StandsFor(records', e) =
                  StandsFor(records, e) + (IF a.exception = e THEN a.n + b.n ELSE 0)
    <2>0. /\ \A j \in DOMAIN records : records[j].of # m + 1 /\ records[j].of # m + 2
          /\ \A j \in DOMAIN records : records[j].of # k
      BY <1>1 DEF BooksInv, LedgerInv, Uncorrected
    <2>1. StandsFor(M, e) = StandsFor(records, e) - (IF a.exception = e THEN records[k].n ELSE 0)
      <3>1. BooksBack(records, a, k)
        BY <1>1, <1>2, <1>6, <2>0 DEF BooksBack, m
      <3> QED
        BY <1>6, <3>1, StandsReversed DEF M
    <2>2. /\ StandsFor(M, e) \in Int
          /\ StandsFor(records', e) = StandsFor(M, e) + (IF b.exception = e THEN b.n ELSE 0)
      <3>1. \E j \in DOMAIN M : M[j].of = b.of
        BY <1>1, <1>4, <1>6
      <3>2. \A j \in DOMAIN M : M[j].of # Len(M) + 1
        <4> SUFFICES ASSUME NEW j \in DOMAIN M PROVE M[j].of # m + 2
          BY <1>1, <1>4
        <4>1. CASE j = m + 1
          BY <1>1, <1>4, <1>6, <4>1
        <4>2. CASE j \in 1 .. m
          BY <1>1, <1>4, <2>0, <4>2
        <4> QED
          BY <1>1, <1>4, <4>1, <4>2
      <3>3. b.of # Len(M) + 1
        BY <1>1, <1>4, <1>6
      <3>4. Books(M, b)
        BY <1>2, <1>4, <1>6, <3>1, <3>2, <3>3 DEF Books
      <3> QED
        BY <1>3, <3>4, StandsAppended
    <2>3. StandsFor(records, e) \in Int
      <3>1. \A j \in DOMAIN records : records[j].type # "reversal" => records[j].n > 0
        BY DEF BooksInv, LedgerInv
      <3> QED
        BY <1>1, <3>1, StandsNotNegative
    <2> QED
      BY <1>6, <2>1, <2>2, <2>3
  <1>12. ReversalsCancel'
    BY <1>10, <1>11 DEF BooksInv, ReversalsCancel
  <1>13. ASSUME NEW q, q \notin {records[k].request, r}
         PROVE  Net(records', q) = Net(records, q)
    <2>1. Net(M, q) = Net(records, q) /\ Net(records, q) \in Int
      BY <1>1, <1>2, <1>6, <1>13, Appended DEF M
    <2>2. Net(records', q) = Net(M, q)
      BY <1>2, <1>3, <1>4, <1>6, <1>13, Appended
    <2> QED
      BY <2>1, <2>2
  <1>14. \A j \in DOMAIN records' : j \notin DOMAIN records /\ records'[j].n > 0 =>
              records'[j].request = r /\ records'[j].exception = records[k].exception
    BY <1>1, <1>5, <1>6, <1>7
  <1> QED
    BY <1>1, <1>5, <1>6, <1>8, <1>9, <1>10, <1>12, <1>13, <1>14 DEF BooksInv

-----------------------------------------------------------------------------
\* A row of each table.
Exception == [invoice: Invoices, affected: Amounts, replaced: Nat, refunded: Nat,
              status: {"awaiting_remediation", "risk_warning", "resolved"},
              links: [Invoices -> Nat], released: BOOLEAN]
Correction == [record: Amounts, request: Requests, n: Amounts, by: Payers,
               status: {"pending", "approved", "rejected"}]
Allocation == [n: Amounts, status: {"active", "frozen"}] \cup {NoAlloc}
PaymentRequest == [covered: Nat, status: {"waiting_invoice", "generated", "partially_paid", "paid",
                                          "invoice_exception_frozen"}]

\* What FinanceTypeOK says of each table and each row.
LEMMA Types ==
  ASSUME FinanceTypeOK
  PROVE  /\ exceptions \in Seq(Exception) /\ corrections \in Seq(Correction) /\ records \in Seq(Row)
         /\ \A e \in DOMAIN exceptions : exceptions[e] \in Exception /\ e \in Nat /\ e # 0
         /\ \A c \in DOMAIN corrections : corrections[c] \in Correction
         /\ alloc \in [Invoices -> [Requests -> Allocation]]
         /\ request \in [Requests -> PaymentRequest]
         /\ \A r \in Requests : request[r] \in PaymentRequest /\ request[r].covered \in Nat
         /\ \A i \in Invoices, r \in Requests : alloc[i][r] \in Allocation /\ alloc[i][r].n \in Nat
         /\ \A i \in Invoices : InvoiceOf[i].amount \in Nat /\ InvoiceOf[i].amount > 0
         /\ \A r \in Requests : RequestOf[r].total \in Nat /\ RequestOf[r].total > 0
  <1>1. /\ exceptions \in Seq(Exception) /\ corrections \in Seq(Correction) /\ records \in Seq(Row)
    BY DEF FinanceTypeOK, Exception, Correction, Row
  <1>2. /\ alloc \in [Invoices -> [Requests -> Allocation]]
        /\ request \in [Requests -> PaymentRequest]
    BY DEF FinanceTypeOK, Allocation, PaymentRequest
  <1>3. /\ \A e \in DOMAIN exceptions : exceptions[e] \in Exception /\ e \in Nat /\ e # 0
        /\ \A c \in DOMAIN corrections : corrections[c] \in Correction
    BY <1>1
  <1>4. /\ \A r \in Requests : request[r] \in PaymentRequest /\ request[r].covered \in Nat
        /\ \A i \in Invoices, r \in Requests : alloc[i][r] \in Allocation
    BY <1>2 DEF PaymentRequest
  <1>5. \A i \in Invoices, r \in Requests : alloc[i][r].n \in Nat
    BY <1>4 DEF Allocation, NoAlloc, Amounts
  <1>6. \A i \in Invoices : InvoiceOf[i].amount \in Nat /\ InvoiceOf[i].amount > 0
    BY InvoiceAssumption
  <1>7. \A r \in Requests : RequestOf[r].total \in Nat /\ RequestOf[r].total > 0
    BY RequestAssumption
  <1> QED
    BY <1>1, <1>2, <1>3, <1>4, <1>5, <1>6, <1>7

\* A sequence with one element replaced.
LEMMA Replaced ==
  ASSUME NEW S, NEW s \in Seq(S), NEW e \in DOMAIN s, NEW y \in S
  PROVE  /\ [s EXCEPT ![e] = y] \in Seq(S) /\ DOMAIN [s EXCEPT ![e] = y] = DOMAIN s
         /\ [s EXCEPT ![e] = y][e] = y
         /\ \A k \in DOMAIN s : k # e => [s EXCEPT ![e] = y][k] = s[k]
  OBVIOUS

\* What each invoice covers of request r, and what invoice i gives to each.
Covers(a, r) == [i \in Invoices |-> IF a[i][r].status = "active" THEN a[i][r].n ELSE 0]
Given(a, i)  == [r \in Requests |-> a[i][r].n]

\* What the coverage properties add up, as sums over finite sets.
LEMMA CoverIs ==
         /\ \A r : ActiveCover(r) = SumOf(Covers(alloc, r), Invoices)
         /\ \A r : ActiveCover(r)' = SumOf(Covers(alloc', r), Invoices)
         /\ \A i : SumFunction([r \in Requests |-> alloc[i][r].n]) = SumOf(Given(alloc, i), Requests)
         /\ \A i : SumFunction([r \in Requests |-> alloc'[i][r].n]) = SumOf(Given(alloc', i), Requests)
  <1>1. ASSUME NEW a, NEW x
        PROVE  /\ SumFunction(Covers(a, x)) = SumOf(Covers(a, x), Invoices)
               /\ SumFunction(Given(a, x)) = SumOf(Given(a, x), Requests)
    <2>1. DOMAIN Covers(a, x) = Invoices /\ DOMAIN Given(a, x) = Requests
      BY DEF Covers, Given
    <2> QED
      BY <2>1, SumOn
  <1>2. \A r : ActiveCover(r) = SumFunction(Covers(alloc, r))
    BY DEF ActiveCover, Covers
  <1>3. \A r : ActiveCover(r)' = SumFunction(Covers(alloc', r))
    BY DEF ActiveCover, Covers
  <1>4. /\ \A i : SumFunction([r \in Requests |-> alloc[i][r].n]) = SumFunction(Given(alloc, i))
        /\ \A i : SumFunction([r \in Requests |-> alloc'[i][r].n]) = SumFunction(Given(alloc', i))
    BY DEF Given
  <1> QED
    BY <1>1, <1>2, <1>3, <1>4

\* The invariant, with its sums.
Covered(a, q) ==
  /\ \A r \in Requests : /\ q[r].covered = SumOf(Covers(a, r), Invoices)
                         /\ SumOf(Covers(a, r), Invoices) =< RequestOf[r].total
  /\ \A i \in Invoices : SumOf(Given(a, i), Requests) =< InvoiceOf[i].amount

\* CoverageIsAllocated is a statement about sums.
LEMMA CoverageIs ==
         /\ CoverageIsAllocated  <=> Covered(alloc, request)
         /\ CoverageIsAllocated' <=> Covered(alloc', request')
  BY CoverIs DEF CoverageIsAllocated, Covered

\* Covers and allocations are naturals, and so are their sums.
LEMMA CoverTypes ==
  ASSUME NEW a \in [Invoices -> [Requests -> Allocation]]
  PROVE  /\ \A r \in Requests : /\ Covers(a, r) \in [Invoices -> Nat] /\ Covers(a, r) \in [Invoices -> Int]
                                /\ SumOf(Covers(a, r), Invoices) \in Nat
                                /\ \A i \in Invoices : Covers(a, r)[i] =< SumOf(Covers(a, r), Invoices)
         /\ \A i \in Invoices : Given(a, i) \in [Requests -> Nat] /\ SumOf(Given(a, i), Requests) \in Nat
         /\ \A i \in Invoices, r \in Requests : a[i][r] \in Allocation /\ a[i][r].n \in Nat
  <1>1. \A i \in Invoices, r \in Requests : a[i][r] \in Allocation
    OBVIOUS
  <1>2. \A i \in Invoices, r \in Requests : a[i][r].n \in Nat
    BY <1>1 DEF Allocation, NoAlloc, Amounts
  <1>3. \A r \in Requests : Covers(a, r) \in [Invoices -> Nat]
    BY <1>2 DEF Covers
  <1>4. \A i \in Invoices : Given(a, i) \in [Requests -> Nat]
    BY <1>2 DEF Given
  <1>5. IsFiniteSet(Invoices) /\ IsFiniteSet(Requests)
    BY InvoiceAssumption, RequestAssumption
  <1>6. ASSUME NEW r \in Requests
        PROVE  /\ SumOf(Covers(a, r), Invoices) \in Nat
               /\ \A i \in Invoices : Covers(a, r)[i] =< SumOf(Covers(a, r), Invoices)
    BY <1>3, <1>5, SumNat
  <1>7. ASSUME NEW i \in Invoices PROVE SumOf(Given(a, i), Requests) \in Nat
    BY <1>4, <1>5, SumNat
  <1> QED
    BY <1>1, <1>2, <1>3, <1>4, <1>6, <1>7

\* Of the allocations, only those of invoice i change.
Reallocated(a, b, i) ==
  /\ a \in [Invoices -> [Requests -> Allocation]] /\ b \in [Invoices -> [Requests -> Allocation]]
  /\ i \in Invoices /\ \A j \in Invoices : j # i => b[j] = a[j]

\* The sums change by what changed for that invoice.
LEMMA RowReplaced ==
  ASSUME NEW a, NEW b, NEW i, Reallocated(a, b, i)
  PROVE  /\ \A r \in Requests : SumOf(Covers(b, r), Invoices) =
              SumOf(Covers(a, r), Invoices) - Covers(a, r)[i] + Covers(b, r)[i]
         /\ \A j \in Invoices : j # i => SumOf(Given(b, j), Requests) = SumOf(Given(a, j), Requests)
  <1>1. /\ a \in [Invoices -> [Requests -> Allocation]] /\ b \in [Invoices -> [Requests -> Allocation]]
        /\ i \in Invoices /\ \A j \in Invoices : j # i => b[j] = a[j]
    BY DEF Reallocated
  <1>2. ASSUME NEW r \in Requests
        PROVE  SumOf(Covers(b, r), Invoices) =
                 SumOf(Covers(a, r), Invoices) - Covers(a, r)[i] + Covers(b, r)[i]
    <2>1. /\ Covers(a, r) \in [Invoices -> Int] /\ Covers(b, r) \in [Invoices -> Int]
          /\ IsFiniteSet(Invoices)
      BY <1>1, CoverTypes, InvoiceAssumption
    <2>2. \A j \in Invoices : j # i => Covers(b, r)[j] = Covers(a, r)[j]
      BY <1>1 DEF Covers
    <2>3. Changed(Covers(a, r), Covers(b, r), i, Invoices)
      BY <1>1, <2>1, <2>2 DEF Changed
    <2> QED
      BY <2>3, SumChanged
  <1>3. \A j \in Invoices : j # i => Given(b, j) = Given(a, j)
    BY <1>1 DEF Given
  <1> QED
    BY <1>2, <1>3

\* Verifying an invoice covers requests by what it allocates to them: it had
\* allocated nothing before.
LEMMA CoverVerify ==
  ASSUME FinanceTypeOK, VerdictInv, CoverageIsAllocated,
         NEW i \in Invoices, NEW role \in Verifiers, NEW u \in Payers,
         NEW d \in [Requests -> 0 .. InvoiceOf[i].amount], VerifyInvoice(i, role, u, d)
  PROVE  CoverageIsAllocated' /\ alloc' \in [Invoices -> [Requests -> Allocation]]
         /\ \A r \in Requests : request'[r].covered \in Nat
  <1> DEFINE row == [r \in Requests |-> IF d[r] = 0 THEN NoAlloc ELSE [n |-> d[r], status |-> "active"]]
  <1>0. /\ alloc \in [Invoices -> [Requests -> Allocation]]
        /\ \A r \in Requests : d[r] \in Nat
        /\ \A r \in Requests : request[r].covered \in Nat
        /\ InvoiceOf[i].amount \in Nat
        /\ \A r \in Requests : RequestOf[r].total \in Nat
    BY Types
  <1>1. row \in [Requests -> Allocation]
    BY <1>0 DEF Allocation, Amounts
  <1>2. alloc' = [alloc EXCEPT ![i] = row]
    BY DEF VerifyInvoice
  <1>3. \A r \in Requests : row[r].n = d[r] /\ (row[r].status = "active" <=> d[r] # 0)
    BY DEF NoAlloc
  <1>4. \A r \in Requests : alloc[i][r] = NoAlloc
    <2>1. invoice[i] = "received"
      BY DEF VerifyInvoice, GiveVerdict
    <2> QED
      BY <2>1 DEF VerdictInv, AllocatedWasVerified
  <1>5. \A r \in Requests : request'[r].covered = request[r].covered + d[r]
    BY <1>0 DEF VerifyInvoice
  <1>6. [r \in Requests |-> row[r].n] = d
    BY <1>3
  <1>7. \A r \in Requests : d[r] = 0 \/ request[r].covered + d[r] =< RequestOf[r].total
    BY <1>0 DEF VerifyInvoice, Spread, Outstanding
  <1>8. SumOf(d, Requests) =< InvoiceOf[i].amount
    <2>1. SumFunction(d) = SumOf(d, Requests)
      BY SumOn
    <2>2. SumOf(d, Requests) \in Nat
      <3>1. d \in [Requests -> Nat] /\ IsFiniteSet(Requests)
        BY <1>0, RequestAssumption
      <3> QED
        BY <3>1, SumNat
    <2> QED
      BY <1>0, <2>1, <2>2 DEF VerifyInvoice, Spread
  <1> HIDE DEF row
  <1>9. /\ alloc' \in [Invoices -> [Requests -> Allocation]]
        /\ \A r \in Requests :
             /\ Covers(alloc', r)[i] = IF row[r].status = "active" THEN row[r].n ELSE 0
             /\ SumOf(Covers(alloc', r), Invoices) =
                  SumOf(Covers(alloc, r), Invoices) - Covers(alloc, r)[i] + Covers(alloc', r)[i]
        /\ SumOf(Given(alloc', i), Requests) = SumOf(d, Requests)
        /\ \A j \in Invoices : j # i => SumOf(Given(alloc', j), Requests) = SumOf(Given(alloc, j), Requests)
    <2>1. /\ alloc' \in [Invoices -> [Requests -> Allocation]] /\ alloc'[i] = row
          /\ \A j \in Invoices : j # i => alloc'[j] = alloc[j]
      BY <1>0, <1>1, <1>2
    <2>2. Reallocated(alloc, alloc', i)
      BY <1>0, <2>1 DEF Reallocated
    <2>3. /\ \A r \in Requests : Covers(alloc', r)[i] = IF row[r].status = "active" THEN row[r].n ELSE 0
          /\ Given(alloc', i) = d
      BY <1>6, <2>1 DEF Covers, Given
    <2> QED
      BY <2>1, <2>2, <2>3, RowReplaced
  <1>10. Covered(alloc, request)
    BY CoverageIs
  <1>11. ASSUME NEW r \in Requests
         PROVE  /\ request'[r].covered = SumOf(Covers(alloc', r), Invoices)
                /\ SumOf(Covers(alloc', r), Invoices) =< RequestOf[r].total
    <2>1. Covers(alloc, r)[i] = 0
      BY <1>4 DEF Covers, NoAlloc
    <2>2. Covers(alloc', r)[i] = d[r]
      BY <1>0, <1>3, <1>9
    <2>3. SumOf(Covers(alloc, r), Invoices) = request[r].covered /\ request[r].covered =< RequestOf[r].total
      BY <1>10 DEF Covered
    <2> QED
      BY <1>0, <1>5, <1>7, <1>9, <2>1, <2>2, <2>3
  <1>12. \A j \in Invoices : SumOf(Given(alloc', j), Requests) =< InvoiceOf[j].amount
    BY <1>8, <1>9, <1>10 DEF Covered
  <1>13. Covered(alloc', request')
    BY <1>11, <1>12 DEF Covered
  <1>14. \A r \in Requests : request'[r].covered \in Nat
    BY <1>0, <1>5
  <1> QED
    BY <1>9, <1>13, <1>14, CoverageIs

\* Invalidating an invoice takes back what it covered; the subtraction never
\* meets its floor at zero.
LEMMA CoverInvalidate ==
  ASSUME FinanceTypeOK, CoverageIsAllocated,
         NEW i \in Invoices, NEW u \in Payers, InvalidateInvoice(i, u)
  PROVE  CoverageIsAllocated' /\ alloc' \in [Invoices -> [Requests -> Allocation]]
         /\ \A r \in Requests : request'[r].covered \in Nat
  <1> DEFINE held == {r \in Requests : alloc[i][r].status = "active"}
             row  == [r \in Requests |->
                        IF r \in held THEN [alloc[i][r] EXCEPT !.status = "frozen"] ELSE alloc[i][r]]
  <1>0. /\ alloc \in [Invoices -> [Requests -> Allocation]]
        /\ \A r \in Requests : alloc[i][r] \in Allocation /\ alloc[i][r].n \in Nat
        /\ \A r \in Requests : request[r].covered \in Nat
    BY Types
  <1>1. ASSUME NEW r \in Requests
        PROVE  row[r] \in Allocation /\ row[r].status # "active" /\ row[r].n = alloc[i][r].n
    <2>1. CASE r \in held
      <3>1. alloc[i][r] \in [n: Amounts, status: {"active", "frozen"}]
        BY <1>0, <2>1 DEF Allocation, NoAlloc
      <3>2. row[r] = [alloc[i][r] EXCEPT !.status = "frozen"]
        BY <2>1
      <3> QED
        BY <3>1, <3>2 DEF Allocation
    <2>2. CASE r \notin held
      BY <1>0, <2>2
    <2> QED
      BY <2>1, <2>2
  <1>2. row \in [Requests -> Allocation]
    BY <1>1
  <1>3. alloc' = [alloc EXCEPT ![i] = row]
    BY DEF InvalidateInvoice
  <1>4. [r \in Requests |-> row[r].n] = Given(alloc, i)
    BY <1>1 DEF Given
  <1>5. \A r \in Requests : request'[r].covered =
          IF r \in held THEN (IF request[r].covered < alloc[i][r].n THEN 0
                              ELSE request[r].covered - alloc[i][r].n)
          ELSE request[r].covered
    BY DEF InvalidateInvoice, Uncovered
  <1>6. \A r \in Requests : Covers(alloc, r)[i] = IF r \in held THEN alloc[i][r].n ELSE 0
    BY DEF Covers
  <1> HIDE DEF row, held
  <1>9. /\ alloc' \in [Invoices -> [Requests -> Allocation]]
        /\ \A r \in Requests :
             /\ Covers(alloc', r)[i] = IF row[r].status = "active" THEN row[r].n ELSE 0
             /\ SumOf(Covers(alloc', r), Invoices) =
                  SumOf(Covers(alloc, r), Invoices) - Covers(alloc, r)[i] + Covers(alloc', r)[i]
        /\ SumOf(Given(alloc', i), Requests) = SumOf(Given(alloc, i), Requests)
        /\ \A j \in Invoices : j # i => SumOf(Given(alloc', j), Requests) = SumOf(Given(alloc, j), Requests)
    <2>1. /\ alloc' \in [Invoices -> [Requests -> Allocation]] /\ alloc'[i] = row
          /\ \A j \in Invoices : j # i => alloc'[j] = alloc[j]
      BY <1>0, <1>2, <1>3
    <2>2. Reallocated(alloc, alloc', i)
      BY <1>0, <2>1 DEF Reallocated
    <2>3. /\ \A r \in Requests : Covers(alloc', r)[i] = IF row[r].status = "active" THEN row[r].n ELSE 0
          /\ Given(alloc', i) = Given(alloc, i)
      BY <1>4, <2>1 DEF Covers, Given
    <2> QED
      BY <2>1, <2>2, <2>3, RowReplaced
  <1>10. Covered(alloc, request)
    BY CoverageIs
  <1>11. ASSUME NEW r \in Requests
         PROVE  /\ request'[r].covered = SumOf(Covers(alloc', r), Invoices)
                /\ SumOf(Covers(alloc', r), Invoices) =< RequestOf[r].total
                /\ request'[r].covered \in Nat
    <2>1. /\ SumOf(Covers(alloc, r), Invoices) = request[r].covered
          /\ request[r].covered =< RequestOf[r].total
      BY <1>10 DEF Covered
    <2>2. Covers(alloc, r)[i] =< request[r].covered /\ Covers(alloc, r)[i] \in Nat
      BY <1>0, <2>1, CoverTypes
    <2>3. Covers(alloc', r)[i] = 0
      BY <1>1, <1>9
    <2>4. SumOf(Covers(alloc', r), Invoices) = request[r].covered - Covers(alloc, r)[i]
      BY <1>0, <1>9, <2>1, <2>2, <2>3
    <2>5. request'[r].covered = request[r].covered - Covers(alloc, r)[i]
      BY <1>0, <1>5, <1>6, <2>2
    <2>6. RequestOf[r].total \in Nat
      BY Types
    <2> QED
      BY <1>0, <2>1, <2>2, <2>4, <2>5, <2>6
  <1>12. \A j \in Invoices : SumOf(Given(alloc', j), Requests) =< InvoiceOf[j].amount
    BY <1>9, <1>10 DEF Covered
  <1>13. Covered(alloc', request')
    BY <1>11, <1>12 DEF Covered
  <1> QED
    BY <1>9, <1>11, <1>13, CoverageIs

\* Of the other commands, none changes an allocation or a covered amount.
LEMMA CoverKept ==
  ASSUME CoverageIsAllocated, UNCHANGED alloc,
         \A r \in Requests : request'[r].covered = request[r].covered
  PROVE  CoverageIsAllocated'
  <1>1. Covered(alloc, request)
    BY CoverageIs
  <1>2. Covered(alloc', request')
    BY <1>1 DEF Covered
  <1> QED
    BY <1>2, CoverageIs

-----------------------------------------------------------------------------
\* Every command keeps the coverage right.
LEMMA CoverStep ==
  ASSUME FinanceTypeOK, VerdictInv, CoverageIsAllocated, FinanceNext
  PROVE  /\ CoverageIsAllocated'
         /\ alloc' \in [Invoices -> [Requests -> Allocation]]
         /\ \A r \in Requests : request'[r].covered \in Nat
  <1>1. CASE \E i \in Invoices, role \in Verifiers, u \in Payers :
               \E d \in [Requests -> 0 .. InvoiceOf[i].amount] : VerifyInvoice(i, role, u, d)
    BY <1>1, CoverVerify
  <1>2. CASE \E i \in Invoices, u \in Payers : InvalidateInvoice(i, u)
    BY <1>2, CoverInvalidate
  <1>3. ASSUME UNCHANGED alloc, \A r \in Requests : request'[r].covered = request[r].covered
        PROVE  /\ CoverageIsAllocated'
               /\ alloc' \in [Invoices -> [Requests -> Allocation]]
               /\ \A r \in Requests : request'[r].covered \in Nat
    BY <1>3, CoverKept, Types
  <1>4. CASE UNCHANGED <<alloc, request>>
    BY <1>3, <1>4
  <1>5. ASSUME NEW r \in Requests, NEW n, NEW u, RecordPayment(r, n, u)
        PROVE  UNCHANGED alloc /\ \A q \in Requests : request'[q].covered = request[q].covered
    <2>1. request \in [Requests -> PaymentRequest]
      BY Types
    <2> QED
      BY <1>5, <2>1 DEF RecordPayment, PaymentRequest
  <1>6. ASSUME NEW c, NEW u, ApplyCorrection(c, u)
        PROVE  UNCHANGED alloc /\ \A q \in Requests : request'[q].covered = request[q].covered
    <2>1. request \in [Requests -> PaymentRequest]
      BY Types
    <2> QED
      BY <1>6, <2>1 DEF ApplyCorrection, PaymentRequest
  <1>7. \/ \E i \in Invoices, role \in Verifiers, u \in Payers :
               \E d \in [Requests -> 0 .. InvoiceOf[i].amount] : VerifyInvoice(i, role, u, d)
        \/ \E i \in Invoices, u \in Payers : InvalidateInvoice(i, u)
        \/ UNCHANGED <<alloc, request>>
        \/ \E r \in Requests, u \in Payers : \E n \in 1 .. RequestOf[r].total : RecordPayment(r, n, u)
        \/ \E c \in DOMAIN corrections, u \in Payers : ApplyCorrection(c, u)
    BY ZenonT(60) DEF FinanceNext, CreateInvoice, RecordVerdict, LinkReplacement, WarnOverdue, ReleaseRisk,
           RecordRefund, RequestCorrection, RejectCorrection
  <1> QED
    BY <1>1, <1>2, <1>3, <1>4, <1>5, <1>6, <1>7

-----------------------------------------------------------------------------
\* What the correction of a record does, by the books.
LEMMA CorrectionIs ==
  ASSUME FinanceTypeOK, BooksInv, NEW c \in DOMAIN corrections, NEW u \in Payers, ApplyCorrection(c, u),
         NEW k, k = corrections[c].record, NEW to, to = corrections[c].request,
         NEW e, e = records[k].exception
  PROVE  /\ k \in DOMAIN records /\ to \in Requests /\ corrections[c].n \in Amounts /\ Uncorrected(k)
         /\ CanMoveTo(k, to)
         /\ records[k].type \in {"payment", "refund"}
         /\ records[k].request \in Requests
         /\ e = 0 \/ e \in DOMAIN exceptions
         /\ records[k].type = "payment" <=> e = 0
         /\ records' = Corrected(k, to, corrections[c].n)
         /\ DOMAIN corrections' = DOMAIN corrections
         /\ \A b \in DOMAIN corrections : corrections'[b].record = corrections[b].record
         /\ corrections' \in Seq(Correction)
         /\ \A r \in {records[k].request, to} : Net(records', r) \in 0 .. RequestOf[r].total
         /\ e # 0 => Refunded(records', e) + exceptions[e].replaced =< exceptions[e].affected
         /\ request' = [r \in Requests |-> [request[r] EXCEPT !.status =
                          Reprojected(records', records[k].request, to, r)]]
         /\ exceptions' = IF e = 0 THEN exceptions ELSE [exceptions EXCEPT ![e] = Remedied(records', e)]
         /\ UNCHANGED <<invoice, verdict, alloc>>
  <1>1. corrections \in Seq(Correction) /\ corrections[c] \in Correction
    BY Types
  <1>2. /\ k \in DOMAIN records /\ records[k].type \in {"payment", "refund"}
        /\ e = 0 \/ e \in DOMAIN exceptions
        /\ records[k].type = "payment" <=> e = 0
    BY DEF BooksInv, CorrectionsInv, LedgerInv
  <1>3. records[k].request \in Requests
    BY <1>2, RecordsType DEF Row
  <1>4. corrections' = [corrections EXCEPT ![c] = [corrections[c] EXCEPT !.status = "approved"]]
    BY DEF ApplyCorrection
  <1>5. [corrections[c] EXCEPT !.status = "approved"] \in Correction
    BY <1>1 DEF Correction
  <1>6. /\ corrections' \in Seq(Correction) /\ DOMAIN corrections' = DOMAIN corrections
        /\ corrections'[c] = [corrections[c] EXCEPT !.status = "approved"]
        /\ \A b \in DOMAIN corrections : b # c => corrections'[b] = corrections[b]
    BY <1>1, <1>4, <1>5, Replaced
  <1>7. [corrections[c] EXCEPT !.status = "approved"].record = corrections[c].record
    BY <1>1 DEF Correction
  <1>8. \A b \in DOMAIN corrections : corrections'[b].record = corrections[b].record
    BY <1>6, <1>7
  <1>9. to \in Requests /\ corrections[c].n \in Amounts
    BY <1>1 DEF Correction
  <1>10. /\ records' = Corrected(k, to, corrections[c].n)
         /\ Uncorrected(k) /\ CanMoveTo(k, to)
         /\ request' = [r \in Requests |-> [request[r] EXCEPT !.status =
                          Reprojected(records', records[k].request, to, r)]]
         /\ exceptions' = IF e = 0 THEN exceptions ELSE [exceptions EXCEPT ![e] = Remedied(records', e)]
         /\ UNCHANGED <<invoice, verdict, alloc>>
         /\ \A r \in {records[k].request, to} : Net(records', r) \in 0 .. RequestOf[r].total
         /\ e # 0 => Refunded(records', e) + exceptions[e].replaced =< exceptions[e].affected
    BY DEF ApplyCorrection
  <1> QED
    BY <1>2, <1>3, <1>6, <1>8, <1>9, <1>10

\* The exception of a corrected refund, as it is written.
LEMMA RemediedIs ==
  ASSUME NEW L, NEW e, exceptions[e] \in Exception, Refunded(L, e) \in Nat
  PROVE  /\ Remedied(L, e) \in Exception
         /\ Remedied(L, e).links = exceptions[e].links /\ Remedied(L, e).replaced = exceptions[e].replaced
         /\ Remedied(L, e).affected = exceptions[e].affected
         /\ Remedied(L, e).refunded = Refunded(L, e)
         /\ Remedied(L, e).status = "resolved"
              <=> exceptions[e].replaced + Refunded(L, e) = exceptions[e].affected
  <1> DEFINE x == exceptions[e]
             y == [x EXCEPT !.refunded = Refunded(L, e), !.status = "awaiting_remediation"]
  <1>1. /\ y \in Exception /\ y.links = x.links /\ y.replaced = x.replaced /\ y.affected = x.affected
        /\ y.refunded = Refunded(L, e) /\ y.status = "awaiting_remediation"
    BY DEF Exception
  <1>2. Remedied(L, e) = Closing(y)
    BY DEF Remedied
  <1> HIDE DEF y
  <1> QED
    BY <1>1, <1>2 DEF Closing, Settled, Exception

\* What closes an exception changes its status only.
LEMMA ClosingIs ==
  ASSUME NEW y \in Exception
  PROVE  /\ Closing(y) \in Exception
         /\ Closing(y).links = y.links /\ Closing(y).replaced = y.replaced
         /\ Closing(y).affected = y.affected /\ Closing(y).refunded = y.refunded
         /\ Closing(y).invoice = y.invoice
         /\ Closing(y).status = IF y.replaced + y.refunded = y.affected THEN "resolved" ELSE y.status
  BY DEF Closing, Settled, Exception

-----------------------------------------------------------------------------
\* A command that books nothing leaves the books right.
LEMMA BooksKept ==
  ASSUME BooksInv, UNCHANGED records, DOMAIN exceptions \subseteq DOMAIN exceptions',
         \A c \in DOMAIN corrections' :
           \/ c \in DOMAIN corrections /\ corrections'[c].record = corrections[c].record
           \/ /\ corrections'[c].record \in DOMAIN records
              /\ records[corrections'[c].record].type \in {"payment", "refund"}
  PROVE  BooksInv'
  BY DEF BooksInv, LedgerInv, CorrectionsInv, ReversalsCancel

\* What a payment does to the sums.
LEMMA PaymentIs ==
  ASSUME FinanceTypeOK, BooksInv, NEW r \in Requests, NEW n \in 1 .. RequestOf[r].total,
         NEW u \in Payers, RecordPayment(r, n, u)
  PROVE  /\ records' \in Seq(Row) /\ BooksInv'
         /\ \A q \in Requests : Net(records, q) \in Int
         /\ Net(records', r) = Net(records, r) + n
         /\ \A q \in Requests : q # r => Net(records', q) = Net(records, q)
         /\ \A e \in DOMAIN exceptions : Refunded(records', e) = Refunded(records, e)
  <1> DEFINE p == Payment(r, n)
  <1>1. n \in Int /\ n > 0
    BY Types
  <1>2. /\ p \in Row /\ p.of = 0 /\ p.n > 0 /\ p.type = "payment" /\ p.exception = 0
        /\ p.request = r /\ p.n = n
    BY <1>1 DEF Payment, Row
  <1>3. records' = Append(records, p) /\ UNCHANGED <<exceptions, corrections>>
    BY DEF RecordPayment
  <1> HIDE DEF p
  <1>4. /\ records' \in Seq(Row) /\ BooksInv'
        /\ \A q : /\ Net(records, q) \in Int
                  /\ Net(records', q) =
                       Net(records, q) + (IF p.request = q /\ p.exception = 0 THEN p.n ELSE 0)
        /\ \A e : /\ Refunded(records, e) \in Int
                  /\ Refunded(records', e) =
                       Refunded(records, e) + (IF p.exception = e THEN p.n ELSE 0)
    BY <1>2, <1>3, RowBooked
  <1>5. \A e \in DOMAIN exceptions : e # 0
    BY RecordsType
  <1> QED
    BY <1>1, <1>2, <1>4, <1>5

\* What a refund does to the sums and to its exception.
LEMMA RefundIs ==
  ASSUME FinanceTypeOK, BooksInv, NEW e \in DOMAIN exceptions, NEW r \in Requests,
         NEW n \in 1 .. exceptions[e].affected, NEW u \in Payers, RecordRefund(e, r, n, u)
  PROVE  /\ records' \in Seq(Row) /\ BooksInv'
         /\ n \in Nat /\ n > 0
         /\ \A q \in Requests : Net(records', q) = Net(records, q)
         /\ Refunded(records, e) \in Int
         /\ Refunded(records', e) = Refunded(records, e) + n
         /\ \A f \in DOMAIN exceptions : f # e => Refunded(records', f) = Refunded(records, f)
         /\ exceptions' \in Seq(Exception) /\ DOMAIN exceptions' = DOMAIN exceptions
         /\ \A f \in DOMAIN exceptions : f # e => exceptions'[f] = exceptions[f]
         /\ exceptions'[e] = Closing([exceptions[e] EXCEPT !.refunded = @ + n])
         /\ [exceptions[e] EXCEPT !.refunded = @ + n] \in Exception
         /\ exceptions[e].replaced + exceptions[e].refunded + n =< exceptions[e].affected
  <1> DEFINE p == Refund(r, n, e)
             x == exceptions[e]
             y == [x EXCEPT !.refunded = @ + n]
  <1>1. /\ exceptions \in Seq(Exception) /\ x \in Exception /\ e \in Nat /\ e # 0
        /\ x.affected \in Nat /\ x.refunded \in Nat
    BY Types DEF Exception, Amounts
  <1>2. n \in Nat /\ n > 0
    BY <1>1
  <1>3. /\ p \in Row /\ p.of = 0 /\ p.n > 0 /\ p.type = "refund" /\ p.exception = e
        /\ p.request = r /\ p.n = n
    BY <1>1, <1>2 DEF Refund, Row
  <1>4. /\ records' = Append(records, p) /\ UNCHANGED corrections
        /\ exceptions' = [exceptions EXCEPT ![e] = Closing(y)]
        /\ x.replaced + x.refunded + n =< x.affected
    BY DEF RecordRefund
  <1>5. y \in Exception /\ Closing(y) \in Exception
    <2>0. x \in Exception /\ x.refunded + n \in Nat
      BY <1>1, <1>2
    <2> HIDE DEF x
    <2>1. y \in Exception
      BY <2>0 DEF Exception
    <2> HIDE DEF y
    <2> QED
      BY <2>1, ClosingIs
  <1> HIDE DEF p, y
  <1>6. /\ exceptions' \in Seq(Exception) /\ DOMAIN exceptions' = DOMAIN exceptions
        /\ exceptions'[e] = Closing(y)
        /\ \A f \in DOMAIN exceptions : f # e => exceptions'[f] = exceptions[f]
    BY <1>1, <1>4, <1>5, Replaced
  <1>7. /\ records' \in Seq(Row) /\ BooksInv'
        /\ \A q : /\ Net(records, q) \in Int
                  /\ Net(records', q) =
                       Net(records, q) + (IF p.request = q /\ p.exception = 0 THEN p.n ELSE 0)
        /\ \A f : /\ Refunded(records, f) \in Int
                  /\ Refunded(records', f) =
                       Refunded(records, f) + (IF p.exception = f THEN p.n ELSE 0)
    BY <1>3, <1>4, <1>6, RowBooked
  <1> QED
    BY <1>1, <1>2, <1>3, <1>4, <1>5, <1>6, <1>7 DEF y

\* What an approved correction does to the sums and to the exception.
LEMMA ApplyIs ==
  ASSUME FinanceTypeOK, BooksInv, NEW c \in DOMAIN corrections, NEW u \in Payers, ApplyCorrection(c, u),
         NEW k, k = corrections[c].record, NEW e, e = records[k].exception
  PROVE  /\ records' \in Seq(Row) /\ BooksInv'
         /\ \A q \in Requests : q \notin {records[k].request, corrections[c].request}
                                => Net(records', q) = Net(records, q)
         /\ \A f \in DOMAIN exceptions : f # e => Refunded(records', f) = Refunded(records, f)
         /\ \A j \in DOMAIN records : records'[j] = records[j]
         /\ \A j \in DOMAIN records' : j \notin DOMAIN records /\ records'[j].n > 0 =>
              records'[j].request = corrections[c].request /\ records'[j].exception = e
         /\ exceptions' \in Seq(Exception) /\ DOMAIN exceptions' = DOMAIN exceptions
         /\ e # 0 => /\ exceptions'[e] = Remedied(records', e) /\ Refunded(records', e) \in Nat
                     /\ exceptions[e] \in Exception
         /\ \A f \in DOMAIN exceptions : f # e => exceptions'[f] = exceptions[f]
  <1> DEFINE to == corrections[c].request
             n  == corrections[c].n
  <1>1. /\ k \in DOMAIN records /\ to \in Requests /\ n \in Amounts /\ Uncorrected(k)
        /\ records[k].type \in {"payment", "refund"}
        /\ e = 0 \/ e \in DOMAIN exceptions
        /\ records' = Corrected(k, to, n)
        /\ DOMAIN corrections' = DOMAIN corrections
        /\ \A b \in DOMAIN corrections : corrections'[b].record = corrections[b].record
        /\ exceptions' = IF e = 0 THEN exceptions ELSE [exceptions EXCEPT ![e] = Remedied(records', e)]
    BY CorrectionIs
  <1>2. /\ exceptions \in Seq(Exception)
        /\ \A f \in DOMAIN exceptions : f \in Nat /\ f # 0 /\ exceptions[f] \in Exception
    BY Types
  <1> HIDE DEF to, n
  <1>3. DOMAIN exceptions' = DOMAIN exceptions
    BY <1>1, <1>2
  <1>4. /\ records' \in Seq(Row) /\ BooksInv'
        /\ \A q : q \notin {records[k].request, to} => Net(records', q) = Net(records, q)
        /\ \A f : f # e => Refunded(records', f) = Refunded(records, f)
        /\ \A j \in DOMAIN records : records'[j] = records[j]
        /\ \A j \in DOMAIN records' : j \notin DOMAIN records /\ records'[j].n > 0 =>
              records'[j].request = to /\ records'[j].exception = records[k].exception
    BY <1>1, <1>3, RowCorrected
  <1>5. Refunded(records', e) \in Nat \/ e = 0
    <2>1. /\ \A j \in DOMAIN records' : records'[j].type # "reversal" => records'[j].n > 0
          /\ \A f \in Nat : Refunded(records', f) = StandsFor(records', f)
      BY <1>4 DEF BooksInv, LedgerInv, ReversalsCancel
    <2>2. StandsFor(records', e) \in Nat
      BY <1>4, <2>1, StandsNotNegative
    <2> QED
      BY <1>1, <1>2, <2>1, <2>2
  <1>6. CASE e = 0
    BY <1>1, <1>2, <1>4, <1>6 DEF to
  <1>7. CASE e # 0
    <2>1. e \in DOMAIN exceptions /\ exceptions[e] \in Exception /\ Refunded(records', e) \in Nat
      BY <1>1, <1>2, <1>5, <1>7
    <2>2. Remedied(records', e) \in Exception
      BY <2>1, RemediedIs
    <2>3. exceptions' = [exceptions EXCEPT ![e] = Remedied(records', e)]
      BY <1>1, <1>7
    <2>4. /\ exceptions' \in Seq(Exception)
          /\ exceptions'[e] = Remedied(records', e)
          /\ \A f \in DOMAIN exceptions : f # e => exceptions'[f] = exceptions[f]
      BY <1>2, <2>1, <2>2, <2>3, Replaced
    <2> QED
      BY <1>3, <1>4, <2>1, <2>4 DEF to
  <1> QED
    BY <1>6, <1>7

-----------------------------------------------------------------------------
\* The types of the four tables that commands other than those of the verdicts change.
LedgerTypes ==
  /\ exceptions \in Seq(Exception) /\ records \in Seq(Row) /\ corrections \in Seq(Correction)
  /\ request \in [Requests -> PaymentRequest]

\* FinanceTypeOK in two halves.
LEMMA TypesAre ==
  /\ FinanceTypeOK => LedgerTypes
  /\ InvoicesOK' /\ alloc' \in [Invoices -> [Requests -> Allocation]] /\ LedgerTypes' => FinanceTypeOK'
  BY DEF FinanceTypeOK, LedgerTypes, InvoicesOK, Exception, Row, Correction, PaymentRequest, Allocation

\* What a new exception is.
LEMMA InvalidateIs ==
  ASSUME FinanceTypeOK, NEW i \in Invoices, NEW u \in Payers, InvalidateInvoice(i, u)
  PROVE  LET x == exceptions'[Len(exceptions) + 1]
         IN /\ exceptions' \in Seq(Exception)
            /\ DOMAIN exceptions' = DOMAIN exceptions \cup {Len(exceptions) + 1}
            /\ \A e \in DOMAIN exceptions : exceptions'[e] = exceptions[e]
            /\ Len(exceptions) + 1 \notin DOMAIN exceptions
            /\ Len(exceptions) + 1 # 0
            /\ x.replaced = 0 /\ x.refunded = 0 /\ x.status = "awaiting_remediation"
            /\ x.affected \in Nat /\ x.affected > 0 /\ x.links = [j \in Invoices |-> 0]
  <1> DEFINE x == [invoice |-> i, affected |-> InvoiceOf[i].amount, replaced |-> 0, refunded |-> 0,
                   status |-> "awaiting_remediation", links |-> [j \in Invoices |-> 0],
                   released |-> FALSE]
             n == Len(exceptions)
  <1>1. x \in Exception
    BY Types DEF Exception, Amounts
  <1>2. exceptions \in Seq(Exception) /\ n \in Nat /\ DOMAIN exceptions = 1 .. n
    BY Types
  <1>3. exceptions' = Append(exceptions, x)
    BY DEF InvalidateInvoice
  <1>4. /\ x.replaced = 0 /\ x.refunded = 0 /\ x.status = "awaiting_remediation"
        /\ x.affected \in Nat /\ x.affected > 0 /\ x.links = [j \in Invoices |-> 0]
    BY Types
  <1> HIDE DEF x
  <1>5. /\ exceptions' \in Seq(Exception) /\ DOMAIN exceptions' = 1 .. n + 1
        /\ exceptions'[n + 1] = x /\ \A e \in 1 .. n : exceptions'[e] = exceptions[e]
    BY <1>1, <1>2, <1>3
  <1> QED
    BY <1>2, <1>4, <1>5

\* The exception with n of invoice j as replacement.
Linked(e, j, n) == [exceptions[e] EXCEPT !.replaced = @ + n, !.links[j] = n]

\* What linking a replacement writes.
LEMMA LinkIs ==
  ASSUME FinanceTypeOK, NEW e \in DOMAIN exceptions, NEW j \in Invoices, NEW u \in Payers,
         NEW n \in 1 .. exceptions[e].affected, LinkReplacement(e, j, n, u)
  PROVE  LET y == Linked(e, j, n) IN
         /\ y \in Exception /\ n \in Nat
         /\ exceptions' = [exceptions EXCEPT ![e] = Closing(y)]
         /\ y.affected = exceptions[e].affected /\ y.refunded = exceptions[e].refunded
         /\ y.replaced = exceptions[e].replaced + n
         /\ y.status = exceptions[e].status
         /\ exceptions[e].links[j] = 0 /\ y.links = [exceptions[e].links EXCEPT ![j] = n]
         /\ exceptions[e].status # "resolved"
         /\ y.replaced + y.refunded =< y.affected
  <1> DEFINE x == exceptions[e]
             y == Linked(e, j, n)
  <1>1. x \in Exception
    BY Types
  <1>2. n \in Nat
    BY <1>1 DEF Exception, Amounts
  <1>3. x.replaced \in Nat /\ x.refunded \in Nat /\ x.links \in [Invoices -> Nat] /\ x.affected \in Nat
    BY <1>1 DEF Exception, Amounts
  <1>4. x.replaced + n \in Nat /\ [x.links EXCEPT ![j] = n] \in [Invoices -> Nat]
    BY <1>2, <1>3
  <1>5. /\ exceptions' = [exceptions EXCEPT ![e] = Closing(y)]
        /\ x.links[j] = 0 /\ x.status # "resolved" /\ x.replaced + x.refunded + n =< x.affected
    BY DEF LinkReplacement, Open, Linked
  <1>6. y = [x EXCEPT !.replaced = x.replaced + n, !.links = [x.links EXCEPT ![j] = n]]
    BY DEF Linked
  <1> HIDE DEF x, y
  <1>7. /\ y \in Exception
        /\ y.affected = x.affected /\ y.refunded = x.refunded
        /\ y.replaced = x.replaced + n
        /\ y.status = x.status /\ y.links = [x.links EXCEPT ![j] = n]
    BY <1>1, <1>4, <1>6 DEF Exception
  <1> QED
    BY <1>2, <1>3, <1>5, <1>7 DEF x, y

\* Exceptions keep their type, and none is deleted.
LEMMA ExceptionsStep ==
  ASSUME FinanceTypeOK, BooksInv, FinanceNext
  PROVE  exceptions' \in Seq(Exception) /\ DOMAIN exceptions \subseteq DOMAIN exceptions'
  <1>1. exceptions \in Seq(Exception)
    BY Types
  <1>2. CASE UNCHANGED exceptions
    BY <1>1, <1>2
  <1>3. ASSUME NEW i \in Invoices, NEW u \in Payers, InvalidateInvoice(i, u)
        PROVE  exceptions' \in Seq(Exception) /\ DOMAIN exceptions \subseteq DOMAIN exceptions'
    BY <1>3, InvalidateIs
  <1>4. ASSUME NEW e \in DOMAIN exceptions, NEW y \in Exception, exceptions' = [exceptions EXCEPT ![e] = y]
        PROVE  exceptions' \in Seq(Exception) /\ DOMAIN exceptions' = DOMAIN exceptions
    BY <1>1, <1>4, Replaced
  <1>5. ASSUME NEW e \in DOMAIN exceptions, NEW j \in Invoices, NEW u \in Payers,
               NEW n \in 1 .. exceptions[e].affected, LinkReplacement(e, j, n, u)
        PROVE  exceptions' \in Seq(Exception) /\ DOMAIN exceptions' = DOMAIN exceptions
    <2> DEFINE x == exceptions[e]
               y == Linked(e, j, n)
    <2>1. /\ y \in Exception /\ n \in Nat
          /\ exceptions' = [exceptions EXCEPT ![e] = Closing(y)]
          /\ y.affected = x.affected /\ y.refunded = x.refunded
          /\ y.replaced = x.replaced + n
          /\ y.status = x.status /\ x.status # "resolved"
          /\ x.links[j] = 0 /\ y.links = [x.links EXCEPT ![j] = n]
          /\ y.replaced + y.refunded =< y.affected
      BY <1>5, LinkIs
    <2> HIDE DEF y
    <2>2. Closing(y) \in Exception
      BY <2>1, ClosingIs
    <2> QED
      BY <1>4, <2>1, <2>2
  <1>6. ASSUME NEW e \in DOMAIN exceptions,
               WarnOverdue(e) \/ \E u \in Payers : ReleaseRisk(e, u)
        PROVE  exceptions' \in Seq(Exception) /\ DOMAIN exceptions' = DOMAIN exceptions
    <2>1. exceptions[e] \in Exception
      BY Types
    <2>2. CASE WarnOverdue(e)
      <3>1. exceptions' = [exceptions EXCEPT ![e] = [exceptions[e] EXCEPT !.status = "risk_warning"]]
        BY <2>2 DEF WarnOverdue
      <3>2. [exceptions[e] EXCEPT !.status = "risk_warning"] \in Exception
        BY <2>1 DEF Exception
      <3> QED
        BY <1>4, <3>1, <3>2
    <2>3. CASE \E u \in Payers : ReleaseRisk(e, u)
      <3> DEFINE y == [exceptions[e] EXCEPT !.status = "awaiting_remediation", !.released = TRUE]
      <3>1. exceptions' = [exceptions EXCEPT ![e] = y]
        BY <2>3, <1>1 DEF ReleaseRisk
      <3>2. y \in Exception
        BY <2>1 DEF Exception
      <3> HIDE DEF y
      <3> QED
        BY <1>4, <3>1, <3>2
    <2> QED
      BY <1>6, <2>2, <2>3
  <1>7. ASSUME NEW e \in DOMAIN exceptions, NEW r \in Requests, NEW u \in Payers,
               NEW n \in 1 .. exceptions[e].affected, RecordRefund(e, r, n, u)
        PROVE  exceptions' \in Seq(Exception) /\ DOMAIN exceptions' = DOMAIN exceptions
    BY <1>7, RefundIs
  <1>8. ASSUME NEW c \in DOMAIN corrections, NEW u \in Payers, ApplyCorrection(c, u)
        PROVE  exceptions' \in Seq(Exception) /\ DOMAIN exceptions' = DOMAIN exceptions
    BY <1>8, ApplyIs
  <1>9. FinanceNext =>
          \/ UNCHANGED exceptions
          \/ \E i \in Invoices, u \in Payers : InvalidateInvoice(i, u)
          \/ \E e \in DOMAIN exceptions, j \in Invoices, u \in Payers :
               \E n \in 1 .. exceptions[e].affected : LinkReplacement(e, j, n, u)
          \/ \E e \in DOMAIN exceptions : WarnOverdue(e) \/ \E u \in Payers : ReleaseRisk(e, u)
          \/ \E e \in DOMAIN exceptions, r \in Requests, u \in Payers :
               \E n \in 1 .. exceptions[e].affected : RecordRefund(e, r, n, u)
          \/ \E c \in DOMAIN corrections, u \in Payers : ApplyCorrection(c, u)
    BY DEF FinanceNext, CreateInvoice, RecordVerdict, VerifyInvoice, RecordPayment,
           RequestCorrection, RejectCorrection
  <1> QED
    BY <1>2, <1>3, <1>5, <1>6, <1>7, <1>8, <1>9

\* A correction that is asked for is of a payment or a refund.
LEMMA RequestIs ==
  ASSUME FinanceTypeOK, NEW k \in DOMAIN records, NEW r \in Requests, NEW n \in 1 .. RequestOf[r].total,
         NEW u \in Payers, RequestCorrection(k, r, n, u)
  PROVE  /\ corrections' \in Seq(Correction)
         /\ \A c \in DOMAIN corrections' :
              \/ c \in DOMAIN corrections /\ corrections'[c].record = corrections[c].record
              \/ /\ corrections'[c].record \in DOMAIN records
                 /\ records[corrections'[c].record].type \in {"payment", "refund"}
         /\ UNCHANGED <<records, exceptions, request>>
  <1> DEFINE x == [record |-> k, request |-> r, n |-> n, by |-> u, status |-> "pending"]
             m == Len(corrections)
  <1>1. corrections \in Seq(Correction) /\ m \in Nat /\ DOMAIN corrections = 1 .. m
    BY Types
  <1>2. x \in Correction /\ x.record = k
    BY Types, RecordsType DEF Correction, Amounts
  <1>3. /\ corrections' = Append(corrections, x) /\ records[k].type \in {"payment", "refund"}
        /\ UNCHANGED <<records, exceptions, request>>
    BY DEF RequestCorrection
  <1> HIDE DEF x
  <1>4. /\ corrections' \in Seq(Correction) /\ DOMAIN corrections' = 1 .. m + 1
        /\ corrections'[m + 1] = x /\ \A c \in 1 .. m : corrections'[c] = corrections[c]
    BY <1>1, <1>2, <1>3
  <1> QED
    BY <1>1, <1>2, <1>3, <1>4

\* Rejecting a correction changes its status only.
LEMMA RejectIs ==
  ASSUME FinanceTypeOK, NEW c \in DOMAIN corrections, NEW u, RejectCorrection(c, u)
  PROVE  /\ corrections' \in Seq(Correction) /\ DOMAIN corrections' = DOMAIN corrections
         /\ \A b \in DOMAIN corrections : corrections'[b].record = corrections[b].record
         /\ UNCHANGED <<records, exceptions, request>>
  <1> DEFINE y == [corrections[c] EXCEPT !.status = "rejected"]
  <1>1. corrections \in Seq(Correction) /\ corrections[c] \in Correction
    BY Types
  <1>2. corrections' = [corrections EXCEPT ![c] = y] /\ UNCHANGED <<records, exceptions, request>>
    BY DEF RejectCorrection
  <1>3. y \in Correction /\ y.record = corrections[c].record
    BY <1>1 DEF Correction
  <1> HIDE DEF y
  <1>4. /\ corrections' \in Seq(Correction) /\ DOMAIN corrections' = DOMAIN corrections
        /\ corrections'[c] = y /\ \A b \in DOMAIN corrections : b # c => corrections'[b] = corrections[b]
    BY <1>1, <1>2, <1>3, Replaced
  <1> QED
    BY <1>2, <1>3, <1>4

\* Every command keeps the books right.
LEMMA BooksStep ==
  ASSUME FinanceTypeOK, BooksInv, FinanceNext
  PROVE  BooksInv' /\ records' \in Seq(Row) /\ corrections' \in Seq(Correction)
  <1>1. records \in Seq(Row) /\ corrections \in Seq(Correction)
    BY Types
  <1>2. DOMAIN exceptions \subseteq DOMAIN exceptions'
    BY ExceptionsStep
  <1>3. CASE UNCHANGED <<records, corrections>>
    BY <1>1, <1>2, <1>3, BooksKept
  <1>4. ASSUME NEW r \in Requests, NEW u \in Payers, NEW n \in 1 .. RequestOf[r].total, RecordPayment(r, n, u)
        PROVE  BooksInv' /\ records' \in Seq(Row) /\ UNCHANGED corrections
    BY <1>4, PaymentIs DEF RecordPayment
  <1>5. ASSUME NEW e \in DOMAIN exceptions, NEW r \in Requests, NEW u \in Payers,
               NEW n \in 1 .. exceptions[e].affected, RecordRefund(e, r, n, u)
        PROVE  BooksInv' /\ records' \in Seq(Row) /\ UNCHANGED corrections
    BY <1>5, RefundIs DEF RecordRefund
  <1>6. ASSUME NEW k \in DOMAIN records, NEW r \in Requests, NEW u \in Payers,
               NEW n \in 1 .. RequestOf[r].total, RequestCorrection(k, r, n, u)
        PROVE  BooksInv' /\ records' \in Seq(Row) /\ corrections' \in Seq(Correction)
    BY <1>1, <1>2, <1>6, RequestIs, BooksKept
  <1>7. ASSUME NEW c \in DOMAIN corrections, NEW u \in Payers, RejectCorrection(c, u)
        PROVE  BooksInv' /\ records' \in Seq(Row) /\ corrections' \in Seq(Correction)
    BY <1>1, <1>2, <1>7, RejectIs, BooksKept
  <1>8. ASSUME NEW c \in DOMAIN corrections, NEW u \in Payers, ApplyCorrection(c, u)
        PROVE  BooksInv' /\ records' \in Seq(Row) /\ corrections' \in Seq(Correction)
    BY <1>8, ApplyIs, CorrectionIs
  <1>9. FinanceNext =>
          \/ UNCHANGED <<records, corrections>>
          \/ \E r \in Requests, u \in Payers : \E n \in 1 .. RequestOf[r].total : RecordPayment(r, n, u)
          \/ \E e \in DOMAIN exceptions, r \in Requests, u \in Payers :
               \E n \in 1 .. exceptions[e].affected : RecordRefund(e, r, n, u)
          \/ \E k \in DOMAIN records, r \in Requests, u \in Payers :
               \E n \in 1 .. RequestOf[r].total : RequestCorrection(k, r, n, u)
          \/ \E c \in DOMAIN corrections, u \in Payers : RejectCorrection(c, u) \/ ApplyCorrection(c, u)
    BY DEF FinanceNext, CreateInvoice, RecordVerdict, VerifyInvoice, InvalidateInvoice,
           LinkReplacement, WarnOverdue, ReleaseRisk
  <1> QED
    BY <1>1, <1>3, <1>4, <1>5, <1>6, <1>7, <1>8, <1>9

-----------------------------------------------------------------------------
\* Every command keeps the statuses of the requests true.
LEMMA StatusStep ==
  ASSUME FinanceTypeOK, BooksInv, StatusTellsNet, FinanceNext
  PROVE  StatusTellsNet' /\ \A r \in Requests : request'[r].covered \in Nat => request'[r] \in PaymentRequest
  <1> DEFINE Goal(r) == /\ Net(records', r) \in 0 .. RequestOf[r].total
                        /\ request'[r].status = "paid" => Net(records', r) = RequestOf[r].total
                        /\ request'[r].status = "partially_paid"
                             => Net(records', r) \in 1 .. RequestOf[r].total - 1
                        /\ request'[r].covered \in Nat => request'[r] \in PaymentRequest
  <1>0. /\ request \in [Requests -> PaymentRequest]
        /\ \A r \in Requests : /\ request[r] \in PaymentRequest /\ request[r].covered \in Nat
                               /\ RequestOf[r].total \in Nat
                               /\ Net(records, r) \in 0 .. RequestOf[r].total
                               /\ request[r].status = "paid" => Net(records, r) = RequestOf[r].total
                               /\ request[r].status = "partially_paid"
                                    => Net(records, r) \in 1 .. RequestOf[r].total - 1
    BY Types DEF StatusTellsNet
  <1>1. ASSUME NEW r \in Requests, Net(records', r) = Net(records, r), request'[r] = request[r]
        PROVE  Goal(r)
    BY <1>0, <1>1
  <1>2. ASSUME NEW r \in Requests, Net(records', r) = Net(records, r), NEW n, NEW s,
               request'[r] = [covered |-> n, status |-> s],
               s \in {"generated", "waiting_invoice", "invoice_exception_frozen"}
        PROVE  Goal(r)
    BY <1>0, <1>2 DEF PaymentRequest
  <1>3. ASSUME NEW i \in Invoices, NEW role \in Verifiers, NEW u \in Payers,
               NEW d \in [Requests -> 0 .. InvoiceOf[i].amount], VerifyInvoice(i, role, u, d),
               NEW r \in Requests
        PROVE  Goal(r)
    <2>1. Net(records', r) = Net(records, r)
      BY <1>3 DEF VerifyInvoice
    <2>2. CASE d[r] = 0
      <3>1. request'[r] = request[r]
        BY <1>3, <2>2 DEF VerifyInvoice
      <3> HIDE DEF Goal
      <3> QED
        BY <1>1, <2>1, <3>1
    <2>3. CASE d[r] # 0
      <3> DEFINE n == request[r].covered + d[r]
                 s == IF n >= RequestOf[r].total THEN "generated" ELSE "waiting_invoice"
      <3>1. request'[r] = [covered |-> n, status |-> s]
        BY <1>3, <2>3 DEF VerifyInvoice
      <3>2. s \in {"generated", "waiting_invoice", "invoice_exception_frozen"}
        OBVIOUS
      <3> HIDE DEF Goal, n, s
      <3> QED
        BY <1>2, <2>1, <3>1, <3>2
    <2> QED
      BY <2>2, <2>3
  <1>4. ASSUME NEW i \in Invoices, NEW u \in Payers, InvalidateInvoice(i, u), NEW r \in Requests
        PROVE  Goal(r)
    <2>1. Net(records', r) = Net(records, r)
      BY <1>4 DEF InvalidateInvoice
    <2>2. request'[r] = request[r] \/ request'[r] = Uncovered(i, r)
      BY <1>4 DEF InvalidateInvoice
    <2>3. CASE request'[r] = Uncovered(i, r)
      <3> HIDE DEF Goal
      <3> QED
        BY <1>2, <2>1, <2>3 DEF Uncovered
    <2> HIDE DEF Goal
    <2> QED
      BY <1>1, <2>1, <2>2, <2>3
  <1>5. ASSUME NEW q \in Requests, NEW n \in 1 .. RequestOf[q].total, NEW u \in Payers,
               RecordPayment(q, n, u), NEW r \in Requests
        PROVE  Goal(r)
    <2>1. /\ Net(records', q) = Net(records, q) + n
          /\ \A p \in Requests : p # q => Net(records', p) = Net(records, p)
      BY <1>5, PaymentIs
    <2>2. CASE r # q
      <3>1. request'[r] = request[r] /\ Net(records', r) = Net(records, r)
        BY <1>0, <1>5, <2>1, <2>2 DEF RecordPayment
      <3> HIDE DEF Goal
      <3> QED
        BY <1>1, <3>1
    <2>3. CASE r = q
      <3>1. /\ Net(records, q) + n =< RequestOf[q].total
            /\ request'[q] = [request[q] EXCEPT !.status =
                   IF Net(records, q) + n = RequestOf[q].total THEN "paid" ELSE "partially_paid"]
        BY <1>0, <1>5 DEF RecordPayment
      <3>2. /\ request'[q].covered = request[q].covered
            /\ request'[q].status =
                   IF Net(records, q) + n = RequestOf[q].total THEN "paid" ELSE "partially_paid"
            /\ request'[q] \in PaymentRequest
        BY <1>0, <3>1 DEF PaymentRequest
      <3>3. /\ Net(records, q) \in Nat /\ n \in Nat /\ n > 0 /\ RequestOf[q].total \in Nat
        BY <1>0
      <3> QED
        BY <2>1, <2>3, <3>1, <3>2, <3>3
    <2> QED
      BY <2>2, <2>3
  <1>6. ASSUME NEW e \in DOMAIN exceptions, NEW q \in Requests, NEW u \in Payers,
               NEW n \in 1 .. exceptions[e].affected, RecordRefund(e, q, n, u), NEW r \in Requests
        PROVE  Goal(r)
    <2>1. Net(records', r) = Net(records, r)
      BY <1>6, RefundIs
    <2>2. request'[r] = request[r]
      BY <1>6 DEF RecordRefund
    <2> HIDE DEF Goal
    <2> QED
      BY <1>1, <2>1, <2>2
  <1>7. ASSUME NEW c \in DOMAIN corrections, NEW u \in Payers, ApplyCorrection(c, u), NEW r \in Requests
        PROVE  Goal(r)
    <2> DEFINE k    == corrections[c].record
               from == records[k].request
               to   == corrections[c].request
    <2>1. /\ \A p \in {from, to} : Net(records', p) \in 0 .. RequestOf[p].total
          /\ request' = [p \in Requests |-> [request[p] EXCEPT !.status =
                           Reprojected(records', from, to, p)]]
      BY <1>7, CorrectionIs
    <2>2. \A p \in Requests : p \notin {from, to} => Net(records', p) = Net(records, p)
      BY <1>7, ApplyIs
    <2> HIDE DEF k, from, to
    <2>3. CASE r \notin {from, to}
      <3>1. request'[r] = request[r]
        BY <1>0, <2>1, <2>3 DEF Reprojected, PaymentRequest
      <3> HIDE DEF Goal
      <3> QED
        BY <1>1, <2>2, <2>3, <3>1
    <2>4. CASE r \in {from, to}
      <3> DEFINE s == IF Net(records', r) = RequestOf[r].total THEN "paid"
                      ELSE IF Net(records', r) > 0 THEN "partially_paid" ELSE "generated"
      <3>1. request'[r] = [request[r] EXCEPT !.status = s]
        BY <2>1, <2>4 DEF Reprojected
      <3>2. s \in {"paid", "partially_paid", "generated"}
        OBVIOUS
      <3>3. request'[r] \in PaymentRequest /\ request'[r].status = s
        <4> HIDE DEF s
        <4> QED
          BY <1>0, <3>1, <3>2 DEF PaymentRequest
      <3>4. Net(records', r) \in 0 .. RequestOf[r].total
        BY <2>1, <2>4
      <3>5. RequestOf[r].total \in Nat
        BY <1>0
      <3> QED
        BY <3>3, <3>4, <3>5
    <2> QED
      BY <2>3, <2>4
  <1>8. ASSUME UNCHANGED <<request, records>>, NEW r \in Requests PROVE Goal(r)
    BY <1>0, <1>8
  <1>9. \/ UNCHANGED <<request, records>>
        \/ \E i \in Invoices, role \in Verifiers, u \in Payers :
             \E d \in [Requests -> 0 .. InvoiceOf[i].amount] : VerifyInvoice(i, role, u, d)
        \/ \E i \in Invoices, u \in Payers : InvalidateInvoice(i, u)
        \/ \E r \in Requests, u \in Payers : \E n \in 1 .. RequestOf[r].total : RecordPayment(r, n, u)
        \/ \E e \in DOMAIN exceptions, r \in Requests, u \in Payers :
             \E n \in 1 .. exceptions[e].affected : RecordRefund(e, r, n, u)
        \/ \E c \in DOMAIN corrections, u \in Payers : ApplyCorrection(c, u)
    BY DEF FinanceNext, CreateInvoice, RecordVerdict, LinkReplacement, WarnOverdue, ReleaseRisk,
           RequestCorrection, RejectCorrection
  <1>10. ASSUME NEW r \in Requests PROVE Goal(r)
    <2> HIDE DEF Goal
    <2> QED
      BY <1>3, <1>4, <1>5, <1>6, <1>7, <1>8, <1>9
  <1> QED
    BY <1>10 DEF StatusTellsNet

\* request stays a function on the requests.
LEMMA RequestType ==
  ASSUME FinanceTypeOK, FinanceNext
  PROVE  request' = [r \in Requests |-> request'[r]]
  <1>1. request = [r \in Requests |-> request[r]]
    BY Types
  <1> QED
    BY ZenonT(60), <1>1 DEF FinanceNext, CreateInvoice, RecordVerdict, VerifyInvoice, InvalidateInvoice,
       LinkReplacement, WarnOverdue, ReleaseRisk, RecordPayment, RecordRefund, RequestCorrection,
       RejectCorrection, ApplyCorrection

-----------------------------------------------------------------------------
\* One exception, as RemediationBalanced wants it; u is what the ledger says was refunded.
Balanced(x, u) ==
  /\ x.replaced = SumOf(x.links, Invoices) /\ x.refunded = u
  /\ x.refunded >= 0 /\ x.replaced + x.refunded =< x.affected
  /\ x.status = "resolved" <=> x.replaced + x.refunded = x.affected

\* RemediationBalanced is a statement about sums.
LEMMA BalanceIs ==
  /\ FinanceTypeOK =>
       (RemediationBalanced <=> \A e \in DOMAIN exceptions : Balanced(exceptions[e], Refunded(records, e)))
  /\ exceptions' \in Seq(Exception) =>
       (RemediationBalanced' <=> \A e \in DOMAIN exceptions' : Balanced(exceptions'[e], Refunded(records', e)))
  <1>1. ASSUME NEW x \in Exception PROVE SumFunction(x.links) = SumOf(x.links, Invoices)
    <2>1. DOMAIN x.links = Invoices
      BY DEF Exception
    <2> QED
      BY <2>1, SumOn
  <1>2. ASSUME FinanceTypeOK
        PROVE  RemediationBalanced
                 <=> \A e \in DOMAIN exceptions : Balanced(exceptions[e], Refunded(records, e))
    BY <1>1, <1>2, Types DEF RemediationBalanced, Balanced, Settled
  <1>3. ASSUME exceptions' \in Seq(Exception)
        PROVE  RemediationBalanced'
                 <=> \A e \in DOMAIN exceptions' : Balanced(exceptions'[e], Refunded(records', e))
    <2>1. \A e \in DOMAIN exceptions' : exceptions'[e] \in Exception
      BY <1>3
    <2> QED
      BY <1>1, <2>1 DEF RemediationBalanced, Balanced, Settled
  <1> QED
    BY <1>2, <1>3

\* Every command keeps the exceptions balanced.
LEMMA RemedyStep ==
  ASSUME FinanceTypeOK, BooksInv, RemediationBalanced, FinanceNext
  PROVE  RemediationBalanced'
  <1> DEFINE Was(e)  == Balanced(exceptions[e], Refunded(records, e))
             Goal(e) == Balanced(exceptions'[e], Refunded(records', e))
  <1>0. /\ \A e \in DOMAIN exceptions : Was(e) /\ exceptions[e] \in Exception /\ e \in Nat /\ e # 0
        /\ exceptions \in Seq(Exception) /\ exceptions' \in Seq(Exception)
    BY BalanceIs, Types, ExceptionsStep
  <1>1. ASSUME NEW e \in DOMAIN exceptions, exceptions'[e] = exceptions[e],
               Refunded(records', e) = Refunded(records, e)
        PROVE  Goal(e)
    BY <1>0, <1>1
  <1>2. ASSUME NEW i \in Invoices, NEW u \in Payers, InvalidateInvoice(i, u), NEW e \in DOMAIN exceptions'
        PROVE  Goal(e)
    <2> DEFINE n == Len(exceptions) + 1
    <2>1. LET x == exceptions'[n]
          IN /\ DOMAIN exceptions' = DOMAIN exceptions \cup {n}
             /\ \A f \in DOMAIN exceptions : exceptions'[f] = exceptions[f]
             /\ n \notin DOMAIN exceptions /\ n # 0
             /\ x.replaced = 0 /\ x.refunded = 0 /\ x.status = "awaiting_remediation"
             /\ x.affected \in Nat /\ x.affected > 0 /\ x.links = [j \in Invoices |-> 0]
      BY <1>2, InvalidateIs
    <2>2. UNCHANGED records
      BY <1>2 DEF InvalidateInvoice
    <2> HIDE DEF n
    <2>3. CASE e \in DOMAIN exceptions
      <3>1. exceptions'[e] = exceptions[e] /\ Refunded(records', e) = Refunded(records, e)
        BY <2>1, <2>2, <2>3
      <3> HIDE DEF Goal
      <3> QED
        BY <1>1, <2>3, <3>1
    <2>4. CASE e = n
      <3> DEFINE z == exceptions'[n].links
      <3>1. SumOf(z, Invoices) = 0
        <4>1. z \in [Invoices -> Int] /\ \A j \in Invoices \ {} : z[j] = 0
          BY <2>1
        <4>2. IsFiniteSet(Invoices) /\ {} \in SUBSET Invoices
          BY InvoiceAssumption
        <4> HIDE DEF z
        <4> QED
          BY <4>1, <4>2, SumElsewhereZero, SumEmpty
      <3>2. Refunded(records, n) = 0
        <4>1. OfException(records, n) = {}
          BY <2>1 DEF OfException, BooksInv, LedgerInv
        <4> QED
          BY <4>1, SumsAre, SumEmpty
      <3> QED
        BY <2>1, <2>2, <2>4, <3>1, <3>2 DEF Balanced
    <2> QED
      BY <2>1, <2>3, <2>4
  <1>3. ASSUME NEW e \in DOMAIN exceptions, NEW j \in Invoices, NEW u \in Payers,
               NEW n \in 1 .. exceptions[e].affected, LinkReplacement(e, j, n, u),
               NEW f \in DOMAIN exceptions'
        PROVE  Goal(f)
    <2> DEFINE x == exceptions[e]
               y == Linked(e, j, n)
    <2>1. /\ y \in Exception /\ n \in Nat
          /\ exceptions' = [exceptions EXCEPT ![e] = Closing(y)]
          /\ y.affected = x.affected /\ y.refunded = x.refunded
          /\ y.replaced = x.replaced + n
          /\ y.status = x.status /\ x.status # "resolved"
          /\ x.links[j] = 0 /\ y.links = [x.links EXCEPT ![j] = n]
          /\ y.replaced + y.refunded =< y.affected
      BY <1>3, LinkIs
    <2>2. UNCHANGED records
      BY <1>3 DEF LinkReplacement
    <2> HIDE DEF y
    <2>3. /\ Closing(y) \in Exception
          /\ Closing(y).links = y.links /\ Closing(y).replaced = y.replaced
          /\ Closing(y).affected = y.affected /\ Closing(y).refunded = y.refunded
          /\ Closing(y).status = IF y.replaced + y.refunded = y.affected THEN "resolved" ELSE y.status
      BY <2>1, ClosingIs
    <2>4. /\ DOMAIN exceptions' = DOMAIN exceptions /\ exceptions'[e] = Closing(y)
          /\ \A g \in DOMAIN exceptions : g # e => exceptions'[g] = exceptions[g]
      BY <1>0, <2>1, <2>3, Replaced
    <2>5. CASE f # e
      <3>1. exceptions'[f] = exceptions[f] /\ Refunded(records', f) = Refunded(records, f)
        BY <2>2, <2>4, <2>5
      <3> HIDE DEF Goal
      <3> QED
        BY <1>1, <2>4, <3>1
    <2>6. CASE f = e
      <3>1. /\ x.links \in [Invoices -> Nat] /\ y.links \in [Invoices -> Nat]
            /\ x.replaced \in Nat /\ x.refunded \in Nat /\ x.affected \in Nat
        BY <1>0, <2>1 DEF Exception, Amounts
      <3>2. Changed(x.links, y.links, j, Invoices)
        BY <2>1, <3>1, InvoiceAssumption DEF Changed
      <3>3. SumOf(x.links, Invoices) \in Int
            /\ SumOf(y.links, Invoices) = SumOf(x.links, Invoices) - x.links[j] + y.links[j]
        BY <3>2, SumChanged
      <3>4. y.links[j] = n
        BY <2>1, <3>1
      <3>5. x.replaced = SumOf(x.links, Invoices) /\ x.refunded = Refunded(records, e) /\ x.refunded >= 0
        BY <1>0 DEF Balanced
      <3>6. y.replaced = SumOf(y.links, Invoices)
        BY <2>1, <3>1, <3>3, <3>4, <3>5
      <3> HIDE DEF x
      <3> QED
        BY <2>1, <2>2, <2>3, <2>4, <2>6, <3>1, <3>5, <3>6 DEF Balanced
    <2> QED
      BY <2>5, <2>6
  <1>4. ASSUME NEW e \in DOMAIN exceptions, NEW s, s # "resolved", NEW b, exceptions[e].status # "resolved",
               exceptions' = [exceptions EXCEPT ![e] = [exceptions[e] EXCEPT !.status = s, !.released = b]],
               UNCHANGED records, NEW f \in DOMAIN exceptions'
        PROVE  Goal(f)
    <2> DEFINE x == exceptions[e]
               y == [x EXCEPT !.status = s, !.released = b]
    <2>1. x \in Exception /\ Was(e)
      BY <1>0
    <2>2. /\ y.replaced = x.replaced /\ y.refunded = x.refunded /\ y.affected = x.affected
          /\ y.links = x.links /\ y.status = s
      BY <2>1 DEF Exception
    <2> HIDE DEF y
    <2>3. /\ DOMAIN exceptions' = DOMAIN exceptions /\ exceptions'[e] = y
          /\ \A g \in DOMAIN exceptions : g # e => exceptions'[g] = exceptions[g]
      BY <1>0, <1>4 DEF y
    <2>4. CASE f # e
      <3>1. exceptions'[f] = exceptions[f] /\ Refunded(records', f) = Refunded(records, f)
        BY <1>4, <2>3, <2>4
      <3> HIDE DEF Goal
      <3> QED
        BY <1>1, <2>3, <3>1
    <2>5. CASE f = e
      BY <1>4, <2>1, <2>2, <2>3, <2>5 DEF Balanced
    <2> QED
      BY <2>4, <2>5
  <1>5. ASSUME NEW e \in DOMAIN exceptions, WarnOverdue(e), NEW f \in DOMAIN exceptions'
        PROVE  Goal(f)
    <2>1. exceptions[e] \in Exception
      BY <1>0
    <2>2. [exceptions[e] EXCEPT !.status = "risk_warning"] =
            [exceptions[e] EXCEPT !.status = "risk_warning", !.released = exceptions[e].released]
      BY <2>1 DEF Exception
    <2>3. /\ exceptions' = [exceptions EXCEPT ![e] = [exceptions[e] EXCEPT !.status = "risk_warning"]]
          /\ exceptions[e].status # "resolved" /\ UNCHANGED records
      BY <1>5 DEF WarnOverdue
    <2> HIDE DEF Goal
    <2> QED
      BY <1>4, <2>2, <2>3
  <1>6. ASSUME NEW e \in DOMAIN exceptions, NEW u \in Payers, ReleaseRisk(e, u), NEW f \in DOMAIN exceptions'
        PROVE  Goal(f)
    <2>1. /\ exceptions' = [exceptions EXCEPT ![e] =
                 [exceptions[e] EXCEPT !.status = "awaiting_remediation", !.released = TRUE]]
          /\ exceptions[e].status # "resolved" /\ UNCHANGED records
      BY <1>0, <1>6 DEF ReleaseRisk
    <2> HIDE DEF Goal
    <2> QED
      BY <1>4, <2>1
  <1>7. ASSUME NEW r \in Requests, NEW n \in 1 .. RequestOf[r].total, NEW u \in Payers,
               RecordPayment(r, n, u), NEW f \in DOMAIN exceptions'
        PROVE  Goal(f)
    <2>1. UNCHANGED exceptions
      BY <1>7 DEF RecordPayment
    <2>2. Refunded(records', f) = Refunded(records, f)
      BY <1>7, <2>1, PaymentIs
    <2> HIDE DEF Goal
    <2> QED
      BY <1>1, <2>1, <2>2
  <1>8. ASSUME NEW e \in DOMAIN exceptions, NEW r \in Requests, NEW u \in Payers,
               NEW n \in 1 .. exceptions[e].affected, RecordRefund(e, r, n, u), NEW f \in DOMAIN exceptions'
        PROVE  Goal(f)
    <2> DEFINE x == exceptions[e]
               y == [x EXCEPT !.refunded = @ + n]
    <2>1. /\ n \in Nat /\ n > 0
          /\ Refunded(records', e) = Refunded(records, e) + n
          /\ \A g \in DOMAIN exceptions : g # e => Refunded(records', g) = Refunded(records, g)
          /\ DOMAIN exceptions' = DOMAIN exceptions
          /\ \A g \in DOMAIN exceptions : g # e => exceptions'[g] = exceptions[g]
          /\ exceptions'[e] = Closing(y) /\ y \in Exception
          /\ x.replaced + x.refunded + n =< x.affected
      BY <1>8, RefundIs
    <2>2. CASE f # e
      <3>1. exceptions'[f] = exceptions[f] /\ Refunded(records', f) = Refunded(records, f)
        BY <2>1, <2>2
      <3> HIDE DEF Goal
      <3> QED
        BY <1>1, <2>1, <3>1
    <2>3. CASE f = e
      <3>1. x \in Exception /\ Was(e)
        BY <1>0
      <3>2. /\ y.replaced = x.replaced /\ y.refunded = x.refunded + n /\ y.affected = x.affected
            /\ y.links = x.links /\ y.status = x.status
        BY <3>1 DEF Exception
      <3>3. x.status # "resolved"
        BY <1>8 DEF RecordRefund, Open
      <3>4. x.replaced \in Nat /\ x.refunded \in Nat /\ x.affected \in Nat
        BY <3>1 DEF Exception, Amounts
      <3> HIDE DEF y
      <3>5. /\ Closing(y).links = y.links /\ Closing(y).replaced = y.replaced
            /\ Closing(y).affected = y.affected /\ Closing(y).refunded = y.refunded
            /\ Closing(y).status = IF y.replaced + y.refunded = y.affected THEN "resolved" ELSE y.status
        BY <2>1, ClosingIs
      <3>6. x.replaced = SumOf(x.links, Invoices) /\ x.refunded = Refunded(records, e)
        BY <3>1 DEF Balanced
      <3> HIDE DEF x
      <3> QED
        BY <2>1, <2>3, <3>2, <3>3, <3>4, <3>5, <3>6 DEF Balanced
    <2> QED
      BY <2>2, <2>3
  <1>9. ASSUME NEW c \in DOMAIN corrections, NEW u \in Payers, ApplyCorrection(c, u),
               NEW f \in DOMAIN exceptions'
        PROVE  Goal(f)
    <2> DEFINE k == corrections[c].record
               e == records[k].exception
    <2>1. /\ \A g \in DOMAIN exceptions : g # e => Refunded(records', g) = Refunded(records, g)
          /\ DOMAIN exceptions' = DOMAIN exceptions
          /\ e # 0 => /\ exceptions'[e] = Remedied(records', e) /\ Refunded(records', e) \in Nat
                      /\ exceptions[e] \in Exception
          /\ \A g \in DOMAIN exceptions : g # e => exceptions'[g] = exceptions[g]
      BY <1>9, ApplyIs
    <2>2. /\ e = 0 \/ e \in DOMAIN exceptions
          /\ e # 0 => Refunded(records', e) + exceptions[e].replaced =< exceptions[e].affected
      BY <1>9, CorrectionIs
    <2> HIDE DEF k, e
    <2>3. CASE f # e
      <3>1. exceptions'[f] = exceptions[f] /\ Refunded(records', f) = Refunded(records, f)
        BY <2>1, <2>3
      <3> HIDE DEF Goal
      <3> QED
        BY <1>1, <2>1, <3>1
    <2>4. CASE f = e
      <3> DEFINE x == exceptions[e]
                 y == Remedied(records', e)
                 n == Refunded(records', e)
      <3>1. e # 0 /\ e \in DOMAIN exceptions
        BY <1>0, <2>1, <2>4
      <3>2. x \in Exception /\ Was(e) /\ n \in Nat /\ n + x.replaced =< x.affected
        BY <1>0, <2>1, <2>2, <3>1
      <3>3. /\ y.links = x.links /\ y.replaced = x.replaced /\ y.affected = x.affected
            /\ y.refunded = n /\ (y.status = "resolved" <=> x.replaced + n = x.affected)
        BY <3>2, RemediedIs
      <3>4. exceptions'[f] = y /\ Refunded(records', f) = n
        BY <2>1, <2>4, <3>1
      <3>5. x.replaced = SumOf(x.links, Invoices)
        BY <3>2 DEF Balanced
      <3>6. x.replaced \in Nat /\ x.affected \in Nat
        BY <3>2 DEF Exception, Amounts
      <3> HIDE DEF x, y, n
      <3> QED
        BY <3>2, <3>3, <3>4, <3>5, <3>6 DEF Balanced
    <2> QED
      BY <2>3, <2>4
  <1>10. ASSUME UNCHANGED <<exceptions, records>>, NEW f \in DOMAIN exceptions' PROVE Goal(f)
    BY <1>0, <1>10
  <1>11. \/ UNCHANGED <<exceptions, records>>
         \/ \E i \in Invoices, u \in Payers : InvalidateInvoice(i, u)
         \/ \E e \in DOMAIN exceptions, j \in Invoices, u \in Payers :
              \E n \in 1 .. exceptions[e].affected : LinkReplacement(e, j, n, u)
         \/ \E e \in DOMAIN exceptions : WarnOverdue(e)
         \/ \E e \in DOMAIN exceptions, u \in Payers : ReleaseRisk(e, u)
         \/ \E r \in Requests, u \in Payers : \E n \in 1 .. RequestOf[r].total : RecordPayment(r, n, u)
         \/ \E e \in DOMAIN exceptions, r \in Requests, u \in Payers :
              \E n \in 1 .. exceptions[e].affected : RecordRefund(e, r, n, u)
         \/ \E c \in DOMAIN corrections, u \in Payers : ApplyCorrection(c, u)
    BY DEF FinanceNext, CreateInvoice, RecordVerdict, VerifyInvoice, RequestCorrection, RejectCorrection
  <1>12. ASSUME NEW f \in DOMAIN exceptions' PROVE Goal(f)
    <2> HIDE DEF Goal
    <2> QED
      BY <1>2, <1>3, <1>5, <1>6, <1>7, <1>8, <1>9, <1>10, <1>11
  <1> QED
    BY <1>0, <1>12, BalanceIs

-----------------------------------------------------------------------------
\* The invariant holds before the first command.
LEMMA InitHolds ==
  ASSUME FinanceInit
  PROVE  FinanceInv
  <1>1. records = <<>> /\ exceptions = <<>> /\ corrections = <<>>
    BY DEF FinanceInit
  <1>2. records \in Seq(Row) /\ exceptions \in Seq(Exception) /\ corrections \in Seq(Correction)
    BY <1>1
  <1>3. /\ \A r \in Requests : request[r] = [covered |-> 0, status |-> "waiting_invoice"]
        /\ request \in [Requests -> PaymentRequest]
        /\ alloc \in [Invoices -> [Requests -> Allocation]]
        /\ \A i \in Invoices, r \in Requests : alloc[i][r] = NoAlloc
    BY DEF FinanceInit, PaymentRequest, Allocation
  <1>4. /\ invoice \in [Invoices -> {"none", "received", "verified", "rejected", "invalidated"}]
        /\ verdict \in [Invoices -> [Verifiers ->
             [by: Payers, decision: {"approved", "rejected"}] \cup {NoVerdict}]]
    BY DEF FinanceInit
  <1>5. FinanceTypeOK
    BY <1>2, <1>3, <1>4
       DEF FinanceTypeOK, Exception, Row, Correction, PaymentRequest, Allocation
  <1>6. VerdictInv
    BY DEF FinanceInit, VerdictInv, InvoicesOK, OneVerdictEach, AllocatedWasVerified, TwoVerifiers,
           Verifiers
  <1>7. DOMAIN records = {} /\ DOMAIN exceptions = {} /\ DOMAIN corrections = {}
    BY <1>1
  <1>8. \A r : Net(records, r) = 0
    <2>1. \A r : OfRequest(records, r) = {}
      BY <1>7 DEF OfRequest
    <2> QED
      BY <2>1, SumsAre, SumEmpty
  <1>9. \A e : Refunded(records, e) = 0 /\ StandsFor(records, e) = 0
    <2>1. \A e : OfException(records, e) = {}
      BY <1>7 DEF OfException
    <2> QED
      BY <2>1, SumsAre, SumEmpty DEF StandsFor
  <1>10. BooksInv
    BY <1>7, <1>9 DEF BooksInv, LedgerInv, CorrectionsInv, ReversalsCancel
  <1>11. StatusTellsNet
    BY <1>3, <1>8, RequestAssumption DEF StatusTellsNet
  <1>12. RemediationBalanced
    BY <1>7 DEF RemediationBalanced
  <1>13. CoverageIsAllocated
    <2>1. ASSUME NEW S, IsFiniteSet(S), NEW f \in [S -> Int], \A x \in S : f[x] = 0
          PROVE  SumOf(f, S) = 0
      <3>1. {} \in SUBSET S /\ \A x \in S \ {} : f[x] = 0
        BY <2>1
      <3> QED
        BY <2>1, <3>1, SumElsewhereZero, SumEmpty
    <2>2. ASSUME NEW r \in Requests PROVE SumOf(Covers(alloc, r), Invoices) = 0
      <3>1. Covers(alloc, r) \in [Invoices -> Int] /\ \A i \in Invoices : Covers(alloc, r)[i] = 0
        BY <1>3 DEF Covers, NoAlloc
      <3> QED
        BY <2>1, <3>1, InvoiceAssumption
    <2>3. ASSUME NEW i \in Invoices PROVE SumOf(Given(alloc, i), Requests) = 0
      <3>1. Given(alloc, i) \in [Requests -> Int] /\ \A r \in Requests : Given(alloc, i)[r] = 0
        BY <1>3 DEF Given, NoAlloc
      <3> QED
        BY <2>1, <3>1, RequestAssumption
    <2>4. /\ \A r \in Requests : request[r].covered = 0 /\ 0 =< RequestOf[r].total
          /\ \A i \in Invoices : 0 =< InvoiceOf[i].amount
      BY <1>3, <1>5, Types
    <2>5. Covered(alloc, request)
      BY <2>2, <2>3, <2>4 DEF Covered
    <2> QED
      BY <2>5, CoverageIs
  <1> QED
    BY <1>5, <1>6, <1>10, <1>11, <1>12, <1>13 DEF FinanceInv

\* Every command preserves the invariant.
LEMMA InvStep ==
  ASSUME FinanceInv, [FinanceNext]_financeVars
  PROVE  FinanceInv'
  <1>1. CASE FinanceNext
    <2>1. FinanceTypeOK /\ VerdictInv /\ CoverageIsAllocated /\ BooksInv /\ StatusTellsNet
          /\ RemediationBalanced
      BY DEF FinanceInv
    <2>2. VerdictInv'
      BY <2>1, VerdictStep
    <2>3. /\ CoverageIsAllocated' /\ alloc' \in [Invoices -> [Requests -> Allocation]]
          /\ \A r \in Requests : request'[r].covered \in Nat
      BY <1>1, <2>1, CoverStep
    <2>4. BooksInv' /\ records' \in Seq(Row) /\ corrections' \in Seq(Correction)
      BY <1>1, <2>1, BooksStep
    <2>5. StatusTellsNet' /\ \A r \in Requests : request'[r] \in PaymentRequest
      BY <1>1, <2>1, <2>3, StatusStep
    <2>6. RemediationBalanced'
      BY <1>1, <2>1, RemedyStep
    <2>7. exceptions' \in Seq(Exception)
      BY <1>1, <2>1, ExceptionsStep
    <2>8. request' \in [Requests -> PaymentRequest]
      <3>1. request' = [r \in Requests |-> request'[r]]
        BY <1>1, <2>1, RequestType
      <3> QED
        BY <2>5, <3>1
    <2>9. FinanceTypeOK'
      BY <2>2, <2>3, <2>4, <2>7, <2>8, TypesAre DEF VerdictInv, LedgerTypes
    <2> QED
      BY <2>2, <2>3, <2>4, <2>5, <2>6, <2>9 DEF FinanceInv
  <1>2. CASE UNCHANGED financeVars
    <2>1. UNCHANGED <<invoice, verdict, alloc, request, exceptions, records, corrections>>
      BY <1>2 DEF financeVars
    <2>2. VerdictInv'
      BY VerdictStep DEF FinanceInv
    <2>3. FinanceTypeOK'
      BY <2>1 DEF FinanceInv, FinanceTypeOK
    <2>4. CoverageIsAllocated'
      BY <2>1, CoverKept DEF FinanceInv
    <2>5. BooksInv'
      BY <2>1 DEF FinanceInv, BooksInv, LedgerInv, CorrectionsInv, ReversalsCancel
    <2>6. StatusTellsNet' /\ RemediationBalanced'
      BY <2>1 DEF FinanceInv, StatusTellsNet, RemediationBalanced
    <2> QED
      BY <2>2, <2>3, <2>4, <2>5, <2>6 DEF FinanceInv
  <1> QED
    BY <1>1, <1>2

\* The invariant of the finance tables: every command preserves it.
THEOREM InvHolds == FinanceSpec => []FinanceInv
  BY InitHolds, InvStep, PTL DEF FinanceSpec

\* What FundedWhenPaid says of one step.
Funded ==
  \A k \in DOMAIN records' \ DOMAIN records :
    records'[k].exception = 0 /\ records'[k].n > 0
    => ActiveCover(records'[k].request) = RequestOf[records'[k].request].total

\* A command books money as paid only on requests that are covered.
LEMMA FundedStep ==
  ASSUME FinanceInv, [FinanceNext]_financeVars
  PROVE  Funded
  <1>0. FinanceTypeOK /\ BooksInv /\ CoverageIsAllocated
    BY DEF FinanceInv
  <1>1. ASSUME NEW r \in Requests, request[r].covered >= RequestOf[r].total
        PROVE  ActiveCover(r) = RequestOf[r].total
    <2>1. request[r].covered = ActiveCover(r) /\ ActiveCover(r) =< RequestOf[r].total
      BY <1>0 DEF CoverageIsAllocated
    <2>2. request[r].covered \in Nat /\ RequestOf[r].total \in Nat
      BY <1>0, Types
    <2> QED
      BY <1>1, <2>1, <2>2
  <1>2. records \in Seq(Row) /\ Len(records) \in Nat /\ DOMAIN records = 1 .. Len(records)
        /\ \A e \in DOMAIN exceptions : e # 0
    BY <1>0, RecordsType
  <1>3. ASSUME NEW p \in Row, records' = Append(records, p),
               p.exception # 0 \/ request[p.request].covered >= RequestOf[p.request].total
        PROVE  Funded
    <2>1. /\ DOMAIN records' = 1 .. Len(records) + 1 /\ records'[Len(records) + 1] = p
      BY <1>2, <1>3, AppendedRows
    <2>2. \A k \in DOMAIN records' \ DOMAIN records : records'[k] = p
      BY <1>2, <2>1
    <2>3. p.request \in Requests
      BY DEF Row
    <2> QED
      BY <1>1, <1>3, <2>2, <2>3 DEF Funded
  <1>4. ASSUME NEW r \in Requests, NEW u \in Payers, NEW n \in 1 .. RequestOf[r].total, RecordPayment(r, n, u)
        PROVE  Funded
    <2>1. Payment(r, n) \in Row /\ Payment(r, n).request = r
      BY Types, <1>0 DEF Row, Payment
    <2>2. records' = Append(records, Payment(r, n)) /\ request[r].covered >= RequestOf[r].total
      BY <1>4 DEF RecordPayment, Payable
    <2> QED
      BY <1>3, <2>1, <2>2
  <1>5. ASSUME NEW e \in DOMAIN exceptions, NEW r \in Requests, NEW u \in Payers,
               NEW n \in 1 .. exceptions[e].affected, RecordRefund(e, r, n, u)
        PROVE  Funded
    <2>1. Refund(r, n, e) \in Row /\ Refund(r, n, e).exception = e
      <3>1. e \in Nat /\ exceptions[e].affected \in Nat
        BY <1>0, Types DEF Exception, Amounts
      <3> QED
        BY <3>1 DEF Row, Refund
    <2>2. records' = Append(records, Refund(r, n, e))
      BY <1>5 DEF RecordRefund
    <2> QED
      BY <1>2, <1>3, <2>1, <2>2
  <1>6. ASSUME NEW c \in DOMAIN corrections, NEW u \in Payers, ApplyCorrection(c, u)
        PROVE  Funded
    <2> DEFINE k  == corrections[c].record
               e  == records[k].exception
               to == corrections[c].request
    <2>1. /\ to \in Requests /\ CanMoveTo(k, to)
          /\ records[k].type = "payment" <=> e = 0
      BY <1>0, <1>6, CorrectionIs
    <2>2. \A j \in DOMAIN records' : j \notin DOMAIN records /\ records'[j].n > 0 =>
            records'[j].request = to /\ records'[j].exception = e
      BY <1>0, <1>6, ApplyIs
    <2>3. e = 0 => request[to].covered >= RequestOf[to].total
      BY <2>1 DEF CanMoveTo
    <2> HIDE DEF k, e, to
    <2> QED
      BY <1>1, <2>1, <2>2, <2>3 DEF Funded
  <1>7. CASE UNCHANGED records
    BY <1>7 DEF Funded
  <1>8. \/ UNCHANGED records
        \/ \E r \in Requests, u \in Payers : \E n \in 1 .. RequestOf[r].total : RecordPayment(r, n, u)
        \/ \E e \in DOMAIN exceptions, r \in Requests, u \in Payers :
             \E n \in 1 .. exceptions[e].affected : RecordRefund(e, r, n, u)
        \/ \E c \in DOMAIN corrections, u \in Payers : ApplyCorrection(c, u)
    BY DEF FinanceNext, CreateInvoice, RecordVerdict, VerifyInvoice, InvalidateInvoice,
           LinkReplacement, WarnOverdue, ReleaseRisk, RequestCorrection, RejectCorrection, financeVars
  <1> QED
    BY <1>4, <1>5, <1>6, <1>7, <1>8

\* The tables stay well formed: covered amounts and refunded amounts, in
\* particular, are never negative.
THEOREM TypesHold == FinanceSpec => []FinanceTypeOK
  BY InvHolds, PTL DEF FinanceInv

\* An invoice covers requests, or ever did, only after two different people,
\* one of each department, approved it (verify_invoice).
THEOREM TwoPeopleVerify == FinanceSpec => []TwoVerifiers
  BY InvHolds, PTL DEF FinanceInv, VerdictInv

\* The covered amount of every request is what its valid invoices are
\* allocated, never more than its total, and no invoice is allocated beyond its
\* amount: for any number of invoices and requests, in any order of commands.
THEOREM CoverageHolds == FinanceSpec => []CoverageIsAllocated
  BY InvHolds, PTL DEF FinanceInv

\* No request is ever overpaid, and paid and partially_paid say exactly what
\* the ledger adds up to, corrections included.
THEOREM StatusHolds == FinanceSpec => []StatusTellsNet
  BY InvHolds, PTL DEF FinanceInv

\* The replaced and refunded amounts of every exception are what its links and
\* its ledger rows add up to, and it is closed exactly while they make it up.
THEOREM RemediationHolds == FinanceSpec => []RemediationBalanced
  BY InvHolds, PTL DEF FinanceInv

\* Money is booked as paid only on a request that valid invoices cover in full
\* at that moment: also when a correction moves it there.
THEOREM PaymentsAreFunded == FinanceSpec => FundedWhenPaid
  <1>1. FinanceInv /\ [FinanceNext]_financeVars => [Funded]_financeVars
    BY FundedStep
  <1>2. FinanceSpec => [][Funded]_financeVars
    BY <1>1, InvHolds, PTL DEF FinanceSpec
  <1> QED
    BY <1>2 DEF FundedWhenPaid, Funded

-----------------------------------------------------------------------------
(* The pages *)

\* An invoice nobody received has no verdict, and one that is still received
\* lacks one and was rejected by nobody.
DecidedInv ==
  \A i \in Invoices :
    /\ invoice[i] = "none" => \A v \in Verifiers : verdict[i][v] = NoVerdict
    /\ invoice[i] = "received" => /\ \E v \in Verifiers : verdict[i][v] = NoVerdict
                                  /\ \A v \in Verifiers : verdict[i][v].decision # "rejected"

\* Exceptions are of invoices declared invalid, and those stay so.
InvalidInv == \A e \in DOMAIN exceptions : invoice[exceptions[e].invoice] = "invalidated"

\* A request that waits for invoices is not covered.
WaitingInv ==
  \A r \in Requests : request[r].status = "waiting_invoice" => request[r].covered < RequestOf[r].total

\* What the pages need beside the invariant of the tables.
PagesInv == DecidedInv /\ InvalidInv /\ WaitingInv

\* Verdicts are given on invoices that are received.
LEMMA DecidedStep ==
  ASSUME VerdictInv, DecidedInv, FinanceNext
  PROVE  DecidedInv'
  <1> DEFINE Goal(j) ==
        /\ invoice'[j] = "none" => \A v \in Verifiers : verdict'[j][v] = NoVerdict
        /\ invoice'[j] = "received" => /\ \E v \in Verifiers : verdict'[j][v] = NoVerdict
                                       /\ \A v \in Verifiers : verdict'[j][v].decision # "rejected"
  <1>0. invoice \in [Invoices -> {"none", "received", "verified", "rejected", "invalidated"}]
    BY DEF VerdictInv, InvoicesOK
  <1>1. ASSUME NEW j \in Invoices, invoice'[j] = invoice[j], verdict'[j] = verdict[j]
        PROVE  Goal(j)
    BY <1>1 DEF DecidedInv
  <1>2. ASSUME NEW j \in Invoices, invoice'[j] \in {"verified", "rejected", "invalidated"}
        PROVE  Goal(j)
    BY <1>2
  <1>3. ASSUME NEW i \in Invoices, NEW u \in Payers, CreateInvoice(i, u), NEW j \in Invoices
        PROVE  Goal(j)
    <2>1. /\ invoice[i] = "none" /\ verdict' = verdict
          /\ invoice'[i] = "received" /\ (j # i => invoice'[j] = invoice[j])
      BY <1>0, <1>3 DEF CreateInvoice
    <2>2. CASE j = i
      BY <2>1, <2>2 DEF DecidedInv, NoVerdict, Verifiers
    <2>3. CASE j # i
      <3> HIDE DEF Goal
      <3> QED BY <1>1, <2>1, <2>3
    <2> QED BY <2>2, <2>3
  <1>4. ASSUME NEW i \in Invoices, NEW role \in Verifiers, NEW u \in Payers,
               NEW decision \in {"approved", "rejected"}, RecordVerdict(i, role, u, decision),
               NEW j \in Invoices
        PROVE  Goal(j)
    <2>1. /\ GiveVerdict(i, role, u, decision) /\ ~Verified(verdict', i)
          /\ invoice' = [invoice EXCEPT ![i] = IF decision = "rejected" THEN "rejected" ELSE @]
      BY <1>4 DEF RecordVerdict
    <2>2. /\ invoice[i] = "received"
          /\ verdict' \in [Invoices -> [Verifiers ->
                [by: Payers, decision: {"approved", "rejected"}] \cup {NoVerdict}]]
          /\ \A h \in Invoices : h # i => verdict'[h] = verdict[h]
      BY <2>1, GivenVerdict
    <2>3. /\ invoice'[i] = IF decision = "rejected" THEN "rejected" ELSE "received"
          /\ j # i => invoice'[j] = invoice[j]
      BY <1>0, <2>1, <2>2
    <2>4. CASE j # i
      <3> HIDE DEF Goal
      <3> QED BY <1>1, <2>2, <2>3, <2>4
    <2>5. CASE j = i /\ decision = "rejected"
      <3> HIDE DEF Goal
      <3> QED BY <1>2, <2>3, <2>5
    <2>6. CASE j = i /\ decision = "approved"
      <3>1. verdict' = [verdict EXCEPT ![i][role] = [by |-> u, decision |-> "approved"]]
        BY <2>1, <2>6 DEF GiveVerdict
      <3>2. \A v \in Verifiers : verdict'[i][v] = [by |-> u, decision |-> "approved"]
                                 \/ verdict'[i][v] = verdict[i][v]
        BY <3>1 DEF VerdictInv, InvoicesOK
      <3>3. \A v \in Verifiers : verdict[i][v].decision # "rejected"
        BY <2>2 DEF DecidedInv
      <3>4. \A v \in Verifiers : verdict'[i][v].decision # "rejected"
        BY <3>2, <3>3
      <3>5. PICK v \in Verifiers : verdict'[i][v].decision # "approved"
        BY <2>1 DEF Verified
      <3>6. verdict'[i][v] \in [by: Payers, decision: {"approved", "rejected"}] \cup {NoVerdict}
        BY <2>2
      <3>7. verdict'[i][v] = NoVerdict
        BY <3>4, <3>5, <3>6
      <3> QED BY <2>3, <2>6, <3>4, <3>7
    <2> QED BY <2>4, <2>5, <2>6
  <1>5. ASSUME NEW i \in Invoices, NEW role \in Verifiers, NEW u \in Payers,
               NEW d \in [Requests -> 0 .. InvoiceOf[i].amount], VerifyInvoice(i, role, u, d),
               NEW j \in Invoices
        PROVE  Goal(j)
    <2>1. /\ GiveVerdict(i, role, u, "approved")
          /\ invoice' = [invoice EXCEPT ![i] = "verified"]
      BY <1>5 DEF VerifyInvoice
    <2>2. \A h \in Invoices : h # i => verdict'[h] = verdict[h]
      BY <2>1, GivenVerdict
    <2>3. invoice'[i] = "verified" /\ (j # i => invoice'[j] = invoice[j])
      BY <1>0, <2>1
    <2> HIDE DEF Goal
    <2> QED BY <1>1, <1>2, <2>2, <2>3
  <1>6. ASSUME NEW i \in Invoices, NEW u \in Payers, InvalidateInvoice(i, u), NEW j \in Invoices
        PROVE  Goal(j)
    <2>1. invoice'[i] = "invalidated" /\ (j # i => invoice'[j] = invoice[j]) /\ verdict' = verdict
      BY <1>0, <1>6 DEF InvalidateInvoice
    <2> HIDE DEF Goal
    <2> QED BY <1>1, <1>2, <2>1
  <1>7. ASSUME UNCHANGED <<invoice, verdict>>, NEW j \in Invoices PROVE Goal(j)
    <2> HIDE DEF Goal
    <2> QED BY <1>1, <1>7
  <1>8. \/ UNCHANGED <<invoice, verdict>>
        \/ \E i \in Invoices, u \in Payers : CreateInvoice(i, u)
        \/ \E i \in Invoices, role \in Verifiers, u \in Payers, decision \in {"approved", "rejected"} :
             RecordVerdict(i, role, u, decision)
        \/ \E i \in Invoices, role \in Verifiers, u \in Payers :
             \E d \in [Requests -> 0 .. InvoiceOf[i].amount] : VerifyInvoice(i, role, u, d)
        \/ \E i \in Invoices, u \in Payers : InvalidateInvoice(i, u)
    BY ZenonT(60) DEF FinanceNext, LinkReplacement, WarnOverdue, ReleaseRisk, RecordPayment, RecordRefund,
       RequestCorrection, RejectCorrection, ApplyCorrection
  <1>9. ASSUME NEW j \in Invoices PROVE Goal(j)
    <2> HIDE DEF Goal
    <2> QED BY <1>3, <1>4, <1>5, <1>6, <1>7, <1>8
  <1> QED BY <1>9 DEF DecidedInv

\* An invoice declared invalid stays so.
LEMMA InvalidStays ==
  ASSUME VerdictInv, FinanceNext, NEW j \in Invoices, invoice[j] = "invalidated"
  PROVE  invoice'[j] = "invalidated"
  <1>0. invoice \in [Invoices -> {"none", "received", "verified", "rejected", "invalidated"}]
    BY DEF VerdictInv, InvoicesOK
  <1>1. ASSUME NEW i \in Invoices, NEW s, invoice' = [invoice EXCEPT ![i] = s],
               invoice[i] # "invalidated" \/ s = "invalidated"
        PROVE  invoice'[j] = "invalidated"
    BY <1>0, <1>1
  <1>2. \/ UNCHANGED invoice
        \/ \E i \in Invoices, u \in Payers : CreateInvoice(i, u)
        \/ \E i \in Invoices, role \in Verifiers, u \in Payers, decision \in {"approved", "rejected"} :
             RecordVerdict(i, role, u, decision)
        \/ \E i \in Invoices, role \in Verifiers, u \in Payers :
             \E d \in [Requests -> 0 .. InvoiceOf[i].amount] : VerifyInvoice(i, role, u, d)
        \/ \E i \in Invoices, u \in Payers : InvalidateInvoice(i, u)
    BY ZenonT(60) DEF FinanceNext, LinkReplacement, WarnOverdue, ReleaseRisk, RecordPayment, RecordRefund,
       RequestCorrection, RejectCorrection, ApplyCorrection
  <1>3. ASSUME NEW i \in Invoices, NEW u \in Payers, CreateInvoice(i, u)
        PROVE  invoice'[j] = "invalidated"
    BY <1>1, <1>3 DEF CreateInvoice
  <1>4. ASSUME NEW i \in Invoices, NEW role \in Verifiers, NEW u \in Payers,
               NEW decision \in {"approved", "rejected"}, RecordVerdict(i, role, u, decision)
        PROVE  invoice'[j] = "invalidated"
    <2>1. /\ invoice[i] = "received"
          /\ invoice' = [invoice EXCEPT ![i] = IF decision = "rejected" THEN "rejected" ELSE @]
      BY <1>4 DEF RecordVerdict, GiveVerdict
    <2> QED BY <1>0, <2>1
  <1>5. ASSUME NEW i \in Invoices, NEW role \in Verifiers, NEW u \in Payers,
               NEW d \in [Requests -> 0 .. InvoiceOf[i].amount], VerifyInvoice(i, role, u, d)
        PROVE  invoice'[j] = "invalidated"
    BY <1>1, <1>5 DEF VerifyInvoice, GiveVerdict
  <1>6. ASSUME NEW i \in Invoices, NEW u \in Payers, InvalidateInvoice(i, u)
        PROVE  invoice'[j] = "invalidated"
    BY <1>1, <1>6 DEF InvalidateInvoice
  <1> QED BY <1>2, <1>3, <1>4, <1>5, <1>6

\* An exception is opened of an invoice that becomes invalid, and keeps it.
LEMMA InvalidStep ==
  ASSUME FinanceTypeOK, VerdictInv, BooksInv, InvalidInv, FinanceNext
  PROVE  InvalidInv'
  <1> DEFINE Goal(f) ==
        \/ f \in DOMAIN exceptions /\ exceptions'[f].invoice = exceptions[f].invoice
        \/ /\ exceptions'[f].invoice \in Invoices
           /\ invoice'[exceptions'[f].invoice] = "invalidated"
  <1>0. /\ exceptions \in Seq(Exception)
        /\ \A e \in DOMAIN exceptions : exceptions[e] \in Exception
    BY Types
  <1>1. ASSUME NEW e \in DOMAIN exceptions, NEW y \in Exception, y.invoice = exceptions[e].invoice,
               exceptions' = [exceptions EXCEPT ![e] = y], NEW f \in DOMAIN exceptions'
        PROVE  Goal(f)
    BY <1>0, <1>1, Replaced
  <1>2. ASSUME NEW i \in Invoices, NEW u \in Payers, InvalidateInvoice(i, u),
               NEW f \in DOMAIN exceptions'
        PROVE  Goal(f)
    <2> DEFINE x == [invoice |-> i, affected |-> InvoiceOf[i].amount, replaced |-> 0, refunded |-> 0,
                     status |-> "awaiting_remediation", links |-> [j \in Invoices |-> 0],
                     released |-> FALSE]
               n == Len(exceptions)
    <2>1. exceptions' = Append(exceptions, x) /\ invoice' = [invoice EXCEPT ![i] = "invalidated"]
      BY <1>2 DEF InvalidateInvoice
    <2>2. x.invoice = i
      OBVIOUS
    <2>3. invoice'[i] = "invalidated"
      BY <2>1 DEF VerdictInv, InvoicesOK
    <2> HIDE DEF x
    <2>4. /\ DOMAIN exceptions' = DOMAIN exceptions \cup {n + 1}
          /\ exceptions'[n + 1] = x /\ \A d \in DOMAIN exceptions : exceptions'[d] = exceptions[d]
      BY <1>0, <2>1
    <2> QED BY <2>2, <2>3, <2>4
  <1>3. ASSUME NEW e \in DOMAIN exceptions, NEW j \in Invoices, NEW u \in Payers,
               NEW n \in 1 .. exceptions[e].affected, LinkReplacement(e, j, n, u),
               NEW f \in DOMAIN exceptions'
        PROVE  Goal(f)
    <2> DEFINE y == Linked(e, j, n)
    <2> HIDE DEF Goal
    <2>1. /\ y \in Exception /\ n \in Nat
          /\ exceptions' = [exceptions EXCEPT ![e] = Closing(y)]
          /\ y.affected = exceptions[e].affected /\ y.refunded = exceptions[e].refunded
          /\ y.replaced = exceptions[e].replaced + n
          /\ y.status = exceptions[e].status
          /\ exceptions[e].links[j] = 0 /\ y.links = [exceptions[e].links EXCEPT ![j] = n]
          /\ exceptions[e].status # "resolved"
          /\ y.replaced + y.refunded =< y.affected
      BY <1>3, LinkIs
    <2>2. y.invoice = exceptions[e].invoice
      <3> DEFINE x == exceptions[e]
      <3>1. y = [x EXCEPT !.replaced = x.replaced + n, !.links = [x.links EXCEPT ![j] = n]]
        BY DEF Linked
      <3>2. x \in Exception
        BY <1>0
      <3> HIDE DEF x, y
      <3>3. y.invoice = x.invoice
        BY <3>1, <3>2 DEF Exception
      <3> QED BY <3>3 DEF x
    <2> HIDE DEF y
    <2>3. Closing(y) \in Exception /\ Closing(y).invoice = y.invoice
      BY <2>1, ClosingIs
    <2> QED BY <1>1, <2>1, <2>2, <2>3
  <1>4. ASSUME NEW e \in DOMAIN exceptions, WarnOverdue(e),
               NEW f \in DOMAIN exceptions'
        PROVE  Goal(f)
    <2> DEFINE y == [exceptions[e] EXCEPT !.status = "risk_warning"]
    <2>1. exceptions' = [exceptions EXCEPT ![e] = y]
      BY <1>4 DEF WarnOverdue
    <2>2. y \in Exception /\ y.invoice = exceptions[e].invoice
      BY <1>0 DEF Exception
    <2> HIDE DEF y, Goal
    <2> QED BY <1>1, <2>1, <2>2
  <1>5. ASSUME NEW e \in DOMAIN exceptions, NEW u \in Payers, ReleaseRisk(e, u),
               NEW f \in DOMAIN exceptions'
        PROVE  Goal(f)
    <2> DEFINE y == [exceptions[e] EXCEPT !.status = "awaiting_remediation", !.released = TRUE]
    <2>1. exceptions' = [exceptions EXCEPT ![e] = y]
      BY <1>0, <1>5 DEF ReleaseRisk
    <2>2. y \in Exception /\ y.invoice = exceptions[e].invoice
      BY <1>0 DEF Exception
    <2> HIDE DEF y, Goal
    <2> QED BY <1>1, <2>1, <2>2
  <1>6. ASSUME NEW e \in DOMAIN exceptions, NEW r \in Requests, NEW u \in Payers,
               NEW n \in 1 .. exceptions[e].affected, RecordRefund(e, r, n, u),
               NEW f \in DOMAIN exceptions'
        PROVE  Goal(f)
    <2> DEFINE y == [exceptions[e] EXCEPT !.refunded = @ + n]
    <2>1. y \in Exception
      BY <1>6, RefundIs
    <2>2. y.invoice = exceptions[e].invoice
      BY <1>0 DEF Exception
    <2>3. exceptions' = [exceptions EXCEPT ![e] = Closing(y)]
      BY <1>6 DEF RecordRefund
    <2> HIDE DEF y, Goal
    <2>4. Closing(y) \in Exception /\ Closing(y).invoice = y.invoice
      BY <2>1, ClosingIs
    <2> QED BY <1>1, <2>2, <2>3, <2>4
  <1>7. ASSUME NEW c \in DOMAIN corrections, NEW u \in Payers, ApplyCorrection(c, u),
               NEW f \in DOMAIN exceptions'
        PROVE  Goal(f)
    <2> DEFINE e == records[corrections[c].record].exception
    <2>1. /\ DOMAIN exceptions' = DOMAIN exceptions
          /\ e # 0 => /\ exceptions'[e] = Remedied(records', e) /\ Refunded(records', e) \in Nat
                      /\ exceptions[e] \in Exception
          /\ \A d \in DOMAIN exceptions : d # e => exceptions'[d] = exceptions[d]
      BY <1>7, ApplyIs
    <2>2. \A d \in DOMAIN exceptions : d # 0
      BY Types
    <2> HIDE DEF e
    <2>3. ASSUME e # 0 PROVE Remedied(records', e).invoice = exceptions[e].invoice
      <3> DEFINE n == Refunded(records', e)
                 y == [exceptions[e] EXCEPT !.refunded = n, !.status = "awaiting_remediation"]
      <3>1. exceptions[e] \in Exception /\ n \in Nat
        BY <2>1, <2>3
      <3>2. Remedied(records', e) = Closing(y)
        BY DEF Remedied
      <3> HIDE DEF n
      <3>3. y \in Exception /\ y.invoice = exceptions[e].invoice
        BY <3>1 DEF Exception
      <3> HIDE DEF y
      <3> QED BY <3>2, <3>3, ClosingIs
    <2>4. CASE f = e
      <3>1. e # 0 /\ e \in DOMAIN exceptions
        BY <2>1, <2>2, <2>4
      <3> QED BY <2>1, <2>3, <2>4, <3>1
    <2>5. CASE f # e
      BY <2>1, <2>5
    <2> QED BY <2>4, <2>5
  <1>8. ASSUME UNCHANGED exceptions, NEW f \in DOMAIN exceptions' PROVE Goal(f)
    BY <1>8
  <1>9. \/ UNCHANGED exceptions
        \/ \E i \in Invoices, u \in Payers : InvalidateInvoice(i, u)
        \/ \E e \in DOMAIN exceptions, j \in Invoices, u \in Payers :
             \E n \in 1 .. exceptions[e].affected : LinkReplacement(e, j, n, u)
        \/ \E e \in DOMAIN exceptions : WarnOverdue(e)
        \/ \E e \in DOMAIN exceptions, u \in Payers : ReleaseRisk(e, u)
        \/ \E e \in DOMAIN exceptions, r \in Requests, u \in Payers :
             \E n \in 1 .. exceptions[e].affected : RecordRefund(e, r, n, u)
        \/ \E c \in DOMAIN corrections, u \in Payers : ApplyCorrection(c, u)
    BY DEF FinanceNext, CreateInvoice, RecordVerdict, VerifyInvoice, RecordPayment,
           RequestCorrection, RejectCorrection
  <1>10. ASSUME NEW f \in DOMAIN exceptions' PROVE Goal(f)
    <2> HIDE DEF Goal
    <2> QED BY <1>2, <1>3, <1>4, <1>5, <1>6, <1>7, <1>8, <1>9
  <1>11. \A f \in DOMAIN exceptions : exceptions[f].invoice \in Invoices
    BY <1>0 DEF Exception
  <1> QED BY <1>10, <1>11, InvalidStays DEF InvalidInv

\* A request waits again only while it is not covered.
LEMMA WaitingStep ==
  ASSUME FinanceTypeOK, BooksInv, WaitingInv, FinanceNext
  PROVE  WaitingInv'
  <1> DEFINE Goal(r) == request'[r].status = "waiting_invoice"
                        => request'[r].covered < RequestOf[r].total
  <1>0. /\ request \in [Requests -> PaymentRequest]
        /\ \A r \in Requests : /\ request[r] \in PaymentRequest /\ request[r].covered \in Nat
                               /\ RequestOf[r].total \in Nat
    BY Types
  <1>1. ASSUME NEW r \in Requests, request'[r] = request[r] PROVE Goal(r)
    BY <1>1 DEF WaitingInv
  <1>2. ASSUME NEW i \in Invoices, NEW role \in Verifiers, NEW u \in Payers,
               NEW d \in [Requests -> 0 .. InvoiceOf[i].amount], VerifyInvoice(i, role, u, d),
               NEW r \in Requests
        PROVE  Goal(r)
    <2>1. CASE d[r] = 0
      <3>1. request'[r] = request[r]
        BY <1>2, <2>1 DEF VerifyInvoice
      <3> HIDE DEF Goal
      <3> QED BY <1>1, <3>1
    <2>2. CASE d[r] # 0
      <3> DEFINE n == request[r].covered + d[r]
      <3>1. request'[r] = [covered |-> n,
                           status |-> IF n >= RequestOf[r].total THEN "generated" ELSE "waiting_invoice"]
        BY <1>2, <2>2 DEF VerifyInvoice
      <3>2. d[r] \in Nat
        BY Types
      <3>3. n \in Nat /\ RequestOf[r].total \in Nat
        BY <1>0, <3>2
      <3> HIDE DEF n
      <3> QED BY <3>1, <3>3
    <2> QED BY <2>1, <2>2
  <1>3. ASSUME NEW i \in Invoices, NEW u \in Payers, InvalidateInvoice(i, u), NEW r \in Requests
        PROVE  Goal(r)
    <2>1. request'[r] = request[r] \/ request'[r] = Uncovered(i, r)
      BY <1>3 DEF InvalidateInvoice
    <2>2. CASE request'[r] = Uncovered(i, r)
      BY <2>2 DEF Uncovered
    <2> HIDE DEF Goal
    <2> QED BY <1>1, <2>1, <2>2
  <1>4. ASSUME NEW q \in Requests, NEW n \in 1 .. RequestOf[q].total, NEW u \in Payers,
               RecordPayment(q, n, u), NEW r \in Requests
        PROVE  Goal(r)
    <2>1. /\ r # q => request'[r] = request[r]
          /\ request'[q] = [request[q] EXCEPT !.status =
                   IF Net(records, q) + n = RequestOf[q].total THEN "paid" ELSE "partially_paid"]
      BY <1>0, <1>4 DEF RecordPayment
    <2>2. request'[q].status # "waiting_invoice"
      BY <1>0, <2>1 DEF PaymentRequest
    <2>3. CASE r = q
      BY <2>2, <2>3
    <2> HIDE DEF Goal
    <2> QED BY <1>1, <2>1, <2>3
  <1>5. ASSUME NEW c \in DOMAIN corrections, NEW u \in Payers, ApplyCorrection(c, u), NEW r \in Requests
        PROVE  Goal(r)
    <2> DEFINE k    == corrections[c].record
               from == records[k].request
               to   == corrections[c].request
    <2>1. request' = [p \in Requests |-> [request[p] EXCEPT !.status =
                        Reprojected(records', from, to, p)]]
      BY <1>5, CorrectionIs
    <2> HIDE DEF k, from, to
    <2>2. request'[r] = [request[r] EXCEPT !.status = Reprojected(records', from, to, r)]
      BY <2>1
    <2>3. CASE r \notin {from, to}
      <3>1. request'[r] = request[r]
        BY <1>0, <2>2, <2>3 DEF Reprojected, PaymentRequest
      <3> HIDE DEF Goal
      <3> QED BY <1>1, <3>1
    <2>4. CASE r \in {from, to}
      <3>1. Reprojected(records', from, to, r) # "waiting_invoice"
        BY <2>4 DEF Reprojected
      <3>2. request'[r].status = Reprojected(records', from, to, r)
        BY <1>0, <2>2 DEF PaymentRequest
      <3> QED BY <3>1, <3>2
    <2> QED BY <2>3, <2>4
  <1>6. ASSUME UNCHANGED request, NEW r \in Requests PROVE Goal(r)
    <2> HIDE DEF Goal
    <2> QED BY <1>1, <1>6
  <1>7. \/ UNCHANGED request
        \/ \E i \in Invoices, role \in Verifiers, u \in Payers :
             \E d \in [Requests -> 0 .. InvoiceOf[i].amount] : VerifyInvoice(i, role, u, d)
        \/ \E i \in Invoices, u \in Payers : InvalidateInvoice(i, u)
        \/ \E r \in Requests, u \in Payers : \E n \in 1 .. RequestOf[r].total : RecordPayment(r, n, u)
        \/ \E c \in DOMAIN corrections, u \in Payers : ApplyCorrection(c, u)
    BY DEF FinanceNext, CreateInvoice, RecordVerdict, LinkReplacement, WarnOverdue, ReleaseRisk,
           RecordRefund, RequestCorrection, RejectCorrection
  <1>8. ASSUME NEW r \in Requests PROVE Goal(r)
    <2> HIDE DEF Goal
    <2> QED BY <1>2, <1>3, <1>4, <1>5, <1>6, <1>7
  <1> QED BY <1>8 DEF WaitingInv

-----------------------------------------------------------------------------
\* The amount the workspace says is left of a request, and the requests it adds up.
Left(r) == IF Paid(r) < RequestOf[r].total THEN RequestOf[r].total - Paid(r) ELSE 0
Unsettled == {r \in Requests : request[r].status \notin {"paid", "cancelled"}}

\* While the page shows all of the ledger, its balance due is what is unpaid.
LEMMA DueIsUnpaid ==
  ASSUME FinanceTypeOK, LedgerInv, StatusTellsNet, Len(records) =< PaymentLimit
  PROVE  Due = SumFunction([r \in Requests |-> RequestOf[r].total - Net(records, r)])
  <1> DEFINE left   == [r \in Requests |-> Left(r)]
             unpaid == [r \in Requests |-> RequestOf[r].total - Net(records, r)]
  <1>1. /\ Len(records) \in Nat /\ DOMAIN records = 1 .. Len(records)
        /\ \A k \in DOMAIN records : records[k] \in Row
    BY RecordsType
  <1>2. ShownRecords = DOMAIN records
    BY <1>1, PaymentLimitAssumption DEF ShownRecords
  <1>3. \A k \in DOMAIN records : CountsAsPaid(k) <=> records[k].exception = 0
    BY <1>1 DEF CountsAsPaid, LedgerInv, Row
  <1>4. ASSUME NEW r \in Requests PROVE Paid(r) = Net(records, r)
    <2>1. {k \in ShownRecords : records[k].request = r /\ CountsAsPaid(k)} = OfRequest(records, r)
      BY <1>2, <1>3 DEF OfRequest
    <2>2. Paid(r) = SumOf(Booking(records), OfRequest(records, r))
      BY <2>1 DEF Paid, SumOf, Booking
    <2> QED BY <2>2, SumsAre
  <1>5. ASSUME NEW r \in Requests
        PROVE  /\ RequestOf[r].total \in Nat /\ request[r] \in PaymentRequest
               /\ Net(records, r) \in 0 .. RequestOf[r].total
               /\ request[r].status = "paid" => Net(records, r) = RequestOf[r].total
    BY Types DEF StatusTellsNet
  <1>6. ASSUME NEW r \in Requests PROVE Left(r) = RequestOf[r].total - Net(records, r)
                                         /\ Left(r) \in Int
    <2>1. Paid(r) = Net(records, r)
      BY <1>4
    <2>2. RequestOf[r].total \in Nat /\ Net(records, r) \in 0 .. RequestOf[r].total
      BY <1>5
    <2> QED BY <2>1, <2>2 DEF Left
  <1>7. left = unpaid /\ left \in [Requests -> Int] /\ DOMAIN unpaid = Requests
    BY <1>6
  <1>8. ASSUME NEW r \in Requests \ Unsettled PROVE unpaid[r] = 0
    <2>1. /\ r \in Requests /\ request[r].status \in {"paid", "cancelled"}
          /\ request[r] \in PaymentRequest
      BY <1>5 DEF Unsettled
    <2>2. request[r].status = "paid"
      BY <2>1 DEF PaymentRequest
    <2>3. Net(records, r) = RequestOf[r].total /\ RequestOf[r].total \in Nat
      BY <1>5, <2>1, <2>2
    <2> QED BY <2>1, <2>3
  <1>9. Due = SumOf(left, Unsettled)
    BY DEF Due, SumOf, Left, Unsettled
  <1> HIDE DEF left, unpaid
  <1>10. Unsettled \in SUBSET Requests /\ IsFiniteSet(Requests)
    BY RequestAssumption DEF Unsettled
  <1>11. SumOf(left, Requests) = SumOf(left, Unsettled)
    BY <1>7, <1>8, <1>10, SumElsewhereZero
  <1>12. SumFunction(unpaid) = SumOf(unpaid, Requests)
    BY <1>7, SumOn
  <1> QED BY <1>7, <1>9, <1>11, <1>12 DEF unpaid

\* Every row parses, so the page is never answered 503.
LEMMA PageParses ==
  ASSUME FinanceTypeOK, VerdictInv, DecidedInv, NEW u
  PROVE  FinanceReply(u) # 503
  <1>1. \A i \in Invoices : invoice[i] # "none" => InvoiceParses(i)
    BY DEF FinanceTypeOK, InvoiceParses
  <1>2. \A r \in Requests : RequestParses(r)
    BY Types DEF PaymentRequest, RequestParses
  <1>3. \A k \in ShownRecords : RecordParses(k)
    BY RecordsType DEF ShownRecords, RecordParses, Row
  <1>4. \A i \in Invoices, role \in Verifiers :
          verdict[i][role] # NoVerdict => VerdictParses(i, role)
    BY DEF FinanceTypeOK, VerdictParses
  <1>5. \A i \in Invoices, r \in Requests : alloc[i][r] # NoAlloc => AllocationParses(i, r)
    BY Types DEF Allocation, Amounts, AllocationParses
  <1>6. \A e \in DOMAIN exceptions :
          ExceptionParses(e) /\ \A j \in Invoices : LinkParses(e, j)
    <2> SUFFICES ASSUME NEW e \in DOMAIN exceptions
                 PROVE  ExceptionParses(e) /\ \A j \in Invoices : LinkParses(e, j)
      OBVIOUS
    <2>1. exceptions[e] \in Exception
      BY Types
    <2> QED BY <2>1 DEF Exception, Amounts, ExceptionParses, LinkParses
  <1> QED BY <1>1, <1>2, <1>3, <1>4, <1>5, <1>6 DEF FinanceReply

\* The page and what the workspace offers are true wherever the invariants hold.
LEMMA PagesAreTrue ==
  ASSUME FinanceInv, PagesInv
  PROVE  WorkspaceTrue
  <1>0. /\ FinanceTypeOK /\ VerdictInv /\ LedgerInv /\ StatusTellsNet /\ RemediationBalanced
        /\ DecidedInv /\ InvalidInv /\ WaitingInv
    BY DEF FinanceInv, BooksInv, PagesInv
  <1>1. \A u \in Payers : FinanceReply(u) # 503
    BY <1>0, PageParses
  <1>2. \A k \in ShownRecords : ~Senseless(k)
    BY <1>0, RecordsType DEF ShownRecords, Senseless, LedgerInv, Row
  <1>3. Len(records) =< PaymentLimit =>
          Due = SumFunction([r \in Requests |-> RequestOf[r].total - Net(records, r)])
    BY <1>0, DueIsUnpaid
  <1>4. ASSUME NEW r \in Requests, PayOffered(r) PROVE Payable(r)
    <2>1. /\ request[r] \in PaymentRequest /\ request[r].covered \in Nat
          /\ RequestOf[r].total \in Nat
      BY <1>0, Types
    <2>2. request[r].status # "waiting_invoice"
      BY <1>0, <1>4, <2>1 DEF PayOffered, WaitingInv
    <2> QED BY <1>4, <2>1, <2>2 DEF PayOffered, Payable, PaymentRequest
  <1>5. ASSUME NEW i \in Invoices, VerifyOffered(i, "rejected")
        PROVE  /\ \E role \in Verifiers : verdict[i][role] = NoVerdict
               /\ \A role \in Verifiers : verdict[i][role].decision # "rejected"
    BY <1>0, <1>5 DEF VerifyOffered, DecidedInv
  <1>6. ASSUME NEW i \in Invoices, InvalidateOffered(i), NEW e \in DOMAIN exceptions
        PROVE  exceptions[e].invoice # i
    BY <1>0, <1>6 DEF InvalidateOffered, InvalidInv
  <1>7. ASSUME NEW e \in DOMAIN exceptions, RemedyOffered(e) PROVE LeftToRemedy(e) > 0
    <2> DEFINE x == exceptions[e]
    <2>1. x.affected \in Nat /\ x.replaced \in Nat /\ x.refunded \in Nat
      BY <1>0, Types DEF Exception, Amounts
    <2>2. /\ x.replaced + x.refunded =< x.affected
          /\ x.status = "resolved" <=> x.replaced + x.refunded = x.affected
      BY <1>0 DEF RemediationBalanced, Settled
    <2> QED BY <1>7, <2>1, <2>2 DEF RemedyOffered, LeftToRemedy
  <1> QED BY <1>1, <1>2, <1>3, <1>4, <1>5, <1>6, <1>7 DEF WorkspaceTrue

\* What the pages need holds before the first command and after each.
LEMMA PagesInit ==
  ASSUME FinanceInit
  PROVE  PagesInv
  <1>1. DecidedInv
    BY DEF FinanceInit, DecidedInv
  <1>2. InvalidInv
    BY DEF FinanceInit, InvalidInv
  <1>3. WaitingInv
    BY RequestAssumption DEF FinanceInit, WaitingInv
  <1> QED BY <1>1, <1>2, <1>3 DEF PagesInv

LEMMA PagesStep ==
  ASSUME FinanceInv, PagesInv, [FinanceNext]_financeVars
  PROVE  PagesInv'
  <1>1. CASE FinanceNext
    BY <1>1, DecidedStep, InvalidStep, WaitingStep DEF FinanceInv, PagesInv
  <1>2. CASE UNCHANGED financeVars
    BY <1>2 DEF financeVars, PagesInv, DecidedInv, InvalidInv, WaitingInv
  <1> QED BY <1>1, <1>2

\* Everyone in finance gets the page in every state, and what the workspace
\* makes of it is true (GET /finance, finance-workspace.tsx).
THEOREM WorkspaceIsTrue == FinanceSpec => []WorkspaceTrue
  <1>1. FinanceSpec => []PagesInv
    BY InvHolds, PagesInit, PagesStep, PTL DEF FinanceSpec
  <1> QED
    BY <1>1, InvHolds, PagesAreTrue, PTL
=============================================================================
