----------------------------- MODULE LedgerProofs -----------------------------
(***************************************************************************)
(* That what a ledger write decides under the trip's lock is still so when *)
(* it commits, for any number of people, records and requests; with it,    *)
(* that a key makes one record, that no edit is lost, that nobody writes   *)
(* who lost the right to and that no record outlives what it belongs to;   *)
(* and, from what sums obey, that no payment and no receipt is too large   *)
(* and that balances, debts and a cost's status agree.                     *)
(***************************************************************************)
EXTENDS Ledger, SumTheorems

LEMMA Tables ==
  /\ TableOf("cost") = costs
  /\ TableOf("payment") = payments
  /\ TableOf("loan") = loans
  /\ TableOf("receipt") = receipts
BY DEF TableOf

\* A job to insert or to change, of any kind.
LEMMA JobsAre ==
  ASSUME NEW j \in Job
  PROVE  /\ j.kind \in Kinds /\ j.actor \in Users /\ j.seen \in Nat
         /\ j.kind = "cost" => j.row \in Cost /\ j.id \in CostIds \union {New}
         /\ j.kind = "payment" => j.row \in Payment /\ j.id \in PaymentIds \union {New}
         /\ j.kind = "loan" => j.row \in Loan /\ j.id \in LoanIds \union {New}
         /\ j.kind = "receipt" => j.row \in Receipt /\ j.id \in ReceiptIds \union {New}
BY DEF Job, JobOf, Kinds

LEMMA NobodyElse == Nobody \notin Procs
BY LedgerAssumption

\* A request whose decision is right keeps the invariant.
LEMMA Decides ==
  ASSUME Inv, NEW p \in Procs, Begin(p), NEW j \in Job, Decide(p, j),
         IF j.id = New
           THEN KeyFree(TableOf(j.kind), j.row.by, j.row.key)
           ELSE LET old == TableOf(j.kind)[j.id]
                IN /\ old # NoRow /\ old.version = j.seen
                   /\ old.by = j.row.by /\ old.key = j.row.key
  PROVE  Inv'
<1>1. TypeOK'
  BY DEF Inv, TypeOK, Decide, books
<1>2. \A q \in Procs : q # p => job'[q] = NoJob
  <2>1. \A q \in Procs : job[q] = NoJob
    BY NobodyElse DEF Inv, DecisionsHold, Begin
  <2>. QED BY <2>1 DEF Inv, TypeOK, Decide
<1>3. job'[p] = j /\ lock' = p
  BY DEF Inv, TypeOK, Decide
<1>4. \A kind : TableOf(kind)' = TableOf(kind)
  BY DEF Decide, books, TableOf
<1>5. DecisionsHold'
  BY <1>2, <1>3, <1>4 DEF DecisionsHold, Decide, KeyFree
<1>6. KeyMakesOneRecord'
  BY DEF Inv, KeyMakesOneRecord, Decide, books
<1>. QED BY <1>1, <1>5, <1>6 DEF Inv

\* A new row of the right type, decided on.
LEMMA Inserts ==
  ASSUME Inv, NEW p \in Procs, Begin(p), NEW kind \in Kinds, NEW row,
         Insert(p, kind, TableOf(kind), row),
         [actor |-> row.by, kind |-> kind, id |-> New, seen |-> 1, row |-> row] \in Job
  PROVE  Inv'
BY Decides DEF Insert

\* A changed row of the right type, decided on.
LEMMA Changes ==
  ASSUME Inv, NEW p \in Procs, Begin(p), NEW u \in Users, NEW kind \in Kinds, NEW i, NEW row,
         Change(p, u, kind, TableOf(kind), i, row),
         i # New, TableOf(kind)[i] # NoRow,
         row.by = TableOf(kind)[i].by, row.key = TableOf(kind)[i].key,
         [actor |-> u, kind |-> kind, id |-> i,
          seen |-> TableOf(kind)[i].version, row |-> row] \in Job
  PROVE  Inv'
BY Decides DEF Change

\* Live records are rows of their tables.
LEMMA LiveAre ==
  ASSUME TypeOK
  PROVE  /\ \A i \in Live(costs) : i \in CostIds /\ costs[i] \in Cost /\ i # New /\ costs[i] # NoRow
         /\ \A i \in Live(payments) : i \in PaymentIds /\ payments[i] \in Payment /\ i # New /\ payments[i] # NoRow
         /\ \A i \in Live(loans) : i \in LoanIds /\ loans[i] \in Loan /\ i # New /\ loans[i] # NoRow
         /\ \A i \in Live(receipts) : i \in ReceiptIds /\ receipts[i] \in Receipt /\ i # New /\ receipts[i] # NoRow
BY LedgerAssumption DEF TypeOK, Live

LEMMA SplitsAre == Splits \subseteq [Users -> Amounts]
BY DEF Splits

-----------------------------------------------------------------------------
(***************************************************************************)
(* Every way a request can begin.                                          *)
(***************************************************************************)
LEMMA CostStarts ==
  ASSUME Inv, NEW p \in Procs, Begin(p),
         CreateCost(p) \/ UpdateCost(p) \/ DeleteCost(p)
  PROVE  Inv'
<1>0. "cost" \in Kinds
  BY DEF Kinds
<1>1. CASE CreateCost(p)
  <2>1. PICK u \in Users, k \in Keys, payer \in Users \union {NoUser}, tied \in Ties,
             c \in Currencies, s \in Splits :
          Insert(p, "cost", costs,
                 [by |-> u, key |-> k, payer |-> payer, tied |-> tied, currency |-> c,
                  shares |-> s, version |-> 1, live |-> TRUE])
    BY <1>1 DEF CreateCost
  <2>. DEFINE row == [by |-> u, key |-> k, payer |-> payer, tied |-> tied, currency |-> c,
                      shares |-> s, version |-> 1, live |-> TRUE]
  <2>2. row \in Cost
    BY SplitsAre DEF Cost
  <2>3. [actor |-> row.by, kind |-> "cost", id |-> New, seen |-> 1, row |-> row] \in Job
    BY <2>2 DEF Job, JobOf
  <2>. HIDE DEF row
  <2>. QED BY <1>0, <2>1, <2>3, Inserts, Tables DEF row
<1>2. CASE UpdateCost(p)
  <2>1. PICK u \in Users, i \in Live(costs), tied \in Ties, c \in Currencies, s \in Splits :
          Change(p, u, "cost", costs, i,
                 [costs[i] EXCEPT !.tied = tied, !.currency = c, !.shares = s])
    BY <1>2 DEF UpdateCost, Changeable
  <2>. DEFINE row == [costs[i] EXCEPT !.tied = tied, !.currency = c, !.shares = s]
  <2>2. i \in CostIds /\ costs[i] \in Cost /\ i # New /\ costs[i] # NoRow
    BY LiveAre DEF Inv
  <2>3. row \in Cost /\ row.by = costs[i].by /\ row.key = costs[i].key
    BY <2>2, SplitsAre DEF Cost
  <2>4. [actor |-> u, kind |-> "cost", id |-> i, seen |-> costs[i].version, row |-> row] \in Job
    BY <2>2, <2>3 DEF Job, JobOf, Cost
  <2>. QED BY <1>0, <2>1, <2>2, <2>3, <2>4, Changes, Tables
<1>3. CASE DeleteCost(p)
  <2>1. PICK u \in Users, i \in Live(costs) : Remove(p, u, "cost", costs, i)
    BY <1>3 DEF DeleteCost, Changeable
  <2>. DEFINE row == [costs[i] EXCEPT !.live = FALSE]
  <2>2. i \in CostIds /\ costs[i] \in Cost /\ i # New /\ costs[i] # NoRow
    BY LiveAre DEF Inv
  <2>3. row \in Cost /\ row.by = costs[i].by /\ row.key = costs[i].key
    BY <2>2 DEF Cost
  <2>4. [actor |-> u, kind |-> "cost", id |-> i, seen |-> costs[i].version, row |-> row] \in Job
    BY <2>2, <2>3 DEF Job, JobOf, Cost
  <2>. QED BY <1>0, <2>1, <2>2, <2>3, <2>4, Changes, Tables DEF Remove
<1>. QED BY <1>1, <1>2, <1>3

LEMMA PaymentStarts ==
  ASSUME Inv, NEW p \in Procs, Begin(p),
         CreatePayment(p) \/ UpdatePayment(p) \/ DeletePayment(p)
  PROVE  Inv'
<1>0. "payment" \in Kinds
  BY DEF Kinds
<1>1. CASE CreatePayment(p)
  <2>1. PICK u \in Users, k \in Keys, c \in Live(costs), payer \in Users, s \in Splits :
          Insert(p, "payment", payments,
                 [by |-> u, key |-> k, cost |-> c, payer |-> payer, currency |-> costs[c].currency,
                  covers |-> s, version |-> 1, live |-> TRUE])
    BY <1>1 DEF CreatePayment, Participants
  <2>. DEFINE row == [by |-> u, key |-> k, cost |-> c, payer |-> payer, currency |-> costs[c].currency,
                  covers |-> s, version |-> 1, live |-> TRUE]
  <2>2. row \in Payment
    BY SplitsAre, LiveAre DEF Payment, Cost, Inv
  <2>3. [actor |-> row.by, kind |-> "payment", id |-> New, seen |-> 1, row |-> row] \in Job
    BY <2>2 DEF Job, JobOf
  <2>. HIDE DEF row
  <2>. QED BY <1>0, <2>1, <2>3, Inserts, Tables DEF row
<1>2. CASE UpdatePayment(p)
  <2>1. PICK u \in Users, i \in Live(payments), s \in Splits :
          Change(p, u, "payment", payments, i,
                 [payments[i] EXCEPT !.covers = s])
    BY <1>2 DEF UpdatePayment, Changeable, Participants
  <2>. DEFINE row == [payments[i] EXCEPT !.covers = s]
  <2>2. i \in PaymentIds /\ payments[i] \in Payment /\ i # New /\ payments[i] # NoRow
    BY LiveAre DEF Inv
  <2>3. row \in Payment /\ row.by = payments[i].by /\ row.key = payments[i].key
    BY <2>2, SplitsAre, LiveAre DEF Payment
  <2>4. [actor |-> u, kind |-> "payment", id |-> i, seen |-> payments[i].version, row |-> row] \in Job
    BY <2>2, <2>3 DEF Job, JobOf, Payment
  <2>. QED BY <1>0, <2>1, <2>2, <2>3, <2>4, Changes, Tables
<1>3. CASE DeletePayment(p)
  <2>1. PICK u \in Users, i \in Live(payments) : Remove(p, u, "payment", payments, i)
    BY <1>3 DEF DeletePayment, Changeable
  <2>. DEFINE row == [payments[i] EXCEPT !.live = FALSE]
  <2>2. i \in PaymentIds /\ payments[i] \in Payment /\ i # New /\ payments[i] # NoRow
    BY LiveAre DEF Inv
  <2>3. row \in Payment /\ row.by = payments[i].by /\ row.key = payments[i].key
    BY <2>2 DEF Payment
  <2>4. [actor |-> u, kind |-> "payment", id |-> i, seen |-> payments[i].version, row |-> row] \in Job
    BY <2>2, <2>3 DEF Job, JobOf, Payment
  <2>. QED BY <1>0, <2>1, <2>2, <2>3, <2>4, Changes, Tables DEF Remove
<1>. QED BY <1>1, <1>2, <1>3

LEMMA LoanStarts ==
  ASSUME Inv, NEW p \in Procs, Begin(p),
         CreateLoan(p) \/ UpdateLoan(p) \/ DeleteLoan(p)
  PROVE  Inv'
<1>0. "loan" \in Kinds
  BY DEF Kinds
<1>1. CASE CreateLoan(p)
  <2>1. PICK u \in Users, k \in Keys, from \in Users, to \in Users,
             c \in Currencies, a \in Amounts \ {0} :
          Insert(p, "loan", loans,
                 [by |-> u, key |-> k, from |-> from, to |-> to, currency |-> c, amount |-> a,
                  version |-> 1, live |-> TRUE])
    BY <1>1 DEF CreateLoan, Participants
  <2>. DEFINE row == [by |-> u, key |-> k, from |-> from, to |-> to, currency |-> c, amount |-> a,
                  version |-> 1, live |-> TRUE]
  <2>2. row \in Loan
    BY DEF Loan
  <2>3. [actor |-> row.by, kind |-> "loan", id |-> New, seen |-> 1, row |-> row] \in Job
    BY <2>2 DEF Job, JobOf
  <2>. HIDE DEF row
  <2>. QED BY <1>0, <2>1, <2>3, Inserts, Tables DEF row
<1>2. CASE UpdateLoan(p)
  <2>1. PICK u \in Users, i \in Changeable("loan", loans), from, to \in Users,
             c \in Currencies, a \in Amounts \ {0} :
          LET old == loans[i]
              new == [old EXCEPT !.from = from, !.to = to, !.currency = c, !.amount = a]
          IN /\ from # to
             /\ MayWrite(u, old)
             /\ Editor(u) \/ from = u
             /\ {from, to} \subseteq Participants \/ <<from, to>> = <<old.from, old.to>>
             /\ ReceiptsOf(i) # {} => <<from, to, c>> = <<old.from, old.to, old.currency>>
             /\ Change(p, u, "loan", loans, i, new)
    BY <1>2 DEF UpdateLoan
  <2>. DEFINE row == [loans[i] EXCEPT !.from = from, !.to = to, !.currency = c, !.amount = a]
  <2>2. i \in LoanIds /\ loans[i] \in Loan /\ i # New /\ loans[i] # NoRow
    BY LiveAre DEF Inv, Changeable
  <2>3. row \in Loan /\ row.by = loans[i].by /\ row.key = loans[i].key
    BY <2>2 DEF Loan
  <2>4. [actor |-> u, kind |-> "loan", id |-> i, seen |-> loans[i].version, row |-> row] \in Job
    BY <2>2, <2>3 DEF Job, JobOf, Loan
  <2>. QED BY <1>0, <2>1, <2>2, <2>3, <2>4, Changes, Tables
<1>3. CASE DeleteLoan(p)
  <2>1. PICK u \in Users, i \in Live(loans) : Remove(p, u, "loan", loans, i)
    BY <1>3 DEF DeleteLoan, Changeable
  <2>. DEFINE row == [loans[i] EXCEPT !.live = FALSE]
  <2>2. i \in LoanIds /\ loans[i] \in Loan /\ i # New /\ loans[i] # NoRow
    BY LiveAre DEF Inv
  <2>3. row \in Loan /\ row.by = loans[i].by /\ row.key = loans[i].key
    BY <2>2 DEF Loan
  <2>4. [actor |-> u, kind |-> "loan", id |-> i, seen |-> loans[i].version, row |-> row] \in Job
    BY <2>2, <2>3 DEF Job, JobOf, Loan
  <2>. QED BY <1>0, <2>1, <2>2, <2>3, <2>4, Changes, Tables DEF Remove
<1>. QED BY <1>1, <1>2, <1>3

LEMMA KnownAre == Participants \union Historical \subseteq Users
BY DEF Participants, Historical

LEMMA ReceiptStarts ==
  ASSUME Inv, NEW p \in Procs, Begin(p),
         CreateReceipt(p) \/ UpdateReceipt(p) \/ DeleteReceipt(p)
  PROVE  Inv'
<1>0. "receipt" \in Kinds
  BY DEF Kinds
<1>1. CASE CreateReceipt(p)
  <2>1. PICK u \in Users, k \in Keys, source \in Sources \union {NoSource},
             from, to \in Participants \union Historical,
             c \in Currencies, a \in Amounts \ {0} :
          LET new == [by |-> u, key |-> k, source |-> source, from |-> from, to |-> to,
                      currency |-> c, amount |-> a, version |-> 1, live |-> TRUE]
          IN /\ from # to
             /\ IF Linked(new) THEN to = u ELSE Editor(u)
             /\ Settles(new, 0)
             /\ Insert(p, "receipt", receipts, new)
    BY <1>1 DEF CreateReceipt
  <2>. DEFINE row == [by |-> u, key |-> k, source |-> source, from |-> from, to |-> to,
                  currency |-> c, amount |-> a, version |-> 1, live |-> TRUE]
  <2>2. row \in Receipt
    BY KnownAre DEF Receipt
  <2>3. [actor |-> row.by, kind |-> "receipt", id |-> New, seen |-> 1, row |-> row] \in Job
    BY <2>2 DEF Job, JobOf
  <2>. HIDE DEF row
  <2>. QED BY <1>0, <2>1, <2>3, Inserts, Tables DEF row
<1>2. CASE UpdateReceipt(p)
  <2>1. PICK u \in Users, i \in Changeable("receipt", receipts), source \in Sources \union {NoSource},
             from, to \in Participants \union Historical,
             c \in Currencies, a \in Amounts \ {0} :
          LET old == receipts[i]
              new == [old EXCEPT !.source = source, !.from = from, !.to = to,
                                 !.currency = c, !.amount = a]
              received == \E n \in DOMAIN history[i] : history[i][n].action = "received"
          IN /\ from # to
             /\ MayReceive(u, old)
             /\ ~Linked(old) /\ Linked(new) /\ u # old.to => ~received
             /\ Linked(old) => DebtOf(new) = DebtOf(old)
             /\ Linked(new) => Editor(u) \/ to = u
             /\ Settles(new, IF DebtOf(new) = DebtOf(old) THEN old.amount ELSE 0)
             /\ Change(p, u, "receipt", receipts, i, new)
    BY <1>2 DEF UpdateReceipt
  <2>. DEFINE row == [receipts[i] EXCEPT !.source = source, !.from = from, !.to = to,
                                     !.currency = c, !.amount = a]
  <2>2. i \in ReceiptIds /\ receipts[i] \in Receipt /\ i # New /\ receipts[i] # NoRow
    BY LiveAre DEF Inv, Changeable
  <2>3. row \in Receipt /\ row.by = receipts[i].by /\ row.key = receipts[i].key
    BY <2>2, KnownAre DEF Receipt
  <2>4. [actor |-> u, kind |-> "receipt", id |-> i, seen |-> receipts[i].version, row |-> row] \in Job
    BY <2>2, <2>3 DEF Job, JobOf, Receipt
  <2>. QED BY <1>0, <2>1, <2>2, <2>3, <2>4, Changes, Tables
<1>3. CASE DeleteReceipt(p)
  <2>1. PICK u \in Users, i \in Live(receipts) : Remove(p, u, "receipt", receipts, i)
    BY <1>3 DEF DeleteReceipt, Changeable
  <2>. DEFINE row == [receipts[i] EXCEPT !.live = FALSE]
  <2>2. i \in ReceiptIds /\ receipts[i] \in Receipt /\ i # New /\ receipts[i] # NoRow
    BY LiveAre DEF Inv
  <2>3. row \in Receipt /\ row.by = receipts[i].by /\ row.key = receipts[i].key
    BY <2>2 DEF Receipt
  <2>4. [actor |-> u, kind |-> "receipt", id |-> i, seen |-> receipts[i].version, row |-> row] \in Job
    BY <2>2, <2>3 DEF Job, JobOf, Receipt
  <2>. QED BY <1>0, <2>1, <2>2, <2>3, <2>4, Changes, Tables DEF Remove
<1>. QED BY <1>1, <1>2, <1>3

-----------------------------------------------------------------------------
(***************************************************************************)
(* The end of a transaction.                                               *)
(***************************************************************************)

\* A request that ends leaves nothing decided and nothing locked.
LEMMA Ending ==
  ASSUME Inv, NEW p \in Procs, job[p] # NoJob, Release(p)
  PROVE  /\ job' \in [Procs -> Job \union {NoJob}] /\ lock' \in Procs \union {Nobody}
         /\ standing' \in [Users -> Roles]
         /\ \A q \in Procs : job'[q] = NoJob
         /\ DecisionsHold'
<1>1. \A q \in Procs : q # p => job[q] = NoJob
  BY DEF Inv, DecisionsHold
<1>2. job' \in [Procs -> Job \union {NoJob}] /\ \A q \in Procs : job'[q] = NoJob
  BY <1>1 DEF Release, Inv, TypeOK
<1>3. lock' \in Procs \union {Nobody} /\ standing' \in [Users -> Roles]
  BY DEF Release, Inv, TypeOK
<1>. QED BY <1>2, <1>3 DEF DecisionsHold

\* What a writer stores: a row of the job's type, under the job's key.
LEMMA LoanStored ==
  ASSUME Inv, NEW p \in Procs, WriteLoan(p)
  PROVE  Inv'
<1>. DEFINE j == job[p]
<1>1. j \in Job /\ j.row \in Loan /\ j.id \in LoanIds \union {New} /\ j.kind = "loan" /\ j # NoJob
  BY JobsAre DEF WriteLoan, Has, Inv, TypeOK
<1>2. PICK i \in Targets(j, loans) : loans' = Stored(j, loans, i)
  BY DEF WriteLoan
<1>3. i \in LoanIds
  BY <1>1, <1>2 DEF Targets, Unused, Inv, TypeOK
<1>. DEFINE row == IF loans[i] = NoRow THEN j.row ELSE [j.row EXCEPT !.version = loans[i].version + 1]
<1>4. row \in Loan /\ row.by = j.row.by /\ row.key = j.row.key
  <2>1. loans[i] = NoRow \/ loans[i] \in Loan
    BY <1>3 DEF Inv, TypeOK
  <2>. QED BY <1>1, <2>1 DEF Loan
<1>5. loans' = [loans EXCEPT ![i] = row]
  BY <1>2 DEF Stored
<1>6. TypeOK' /\ DecisionsHold' /\ \A q \in Procs : job'[q] = NoJob
  <2>. HIDE DEF row
  <2>1. loans' \in [LoanIds -> Loan \union {NoRow}]
    BY <1>3, <1>4, <1>5 DEF Inv, TypeOK
  <2>2. Release(p)
    BY DEF WriteLoan
  <2>. QED BY <1>1, <2>1, <2>2, Ending DEF WriteLoan, Inv, TypeOK
<1>7. \/ KeyFree(loans, row.by, row.key)
      \/ loans[i] # NoRow /\ loans[i].by = row.by /\ loans[i].key = row.key
  BY <1>1, <1>2, <1>4, Tables DEF Inv, DecisionsHold, Targets
<1>8. KeyMakesOneRecord'
  <2>. HIDE DEF row
  <2>1. \A m, n \in DOMAIN loans' :
          loans'[m] # NoRow /\ loans'[n] # NoRow /\ loans'[m].by = loans'[n].by /\ loans'[m].key = loans'[n].key
          => m = n
    <3>1. \A m, n \in LoanIds :
            loans[m] # NoRow /\ loans[n] # NoRow /\ loans[m].by = loans[n].by /\ loans[m].key = loans[n].key
            => m = n
      BY DEF Inv, TypeOK, KeyMakesOneRecord
    <3>2. loans \in [LoanIds -> Loan \union {NoRow}]
      BY DEF Inv, TypeOK
    <3>. QED BY <1>3, <1>5, <1>7, <3>1, <3>2 DEF KeyFree
  <2>. QED BY <2>1 DEF WriteLoan, Inv, KeyMakesOneRecord
<1>. QED BY <1>6, <1>8 DEF Inv

LEMMA PaymentStored ==
  ASSUME Inv, NEW p \in Procs, WritePayment(p)
  PROVE  Inv'
<1>. DEFINE j == job[p]
<1>1. j \in Job /\ j.row \in Payment /\ j.id \in PaymentIds \union {New} /\ j.kind = "payment" /\ j # NoJob
  BY JobsAre DEF WritePayment, Has, Inv, TypeOK
<1>2. PICK i \in Targets(j, payments) : payments' = Stored(j, payments, i)
  BY DEF WritePayment
<1>3. i \in PaymentIds
  BY <1>1, <1>2 DEF Targets, Unused, Inv, TypeOK
<1>. DEFINE row == IF payments[i] = NoRow THEN j.row ELSE [j.row EXCEPT !.version = payments[i].version + 1]
<1>4. row \in Payment /\ row.by = j.row.by /\ row.key = j.row.key
  <2>1. payments[i] = NoRow \/ payments[i] \in Payment
    BY <1>3 DEF Inv, TypeOK
  <2>. QED BY <1>1, <2>1 DEF Payment
<1>5. payments' = [payments EXCEPT ![i] = row]
  BY <1>2 DEF Stored
<1>6. TypeOK' /\ DecisionsHold' /\ \A q \in Procs : job'[q] = NoJob
  <2>. HIDE DEF row
  <2>1. payments' \in [PaymentIds -> Payment \union {NoRow}]
    BY <1>3, <1>4, <1>5 DEF Inv, TypeOK
  <2>2. Release(p)
    BY DEF WritePayment
  <2>. QED BY <1>1, <2>1, <2>2, Ending DEF WritePayment, Inv, TypeOK
<1>7. \/ KeyFree(payments, row.by, row.key)
      \/ payments[i] # NoRow /\ payments[i].by = row.by /\ payments[i].key = row.key
  BY <1>1, <1>2, <1>4, Tables DEF Inv, DecisionsHold, Targets
<1>8. KeyMakesOneRecord'
  <2>. HIDE DEF row
  <2>1. \A m, n \in DOMAIN payments' :
          payments'[m] # NoRow /\ payments'[n] # NoRow /\ payments'[m].by = payments'[n].by /\ payments'[m].key = payments'[n].key
          => m = n
    <3>1. \A m, n \in PaymentIds :
            payments[m] # NoRow /\ payments[n] # NoRow /\ payments[m].by = payments[n].by /\ payments[m].key = payments[n].key
            => m = n
      BY DEF Inv, TypeOK, KeyMakesOneRecord
    <3>2. payments \in [PaymentIds -> Payment \union {NoRow}]
      BY DEF Inv, TypeOK
    <3>. QED BY <1>3, <1>5, <1>7, <3>1, <3>2 DEF KeyFree
  <2>. QED BY <2>1 DEF WritePayment, Inv, KeyMakesOneRecord
<1>. QED BY <1>6, <1>8 DEF Inv

LEMMA ReceiptStored ==
  ASSUME Inv, NEW p \in Procs, WriteReceipt(p)
  PROVE  Inv'
<1>. DEFINE j == job[p]
<1>1. j \in Job /\ j.row \in Receipt /\ j.id \in ReceiptIds \union {New} /\ j.kind = "receipt" /\ j # NoJob
  BY JobsAre DEF WriteReceipt, Has, Inv, TypeOK
<1>2. PICK i \in Targets(j, receipts) :
        /\ receipts' = Stored(j, receipts, i)
        /\ history' = [history EXCEPT ![i] = Append(@, [action |-> ActionOf(p, i), by |-> j.actor])]
  BY DEF WriteReceipt
<1>3. i \in ReceiptIds
  BY <1>1, <1>2 DEF Targets, Unused, Inv, TypeOK
<1>. DEFINE row == IF receipts[i] = NoRow THEN j.row ELSE [j.row EXCEPT !.version = receipts[i].version + 1]
<1>4. row \in Receipt /\ row.by = j.row.by /\ row.key = j.row.key
  <2>1. receipts[i] = NoRow \/ receipts[i] \in Receipt
    BY <1>3 DEF Inv, TypeOK
  <2>. QED BY <1>1, <2>1 DEF Receipt
<1>5. receipts' = [receipts EXCEPT ![i] = row]
  BY <1>2 DEF Stored
<1>6. TypeOK' /\ DecisionsHold' /\ \A q \in Procs : job'[q] = NoJob
  <2>. HIDE DEF row
  <2>1. receipts' \in [ReceiptIds -> Receipt \union {NoRow}]
    BY <1>3, <1>4, <1>5 DEF Inv, TypeOK
  <2>2. Release(p)
    BY DEF WriteReceipt
  <2>3. [action |-> ActionOf(p, i), by |-> j.actor] \in Entry
    BY <1>1, JobsAre DEF ActionOf, Entry
  <2>4. history' \in [ReceiptIds -> Seq(Entry)]
    BY <1>2, <1>3, <2>3 DEF Inv, TypeOK
  <2>. QED BY <1>1, <2>1, <2>2, <2>4, Ending DEF WriteReceipt, Inv, TypeOK
<1>7. \/ KeyFree(receipts, row.by, row.key)
      \/ receipts[i] # NoRow /\ receipts[i].by = row.by /\ receipts[i].key = row.key
  BY <1>1, <1>2, <1>4, Tables DEF Inv, DecisionsHold, Targets
<1>8. KeyMakesOneRecord'
  <2>. HIDE DEF row
  <2>1. \A m, n \in DOMAIN receipts' :
          receipts'[m] # NoRow /\ receipts'[n] # NoRow /\ receipts'[m].by = receipts'[n].by /\ receipts'[m].key = receipts'[n].key
          => m = n
    <3>1. \A m, n \in ReceiptIds :
            receipts[m] # NoRow /\ receipts[n] # NoRow /\ receipts[m].by = receipts[n].by /\ receipts[m].key = receipts[n].key
            => m = n
      BY DEF Inv, TypeOK, KeyMakesOneRecord
    <3>2. receipts \in [ReceiptIds -> Receipt \union {NoRow}]
      BY DEF Inv, TypeOK
    <3>. QED BY <1>3, <1>5, <1>7, <3>1, <3>2 DEF KeyFree
  <2>. QED BY <2>1 DEF WriteReceipt, Inv, KeyMakesOneRecord
<1>. QED BY <1>6, <1>8 DEF Inv

LEMMA CostStored ==
  ASSUME Inv, NEW p \in Procs, WriteCost(p)
  PROVE  Inv'
<1>. DEFINE j == job[p]
<1>1. j \in Job /\ j.row \in Cost /\ j.id \in CostIds \union {New} /\ j.kind = "cost" /\ j # NoJob
  BY JobsAre DEF WriteCost, Has, Inv, TypeOK
<1>2. PICK i \in Targets(j, costs) :
        /\ PurchaseKeyFree(j, i)
        /\ costs' = Stored(j, costs, i)
        /\ payments' \in PaymentsWith(j, i)
  BY DEF WriteCost
<1>3. i \in CostIds
  BY <1>1, <1>2 DEF Targets, Unused, Inv, TypeOK
<1>. DEFINE row == IF costs[i] = NoRow THEN j.row ELSE [j.row EXCEPT !.version = costs[i].version + 1]
<1>4. row \in Cost /\ row.by = j.row.by /\ row.key = j.row.key
  <2>1. costs[i] = NoRow \/ costs[i] \in Cost
    BY <1>3 DEF Inv, TypeOK
  <2>. QED BY <1>1, <2>1 DEF Cost
<1>5. costs' = [costs EXCEPT ![i] = row]
  BY <1>2 DEF Stored
<1>. HIDE DEF row
<1>. DEFINE bought == Purchase(i, j.row)
<1>10. \/ payments' = payments
       \/ /\ bought \in Payment /\ KeyFree(payments, bought.by, bought.key)
          /\ \E n \in PaymentIds : payments' = [payments EXCEPT ![n] = bought]
  <2>1. j.row.payer # NoUser => bought \in Payment
    BY <1>1, <1>3 DEF Cost, Payment, Purchase
  <2>2. \A n \in Unused(payments) : n \in PaymentIds
    BY DEF Unused, Inv, TypeOK
  <2>3. bought.by = j.row.by /\ bought.key = i
    BY DEF Purchase
  <2>. HIDE DEF bought
  <2>. QED BY <1>2, <2>1, <2>2, <2>3 DEF PaymentsWith, IsPurchase, PurchaseKeyFree, bought
<1>. HIDE DEF bought
<1>6. TypeOK' /\ DecisionsHold' /\ \A q \in Procs : job'[q] = NoJob
  <2>. HIDE DEF row
  <2>1. costs' \in [CostIds -> Cost \union {NoRow}]
    BY <1>3, <1>4, <1>5 DEF Inv, TypeOK
  <2>2. Release(p)
    BY DEF WriteCost
  <2>3. payments' \in [PaymentIds -> Payment \union {NoRow}]
    BY <1>10 DEF Inv, TypeOK
  <2>. QED BY <1>1, <2>1, <2>2, <2>3, Ending DEF WriteCost, Inv, TypeOK
<1>7. \/ KeyFree(costs, row.by, row.key)
      \/ costs[i] # NoRow /\ costs[i].by = row.by /\ costs[i].key = row.key
  BY <1>1, <1>2, <1>4, Tables DEF Inv, DecisionsHold, Targets
<1>8. KeyMakesOneRecord'
  <2>. HIDE DEF row
  <2>1. \A m, n \in DOMAIN costs' :
          costs'[m] # NoRow /\ costs'[n] # NoRow /\ costs'[m].by = costs'[n].by /\ costs'[m].key = costs'[n].key
          => m = n
    <3>1. \A m, n \in CostIds :
            costs[m] # NoRow /\ costs[n] # NoRow /\ costs[m].by = costs[n].by /\ costs[m].key = costs[n].key
            => m = n
      BY DEF Inv, TypeOK, KeyMakesOneRecord
    <3>2. costs \in [CostIds -> Cost \union {NoRow}]
      BY DEF Inv, TypeOK
    <3>. QED BY <1>3, <1>5, <1>7, <3>1, <3>2 DEF KeyFree
  <2>2. \A m, n \in DOMAIN payments' :
          payments'[m] # NoRow /\ payments'[n] # NoRow /\ payments'[m].by = payments'[n].by
          /\ payments'[m].key = payments'[n].key
          => m = n
    <3>1. \A m, n \in PaymentIds :
            payments[m] # NoRow /\ payments[n] # NoRow /\ payments[m].by = payments[n].by
            /\ payments[m].key = payments[n].key
            => m = n
      BY DEF Inv, TypeOK, KeyMakesOneRecord
    <3>2. ASSUME NEW n \in PaymentIds, payments' = [payments EXCEPT ![n] = bought],
                 KeyFree(payments, bought.by, bought.key)
          PROVE  \A m, q \in PaymentIds :
                   payments'[m] # NoRow /\ payments'[q] # NoRow /\ payments'[m].by = payments'[q].by
                   /\ payments'[m].key = payments'[q].key
                   => m = q
      BY <3>1, <3>2 DEF Inv, TypeOK, KeyFree
    <3>3. DOMAIN payments' = PaymentIds
      BY <1>10 DEF Inv, TypeOK
    <3>. QED BY <1>10, <3>1, <3>2, <3>3
  <2>. QED BY <2>1, <2>2 DEF WriteCost, Inv, KeyMakesOneRecord
<1>. QED BY <1>6, <1>8 DEF Inv

LEMMA LegacyReceiptsAre == LegacyReceipt \subseteq Receipt
<1>. SUFFICES ASSUME NEW r \in LegacyReceipt PROVE r \in Receipt
  OBVIOUS
<1>1. r \in [by : Users, key : Keys, source : {NoSource}, from : Users, to : Users,
             currency : Currencies, amount : Amounts \ {0}, version : {1}, live : {TRUE}]
  BY DEF LegacyReceipt
<1>2. r = [by |-> r.by, key |-> r.key, source |-> r.source, from |-> r.from, to |-> r.to,
           currency |-> r.currency, amount |-> r.amount, version |-> 1, live |-> TRUE]
  BY <1>1
<1>3. /\ r.by \in Users /\ r.key \in Keys /\ r.source = NoSource /\ r.from \in Users /\ r.to \in Users
      /\ r.currency \in Currencies /\ r.amount \in Amounts
  BY <1>1
<1>4. [by |-> r.by, key |-> r.key, source |-> r.source, from |-> r.from, to |-> r.to,
       currency |-> r.currency, amount |-> r.amount, version |-> 1, live |-> TRUE] \in Receipt
  BY <1>3 DEF Receipt
<1>. QED BY <1>2, <1>4, Zenon

-----------------------------------------------------------------------------
LEMMA Initially == Init => Inv
<1>. SUFFICES ASSUME Init PROVE Inv
  OBVIOUS
<1>1. PICK old \in [Legacy -> LegacyReceipt] :
        receipts = [i \in ReceiptIds |-> IF i \in Legacy THEN old[i] ELSE NoRow]
  BY DEF Init
<1>2. LegacyReceipt \subseteq Receipt
  BY LegacyReceiptsAre
<1>3. receipts \in [ReceiptIds -> Receipt \union {NoRow}]
  BY <1>1, <1>2, LedgerAssumption
<1>4. TypeOK
  <2>1. standing \in [Users -> Roles]
    BY DEF Init
  <2>2. history \in [ReceiptIds -> Seq(Entry)]
    BY DEF Init
  <2>. QED BY <1>3, <2>1, <2>2 DEF Init, TypeOK
<1>5. DecisionsHold
  BY DEF Init, DecisionsHold
<1>. QED BY <1>4, <1>5 DEF Init, Inv

\* A role changes only while nobody holds the lock, so nobody has decided.
LEMMA StandingChanges ==
  ASSUME Inv, NEW u \in Users, ChangeStanding(u)
  PROVE  Inv'
<1>1. \A p \in Procs : job[p] = NoJob
  BY NobodyElse DEF ChangeStanding, Inv, DecisionsHold
<1>2. TypeOK'
  <2>1. standing' \in [Users -> Roles]
    <3>1. Standings[u] \subseteq Roles
      BY LedgerAssumption
    <3>. QED BY <3>1 DEF ChangeStanding, Inv, TypeOK
  <2>. QED BY <2>1 DEF ChangeStanding, Inv, TypeOK, books
<1>3. DecisionsHold' /\ KeyMakesOneRecord'
  BY <1>1 DEF ChangeStanding, Inv, books, DecisionsHold, KeyMakesOneRecord
<1>. QED BY <1>2, <1>3 DEF Inv

LEMMA Aborts ==
  ASSUME Inv, NEW p \in Procs, Abort(p)
  PROVE  Inv'
<1>1. TypeOK' /\ DecisionsHold' /\ \A q \in Procs : job'[q] = NoJob
  BY Ending DEF Abort, Inv, TypeOK, books
<1>. QED BY <1>1 DEF Abort, Inv, books, KeyMakesOneRecord

\* Inv is inductive: one case for each kind of step.
LEMMA Inductive == Inv /\ [Next]_vars => Inv'
<1>. SUFFICES ASSUME Inv, [Next]_vars PROVE Inv'
  OBVIOUS
<1>1. ASSUME NEW p \in Procs, Start(p) PROVE Inv'
  BY <1>1, CostStarts, PaymentStarts, LoanStarts, ReceiptStarts DEF Start
<1>2. ASSUME NEW p \in Procs, Write(p) PROVE Inv'
  BY <1>2, CostStored, PaymentStored, LoanStored, ReceiptStored DEF Write
<1>3. ASSUME NEW p \in Procs, Abort(p) PROVE Inv'
  BY <1>3, Aborts
<1>4. ASSUME NEW u \in Users, ChangeStanding(u) PROVE Inv'
  BY <1>4, StandingChanges
<1>5. CASE UNCHANGED vars
  <2>1. \A kind : TableOf(kind)' = TableOf(kind)
    BY <1>5 DEF vars, books, TableOf
  <2>. QED BY <1>5, <2>1 DEF vars, books, Inv, TypeOK, DecisionsHold, KeyFree,
                           KeyMakesOneRecord
<1>. QED BY <1>1, <1>2, <1>3, <1>4, <1>5 DEF Next

\* Rows and decisions keep their types, and what was decided still holds.
THEOREM Invariance == Spec => []Inv
<1>. QED BY Initially, Inductive, PTL DEF Spec

\* However often a key is submitted, by however many requests, and whatever is
\* deleted in between, it makes one record.
THEOREM KeysMakeOneRecord == Spec => []KeyMakesOneRecord
<1>1. Inv => KeyMakesOneRecord
  BY DEF Inv
<1>. QED BY <1>1, Invariance, PTL

\* An edit is stored over the version that its author read.
THEOREM NoEditLost == Spec => NothingLost
<1>1. Inv /\ [Next]_vars =>
        [\A p \in Procs :
           books' # books /\ job[p] # NoJob /\ job'[p] = NoJob /\ job[p].id # New
           => TableOf(job[p].kind)[job[p].id].version = job[p].seen]_vars
  BY DEF Inv, DecisionsHold
<1>. QED BY <1>1, Invariance, PTL DEF Spec, NothingLost

\* Nobody's write is stored who is not an editor or a member when it is.
THEOREM OnlyWritersWrite == Spec => WritersOnly
<1>1. Inv /\ [Next]_vars =>
        [\A p \in Procs :
           books' # books /\ job[p] # NoJob /\ job'[p] = NoJob
           => standing[job[p].actor] \in {"editor", "member"}]_vars
  BY DEF Inv, DecisionsHold
<1>. QED BY <1>1, Invariance, PTL DEF Spec, WritersOnly

-----------------------------------------------------------------------------
(***************************************************************************)
(* Sources: what a request has decided to store leaves every payment its   *)
(* cost and every linked receipt its debt.                                 *)
(***************************************************************************)

\* A new cost is live, and an edited one stays what its payments need.
CostPromise(id, row) ==
  /\ id = New => row.live
  /\ id # New => \A i \in PaymentsOf(id) : row.live /\ row.currency = payments[i].currency

\* A payment has a live cost of its currency, and only changes while nobody
\* has repaid it.
PaymentPromise(id, row) ==
  /\ row.live => row.cost \in Live(costs) /\ costs[row.cost].currency = row.currency
  /\ id # New => ReceiptsOf(id) = {}

\* A repaid loan stays between the same people, in the same currency.
LoanPromise(id, row) ==
  id # New /\ ReceiptsOf(id) # {} =>
    /\ row.live /\ row.amount > 0
    /\ row.from = loans[id].from /\ row.to = loans[id].to
    /\ row.currency = loans[id].currency

ReceiptPromise(row) == row.live /\ Linked(row) => Owed(DebtOf(row)) > 0

Promise(kind, id, row) ==
  /\ kind = "cost" => CostPromise(id, row)
  /\ kind = "payment" => PaymentPromise(id, row)
  /\ kind = "loan" => LoanPromise(id, row)
  /\ kind = "receipt" => ReceiptPromise(row)

Promised == \A p \in Procs : job[p] # NoJob => Promise(job[p].kind, job[p].id, job[p].row)

\* Nothing else is decided meanwhile, and deciding changes no table.
LEMMA DecisionPromises ==
  ASSUME Inv, Inv', NEW p \in Procs, NEW j, Decide(p, j), Promise(j.kind, j.id, j.row)
  PROVE  Promised'
<1>1. \A q \in Procs : job'[q] # NoJob => q = p
  BY DEF Inv, DecisionsHold, Decide
<1>2. job'[p] = j
  BY DEF Inv, TypeOK, Decide
<1>3. UNCHANGED <<costs, payments, loans, receipts>>
  BY DEF Decide, books
<1>4. \A kind, id, row : Promise(kind, id, row)' = Promise(kind, id, row)
  BY <1>3 DEF Promise, CostPromise, PaymentPromise, LoanPromise, ReceiptPromise, PaymentsOf,
              ReceiptsOf, Live, Owed
<1>. QED BY <1>1, <1>2, <1>4 DEF Promised

LEMMA InsertPromises ==
  ASSUME Inv, Inv', NEW p \in Procs, NEW kind, NEW table, NEW row,
         Insert(p, kind, table, row), Promise(kind, New, row)
  PROVE  Promised'
BY DecisionPromises DEF Insert

LEMMA ChangePromises ==
  ASSUME Inv, Inv', NEW p \in Procs, NEW u, NEW kind, NEW table, NEW i, NEW row,
         Change(p, u, kind, table, i, row), Promise(kind, i, row)
  PROVE  Promised'
BY DecisionPromises DEF Change

LEMMA CostsPromise ==
  ASSUME Inv, Inv', SourcesStand, NEW p \in Procs,
         CreateCost(p) \/ UpdateCost(p) \/ DeleteCost(p)
  PROVE  Promised'
<1>1. CASE CreateCost(p)
  <2>1. PICK u \in Users, k \in Keys, payer \in Users \union {NoUser}, tied \in Ties,
             c \in Currencies, s \in Splits :
          Insert(p, "cost", costs,
                 [by |-> u, key |-> k, payer |-> payer, tied |-> tied, currency |-> c,
                  shares |-> s, version |-> 1, live |-> TRUE])
    BY <1>1 DEF CreateCost
  <2>2. Promise("cost", New, [by |-> u, key |-> k, payer |-> payer, tied |-> tied, currency |-> c,
                              shares |-> s, version |-> 1, live |-> TRUE])
    BY DEF Promise, CostPromise
  <2>. QED BY <2>1, <2>2, InsertPromises
<1>2. CASE UpdateCost(p)
  <2>1. PICK u \in Users, i \in Live(costs), tied \in Ties, c \in Currencies, s \in Splits :
          /\ PaymentsOf(i) # {} => c = costs[i].currency
          /\ Change(p, u, "cost", costs, i,
                    [costs[i] EXCEPT !.tied = tied, !.currency = c, !.shares = s])
    BY <1>2 DEF UpdateCost, Changeable
  <2>. DEFINE row == [costs[i] EXCEPT !.tied = tied, !.currency = c, !.shares = s]
  <2>2. i \in CostIds /\ costs[i] \in Cost /\ i # New /\ costs[i].live
    BY LiveAre DEF Inv, Live
  <2>3. row.live /\ row.currency = c
    BY <2>2 DEF Cost
  <2>4. \A n \in PaymentsOf(i) : payments[n].currency = c
    BY <2>1 DEF SourcesStand, PaymentsOf
  <2>5. Promise("cost", i, row)
    BY <2>2, <2>3, <2>4 DEF Promise, CostPromise
  <2>. QED BY <2>1, <2>5, ChangePromises
<1>3. CASE DeleteCost(p)
  <2>1. PICK u \in Users, i \in Live(costs) : PaymentsOf(i) = {} /\ Remove(p, u, "cost", costs, i)
    BY <1>3 DEF DeleteCost, Changeable
  <2>2. i # New
    BY LiveAre DEF Inv
  <2>3. Promise("cost", i, [costs[i] EXCEPT !.live = FALSE])
    BY <2>1, <2>2 DEF Promise, CostPromise
  <2>. QED BY <2>1, <2>3, ChangePromises DEF Remove
<1>. QED BY <1>1, <1>2, <1>3

LEMMA PaymentsPromise ==
  ASSUME Inv, Inv', SourcesStand, NEW p \in Procs,
         CreatePayment(p) \/ UpdatePayment(p) \/ DeletePayment(p)
  PROVE  Promised'
<1>1. CASE CreatePayment(p)
  <2>1. PICK u \in Users, k \in Keys, c \in Live(costs), payer \in Participants, s \in Splits :
          Insert(p, "payment", payments,
                 [by |-> u, key |-> k, cost |-> c, payer |-> payer, currency |-> costs[c].currency,
                  covers |-> s, version |-> 1, live |-> TRUE])
    BY <1>1 DEF CreatePayment
  <2>2. Promise("payment", New,
                [by |-> u, key |-> k, cost |-> c, payer |-> payer, currency |-> costs[c].currency,
                 covers |-> s, version |-> 1, live |-> TRUE])
    BY DEF Promise, PaymentPromise
  <2>. QED BY <2>1, <2>2, InsertPromises
<1>2. CASE UpdatePayment(p)
  <2>1. PICK u \in Users, i \in Live(payments), s \in Splits :
          /\ payments[i].cost \in Live(costs) /\ ReceiptsOf(i) = {}
          /\ Change(p, u, "payment", payments, i, [payments[i] EXCEPT !.covers = s])
    BY <1>2 DEF UpdatePayment, Changeable
  <2>. DEFINE row == [payments[i] EXCEPT !.covers = s]
  <2>2. payments[i] \in Payment
    BY LiveAre DEF Inv
  <2>3. row.cost = payments[i].cost /\ row.currency = payments[i].currency
    BY <2>2 DEF Payment
  <2>4. costs[payments[i].cost].currency = payments[i].currency
    BY DEF SourcesStand
  <2>5. Promise("payment", i, row)
    BY <2>1, <2>3, <2>4 DEF Promise, PaymentPromise
  <2>. QED BY <2>1, <2>5, ChangePromises
<1>3. CASE DeletePayment(p)
  <2>1. PICK u \in Users, i \in Live(payments) :
          ReceiptsOf(i) = {} /\ Remove(p, u, "payment", payments, i)
    BY <1>3 DEF DeletePayment, Changeable
  <2>. DEFINE row == [payments[i] EXCEPT !.live = FALSE]
  <2>2. ~row.live
    BY LiveAre DEF Inv, Payment
  <2>3. Promise("payment", i, row)
    BY <2>1, <2>2 DEF Promise, PaymentPromise
  <2>. QED BY <2>1, <2>3, ChangePromises DEF Remove
<1>. QED BY <1>1, <1>2, <1>3

LEMMA LoansPromise ==
  ASSUME Inv, Inv', NEW p \in Procs, CreateLoan(p) \/ UpdateLoan(p) \/ DeleteLoan(p)
  PROVE  Promised'
<1>1. CASE CreateLoan(p)
  <2>1. PICK u \in Users, k \in Keys, from \in Participants, to \in Participants,
             c \in Currencies, a \in Amounts \ {0} :
          Insert(p, "loan", loans,
                 [by |-> u, key |-> k, from |-> from, to |-> to, currency |-> c, amount |-> a,
                  version |-> 1, live |-> TRUE])
    BY <1>1 DEF CreateLoan
  <2>2. Promise("loan", New, [by |-> u, key |-> k, from |-> from, to |-> to, currency |-> c,
                              amount |-> a, version |-> 1, live |-> TRUE])
    BY DEF Promise, LoanPromise
  <2>. QED BY <2>1, <2>2, InsertPromises
<1>2. CASE UpdateLoan(p)
  <2>1. PICK u \in Users, i \in Changeable("loan", loans), from, to \in Users,
             c \in Currencies, a \in Amounts \ {0} :
          LET old == loans[i]
              new == [old EXCEPT !.from = from, !.to = to, !.currency = c, !.amount = a]
          IN /\ from # to
             /\ MayWrite(u, old)
             /\ Editor(u) \/ from = u
             /\ {from, to} \subseteq Participants \/ <<from, to>> = <<old.from, old.to>>
             /\ ReceiptsOf(i) # {} => <<from, to, c>> = <<old.from, old.to, old.currency>>
             /\ Change(p, u, "loan", loans, i, new)
    BY <1>2 DEF UpdateLoan
  <2>. DEFINE row == [loans[i] EXCEPT !.from = from, !.to = to, !.currency = c, !.amount = a]
  <2>2. loans[i] \in Loan /\ loans[i].live
    BY LiveAre DEF Inv, Changeable, Live
  <2>3. row.live /\ row.amount > 0 /\ row.from = from /\ row.to = to /\ row.currency = c
    BY <2>2, LedgerAssumption DEF Loan, Amounts
  <2>4. Promise("loan", i, row)
    BY <2>1, <2>3 DEF Promise, LoanPromise
  <2>. QED BY <2>1, <2>4, ChangePromises
<1>3. CASE DeleteLoan(p)
  <2>1. PICK u \in Users, i \in Live(loans) : ReceiptsOf(i) = {} /\ Remove(p, u, "loan", loans, i)
    BY <1>3 DEF DeleteLoan, Changeable
  <2>2. Promise("loan", i, [loans[i] EXCEPT !.live = FALSE])
    BY <2>1 DEF Promise, LoanPromise
  <2>. QED BY <2>1, <2>2, ChangePromises DEF Remove
<1>. QED BY <1>1, <1>2, <1>3

LEMMA ReceiptsPromise ==
  ASSUME Inv, Inv', NEW p \in Procs, CreateReceipt(p) \/ UpdateReceipt(p) \/ DeleteReceipt(p)
  PROVE  Promised'
<1>1. CASE CreateReceipt(p)
  <2>1. PICK u \in Users, k \in Keys, source \in Sources \union {NoSource},
             from, to \in Participants \union Historical,
             c \in Currencies, a \in Amounts \ {0} :
          LET new == [by |-> u, key |-> k, source |-> source, from |-> from, to |-> to,
                      currency |-> c, amount |-> a, version |-> 1, live |-> TRUE]
          IN /\ from # to
             /\ IF Linked(new) THEN to = u ELSE Editor(u)
             /\ Settles(new, 0)
             /\ Insert(p, "receipt", receipts, new)
    BY <1>1 DEF CreateReceipt
  <2>. DEFINE row == [by |-> u, key |-> k, source |-> source, from |-> from, to |-> to,
                      currency |-> c, amount |-> a, version |-> 1, live |-> TRUE]
  <2>. HIDE DEF row
  <2>2. Settles(row, 0) /\ Insert(p, "receipt", receipts, row)
    BY <2>1 DEF row
  <2>3. Promise("receipt", New, row)
    BY <2>2 DEF Settles, Promise, ReceiptPromise
  <2>. QED BY <2>2, <2>3, InsertPromises
<1>2. CASE UpdateReceipt(p)
  <2>1. PICK u \in Users, i \in Changeable("receipt", receipts), source \in Sources \union {NoSource},
             from, to \in Participants \union Historical,
             c \in Currencies, a \in Amounts \ {0} :
          LET old == receipts[i]
              new == [old EXCEPT !.source = source, !.from = from, !.to = to,
                                 !.currency = c, !.amount = a]
              received == \E n \in DOMAIN history[i] : history[i][n].action = "received"
          IN /\ from # to
             /\ MayReceive(u, old)
             /\ ~Linked(old) /\ Linked(new) /\ u # old.to => ~received
             /\ Linked(old) => DebtOf(new) = DebtOf(old)
             /\ Linked(new) => Editor(u) \/ to = u
             /\ Settles(new, IF DebtOf(new) = DebtOf(old) THEN old.amount ELSE 0)
             /\ Change(p, u, "receipt", receipts, i, new)
    BY <1>2 DEF UpdateReceipt
  <2>. DEFINE row == [receipts[i] EXCEPT !.source = source, !.from = from, !.to = to,
                                         !.currency = c, !.amount = a]
              back == IF DebtOf(row) = DebtOf(receipts[i]) THEN receipts[i].amount ELSE 0
  <2>. HIDE DEF row, back
  <2>2. Settles(row, back) /\ Change(p, u, "receipt", receipts, i, row)
    BY <2>1 DEF row, back
  <2>3. Promise("receipt", i, row)
    BY <2>2 DEF Settles, Promise, ReceiptPromise
  <2>. QED BY <2>2, <2>3, ChangePromises
<1>3. CASE DeleteReceipt(p)
  <2>1. PICK u \in Users, i \in Live(receipts) : Remove(p, u, "receipt", receipts, i)
    BY <1>3 DEF DeleteReceipt, Changeable
  <2>. DEFINE row == [receipts[i] EXCEPT !.live = FALSE]
  <2>2. ~row.live
    BY LiveAre DEF Inv, Changeable, Receipt
  <2>3. Promise("receipt", i, row)
    BY <2>2 DEF Promise, ReceiptPromise
  <2>. QED BY <2>1, <2>3, ChangePromises DEF Remove
<1>. QED BY <1>1, <1>2, <1>3

\* A write puts one row into its table, on a free id or over the record it read.
Puts(p, table, i, row) ==
  IF job[p].id = New
    THEN table[i] = NoRow /\ row = job[p].row
    ELSE /\ job[p].id = i /\ table[i] # NoRow
         /\ row = [job[p].row EXCEPT !.version = table[i].version + 1]

LEMMA LoanWritten ==
  ASSUME Inv, NEW p \in Procs, WriteLoan(p)
  PROVE  \E i \in LoanIds, row \in Loan :
           /\ loans' = [loans EXCEPT ![i] = row]
           /\ Puts(p, loans, i, row)
<1>. DEFINE j == job[p]
<1>1. j \in Job /\ j.row \in Loan /\ j.id \in LoanIds \union {New} /\ j.kind = "loan" /\ j # NoJob
  BY JobsAre DEF WriteLoan, Has, Inv, TypeOK
<1>2. PICK i \in Targets(j, loans) : loans' = Stored(j, loans, i)
  BY DEF WriteLoan
<1>3. i \in LoanIds /\ (j.id = New => loans[i] = NoRow) /\ (j.id # New => j.id = i /\ loans[i] # NoRow)
  <2>1. j.id # New => loans[j.id] # NoRow
    BY <1>1, Tables DEF Inv, DecisionsHold
  <2>2. DOMAIN loans = LoanIds /\ (j.id # New => j.id \in LoanIds)
    BY <1>1 DEF Inv, TypeOK
  <2>. QED BY <1>2, <2>1, <2>2 DEF Targets, Unused
<1>4. loans[i] # NoRow => [j.row EXCEPT !.version = loans[i].version + 1] \in Loan
  <2>1. loans[i] = NoRow \/ loans[i] \in Loan
    BY <1>3 DEF Inv, TypeOK
  <2>. QED BY <1>1, <2>1 DEF Loan
<1>. QED BY <1>1, <1>2, <1>3, <1>4 DEF Stored, Puts

LEMMA PaymentWritten ==
  ASSUME Inv, NEW p \in Procs, WritePayment(p)
  PROVE  \E i \in PaymentIds, row \in Payment :
           /\ payments' = [payments EXCEPT ![i] = row]
           /\ Puts(p, payments, i, row)
<1>. DEFINE j == job[p]
<1>1. j \in Job /\ j.row \in Payment /\ j.id \in PaymentIds \union {New} /\ j.kind = "payment" /\ j # NoJob
  BY JobsAre DEF WritePayment, Has, Inv, TypeOK
<1>2. PICK i \in Targets(j, payments) : payments' = Stored(j, payments, i)
  BY DEF WritePayment
<1>3. i \in PaymentIds /\ (j.id = New => payments[i] = NoRow) /\ (j.id # New => j.id = i /\ payments[i] # NoRow)
  <2>1. j.id # New => payments[j.id] # NoRow
    BY <1>1, Tables DEF Inv, DecisionsHold
  <2>2. DOMAIN payments = PaymentIds /\ (j.id # New => j.id \in PaymentIds)
    BY <1>1 DEF Inv, TypeOK
  <2>. QED BY <1>2, <2>1, <2>2 DEF Targets, Unused
<1>4. payments[i] # NoRow => [j.row EXCEPT !.version = payments[i].version + 1] \in Payment
  <2>1. payments[i] = NoRow \/ payments[i] \in Payment
    BY <1>3 DEF Inv, TypeOK
  <2>. QED BY <1>1, <2>1 DEF Payment
<1>. QED BY <1>1, <1>2, <1>3, <1>4 DEF Stored, Puts

LEMMA ReceiptWritten ==
  ASSUME Inv, NEW p \in Procs, WriteReceipt(p)
  PROVE  \E i \in ReceiptIds, row \in Receipt :
           /\ receipts' = [receipts EXCEPT ![i] = row]
           /\ history' = [history EXCEPT ![i] =
                Append(@, [action |-> ActionOf(p, i), by |-> job[p].actor])]
           /\ Puts(p, receipts, i, row)
<1>. DEFINE j == job[p]
<1>1. j \in Job /\ j.row \in Receipt /\ j.id \in ReceiptIds \union {New} /\ j.kind = "receipt" /\ j # NoJob
  BY JobsAre DEF WriteReceipt, Has, Inv, TypeOK
<1>2. PICK i \in Targets(j, receipts) :
        /\ receipts' = Stored(j, receipts, i)
        /\ history' = [history EXCEPT ![i] = Append(@, [action |-> ActionOf(p, i), by |-> j.actor])]
  BY DEF WriteReceipt
<1>3. i \in ReceiptIds /\ (j.id = New => receipts[i] = NoRow) /\ (j.id # New => j.id = i /\ receipts[i] # NoRow)
  <2>1. j.id # New => receipts[j.id] # NoRow
    BY <1>1, Tables DEF Inv, DecisionsHold
  <2>2. DOMAIN receipts = ReceiptIds /\ (j.id # New => j.id \in ReceiptIds)
    BY <1>1 DEF Inv, TypeOK
  <2>. QED BY <1>2, <2>1, <2>2 DEF Targets, Unused
<1>4. receipts[i] # NoRow => [j.row EXCEPT !.version = receipts[i].version + 1] \in Receipt
  <2>1. receipts[i] = NoRow \/ receipts[i] \in Receipt
    BY <1>3 DEF Inv, TypeOK
  <2>. QED BY <1>1, <2>1 DEF Receipt
<1>. QED BY <1>1, <1>2, <1>3, <1>4 DEF Stored, Puts

LEMMA CostWritten ==
  ASSUME Inv, NEW p \in Procs, WriteCost(p)
  PROVE  \E i \in CostIds, row \in Cost :
           /\ costs' = [costs EXCEPT ![i] = row] /\ Puts(p, costs, i, row)
           /\ \/ payments' = payments
              \/ /\ job[p].id = New /\ Purchase(i, row) \in Payment
                 /\ \E n \in PaymentIds :
                      payments[n] = NoRow /\ payments' = [payments EXCEPT ![n] = Purchase(i, row)]
<1>. DEFINE j == job[p]
<1>1. j \in Job /\ j.row \in Cost /\ j.id \in CostIds \union {New} /\ j.kind = "cost" /\ j # NoJob
  BY JobsAre DEF WriteCost, Has, Inv, TypeOK
<1>2. PICK i \in Targets(j, costs) :
        /\ costs' = Stored(j, costs, i)
        /\ IF IsPurchase(j)
             THEN \E n \in Unused(payments) : payments' = [payments EXCEPT ![n] = Purchase(i, j.row)]
             ELSE payments' = payments
  BY DEF WriteCost, PaymentsWith
<1>3. i \in CostIds /\ (j.id = New => costs[i] = NoRow) /\ (j.id # New => j.id = i /\ costs[i] # NoRow)
  <2>1. j.id # New => costs[j.id] # NoRow
    BY <1>1, Tables DEF Inv, DecisionsHold
  <2>2. DOMAIN costs = CostIds /\ (j.id # New => j.id \in CostIds)
    BY <1>1 DEF Inv, TypeOK
  <2>. QED BY <1>2, <2>1, <2>2 DEF Targets, Unused
<1>4. costs[i] # NoRow => [j.row EXCEPT !.version = costs[i].version + 1] \in Cost
  <2>1. costs[i] = NoRow \/ costs[i] \in Cost
    BY <1>3 DEF Inv, TypeOK
  <2>. QED BY <1>1, <2>1 DEF Cost
<1>5. j.row.payer # NoUser => Purchase(i, j.row) \in Payment
  BY <1>1, <1>3 DEF Cost, Payment, Purchase
<1>6. \A n \in Unused(payments) : n \in PaymentIds /\ payments[n] = NoRow
  BY DEF Unused, Inv, TypeOK
<1>. QED BY <1>1, <1>2, <1>3, <1>4, <1>5, <1>6 DEF Stored, Puts, IsPurchase

-----------------------------------------------------------------------------
\* What somebody owes depends on the one record it comes from.
LEMMA OwedKept ==
  ASSUME Inv, Inv', NEW d, d.source \in Sources,
         d.source \in PaymentIds => payments'[d.source] = payments[d.source],
         d.source \in LoanIds => loans'[d.source] = loans[d.source]
  PROVE  Owed(d)' = Owed(d)
<1>1. \A i \in PaymentIds : i \in Live(payments) <=> payments[i] # NoRow /\ payments[i].live
  BY DEF Live, Inv, TypeOK
<1>2. \A i \in PaymentIds : i \in Live(payments)' <=> payments'[i] # NoRow /\ payments'[i].live
  BY DEF Live, Inv, TypeOK
<1>3. \A i \in LoanIds : i \in Live(loans) <=> loans[i] # NoRow /\ loans[i].live
  BY DEF Live, Inv, TypeOK
<1>4. \A i \in LoanIds : i \in Live(loans)' <=> loans'[i] # NoRow /\ loans'[i].live
  BY DEF Live, Inv, TypeOK
<1>. QED BY <1>1, <1>2, <1>3, <1>4, LedgerAssumption DEF Owed, Sources

\* A debt that is owed has its record.
LEMMA OwedHasSource ==
  ASSUME Inv, NEW d, d.source \in Sources, Owed(d) > 0
  PROVE  /\ d.source \in PaymentIds => payments[d.source] # NoRow
         /\ d.source \in LoanIds => loans[d.source] # NoRow
BY LedgerAssumption DEF Owed, Live, Sources

\* A linked receipt is for a debt of its source.
LEMMA LinkedHasDebt ==
  ASSUME Inv, NEW i \in Live(receipts), Linked(receipts[i])
  PROVE  receipts[i].source \in Sources /\ DebtOf(receipts[i]).source = receipts[i].source
BY LiveAre DEF Inv, Linked, DebtOf, Receipt

LEMMA CostKeepsSources ==
  ASSUME Inv, Inv', SourcesStand, Promised, NEW p \in Procs, WriteCost(p)
  PROVE  SourcesStand'
<1>. DEFINE j == job[p]
<1>1. PICK i \in CostIds, row \in Cost :
           /\ costs' = [costs EXCEPT ![i] = row] /\ Puts(p, costs, i, row)
           /\ \/ payments' = payments
              \/ /\ job[p].id = New /\ Purchase(i, row) \in Payment
                 /\ \E n \in PaymentIds :
                      payments[n] = NoRow /\ payments' = [payments EXCEPT ![n] = Purchase(i, row)]
  BY CostWritten
<1>2. /\ costs \in [CostIds -> Cost \union {NoRow}] /\ payments \in [PaymentIds -> Payment \union {NoRow}]
      /\ UNCHANGED <<loans, receipts>>
  BY DEF WriteCost, Inv, TypeOK
<1>3. CostPromise(j.id, j.row) /\ j.row \in Cost
  BY JobsAre DEF Promised, Promise, WriteCost, Has, Inv, TypeOK
<1>4. row.live = j.row.live /\ row.currency = j.row.currency /\ row # NoRow
  BY <1>1, <1>3, RowsAssumption DEF Cost, Puts
<1>5. ASSUME NEW n \in Live(payments), payments'[n] = payments[n]
      PROVE  LET c == payments'[n].cost
             IN c \in Live(costs)' /\ costs'[c].currency = payments'[n].currency
  <2>1. PICK c : c = payments[n].cost
    OBVIOUS
  <2>2. c \in Live(costs) /\ costs[c].currency = payments[n].currency
    BY <2>1 DEF SourcesStand
  <2>3. CASE c = i
    <3>1. j.id = i /\ i # New
      BY <1>1, <2>2, <2>3, LedgerAssumption DEF Live, Puts
    <3>2. n \in PaymentsOf(i)
      BY <2>1, <2>3 DEF PaymentsOf
    <3>3. row.live /\ row.currency = payments[n].currency
      BY <1>3, <1>4, <3>1, <3>2 DEF CostPromise
    <3>. QED BY <1>1, <1>2, <1>4, <1>5, <2>1, <2>3, <3>3 DEF Live
  <2>4. CASE c # i
    BY <1>1, <1>2, <1>5, <2>1, <2>2, <2>4 DEF Live
  <2>. QED BY <2>3, <2>4
<1>6. ASSUME NEW n \in Live(payments)', payments'[n] # payments[n] \/ n \notin Live(payments)
      PROVE  LET c == payments'[n].cost
             IN c \in Live(costs)' /\ costs'[c].currency = payments'[n].currency
  <2>1. j.id = New /\ payments'[n] = Purchase(i, row)
    BY <1>1, <1>2, <1>6 DEF Live
  <2>2. row.live
    BY <1>3, <1>4, <2>1 DEF CostPromise
  <2>. QED BY <1>1, <1>2, <1>4, <2>1, <2>2 DEF Live, Purchase
<1>7. ASSUME NEW r \in Live(receipts)', Linked(receipts[r])
      PROVE  Owed(DebtOf(receipts[r]))' > 0
  <2>1. PICK d : d = DebtOf(receipts[r])
    OBVIOUS
  <2>2. r \in Live(receipts) /\ d.source \in Sources /\ Owed(d) > 0
    BY <1>2, <1>7, <2>1, LinkedHasDebt DEF Live, SourcesStand
  <2>3. d.source \in PaymentIds => payments'[d.source] = payments[d.source]
    BY <1>1, <1>2, <2>2, OwedHasSource
  <2>4. Owed(d)' = Owed(d)
    BY <1>2, <2>2, <2>3, OwedKept
  <2>. QED BY <1>2, <2>1, <2>2, <2>4 DEF DebtOf
<1>. QED BY <1>2, <1>5, <1>6, <1>7 DEF SourcesStand, Linked

LEMMA PaymentKeepsSources ==
  ASSUME Inv, Inv', SourcesStand, Promised, NEW p \in Procs, WritePayment(p)
  PROVE  SourcesStand'
<1>. DEFINE j == job[p]
<1>1. PICK i \in PaymentIds, row \in Payment :
        payments' = [payments EXCEPT ![i] = row] /\ Puts(p, payments, i, row)
  BY PaymentWritten
<1>2. payments \in [PaymentIds -> Payment \union {NoRow}] /\ UNCHANGED <<costs, loans, receipts>>
  BY DEF WritePayment, Inv, TypeOK
<1>3. PaymentPromise(j.id, j.row) /\ j.row \in Payment
  BY JobsAre DEF Promised, Promise, WritePayment, Has, Inv, TypeOK
<1>4. row.live = j.row.live /\ row.cost = j.row.cost /\ row.currency = j.row.currency
  BY <1>1, <1>3 DEF Payment, Puts
<1>5. ASSUME NEW n \in Live(payments)'
      PROVE  LET c == payments'[n].cost
             IN c \in Live(costs)' /\ costs'[c].currency = payments'[n].currency
  <2>1. CASE n = i
    BY <1>1, <1>2, <1>3, <1>4, <2>1 DEF Live, PaymentPromise
  <2>2. CASE n # i
    <3>1. n \in Live(payments) /\ payments'[n] = payments[n]
      BY <1>1, <1>2, <2>2 DEF Live
    <3>. QED BY <1>2, <3>1 DEF SourcesStand, Live
  <2>. QED BY <2>1, <2>2
<1>6. ASSUME NEW r \in Live(receipts)', Linked(receipts[r])
      PROVE  Owed(DebtOf(receipts[r]))' > 0
  <2>1. PICK d : d = DebtOf(receipts[r])
    OBVIOUS
  <2>2. r \in Live(receipts) /\ d.source = receipts[r].source /\ d.source \in Sources /\ Owed(d) > 0
    BY <1>2, <1>6, <2>1, LinkedHasDebt DEF Live, SourcesStand
  <2>3. d.source # i
    <3>1. CASE j.id = New
      BY <1>1, <2>2, <3>1, OwedHasSource DEF Puts
    <3>2. CASE j.id # New
      BY <1>1, <1>3, <2>2, <3>2 DEF Puts, PaymentPromise, ReceiptsOf
    <3>. QED BY <3>1, <3>2
  <2>4. Owed(d)' = Owed(d)
    BY <1>1, <1>2, <2>2, <2>3, OwedKept
  <2>. QED BY <1>2, <2>1, <2>2, <2>4 DEF DebtOf
<1>. QED BY <1>2, <1>5, <1>6 DEF SourcesStand, Linked

LEMMA LoanKeepsSources ==
  ASSUME Inv, Inv', SourcesStand, Promised, NEW p \in Procs, WriteLoan(p)
  PROVE  SourcesStand'
<1>. DEFINE j == job[p]
<1>1. PICK i \in LoanIds, row \in Loan : loans' = [loans EXCEPT ![i] = row] /\ Puts(p, loans, i, row)
  BY LoanWritten
<1>2. loans \in [LoanIds -> Loan \union {NoRow}] /\ UNCHANGED <<costs, payments, receipts>>
  BY DEF WriteLoan, Inv, TypeOK
<1>3. LoanPromise(j.id, j.row) /\ j.row \in Loan
  BY JobsAre DEF Promised, Promise, WriteLoan, Has, Inv, TypeOK
<1>4. /\ row.live = j.row.live /\ row.amount = j.row.amount /\ row.currency = j.row.currency
      /\ row.from = j.row.from /\ row.to = j.row.to
  BY <1>1, <1>3 DEF Loan, Puts
<1>5. ASSUME NEW r \in Live(receipts)', Linked(receipts[r])
      PROVE  Owed(DebtOf(receipts[r]))' > 0
  <2>1. PICK d : d = DebtOf(receipts[r])
    OBVIOUS
  <2>2. r \in Live(receipts) /\ d.source = receipts[r].source /\ d.source \in Sources /\ Owed(d) > 0
    BY <1>2, <1>5, <2>1, LinkedHasDebt DEF Live, SourcesStand
  <2>3. CASE d.source # i
    <3>1. Owed(d)' = Owed(d)
      BY <1>1, <1>2, <2>2, <2>3, OwedKept
    <3>. QED BY <1>2, <2>1, <2>2, <3>1 DEF DebtOf
  <2>4. CASE d.source = i
    <3>1. j.id = i /\ j.id # New
      BY <1>1, <2>2, <2>4, OwedHasSource DEF Puts
    <3>2. r \in ReceiptsOf(i)
      BY <2>2, <2>4 DEF ReceiptsOf
    <3>3. /\ row.live /\ row.amount > 0 /\ row.currency = loans[i].currency
          /\ row.from = loans[i].from /\ row.to = loans[i].to
      BY <1>3, <1>4, <3>1, <3>2 DEF LoanPromise
    <3>4. d.source \notin PaymentIds
      BY <2>4, LedgerAssumption
    <3>5. loans[i].to = d.from /\ loans[i].from = d.to /\ loans[i].currency = d.currency
      BY <2>2, <2>4, <3>4 DEF Owed
    <3>6. loans'[i] = row /\ i \in Live(loans)'
      BY <1>1, <1>2, <3>3, RowsAssumption DEF Live
    <3>7. Owed(d)' = row.amount
      BY <2>4, <3>3, <3>4, <3>5, <3>6 DEF Owed
    <3>. QED BY <1>2, <2>1, <3>3, <3>7 DEF DebtOf
  <2>. QED BY <2>3, <2>4
<1>. QED BY <1>2, <1>5 DEF SourcesStand, Linked, Live

LEMMA ReceiptKeepsSources ==
  ASSUME Inv, SourcesStand, Promised, NEW p \in Procs, WriteReceipt(p)
  PROVE  SourcesStand'
<1>. DEFINE j == job[p]
<1>1. PICK i \in ReceiptIds, row \in Receipt :
        receipts' = [receipts EXCEPT ![i] = row] /\ Puts(p, receipts, i, row)
  BY ReceiptWritten
<1>2. receipts \in [ReceiptIds -> Receipt \union {NoRow}] /\ UNCHANGED <<costs, payments, loans>>
  BY DEF WriteReceipt, Inv, TypeOK
<1>3. ReceiptPromise(j.row) /\ j.row \in Receipt
  BY JobsAre DEF Promised, Promise, WriteReceipt, Has, Inv, TypeOK
<1>4. row.live = j.row.live /\ row.source = j.row.source /\ DebtOf(row) = DebtOf(j.row)
  BY <1>1, <1>3 DEF Receipt, Puts, DebtOf
<1>5. \A d : Owed(d)' = Owed(d)
  BY <1>2 DEF Owed, Live
<1>6. ASSUME NEW r \in Live(receipts)', Linked(receipts'[r])
      PROVE  Owed(DebtOf(receipts'[r])) > 0
  <2>1. CASE r = i
    BY <1>1, <1>2, <1>3, <1>4, <1>6, <2>1 DEF ReceiptPromise, Linked, Live
  <2>2. CASE r # i
    BY <1>1, <1>2, <1>6, <2>2 DEF SourcesStand, Live
  <2>. QED BY <2>1, <2>2
<1>7. \A r \in Live(receipts)' : Linked(receipts[r])' => Owed(DebtOf(receipts[r]))' > 0
  BY <1>5, <1>6 DEF Linked, DebtOf
<1>. QED BY <1>2, <1>7 DEF SourcesStand, Live

\* Sources stand at the start, and whatever is decided or written.
LEMMA SourcesInitially == Init => SourcesStand /\ Promised
<1>. SUFFICES ASSUME Init PROVE SourcesStand /\ Promised
  OBVIOUS
<1>1. Live(payments) = {}
  BY DEF Init, Live
<1>2. \A i \in Live(receipts) : ~Linked(receipts[i])
  <2>1. PICK old \in [Legacy -> LegacyReceipt] :
          receipts = [i \in ReceiptIds |-> IF i \in Legacy THEN old[i] ELSE NoRow]
    BY DEF Init
  <2>2. \A r \in LegacyReceipt : r.source = NoSource
    BY DEF LegacyReceipt
  <2>. QED BY <2>1, <2>2 DEF Live, Linked
<1>3. Promised
  BY DEF Init, Promised
<1>. QED BY <1>1, <1>2, <1>3 DEF SourcesStand

\* Deciding writes nothing.
LEMMA StartsKeepBooks ==
  ASSUME NEW p \in Procs, Start(p)
  PROVE  UNCHANGED books
<1>1. CASE CreateCost(p) BY <1>1 DEF CreateCost, Insert, Decide
<1>2. CASE UpdateCost(p) BY <1>2 DEF UpdateCost, Changeable, Change, Decide
<1>3. CASE DeleteCost(p) BY <1>3 DEF DeleteCost, Changeable, Remove, Change, Decide
<1>4. CASE CreatePayment(p) BY <1>4 DEF CreatePayment, Insert, Decide
<1>5. CASE UpdatePayment(p) BY <1>5 DEF UpdatePayment, Changeable, Change, Decide
<1>6. CASE DeletePayment(p) BY <1>6 DEF DeletePayment, Changeable, Remove, Change, Decide
<1>7. CASE CreateLoan(p) BY <1>7 DEF CreateLoan, Insert, Decide
<1>8. CASE UpdateLoan(p) BY <1>8 DEF UpdateLoan, Changeable, Change, Decide
<1>9. CASE DeleteLoan(p) BY <1>9 DEF DeleteLoan, Changeable, Remove, Change, Decide
<1>10. CASE CreateReceipt(p) BY <1>10 DEF CreateReceipt, Insert, Decide
<1>11. CASE UpdateReceipt(p) BY <1>11 DEF UpdateReceipt, Changeable, Change, Decide
<1>12. CASE DeleteReceipt(p) BY <1>12 DEF DeleteReceipt, Changeable, Remove, Change, Decide
<1>. QED BY <1>1, <1>2, <1>3, <1>4, <1>5, <1>6, <1>7, <1>8, <1>9, <1>10, <1>11, <1>12 DEF Start

\* A request that decides is the only one that has.
LEMMA DecisionAlone ==
  ASSUME Inv, Inv', NEW p \in Procs, NEW j, Decide(p, j)
  PROVE  /\ \A q \in Procs : job'[q] # NoJob => job'[q] = j
         /\ UNCHANGED <<costs, payments, loans, receipts>>
<1>1. \A q \in Procs : job'[q] # NoJob => q = p
  BY DEF Inv, DecisionsHold, Decide
<1>. QED BY <1>1 DEF Decide, Inv, TypeOK, books

LEMMA SourcesInductive ==
  Inv /\ Inv' /\ SourcesStand /\ Promised /\ [Next]_vars => SourcesStand' /\ Promised'
<1>. SUFFICES ASSUME Inv, Inv', SourcesStand, Promised, [Next]_vars
              PROVE  SourcesStand' /\ Promised'
  OBVIOUS
<1>1. ASSUME UNCHANGED books PROVE SourcesStand'
  BY <1>1 DEF books, SourcesStand, Live, Owed, DebtOf, Linked
<1>2. ASSUME NEW p \in Procs, Start(p) PROVE SourcesStand' /\ Promised'
  <2>1. Promised'
    BY <1>2, CostsPromise, PaymentsPromise, LoansPromise, ReceiptsPromise DEF Start
  <2>. QED BY <1>1, <1>2, <2>1, StartsKeepBooks
<1>3. ASSUME NEW p \in Procs, job[p] # NoJob, Release(p) PROVE Promised'
  BY <1>3, Ending DEF Promised
<1>4. ASSUME NEW p \in Procs, Write(p) PROVE SourcesStand' /\ Promised'
  <2>1. SourcesStand'
    BY <1>4, CostKeepsSources, PaymentKeepsSources, LoanKeepsSources, ReceiptKeepsSources DEF Write
  <2>2. job[p] # NoJob /\ Release(p)
    BY <1>4 DEF Write, WriteCost, WritePayment, WriteLoan, WriteReceipt, Has
  <2>. QED BY <1>3, <2>1, <2>2
<1>5. ASSUME NEW p \in Procs, Abort(p) PROVE SourcesStand' /\ Promised'
  BY <1>1, <1>3, <1>5 DEF Abort
<1>6. CASE UNCHANGED <<books, job>>
  <2>1. \A kind, id, row : Promise(kind, id, row)' = Promise(kind, id, row)
    BY <1>6 DEF books, Promise, CostPromise, PaymentPromise, LoanPromise, ReceiptPromise,
                PaymentsOf, ReceiptsOf, Live, Owed
  <2>2. Promised'
    BY <1>6, <2>1 DEF Promised
  <2>. QED BY <1>1, <1>6, <2>2
<1>. QED BY <1>2, <1>4, <1>5, <1>6 DEF Next, ChangeStanding, vars

\* However edits, corrections, repayments and deletions are ordered, a payment
\* keeps its cost and a linked receipt the debt that it repays.
THEOREM SourcesAlwaysStand == Spec => []SourcesStand
<1>. QED BY Invariance, SourcesInitially, SourcesInductive, PTL DEF Spec

-----------------------------------------------------------------------------
(***************************************************************************)
(* Totals: what fitted when it was decided still fits when it is written,  *)
(* since the tables stand still under the lock.                            *)
(***************************************************************************)
TotalsPromised == \A p \in Procs : job[p] # NoJob => Fits(job[p])

\* Totals depend on the tables alone.
LEMMA TotalsKept ==
  ASSUME UNCHANGED <<costs, payments, loans, receipts>>
  PROVE  SumsFit' = SumsFit /\ \A j : Fits(j)' = Fits(j)
BY DEF SumsFit, TotalsFit, BalanceOf, Fits, Targets, Unused, Stored, PaymentsWith, Live, Total

LEMMA DecisionFits ==
  ASSUME Inv, Inv', NEW p \in Procs, NEW j, Decide(p, j)
  PROVE  TotalsPromised'
BY DecisionAlone, TotalsKept DEF TotalsPromised, Decide

LEMMA InsertFits ==
  ASSUME Inv, Inv', NEW p \in Procs, NEW kind, NEW table, NEW row, Insert(p, kind, table, row)
  PROVE  TotalsPromised'
BY DecisionFits DEF Insert

LEMMA ChangeFits ==
  ASSUME Inv, Inv', NEW p \in Procs, NEW u, NEW kind, NEW table, NEW i, NEW row,
         Change(p, u, kind, table, i, row)
  PROVE  TotalsPromised'
BY DecisionFits DEF Change

LEMMA StartsFit ==
  ASSUME Inv, Inv', NEW p \in Procs, Start(p)
  PROVE  TotalsPromised'
<1>1. CASE CreateCost(p) BY <1>1, InsertFits DEF CreateCost
<1>2. CASE UpdateCost(p) BY <1>2, ChangeFits DEF UpdateCost, Changeable
<1>3. CASE DeleteCost(p) BY <1>3, ChangeFits DEF DeleteCost, Changeable, Remove
<1>4. CASE CreatePayment(p) BY <1>4, InsertFits DEF CreatePayment
<1>5. CASE UpdatePayment(p) BY <1>5, ChangeFits DEF UpdatePayment, Changeable
<1>6. CASE DeletePayment(p) BY <1>6, ChangeFits DEF DeletePayment, Changeable, Remove
<1>7. CASE CreateLoan(p) BY <1>7, InsertFits DEF CreateLoan
<1>8. CASE UpdateLoan(p) BY <1>8, ChangeFits DEF UpdateLoan, Changeable
<1>9. CASE DeleteLoan(p) BY <1>9, ChangeFits DEF DeleteLoan, Changeable, Remove
<1>10. CASE CreateReceipt(p) BY <1>10, InsertFits DEF CreateReceipt
<1>11. CASE UpdateReceipt(p) BY <1>11, ChangeFits DEF UpdateReceipt, Changeable
<1>12. CASE DeleteReceipt(p) BY <1>12, ChangeFits DEF DeleteReceipt, Changeable, Remove
<1>. QED BY <1>1, <1>2, <1>3, <1>4, <1>5, <1>6, <1>7, <1>8, <1>9, <1>10, <1>11, <1>12 DEF Start

\* Whatever id a write takes, it leaves tables whose totals were seen to fit.
LEMMA WritesFit ==
  ASSUME TotalsPromised, NEW p \in Procs, Write(p)
  PROVE  SumsFit'
<1>1. Fits(job[p])
  BY DEF TotalsPromised, Write, WriteCost, WritePayment, WriteLoan, WriteReceipt, Has
<1>2. CASE WriteCost(p)
  <2>1. PICK i \in Targets(job[p], costs) :
          costs' = Stored(job[p], costs, i) /\ payments' \in PaymentsWith(job[p], i)
    BY <1>2 DEF WriteCost
  <2>2. TotalsFit(costs', payments', loans, receipts)
    BY <1>1, <1>2, <2>1 DEF Fits, WriteCost, Has
  <2>. QED BY <1>2, <2>2 DEF WriteCost, SumsFit, TotalsFit
<1>3. CASE WritePayment(p)
  <2>1. TotalsFit(costs, payments', loans, receipts)
    BY <1>1, <1>3 DEF Fits, WritePayment, Has
  <2>. QED BY <1>3, <2>1 DEF WritePayment, SumsFit
<1>4. CASE WriteLoan(p)
  <2>1. TotalsFit(costs, payments, loans', receipts)
    BY <1>1, <1>4 DEF Fits, WriteLoan, Has
  <2>. QED BY <1>4, <2>1 DEF WriteLoan, SumsFit
<1>5. CASE WriteReceipt(p)
  <2>1. TotalsFit(costs, payments, loans, receipts')
    BY <1>1, <1>5 DEF Fits, WriteReceipt, Has
  <2>. QED BY <1>5, <2>1 DEF WriteReceipt, SumsFit
<1>. QED BY <1>2, <1>3, <1>4, <1>5 DEF Write

LEMMA TotalsInductive ==
  Inv /\ Inv' /\ SumsFit /\ TotalsPromised /\ [Next]_vars => SumsFit' /\ TotalsPromised'
<1>. SUFFICES ASSUME Inv, Inv', SumsFit, TotalsPromised, [Next]_vars
              PROVE  SumsFit' /\ TotalsPromised'
  OBVIOUS
<1>1. ASSUME NEW p \in Procs, Start(p) PROVE SumsFit' /\ TotalsPromised'
  BY <1>1, StartsKeepBooks, StartsFit, TotalsKept DEF books
<1>2. ASSUME NEW p \in Procs, job[p] # NoJob, Release(p) PROVE TotalsPromised'
  BY <1>2, Ending DEF TotalsPromised
<1>3. ASSUME NEW p \in Procs, Write(p) PROVE SumsFit' /\ TotalsPromised'
  <2>1. job[p] # NoJob /\ Release(p)
    BY <1>3 DEF Write, WriteCost, WritePayment, WriteLoan, WriteReceipt, Has
  <2>. QED BY <1>2, <1>3, <2>1, WritesFit
<1>4. ASSUME NEW p \in Procs, Abort(p) PROVE SumsFit' /\ TotalsPromised'
  BY <1>2, <1>4, TotalsKept DEF Abort, books
<1>5. CASE UNCHANGED <<books, job>>
  BY <1>5, TotalsKept DEF books, TotalsPromised
<1>. QED BY <1>1, <1>3, <1>4, <1>5 DEF Next, ChangeStanding, vars

\* No two writes, each of which fits by itself, leave a total or a balance that the
\* integers do not hold.
THEOREM TotalsAlwaysFit == Spec => []SumsFit
<1>1. Init => SumsFit /\ TotalsPromised
  BY DEF Init, SumsFit, TotalsPromised
<1>. QED BY <1>1, Invariance, TotalsInductive, PTL DEF Spec

-----------------------------------------------------------------------------
(***************************************************************************)
(* Histories: a receipt that is to be stored is a first version, or one    *)
(* over a receipt that is not reversed yet.                                *)
(***************************************************************************)
ReceiptNext(id, row) ==
  IF id = New THEN row.live /\ row.version = 1 ELSE id \in Live(receipts)

ReceiptsNext == \A p \in Procs : Has(p, "receipt") => ReceiptNext(job[p].id, job[p].row)

VersionsCount ==
  \A i \in ReceiptIds : IF receipts[i] = NoRow THEN i \notin Legacy ELSE receipts[i].version >= 1

DecisionNext(j) == j.kind = "receipt" => ReceiptNext(j.id, j.row)

LEMMA DecisionsNext ==
  ASSUME Inv, Inv', NEW p \in Procs, NEW j, Decide(p, j), DecisionNext(j)
  PROVE  ReceiptsNext'
<1>1. \A q \in Procs : job'[q] # NoJob => q = p
  BY DEF Inv, DecisionsHold, Decide
<1>2. job'[p] = j
  BY DEF Inv, TypeOK, Decide
<1>3. \A id, row : ReceiptNext(id, row)' = ReceiptNext(id, row)
  BY DEF ReceiptNext, Live, Decide, books
<1>. QED BY <1>1, <1>2, <1>3 DEF ReceiptsNext, Has, DecisionNext

LEMMA InsertNext ==
  ASSUME Inv, Inv', NEW p \in Procs, NEW kind, NEW table, NEW row,
         Insert(p, kind, table, row), kind = "receipt" => row.live /\ row.version = 1
  PROVE  ReceiptsNext'
BY DecisionsNext DEF Insert, DecisionNext, ReceiptNext

LEMMA ChangeNext ==
  ASSUME Inv, Inv', NEW p \in Procs, NEW u, NEW kind, NEW table, NEW i, NEW row,
         Change(p, u, kind, table, i, row), kind = "receipt" => i \in Live(receipts)
  PROVE  ReceiptsNext'
<1>1. i \in Live(receipts) => i # New
  BY LiveAre DEF Inv
<1>. QED BY <1>1, DecisionsNext DEF Change, DecisionNext, ReceiptNext

LEMMA StartsNext ==
  ASSUME Inv, Inv', NEW p \in Procs, Start(p)
  PROVE  ReceiptsNext'
<1>1. CASE CreateCost(p) BY <1>1, InsertNext DEF CreateCost
<1>2. CASE UpdateCost(p) BY <1>2, ChangeNext DEF UpdateCost, Changeable
<1>3. CASE DeleteCost(p) BY <1>3, ChangeNext DEF DeleteCost, Changeable, Remove
<1>4. CASE CreatePayment(p) BY <1>4, InsertNext DEF CreatePayment
<1>5. CASE UpdatePayment(p) BY <1>5, ChangeNext DEF UpdatePayment, Changeable
<1>6. CASE DeletePayment(p) BY <1>6, ChangeNext DEF DeletePayment, Changeable, Remove
<1>7. CASE CreateLoan(p) BY <1>7, InsertNext DEF CreateLoan
<1>8. CASE UpdateLoan(p) BY <1>8, ChangeNext DEF UpdateLoan, Changeable
<1>9. CASE DeleteLoan(p) BY <1>9, ChangeNext DEF DeleteLoan, Changeable, Remove
<1>10. CASE CreateReceipt(p) BY <1>10, InsertNext DEF CreateReceipt
<1>11. CASE UpdateReceipt(p) BY <1>11, ChangeNext DEF UpdateReceipt, Changeable
<1>12. CASE DeleteReceipt(p) BY <1>12, ChangeNext DEF DeleteReceipt, Changeable, Remove
<1>. QED BY <1>1, <1>2, <1>3, <1>4, <1>5, <1>6, <1>7, <1>8, <1>9, <1>10, <1>11, <1>12 DEF Start

LEMMA Appended ==
  ASSUME NEW T, NEW h \in Seq(T), NEW e \in T
  PROVE  /\ Len(Append(h, e)) = Len(h) + 1 /\ DOMAIN Append(h, e) = 1 .. Len(h) + 1
         /\ \A n \in 1 .. Len(h) : Append(h, e)[n] = h[n]
         /\ Append(h, e)[Len(h) + 1] = e
OBVIOUS

LEMMA ReceiptTold ==
  ASSUME Inv, HistoryTellsAll, ReceiptsNext, VersionsCount, NEW p \in Procs, WriteReceipt(p)
  PROVE  HistoryTellsAll' /\ VersionsCount'
<1>. DEFINE j == job[p]
            entry(i) == [action |-> ActionOf(p, i), by |-> j.actor]
<1>1. PICK i \in ReceiptIds, row \in Receipt :
        /\ receipts' = [receipts EXCEPT ![i] = row]
        /\ history' = [history EXCEPT ![i] = Append(@, entry(i))]
        /\ Puts(p, receipts, i, row)
  BY ReceiptWritten
<1>. DEFINE h == history[i]
            e == entry(i)
<1>2. /\ receipts \in [ReceiptIds -> Receipt \union {NoRow}] /\ history \in [ReceiptIds -> Seq(Entry)]
      /\ row # NoRow /\ j.row \in Receipt
  BY JobsAre, RowsAssumption DEF WriteReceipt, Has, Inv, TypeOK
<1>3. row.live = j.row.live /\ e.action = ActionOf(p, i)
  BY <1>1, <1>2 DEF Puts, Receipt
<1>4. /\ history'[i] = Append(h, e) /\ h \in Seq(Entry) /\ Len(h) \in Nat
      /\ receipts'[i] = row
  BY <1>1, <1>2
<1>5. /\ Len(history'[i]) = Len(h) + 1 /\ DOMAIN history'[i] = 1 .. Len(h) + 1
      /\ \A n \in 1 .. Len(h) : history'[i][n] = h[n]
      /\ history'[i][Len(h) + 1] = e
  <2>1. e \in Entry
    BY JobsAre DEF WriteReceipt, Has, Inv, TypeOK, ActionOf, Entry
  <2>. HIDE DEF e, h
  <2>. QED BY <1>4, <2>1, Appended
<1>6. DOMAIN h = 1 .. Len(h)
  BY <1>4
<1>7. CASE j.id = New
  <2>1. receipts[i] = NoRow /\ row = j.row /\ row.live /\ row.version = 1 /\ e.action = "received"
    BY <1>1, <1>3, <1>7 DEF Puts, ReceiptsNext, ReceiptNext, WriteReceipt, ActionOf
  <2>2. i \notin Legacy /\ h = <<>>
    BY <2>1 DEF VersionsCount, HistoryTellsAll
  <2>. HIDE DEF e, h, entry
  <2>3. Len(h) = 0
    BY <2>2
  <2>4. ASSUME NEW n \in DOMAIN history'[i] PROVE n = 1 /\ history'[i][n] = e
    BY <1>5, <2>3, <2>4
  <2>. QED BY <1>1, <1>2, <1>4, <1>5, <2>1, <2>2, <2>3, <2>4 DEF HistoryTellsAll, VersionsCount
<1>8. CASE j.id # New
  <2>1. j.id = i /\ receipts[i] # NoRow /\ row.version = receipts[i].version + 1
    BY <1>1, <1>2, <1>8 DEF Puts, Receipt
  <2>2. receipts[i].live
    BY <1>8, <2>1 DEF ReceiptsNext, ReceiptNext, WriteReceipt, Live
  <2>3. e.action # "received" /\ (e.action = "reversed" <=> ~row.live)
    BY <1>3, <1>8 DEF ActionOf
  <2>4. receipts[i].version \in Nat /\ receipts[i].version >= 1
    BY <1>2, <2>1 DEF VersionsCount, Receipt
  <2>5. /\ Len(h) = receipts[i].version - (IF i \in Legacy THEN 1 ELSE 0)
        /\ \A n \in DOMAIN h :
             /\ h[n].action = "received" <=> n = 1 /\ i \notin Legacy
             /\ h[n].action # "reversed"
    BY <2>1, <2>2 DEF HistoryTellsAll
  <2>. HIDE DEF e, h, entry
  <2>6. Len(history'[i]) = row.version - (IF i \in Legacy THEN 1 ELSE 0)
    BY <1>4, <1>5, <2>1, <2>4, <2>5
  <2>7. ASSUME NEW n \in DOMAIN history'[i]
        PROVE  /\ history'[i][n].action = "received" <=> n = 1 /\ i \notin Legacy
               /\ history'[i][n].action = "reversed" <=> n = Len(history'[i]) /\ ~row.live
    <3>1. CASE n \in 1 .. Len(h)
      BY <1>4, <1>5, <1>6, <2>5, <3>1
    <3>2. CASE n = Len(h) + 1
      BY <1>4, <1>5, <2>3, <2>4, <2>5, <3>2
    <3>. QED BY <1>4, <1>5, <3>1, <3>2
  <2>. QED BY <1>1, <1>2, <1>4, <2>1, <2>4, <2>6, <2>7 DEF HistoryTellsAll, VersionsCount
<1>. QED BY <1>7, <1>8

LEMMA HistoryInitially == Init => HistoryTellsAll /\ VersionsCount /\ ReceiptsNext
<1>. SUFFICES ASSUME Init PROVE HistoryTellsAll /\ VersionsCount
  BY DEF Init, ReceiptsNext, Has
<1>1. PICK old \in [Legacy -> LegacyReceipt] :
        receipts = [i \in ReceiptIds |-> IF i \in Legacy THEN old[i] ELSE NoRow]
  BY DEF Init
<1>2. \A i \in Legacy : receipts[i].version = 1 /\ receipts[i].live /\ receipts[i] # NoRow
  <2>1. \A r \in LegacyReceipt : r.version = 1 /\ r.live
    BY DEF LegacyReceipt
  <2>2. \A i \in Legacy : receipts[i] = old[i]
    BY <1>1, LedgerAssumption
  <2>3. LegacyReceipt \subseteq Receipt
    BY LegacyReceiptsAre
  <2>. QED BY <2>1, <2>2, <2>3, RowsAssumption
<1>3. \A i \in ReceiptIds : history[i] = <<>> /\ (i \notin Legacy => receipts[i] = NoRow)
  BY <1>1 DEF Init
<1>. QED BY <1>2, <1>3 DEF HistoryTellsAll, VersionsCount

LEMMA HistoryInductive ==
  Inv /\ Inv' /\ HistoryTellsAll /\ VersionsCount /\ ReceiptsNext /\ [Next]_vars
  => HistoryTellsAll' /\ VersionsCount' /\ ReceiptsNext'
<1>. SUFFICES ASSUME Inv, Inv', HistoryTellsAll, VersionsCount, ReceiptsNext, [Next]_vars
              PROVE  HistoryTellsAll' /\ VersionsCount' /\ ReceiptsNext'
  OBVIOUS
<1>1. ASSUME UNCHANGED <<receipts, history>> PROVE HistoryTellsAll' /\ VersionsCount'
  BY <1>1 DEF HistoryTellsAll, VersionsCount
<1>2. ASSUME NEW p \in Procs, Start(p) PROVE HistoryTellsAll' /\ VersionsCount' /\ ReceiptsNext'
  BY <1>1, <1>2, StartsNext, StartsKeepBooks DEF books
<1>3. ASSUME NEW p \in Procs, job[p] # NoJob, Release(p) PROVE ReceiptsNext'
  BY <1>3, Ending DEF ReceiptsNext, Has
<1>4. ASSUME NEW p \in Procs, Write(p) PROVE HistoryTellsAll' /\ VersionsCount' /\ ReceiptsNext'
  <2>1. HistoryTellsAll' /\ VersionsCount'
    BY <1>1, <1>4, ReceiptTold DEF Write, WriteCost, WritePayment, WriteLoan
  <2>2. job[p] # NoJob /\ Release(p)
    BY <1>4 DEF Write, WriteCost, WritePayment, WriteLoan, WriteReceipt, Has
  <2>. QED BY <1>3, <2>1, <2>2
<1>5. ASSUME NEW p \in Procs, Abort(p) PROVE HistoryTellsAll' /\ VersionsCount' /\ ReceiptsNext'
  BY <1>1, <1>3, <1>5 DEF Abort, books
<1>6. CASE UNCHANGED <<books, job>>
  BY <1>1, <1>6 DEF books, ReceiptsNext, ReceiptNext, Has, Live
<1>. QED BY <1>2, <1>4, <1>5, <1>6 DEF Next, ChangeStanding, vars

\* The history of a receipt has an entry for every version stored: the first
\* says that it was received, and only a last one that it was reversed.
THEOREM HistoryAlwaysTellsAll == Spec => []HistoryTellsAll
<1>. QED BY Invariance, HistoryInitially, HistoryInductive, PTL DEF Spec

-----------------------------------------------------------------------------
(***************************************************************************)
(* Sums of records.                                                        *)
(***************************************************************************)
LEMMA Sums ==
  ASSUME NEW f
  PROVE  Sum(f) = SumFunctionOnSet(f, DOMAIN f)
<1>1. SumFunction(f) = SumFunctionOnSet(f, DOMAIN f)
  BY DEF SumFunction
<1>. QED BY <1>1, SumNone DEF Sum

LEMMA Finite ==
  /\ IsFiniteSet(Users) /\ IsFiniteSet(Currencies)
  /\ \A S : S \subseteq Users \/ S \subseteq CostIds \/ S \subseteq PaymentIds \/ S \subseteq LoanIds
            \/ S \subseteq ReceiptIds => IsFiniteSet(S)
<1>1. \A T \in {Users, Currencies, CostIds, PaymentIds, LoanIds, ReceiptIds} : IsFiniteSet(T)
  BY LedgerAssumption
<1>2. \A T \in {Users, Currencies, CostIds, PaymentIds, LoanIds, ReceiptIds} :
        \A S : S \subseteq T => IsFiniteSet(S)
  BY <1>1, FS_Subset
<1>. QED BY <1>1, <1>2

LEMMA AmountsAre == Amounts \subseteq Nat
BY LedgerAssumption DEF Amounts

LEMMA TotalNat ==
  ASSUME NEW s \in [Users -> Amounts]
  PROVE  Total(s) \in Nat /\ Total(s) = SumFunctionOnSet(s, Users)
<1>1. Total(s) = SumFunctionOnSet(s, Users)
  BY Sums DEF Total
<1>2. IsFiniteSet(Users) /\ \A u \in Users : s[u] \in Nat
  BY Finite, AmountsAre
<1>. QED BY <1>1, <1>2, SumNat

-----------------------------------------------------------------------------
(***************************************************************************)
(* Payments never cover more than their cost.                              *)
(***************************************************************************)
LEMMA PaymentsAre ==
  ASSUME Inv, NEW S \in SUBSET Live(payments)
  PROVE  /\ IsFiniteSet(S) /\ S \subseteq PaymentIds
         /\ \A i \in S : payments[i].covers \in [Users -> Amounts] /\ Total(payments[i].covers) \in Nat
<1>1. \A i \in S : i \in PaymentIds /\ payments[i] \in Payment
  BY LiveAre DEF Inv
<1>2. \A i \in S : payments[i].covers \in [Users -> Amounts]
  BY <1>1 DEF Payment
<1>3. IsFiniteSet(S)
  BY <1>1, Finite
<1>. QED BY <1>1, <1>2, <1>3, TotalNat

LEMMA FundedIs ==
  ASSUME Inv, NEW S \in SUBSET Live(payments)
  PROVE  /\ Funded(S) = SumFunctionOnSet([i \in S |-> Total(payments[i].covers)], S)
         /\ Funded(S) \in Nat
<1>. DEFINE f == [i \in S |-> Total(payments[i].covers)]
<1>1. Funded(S) = SumFunctionOnSet(f, S)
  BY Sums DEF Funded
<1>2. IsFiniteSet(S) /\ \A i \in S : f[i] \in Nat
  BY PaymentsAre
<1>. HIDE DEF f
<1>3. SumFunctionOnSet(f, S) \in Nat
  BY <1>2, SumNat
<1>. QED BY <1>1, <1>3 DEF f

\* A live payment written to i adds what it covers to what the others do.
LEMMA FundedWritten ==
  ASSUME Inv, Inv', NEW i \in PaymentIds, NEW row \in Payment, row.live,
         payments' = [payments EXCEPT ![i] = row]
  PROVE  Funded(PaymentsOf(row.cost))' = Funded(PaymentsOf(row.cost) \ {i}) + Total(row.covers)
<1>1. PICK S : S = PaymentsOf(row.cost) \ {i}
  OBVIOUS
<1>. DEFINE T == S \union {i}
            f == [n \in S |-> Total(payments[n].covers)]
            g == [n \in T |-> Total(payments'[n].covers)]
<1>2. S \subseteq Live(payments) /\ i \notin S
  BY <1>1 DEF PaymentsOf
<1>3. payments'[i] = row /\ \A n \in S : payments'[n] = payments[n]
  BY <1>2, LiveAre DEF Inv, TypeOK
<1>4. PaymentsOf(row.cost)' = T
  <2>1. payments \in [PaymentIds -> Payment \union {NoRow}] /\ row # NoRow
    BY RowsAssumption DEF Inv, TypeOK
  <2>. QED BY <1>1, <2>1 DEF PaymentsOf, Live
<1>5. Funded(PaymentsOf(row.cost))' = SumFunctionOnSet(g, T)
  BY <1>4, Sums DEF Funded
<1>6. g[i] = Total(row.covers) /\ g[i] \in Int
  <2>1. row.covers \in [Users -> Amounts]
    BY DEF Payment
  <2>. QED BY <1>3, <2>1, TotalNat
<1>7. IsFiniteSet(S) /\ \A n \in S : f[n] = g[n] /\ f[n] \in Int
  <2>1. IsFiniteSet(S) /\ \A n \in S : Total(payments[n].covers) \in Nat
    BY <1>2, PaymentsAre
  <2>. QED BY <1>3, <2>1
<1>8. Funded(S) = SumFunctionOnSet(f, S) /\ Funded(S) \in Nat
  BY <1>2, FundedIs
<1>. HIDE DEF f, g
<1>9. SumFunctionOnSet(g, T) = g[i] + SumFunctionOnSet(g, S)
  BY <1>2, <1>6, <1>7, SumAdd
<1>10. SumFunctionOnSet(f, S) = SumFunctionOnSet(g, S)
  BY <1>7, SumSame
<1>. QED BY <1>1, <1>5, <1>6, <1>8, <1>9, <1>10

\* What a request has decided of a payment fits into its cost.
CoverPromise(id, row) ==
  row.live => Total(row.covers) <= Total(costs[row.cost].shares) - Funded(PaymentsOf(row.cost) \ {id})

CoversPromised == \A p \in Procs : Has(p, "payment") => CoverPromise(job[p].id, job[p].row)

LEMMA CoverPromiseKept ==
  ASSUME UNCHANGED <<costs, payments>>
  PROVE  \A id, row : CoverPromise(id, row)' = CoverPromise(id, row)
BY DEF CoverPromise, Funded, PaymentsOf, Live, Total

LEMMA DecisionCovers ==
  ASSUME Inv, Inv', NEW p \in Procs, NEW j, Decide(p, j),
         j.kind = "payment" => CoverPromise(j.id, j.row)
  PROVE  CoversPromised'
BY DecisionAlone, CoverPromiseKept DEF CoversPromised, Has

LEMMA InsertCovers ==
  ASSUME Inv, Inv', NEW p \in Procs, NEW kind, NEW table, NEW row,
         Insert(p, kind, table, row), kind = "payment" => CoverPromise(New, row)
  PROVE  CoversPromised'
BY DecisionCovers DEF Insert

LEMMA ChangeCovers ==
  ASSUME Inv, Inv', NEW p \in Procs, NEW u, NEW kind, NEW table, NEW i, NEW row,
         Change(p, u, kind, table, i, row), kind = "payment" => CoverPromise(i, row)
  PROVE  CoversPromised'
BY DecisionCovers DEF Change

LEMMA StartsCover ==
  ASSUME Inv, Inv', NEW p \in Procs, Start(p)
  PROVE  CoversPromised'
<1>1. CASE CreateCost(p) BY <1>1, InsertCovers DEF CreateCost
<1>2. CASE UpdateCost(p) BY <1>2, ChangeCovers DEF UpdateCost, Changeable
<1>3. CASE DeleteCost(p) BY <1>3, ChangeCovers DEF DeleteCost, Changeable, Remove
<1>4. CASE CreatePayment(p)
  <2>1. PICK u \in Users, k \in Keys, c \in Live(costs), payer \in Participants, s \in Splits :
          /\ Covers(s, c, New)
          /\ Insert(p, "payment", payments,
                    [by |-> u, key |-> k, cost |-> c, payer |-> payer, currency |-> costs[c].currency,
                     covers |-> s, version |-> 1, live |-> TRUE])
    BY <1>4 DEF CreatePayment
  <2>2. CoverPromise(New, [by |-> u, key |-> k, cost |-> c, payer |-> payer,
                           currency |-> costs[c].currency, covers |-> s, version |-> 1, live |-> TRUE])
    BY <2>1 DEF CoverPromise, Covers
  <2>. QED BY <2>1, <2>2, InsertCovers
<1>5. CASE UpdatePayment(p)
  <2>1. PICK u \in Users, i \in Live(payments), s \in Splits :
          /\ Covers(s, payments[i].cost, i)
          /\ Change(p, u, "payment", payments, i, [payments[i] EXCEPT !.covers = s])
    BY <1>5 DEF UpdatePayment, Changeable
  <2>. DEFINE row == [payments[i] EXCEPT !.covers = s]
  <2>2. row.covers = s /\ row.cost = payments[i].cost
    BY LiveAre DEF Inv, Payment
  <2>3. CoverPromise(i, row)
    BY <2>1, <2>2 DEF CoverPromise, Covers
  <2>. QED BY <2>1, <2>3, ChangeCovers
<1>6. CASE DeletePayment(p)
  <2>1. PICK u \in Users, i \in Live(payments) : Remove(p, u, "payment", payments, i)
    BY <1>6 DEF DeletePayment, Changeable
  <2>. DEFINE row == [payments[i] EXCEPT !.live = FALSE]
  <2>2. ~row.live
    BY LiveAre DEF Inv, Payment
  <2>3. CoverPromise(i, row)
    BY <2>2 DEF CoverPromise
  <2>. QED BY <2>1, <2>3, ChangeCovers DEF Remove
<1>7. CASE CreateLoan(p) BY <1>7, InsertCovers DEF CreateLoan
<1>8. CASE UpdateLoan(p) BY <1>8, ChangeCovers DEF UpdateLoan, Changeable
<1>9. CASE DeleteLoan(p) BY <1>9, ChangeCovers DEF DeleteLoan, Changeable, Remove
<1>10. CASE CreateReceipt(p) BY <1>10, InsertCovers DEF CreateReceipt
<1>11. CASE UpdateReceipt(p) BY <1>11, ChangeCovers DEF UpdateReceipt, Changeable
<1>12. CASE DeleteReceipt(p) BY <1>12, ChangeCovers DEF DeleteReceipt, Changeable, Remove
<1>. QED BY <1>1, <1>2, <1>3, <1>4, <1>5, <1>6, <1>7, <1>8, <1>9, <1>10, <1>11, <1>12 DEF Start

LEMMA CoversInductive ==
  Inv /\ Inv' /\ CoversPromised /\ [Next]_vars => CoversPromised'
<1>. SUFFICES ASSUME Inv, Inv', CoversPromised, [Next]_vars PROVE CoversPromised'
  OBVIOUS
<1>1. ASSUME NEW p \in Procs, Start(p) PROVE CoversPromised'
  BY <1>1, StartsCover
<1>2. ASSUME NEW p \in Procs, job[p] # NoJob, Release(p) PROVE CoversPromised'
  BY <1>2, Ending DEF CoversPromised, Has
<1>3. ASSUME NEW p \in Procs, Write(p) PROVE CoversPromised'
  BY <1>2, <1>3 DEF Write, WriteCost, WritePayment, WriteLoan, WriteReceipt, Has
<1>4. CASE UNCHANGED <<books, job>>
  BY <1>4, CoverPromiseKept DEF books, CoversPromised, Has
<1>. QED BY <1>1, <1>2, <1>3, <1>4 DEF Next, Abort, ChangeStanding, vars

PaidWithin ==
  \A i \in PaymentIds :
    payments'[i] # payments[i] /\ payments'[i].live
    => (Funded(PaymentsOf(payments[i].cost)) <= Total(costs[payments[i].cost].shares))'

LEMMA PaymentPaidWithin ==
  ASSUME Inv, Inv', Promised, CoversPromised, NEW p \in Procs, WritePayment(p)
  PROVE  PaidWithin
<1>. DEFINE j == job[p]
<1>1. PICK i \in PaymentIds, row \in Payment :
        payments' = [payments EXCEPT ![i] = row] /\ Puts(p, payments, i, row)
  BY PaymentWritten
<1>2. SUFFICES ASSUME row.live
               PROVE  (Funded(PaymentsOf(payments[i].cost)) <= Total(costs[payments[i].cost].shares))'
  BY <1>1 DEF PaidWithin, Inv, TypeOK
<1>3. payments'[i] = row /\ costs' = costs
  BY <1>1 DEF Inv, TypeOK, WritePayment
<1>4. CoverPromise(j.id, j.row) /\ j.row \in Payment
  BY JobsAre DEF CoversPromised, WritePayment, Has, Inv, TypeOK
<1>5. row.live = j.row.live /\ row.cost = j.row.cost /\ row.covers = j.row.covers
  BY <1>1, <1>4 DEF Payment, Puts
<1>6. PaymentsOf(row.cost) \ {j.id} = PaymentsOf(row.cost) \ {i}
  <2>1. j.id = New => i \notin PaymentsOf(row.cost) /\ New \notin PaymentsOf(row.cost)
    BY <1>1, LiveAre DEF Puts, PaymentsOf, Inv
  <2>. QED BY <1>1, <2>1 DEF Puts
<1>7. Total(row.covers) <= Total(costs[row.cost].shares) - Funded(PaymentsOf(row.cost) \ {i})
  BY <1>2, <1>4, <1>5, <1>6 DEF CoverPromise
<1>8. Funded(PaymentsOf(row.cost))' = Funded(PaymentsOf(row.cost) \ {i}) + Total(row.covers)
  BY <1>1, <1>2, FundedWritten
<1>9. Total(costs[row.cost].shares) \in Nat
  <2>1. row.cost \in Live(costs)
    BY <1>2, <1>5 DEF Promised, Promise, PaymentPromise, WritePayment, Has
  <2>2. costs[row.cost].shares \in [Users -> Amounts]
    BY <2>1, LiveAre DEF Inv, Cost
  <2>. QED BY <2>2, TotalNat
<1>10. Funded(PaymentsOf(row.cost) \ {i}) \in Nat /\ Total(row.covers) \in Nat
  <2>1. PaymentsOf(row.cost) \ {i} \in SUBSET Live(payments) /\ row.covers \in [Users -> Amounts]
    BY DEF PaymentsOf, Payment
  <2>. QED BY <2>1, FundedIs, TotalNat
<1>11. Funded(PaymentsOf(row.cost))' <= Total(costs'[row.cost].shares)
  BY <1>3, <1>7, <1>8, <1>9, <1>10
<1>. QED BY <1>3, <1>11 DEF Funded, PaymentsOf, Total

\* The payment of a purchase covers all of it, and nothing covered it before.
LEMMA CostPaidWithin ==
  ASSUME Inv, Inv', SourcesStand, NEW p \in Procs, WriteCost(p)
  PROVE  PaidWithin
<1>1. PICK c \in CostIds, row \in Cost :
        /\ costs' = [costs EXCEPT ![c] = row] /\ Puts(p, costs, c, row)
        /\ \/ payments' = payments
           \/ /\ job[p].id = New /\ Purchase(c, row) \in Payment
              /\ \E n \in PaymentIds :
                   payments[n] = NoRow /\ payments' = [payments EXCEPT ![n] = Purchase(c, row)]
  BY CostWritten
<1>2. CASE payments' = payments
  BY <1>2 DEF PaidWithin
<1>3. CASE payments' # payments
  <2>1. costs[c] = NoRow /\ Purchase(c, row) \in Payment
    BY <1>1, <1>3 DEF Puts
  <2>2. PICK n \in PaymentIds : payments' = [payments EXCEPT ![n] = Purchase(c, row)]
    BY <1>1, <1>3
  <2>3. SUFFICES (Funded(PaymentsOf(payments[n].cost)) <= Total(costs[payments[n].cost].shares))'
    BY <2>2 DEF PaidWithin, Inv, TypeOK
  <2>4. PaymentsOf(c) = {}
    BY <2>1 DEF SourcesStand, PaymentsOf, Live
  <2>5. /\ payments'[n] = Purchase(c, row) /\ costs'[c] = row
        /\ Purchase(c, row).live /\ Purchase(c, row).cost = c /\ Purchase(c, row).covers = row.shares
    BY <1>1, <2>2 DEF Inv, TypeOK, Purchase
  <2>6. Funded(PaymentsOf(c))' = Funded(PaymentsOf(c) \ {n}) + Total(row.shares)
    BY <2>1, <2>2, <2>5, FundedWritten
  <2>7. Funded(PaymentsOf(c) \ {n}) = 0 /\ Total(row.shares) \in Nat
    <3>1. PaymentsOf(c) \ {n} = {} /\ row.shares \in [Users -> Amounts]
      BY <2>4 DEF Cost
    <3>2. Funded({}) = 0
      BY DEF Funded, Sum
    <3>. QED BY <3>1, <3>2, TotalNat
  <2>8. Funded(PaymentsOf(c))' <= Total(costs'[c].shares)
    BY <2>5, <2>6, <2>7
  <2>. QED BY <2>5, <2>8 DEF Funded, PaymentsOf, Total
<1>. QED BY <1>2, <1>3

LEMMA StepsPayWithin ==
  Inv /\ Inv' /\ SourcesStand /\ Promised /\ CoversPromised /\ [Next]_vars => PaidWithin
<1>. SUFFICES ASSUME Inv, Inv', SourcesStand, Promised, CoversPromised, [Next]_vars
              PROVE  PaidWithin
  OBVIOUS
<1>1. CASE payments' = payments
  BY <1>1 DEF PaidWithin
<1>2. ASSUME NEW p \in Procs, Start(p) PROVE PaidWithin
  BY <1>1, <1>2, StartsKeepBooks DEF books
<1>3. ASSUME NEW p \in Procs, Write(p) PROVE PaidWithin
  BY <1>1, <1>3, CostPaidWithin, PaymentPaidWithin DEF Write, WriteLoan, WriteReceipt
<1>. QED BY <1>1, <1>2, <1>3 DEF Next, Abort, ChangeStanding, vars, books

\* A payment is never recorded or corrected to more than its cost has left,
\* whatever others were recorded, corrected or deleted before.
THEOREM PaymentsNeverOverpay == Spec => NeverOverPaid
<1>1. Init => CoversPromised
  BY DEF Init, CoversPromised, Has
<1>2. Inv /\ Inv' /\ SourcesStand /\ Promised /\ CoversPromised /\ [Next]_vars =>
        [\A i \in PaymentIds :
           payments'[i] # payments[i] /\ payments'[i].live
           => (Funded(PaymentsOf(payments[i].cost)) <= Total(costs[payments[i].cost].shares))']_vars
  BY StepsPayWithin DEF PaidWithin
<1>. QED BY <1>1, <1>2, Invariance, SourcesInitially, SourcesInductive, CoversInductive, PTL
         DEF Spec, NeverOverPaid

-----------------------------------------------------------------------------
(***************************************************************************)
(* Receipts never repay more than is outstanding.                          *)
(***************************************************************************)
Repaying(d) == {i \in ReceiptsOf(d.source) : DebtOf(receipts[i]) = d}
Repaid(d) == Sum([i \in Repaying(d) |-> receipts[i].amount])

LEMMA OutstandingIs ==
  ASSUME NEW d
  PROVE  Outstanding(d) = Owed(d) - Repaid(d)
BY DEF Outstanding, Repaid, Repaying

LEMMA ReceiptsAre ==
  ASSUME Inv, NEW S \in SUBSET Live(receipts)
  PROVE  IsFiniteSet(S) /\ S \subseteq ReceiptIds /\ \A i \in S : receipts[i].amount \in Nat
<1>1. \A i \in S : i \in ReceiptIds /\ receipts[i] \in Receipt
  BY LiveAre DEF Inv
<1>. QED BY <1>1, Finite, AmountsAre DEF Receipt

LEMMA RepaidIs ==
  ASSUME Inv, NEW d
  PROVE  /\ Repaying(d) \subseteq Live(receipts)
         /\ Repaid(d) = SumFunctionOnSet([i \in Repaying(d) |-> receipts[i].amount], Repaying(d))
         /\ Repaid(d) \in Nat
<1>. DEFINE f == [i \in Repaying(d) |-> receipts[i].amount]
<1>1. Repaying(d) \subseteq Live(receipts)
  BY DEF Repaying, ReceiptsOf
<1>2. Repaid(d) = SumFunctionOnSet(f, Repaying(d))
  BY Sums DEF Repaid
<1>3. IsFiniteSet(Repaying(d)) /\ \A i \in Repaying(d) : f[i] \in Nat
  BY <1>1, ReceiptsAre
<1>. HIDE DEF f
<1>4. SumFunctionOnSet(f, Repaying(d)) \in Nat
  BY <1>3, SumNat
<1>. QED BY <1>1, <1>2, <1>4 DEF f

LEMMA OwedNat ==
  ASSUME Inv, NEW d \in Debt
  PROVE  Owed(d) \in Nat
<1>1. CASE d.source \in PaymentIds
  <2>1. d.source \in Live(payments) => payments[d.source].covers \in [Users -> Amounts]
    BY LiveAre DEF Inv, Payment
  <2>2. d.from \in Users
    BY DEF Debt
  <2>. QED BY <1>1, <2>1, <2>2, AmountsAre DEF Owed
<1>2. CASE d.source \notin PaymentIds
  <2>1. d.source \in Live(loans) => loans[d.source].amount \in Amounts
    BY LiveAre DEF Inv, Loan
  <2>. QED BY <1>2, <2>1, AmountsAre DEF Owed
<1>. QED BY <1>1, <1>2

LEMMA DebtOfReceipt ==
  ASSUME NEW r \in Receipt, Linked(r)
  PROVE  DebtOf(r) \in Debt
<1>1. r.source \in Sources /\ r.from \in Users /\ r.to \in Users /\ r.currency \in Currencies
  BY DEF Receipt, Linked
<1>2. [source |-> r.source, from |-> r.from, to |-> r.to, currency |-> r.currency] \in Debt
  BY <1>1 DEF Debt
<1>. QED BY <1>2 DEF DebtOf

LEMMA OwedNats == Inv => \A d \in Debt : Owed(d) \in Nat
BY OwedNat

LEMMA OwedNatsNext == (Inv => \A d \in Debt : Owed(d) \in Nat)'
BY OwedNats, PTL

\* The receipt's amount counts for the debt it is of, while it is live.
Counts(row, d) == row # NoRow /\ row.live /\ DebtOf(row) = d

LEMMA RepayingIs ==
  ASSUME Inv, NEW d
  PROVE  Repaying(d) = {i \in ReceiptIds : Counts(receipts[i], d)}
BY DEF Repaying, ReceiptsOf, Counts, Live, DebtOf, Inv, TypeOK

\* A receipt written to i changes what is repaid of a debt by what it and the
\* receipt it replaces count for it.
LEMMA RepaidWritten ==
  ASSUME Inv, Inv', NEW i \in ReceiptIds, NEW row \in Receipt,
         receipts' = [receipts EXCEPT ![i] = row], NEW d
  PROVE  Repaid(d)' = Repaid(d) - (IF Counts(receipts[i], d) THEN receipts[i].amount ELSE 0)
                                + (IF Counts(row, d) THEN row.amount ELSE 0)
<1>1. PICK S, T : S = Repaying(d) /\ T = Repaying(d)'
  OBVIOUS
<1>. DEFINE f == [n \in S |-> receipts[n].amount]
            g == [n \in T |-> receipts'[n].amount]
<1>2. receipts'[i] = row /\ \A n \in ReceiptIds \ {i} : receipts'[n] = receipts[n]
  BY DEF Inv, TypeOK
<1>3. S = {n \in ReceiptIds : Counts(receipts[n], d)}
  BY <1>1, RepayingIs
<1>4. T = {n \in ReceiptIds : Counts(receipts'[n], d)}
  BY <1>1 DEF Repaying, ReceiptsOf, Counts, Live, DebtOf, Inv, TypeOK
<1>5. Repaid(d) = SumFunctionOnSet(f, S) /\ Repaid(d)' = SumFunctionOnSet(g, T)
  BY <1>1, Sums DEF Repaid
<1>6. S \ {i} = T \ {i}
  BY <1>2, <1>3, <1>4
<1>7. IsFiniteSet(S) /\ IsFiniteSet(T)
  BY <1>3, <1>4, Finite
<1>8. (\A n \in S : f[n] \in Int) /\ (\A n \in T : g[n] \in Int) /\ (\A n \in S \ {i} : f[n] = g[n])
  <2>1. \A n \in S : receipts[n].amount \in Nat
    BY <1>1, ReceiptsAre, RepaidIs
  <2>2. row.amount \in Nat
    BY AmountsAre DEF Receipt
  <2>. QED BY <1>2, <1>3, <1>4, <1>6, <2>1, <2>2
<1>9. (i \in S => f[i] = receipts[i].amount) /\ (i \in T => g[i] = row.amount)
  BY <1>2
<1>10. (i \in S <=> Counts(receipts[i], d)) /\ (i \in T <=> Counts(row, d))
  BY <1>2, <1>3, <1>4
<1>. HIDE DEF f, g
<1>11. SumFunctionOnSet(g, T)
       = SumFunctionOnSet(f, S) - (IF i \in S THEN f[i] ELSE 0) + (IF i \in T THEN g[i] ELSE 0)
  BY <1>6, <1>7, <1>8, SumMoved
<1>. QED BY <1>5, <1>9, <1>10, <1>11

\* What a request has decided of a linked receipt fits into its debt, with what
\* the receipt it replaces repays of the same debt.
SettlePromise(id, row) ==
  row.live /\ Linked(row) =>
    row.amount <= Outstanding(DebtOf(row))
                  + (IF id # New /\ DebtOf(receipts[id]) = DebtOf(row) THEN receipts[id].amount ELSE 0)

SettlesPromised == \A p \in Procs : Has(p, "receipt") => SettlePromise(job[p].id, job[p].row)

LEMMA SettlePromiseKept ==
  ASSUME UNCHANGED <<payments, loans, receipts>>
  PROVE  \A id, row : SettlePromise(id, row)' = SettlePromise(id, row)
<1>1. \A d : Outstanding(d)' = Outstanding(d)
  BY DEF Outstanding, Owed, ReceiptsOf, Live, DebtOf
<1>. QED BY <1>1 DEF SettlePromise, DebtOf, Linked

LEMMA DecisionSettles ==
  ASSUME Inv, Inv', NEW p \in Procs, NEW j, Decide(p, j),
         j.kind = "receipt" => SettlePromise(j.id, j.row)
  PROVE  SettlesPromised'
BY DecisionAlone, SettlePromiseKept DEF SettlesPromised, Has

LEMMA InsertSettles ==
  ASSUME Inv, Inv', NEW p \in Procs, NEW kind, NEW table, NEW row,
         Insert(p, kind, table, row), kind = "receipt" => SettlePromise(New, row)
  PROVE  SettlesPromised'
BY DecisionSettles DEF Insert

LEMMA ChangeSettles ==
  ASSUME Inv, Inv', NEW p \in Procs, NEW u, NEW kind, NEW table, NEW i, NEW row,
         Change(p, u, kind, table, i, row), kind = "receipt" => SettlePromise(i, row)
  PROVE  SettlesPromised'
BY DecisionSettles DEF Change

LEMMA StartsSettle ==
  ASSUME Inv, Inv', NEW p \in Procs, Start(p)
  PROVE  SettlesPromised'
<1>1. CASE CreateCost(p) BY <1>1, InsertSettles DEF CreateCost
<1>2. CASE UpdateCost(p) BY <1>2, ChangeSettles DEF UpdateCost, Changeable
<1>3. CASE DeleteCost(p) BY <1>3, ChangeSettles DEF DeleteCost, Changeable, Remove
<1>4. CASE CreatePayment(p) BY <1>4, InsertSettles DEF CreatePayment
<1>5. CASE UpdatePayment(p) BY <1>5, ChangeSettles DEF UpdatePayment, Changeable
<1>6. CASE DeletePayment(p) BY <1>6, ChangeSettles DEF DeletePayment, Changeable, Remove
<1>7. CASE CreateLoan(p) BY <1>7, InsertSettles DEF CreateLoan
<1>8. CASE UpdateLoan(p) BY <1>8, ChangeSettles DEF UpdateLoan, Changeable
<1>9. CASE DeleteLoan(p) BY <1>9, ChangeSettles DEF DeleteLoan, Changeable, Remove
<1>10. CASE CreateReceipt(p)
  <2>1. PICK u \in Users, k \in Keys, source \in Sources \union {NoSource},
             from, to \in Participants \union Historical,
             c \in Currencies, a \in Amounts \ {0} :
          LET new == [by |-> u, key |-> k, source |-> source, from |-> from, to |-> to,
                      currency |-> c, amount |-> a, version |-> 1, live |-> TRUE]
          IN /\ from # to
             /\ IF Linked(new) THEN to = u ELSE Editor(u)
             /\ Settles(new, 0)
             /\ Insert(p, "receipt", receipts, new)
    BY <1>10 DEF CreateReceipt
  <2>. DEFINE row == [by |-> u, key |-> k, source |-> source, from |-> from, to |-> to,
                      currency |-> c, amount |-> a, version |-> 1, live |-> TRUE]
  <2>. HIDE DEF row
  <2>2. Settles(row, 0) /\ Insert(p, "receipt", receipts, row)
    BY <2>1 DEF row
  <2>3. SettlePromise(New, row)
    BY <2>2 DEF Settles, SettlePromise
  <2>. QED BY <2>2, <2>3, InsertSettles
<1>11. CASE UpdateReceipt(p)
  <2>1. PICK u \in Users, i \in Changeable("receipt", receipts), source \in Sources \union {NoSource},
             from, to \in Participants \union Historical,
             c \in Currencies, a \in Amounts \ {0} :
          LET old == receipts[i]
              new == [old EXCEPT !.source = source, !.from = from, !.to = to,
                                 !.currency = c, !.amount = a]
              received == \E n \in DOMAIN history[i] : history[i][n].action = "received"
          IN /\ from # to
             /\ MayReceive(u, old)
             /\ ~Linked(old) /\ Linked(new) /\ u # old.to => ~received
             /\ Linked(old) => DebtOf(new) = DebtOf(old)
             /\ Linked(new) => Editor(u) \/ to = u
             /\ Settles(new, IF DebtOf(new) = DebtOf(old) THEN old.amount ELSE 0)
             /\ Change(p, u, "receipt", receipts, i, new)
    BY <1>11 DEF UpdateReceipt
  <2>. DEFINE row == [receipts[i] EXCEPT !.source = source, !.from = from, !.to = to,
                                         !.currency = c, !.amount = a]
              back == IF DebtOf(receipts[i]) = DebtOf(row) THEN receipts[i].amount ELSE 0
  <2>. HIDE DEF row, back
  <2>2. Settles(row, back) /\ Change(p, u, "receipt", receipts, i, row)
    BY <2>1 DEF row, back
  <2>3. i # New
    BY LiveAre DEF Inv, Changeable
  <2>4. SettlePromise(i, row)
    BY <2>2, <2>3 DEF Settles, SettlePromise, back
  <2>. QED BY <2>2, <2>4, ChangeSettles
<1>12. CASE DeleteReceipt(p)
  <2>1. PICK u \in Users, i \in Live(receipts) : Remove(p, u, "receipt", receipts, i)
    BY <1>12 DEF DeleteReceipt, Changeable
  <2>. DEFINE row == [receipts[i] EXCEPT !.live = FALSE]
  <2>2. ~row.live
    BY LiveAre DEF Inv, Receipt
  <2>3. SettlePromise(i, row)
    BY <2>2 DEF SettlePromise
  <2>. QED BY <2>1, <2>3, ChangeSettles DEF Remove
<1>. QED BY <1>1, <1>2, <1>3, <1>4, <1>5, <1>6, <1>7, <1>8, <1>9, <1>10, <1>11, <1>12 DEF Start

LEMMA SettlesInductive ==
  Inv /\ Inv' /\ SettlesPromised /\ [Next]_vars => SettlesPromised'
<1>. SUFFICES ASSUME Inv, Inv', SettlesPromised, [Next]_vars PROVE SettlesPromised'
  OBVIOUS
<1>1. ASSUME NEW p \in Procs, Start(p) PROVE SettlesPromised'
  BY <1>1, StartsSettle
<1>2. ASSUME NEW p \in Procs, job[p] # NoJob, Release(p) PROVE SettlesPromised'
  BY <1>2, Ending DEF SettlesPromised, Has
<1>3. ASSUME NEW p \in Procs, Write(p) PROVE SettlesPromised'
  BY <1>2, <1>3 DEF Write, WriteCost, WritePayment, WriteLoan, WriteReceipt, Has
<1>4. CASE UNCHANGED <<books, job>>
  BY <1>4, SettlePromiseKept DEF books, SettlesPromised, Has
<1>. QED BY <1>1, <1>2, <1>3, <1>4 DEF Next, Abort, ChangeStanding, vars

\* A linked receipt that is stored leaves its debt at zero or above.
LEMMA ReceiptRepaysWithin ==
  ASSUME Inv, Inv', Promised, ReceiptsNext, SettlesPromised, NEW p \in Procs, WriteReceipt(p)
  PROVE  \E i \in ReceiptIds, row \in Receipt :
           /\ receipts' = [receipts EXCEPT ![i] = row]
           /\ row.live /\ Linked(row) => Outstanding(DebtOf(row))' >= 0 /\ Owed(DebtOf(row)) > 0
<1>. DEFINE j == job[p]
<1>1. PICK i \in ReceiptIds, row \in Receipt :
        receipts' = [receipts EXCEPT ![i] = row] /\ Puts(p, receipts, i, row)
  BY ReceiptWritten
<1>2. SUFFICES ASSUME row.live, Linked(row)
               PROVE  Outstanding(DebtOf(row))' >= 0 /\ Owed(DebtOf(row)) > 0
  BY <1>1
<1>3. PICK d : d = DebtOf(row)
  OBVIOUS
<1>4. SettlePromise(j.id, j.row) /\ ReceiptNext(j.id, j.row) /\ ReceiptPromise(j.row) /\ j.row \in Receipt
  BY JobsAre DEF SettlesPromised, ReceiptsNext, Promised, Promise, WriteReceipt, Has, Inv, TypeOK
<1>5. /\ row.live = j.row.live /\ row.source = j.row.source /\ DebtOf(row) = DebtOf(j.row)
      /\ row.amount = j.row.amount
  BY <1>1, <1>4 DEF Receipt, Puts, DebtOf
<1>6. Owed(d) > 0 /\ Owed(d)' = Owed(d)
  BY <1>2, <1>3, <1>4, <1>5 DEF ReceiptPromise, Linked, WriteReceipt, Owed, Live
<1>7. row.amount <= Outstanding(d) + (IF Counts(receipts[i], d) THEN receipts[i].amount ELSE 0)
  <2>1. CASE j.id = New
    <3>1. ~Counts(receipts[i], d)
      BY <1>1, <2>1 DEF Puts, Counts
    <3>. QED BY <1>2, <1>3, <1>4, <1>5, <2>1, <3>1 DEF SettlePromise, Linked
  <2>2. CASE j.id # New
    <3>1. j.id = i /\ i \in Live(receipts)
      BY <1>1, <1>4, <2>2 DEF Puts, ReceiptNext
    <3>2. Counts(receipts[i], d) <=> DebtOf(receipts[i]) = d
      BY <3>1 DEF Counts, Live
    <3>. QED BY <1>2, <1>3, <1>4, <1>5, <2>2, <3>1, <3>2 DEF SettlePromise, Linked
  <2>. QED BY <2>1, <2>2
<1>8. Repaid(d)' = Repaid(d) - (IF Counts(receipts[i], d) THEN receipts[i].amount ELSE 0) + row.amount
  <2>1. Counts(row, d)
    BY <1>2, <1>3, RowsAssumption DEF Counts
  <2>. QED BY <1>1, <2>1, RepaidWritten
<1>9. Outstanding(d)' = Owed(d)' - Repaid(d)'
  BY DEF Outstanding, Repaid, Repaying
<1>10. /\ Repaid(d) \in Nat /\ row.amount \in Nat /\ Owed(d) \in Int
       /\ Counts(receipts[i], d) => receipts[i].amount \in Nat
  <2>1. row.amount \in Nat
    BY AmountsAre DEF Receipt
  <2>2. Counts(receipts[i], d) => receipts[i].amount \in Nat
    BY AmountsAre DEF Counts, Receipt, Inv, TypeOK
  <2>3. d \in Debt
    BY <1>2, <1>3, DebtOfReceipt
  <2>4. Repaid(d) \in Nat
    BY RepaidIs
  <2>5. Owed(d) \in Nat
    BY <2>3, OwedNat
  <2>. QED BY <2>1, <2>2, <2>4, <2>5
<1>11. Outstanding(d)' >= 0
  BY <1>6, <1>7, <1>8, <1>9, <1>10, OutstandingIs
<1>. QED BY <1>3, <1>6, <1>11 DEF Outstanding, Owed, ReceiptsOf, DebtOf, Live

\* Receipts are written only by the write of one.
LEMMA ReceiptsWritten ==
  ASSUME [Next]_vars
  PROVE  receipts' = receipts \/ \E p \in Procs : WriteReceipt(p)
<1>1. ASSUME NEW p \in Procs, Start(p) PROVE receipts' = receipts
  BY <1>1, StartsKeepBooks DEF books
<1>2. ASSUME NEW p \in Procs, Write(p) PROVE receipts' = receipts \/ WriteReceipt(p)
  BY <1>2 DEF Write, WriteCost, WritePayment, WriteLoan
<1>. QED BY <1>1, <1>2 DEF Next, Abort, ChangeStanding, vars, books

\* No receipt is accepted that repays more of a loan than is outstanding,
\* though the loan itself may shrink below what was repaid.
THEOREM LoanReceiptsFit == Spec => LoansRepaidWithin
<1>1. Init => SettlesPromised
  BY DEF Init, SettlesPromised, Has
<1>2. Inv /\ Inv' /\ Promised /\ ReceiptsNext /\ SettlesPromised /\ [Next]_vars =>
        [\A i \in ReceiptIds :
           /\ receipts'[i] # receipts[i] /\ receipts'[i].live
           /\ receipts'[i].source \in LoanIds
           => Outstanding(DebtOf(receipts[i]))' >= 0]_vars
  <2>. SUFFICES ASSUME Inv, Inv', Promised, ReceiptsNext, SettlesPromised, [Next]_vars,
                       NEW i \in ReceiptIds, receipts'[i] # receipts[i], receipts'[i].live,
                       receipts'[i].source \in LoanIds
                PROVE  Outstanding(DebtOf(receipts[i]))' >= 0
    OBVIOUS
  <2>1. PICK p \in Procs : WriteReceipt(p)
    BY ReceiptsWritten
  <2>2. PICK n \in ReceiptIds, row \in Receipt :
          /\ receipts' = [receipts EXCEPT ![n] = row]
          /\ row.live /\ Linked(row) => Outstanding(DebtOf(row))' >= 0
    BY <2>1, ReceiptRepaysWithin
  <2>3. n = i /\ receipts'[i] = row
    BY <2>2 DEF Inv, TypeOK
  <2>4. Linked(row)
    BY <2>3, LedgerAssumption DEF Linked, Sources
  <2>5. PICK d : d = DebtOf(row)
    OBVIOUS
  <2>6. DebtOf(receipts[i])' = d
    BY <2>3, <2>5 DEF DebtOf
  <2>7. Outstanding(d)' >= 0
    BY <2>2, <2>3, <2>4, <2>5 DEF Outstanding, Owed, ReceiptsOf, DebtOf, Live
  <2>. QED BY <2>6, <2>7 DEF Outstanding, Owed, ReceiptsOf, Live
<1>. QED BY <1>1, <1>2, Invariance, SourcesInitially, SourcesInductive, HistoryInitially,
            HistoryInductive, SettlesInductive, PTL DEF Spec, LoansRepaidWithin

LEMMA RepaidKept ==
  ASSUME receipts' = receipts, NEW d
  PROVE  Repaid(d)' = Repaid(d)
BY DEF Repaid, Repaying, ReceiptsOf, Live, DebtOf

\* A record that is written for the first time, or changes while nobody has
\* repaid it, has no receipts.
LEMMA NothingRepaid ==
  ASSUME NEW d, ReceiptsOf(d.source) = {}
  PROVE  Repaid(d) = 0
<1>1. Repaying(d) = {}
  BY DEF Repaying
<1>. QED BY <1>1 DEF Repaid, Sum

LEMMA NewUnrepaid ==
  ASSUME Inv, SourcesStand, NEW i \in PaymentIds, payments[i] = NoRow
  PROVE  ReceiptsOf(i) = {}
<1>. SUFFICES ASSUME NEW r \in ReceiptsOf(i) PROVE FALSE
  OBVIOUS
<1>1. r \in Live(receipts) /\ receipts[r].source = i /\ Linked(receipts[r])
  BY LedgerAssumption DEF ReceiptsOf, Linked, Sources
<1>2. DebtOf(receipts[r]).source = i /\ Owed(DebtOf(receipts[r])) > 0
  BY <1>1, LinkedHasDebt DEF SourcesStand
<1>. QED BY <1>2, OwedHasSource DEF Sources

\* The debts are what live records make somebody owe, and nothing else is owed.
LEMMA DebtsOwed == Inv => Debts = {d \in Debt : Owed(d) > 0}
<1>. SUFFICES ASSUME Inv PROVE Debts = {d \in Debt : Owed(d) > 0}
  OBVIOUS
<1>1. Live(payments) \union Live(loans) \subseteq Sources
  BY LiveAre DEF Sources, Inv
<1>2. \A d \in Debt : Owed(d) > 0 => d.source \in Live(payments) \union Live(loans)
  BY DEF Owed
<1>. QED BY <1>1, <1>2 DEF Debts, Debt

LEMMA DebtsOwedNext == (Inv => Debts = {d \in Debt : Owed(d) > 0})'
BY DebtsOwed, PTL

LEMMA PaymentNeverOverRepaid ==
  ASSUME Inv, Inv', NeverOverRepaid, NEW n \in PaymentIds, ReceiptsOf(n) = {},
         receipts' = receipts, \A i \in PaymentIds \ {n} : payments'[i] = payments[i]
  PROVE  NeverOverRepaid'
<1>. SUFFICES ASSUME NEW d \in Debt, Owed(d)' > 0, d.source \in PaymentIds
              PROVE  Outstanding(d)' >= 0
  BY DebtsOwedNext DEF NeverOverRepaid
<1>1. Outstanding(d)' = Owed(d)' - Repaid(d)
  <2>1. Outstanding(d)' = Owed(d)' - Repaid(d)'
    BY DEF Outstanding, Repaid, Repaying
  <2>. QED BY <2>1, RepaidKept
<1>2. CASE d.source = n
  <2>1. \A e \in Debt : Owed(e)' \in Nat
    BY OwedNatsNext DEF Debt
  <2>2. Repaid(d) = 0
    BY <1>2, NothingRepaid
  <2>3. Owed(d)' \in Nat
    BY <2>1
  <2>. QED BY <1>1, <2>2, <2>3
<1>3. CASE d.source # n
  <2>1. Owed(d)' = Owed(d)
    BY <1>3, OwedKept, LedgerAssumption DEF Sources
  <2>. QED BY <1>1, <2>1, OutstandingIs, DebtsOwed DEF NeverOverRepaid
<1>. QED BY <1>2, <1>3

LEMMA ReceiptNeverOverRepaid ==
  ASSUME Inv, Inv', NeverOverRepaid, Promised, ReceiptsNext, SettlesPromised,
         NEW p \in Procs, WriteReceipt(p)
  PROVE  NeverOverRepaid'
<1>. SUFFICES ASSUME NEW d \in Debt, Owed(d)' > 0, d.source \in PaymentIds
              PROVE  Outstanding(d)' >= 0
  BY DebtsOwedNext DEF NeverOverRepaid
<1>1. PICK i \in ReceiptIds, row \in Receipt :
        /\ receipts' = [receipts EXCEPT ![i] = row]
        /\ row.live /\ Linked(row) => Outstanding(DebtOf(row))' >= 0
  BY ReceiptRepaysWithin
<1>2. CASE Counts(row, d)
  <2>1. row.live /\ Linked(row) /\ DebtOf(row) = d
    BY <1>2, LedgerAssumption DEF Counts, Linked, DebtOf, Sources
  <2>. QED BY <1>1, <2>1 DEF Outstanding, Owed, ReceiptsOf, DebtOf, Live
<1>3. CASE ~Counts(row, d)
  <2>1. Repaid(d)' = Repaid(d) - (IF Counts(receipts[i], d) THEN receipts[i].amount ELSE 0)
    <3>1. Repaid(d)' = Repaid(d) - (IF Counts(receipts[i], d) THEN receipts[i].amount ELSE 0)
                                 + (IF Counts(row, d) THEN row.amount ELSE 0)
      BY <1>1, RepaidWritten
    <3>2. Repaid(d) \in Nat
      BY RepaidIs
    <3>3. Counts(receipts[i], d) => receipts[i].amount \in Nat
      BY AmountsAre DEF Counts, Receipt, Inv, TypeOK
    <3>. QED BY <1>3, <3>1, <3>2, <3>3
  <2>2. Outstanding(d)' = Owed(d)' - Repaid(d)' /\ Owed(d)' = Owed(d)
    BY DEF Outstanding, Repaid, Repaying, WriteReceipt, Owed, Live
  <2>3. Owed(d) - Repaid(d) >= 0
    BY <2>2, OutstandingIs, DebtsOwed DEF NeverOverRepaid
  <2>4. /\ Repaid(d) \in Nat
        /\ Counts(receipts[i], d) => receipts[i].amount \in Nat
    <3>1. Repaid(d) \in Nat
      BY RepaidIs
    <3>. QED BY <3>1, AmountsAre DEF Counts, Receipt, Inv, TypeOK
  <2>5. Owed(d) \in Nat
    BY OwedNat
  <2>. QED BY <2>1, <2>2, <2>3, <2>4, <2>5
<1>. QED BY <1>2, <1>3

LEMMA NeverOverRepaidInductive ==
  /\ Inv /\ Inv' /\ SourcesStand /\ Promised /\ ReceiptsNext /\ SettlesPromised
  /\ NeverOverRepaid /\ [Next]_vars
  => NeverOverRepaid'
<1>. SUFFICES ASSUME Inv, Inv', SourcesStand, Promised, ReceiptsNext, SettlesPromised,
                     NeverOverRepaid, [Next]_vars
              PROVE  NeverOverRepaid'
  OBVIOUS
<1>1. ASSUME UNCHANGED <<payments, receipts>> PROVE NeverOverRepaid'
  <2>. SUFFICES ASSUME NEW d \in Debt, Owed(d)' > 0, d.source \in PaymentIds
                PROVE  Outstanding(d)' >= 0
    BY DebtsOwedNext DEF NeverOverRepaid
  <2>1. Owed(d)' = Owed(d)
    BY <1>1, OwedKept, LedgerAssumption DEF Sources
  <2>2. Outstanding(d)' = Owed(d)' - Repaid(d)' /\ Repaid(d)' = Repaid(d)
    BY <1>1, RepaidKept DEF Outstanding, Repaid, Repaying
  <2>. QED BY <2>1, <2>2, OutstandingIs, DebtsOwed DEF NeverOverRepaid
<1>2. ASSUME NEW p \in Procs, Start(p) PROVE NeverOverRepaid'
  BY <1>1, <1>2, StartsKeepBooks DEF books
<1>3. ASSUME NEW p \in Procs, WriteCost(p) PROVE NeverOverRepaid'
  <2>1. CASE payments' = payments
    BY <1>1, <1>3, <2>1 DEF WriteCost
  <2>2. CASE payments' # payments
    <3>1. PICK n \in PaymentIds : payments[n] = NoRow /\ \A i \in PaymentIds \ {n} : payments'[i] = payments[i]
      BY <1>3, <2>2, CostWritten DEF Inv, TypeOK
    <3>. QED BY <1>3, <3>1, NewUnrepaid, PaymentNeverOverRepaid DEF WriteCost
  <2>. QED BY <2>1, <2>2
<1>4. ASSUME NEW p \in Procs, WritePayment(p) PROVE NeverOverRepaid'
  <2>1. PICK n \in PaymentIds, row \in Payment :
          payments' = [payments EXCEPT ![n] = row] /\ Puts(p, payments, n, row)
    BY <1>4, PaymentWritten
  <2>2. ReceiptsOf(n) = {}
    <3>1. job[p].id # New => ReceiptsOf(job[p].id) = {}
      BY <1>4 DEF Promised, Promise, PaymentPromise, WritePayment, Has
    <3>. QED BY <2>1, <3>1, NewUnrepaid DEF Puts
  <2>. QED BY <1>4, <2>1, <2>2, PaymentNeverOverRepaid DEF WritePayment, Inv, TypeOK
<1>5. ASSUME NEW p \in Procs, WriteLoan(p) PROVE NeverOverRepaid'
  BY <1>1, <1>5 DEF WriteLoan
<1>6. ASSUME NEW p \in Procs, WriteReceipt(p) PROVE NeverOverRepaid'
  BY <1>6, ReceiptNeverOverRepaid
<1>7. CASE UNCHANGED books
  BY <1>1, <1>7 DEF books
<1>. QED BY <1>2, <1>3, <1>4, <1>5, <1>6, <1>7 DEF Next, Write, Abort, ChangeStanding, vars

\* Nobody ever has repaid more than their share of a payment: it can only be
\* corrected or deleted while it has no receipts.
THEOREM PaymentsNeverOverRepaid == Spec => []NeverOverRepaid
<1>1. Init => SettlesPromised
  BY DEF Init, SettlesPromised, Has
<1>2. Init => NeverOverRepaid
  <2>. SUFFICES ASSUME Init, NEW d \in Debts, d.source \in PaymentIds PROVE FALSE
    BY DEF NeverOverRepaid
  <2>1. Live(payments) = {} /\ Live(loans) = {}
    BY DEF Init, Live
  <2>. QED BY <2>1 DEF Debts
<1>. QED BY <1>1, <1>2, Invariance, SourcesInitially, SourcesInductive, HistoryInitially,
            HistoryInductive, SettlesInductive, NeverOverRepaidInductive, PTL DEF Spec

-----------------------------------------------------------------------------
(***************************************************************************)
(* The balances and a cost's status say what the debts say.                *)
(***************************************************************************)
LEMMA DebtFinite == IsFiniteSet(Debt)
<1>. DEFINE P == (Sources \X Users) \X (Users \X Currencies)
            m == [d \in Debt |-> <<<<d.source, d.from>>, <<d.to, d.currency>>>>]
<1>1. IsFiniteSet(Sources)
  BY Finite, FS_Union DEF Sources
<1>2. IsFiniteSet(Sources \X Users) /\ IsFiniteSet(Users \X Currencies)
  BY <1>1, Finite, FS_Product
<1>3. IsFiniteSet(P)
  BY <1>2, FS_Product
<1>4. m \in Injection(Debt, P)
  <2>1. \A d \in Debt : m[d] \in P
    BY DEF Debt
  <2>2. \A d, e \in Debt : m[d] = m[e] => d = e
    BY DEF Debt
  <2>. QED BY <2>1, <2>2 DEF Injection, IsInjective
<1>. QED BY <1>3, <1>4, FS_Injection

LEMMA NotNegativeIs ==
  ASSUME NEW n \in Int
  PROVE  /\ NotNegative(n) \in Nat /\ n <= NotNegative(n)
         /\ NotNegative(n) - NotNegative(-n) = n
         /\ n >= 0 => NotNegative(n) = n
<1>1. ASSUME NEW k \in Int PROVE NotNegative(k) = IF k >= 0 THEN k ELSE 0
  <2>1. \E x \in {0, k} : \A y \in {0, k} : x >= y
    OBVIOUS
  <2>2. NotNegative(k) \in {0, k} /\ \A y \in {0, k} : NotNegative(k) >= y
    BY <2>1 DEF NotNegative, Max
  <2>. QED BY <2>2
<1>. QED BY <1>1

\* The debts of a set, what is owed of them and what is repaid of them.
LEMMA DebtsAre ==
  ASSUME Inv, NEW S \in SUBSET Debts
  PROVE  /\ IsFiniteSet(S)
         /\ \A d \in S : d \in Debt /\ Owed(d) \in Nat /\ Repaid(d) \in Nat
                         /\ Outstanding(d) = Owed(d) - Repaid(d)
<1>1. S \subseteq Debt
  BY DebtsOwed
<1>2. IsFiniteSet(S)
  BY <1>1, DebtFinite, FS_Subset
<1>3. ASSUME NEW d \in S PROVE Owed(d) \in Nat /\ Repaid(d) \in Nat
  <2>1. Owed(d) \in Nat
    BY <1>1, OwedNat
  <2>2. Repaid(d) \in Nat
    BY RepaidIs
  <2>. QED BY <2>1, <2>2
<1>. QED BY <1>1, <1>2, <1>3, OutstandingIs

Signs == {-1, 0, 1}

\* The receipts of a set of debts, each with the sign of its debt, add up to what
\* is repaid of the debts.
LEMMA RepaidByDebt ==
  ASSUME Inv, NEW D \in SUBSET Debts, NEW R \in SUBSET Live(receipts), NEW g, NEW sign,
         \A d \in D : sign[d] \in Signs,
         \A i \in Live(receipts) : i \in R <=> DebtOf(receipts[i]) \in D,
         \A i \in R : g[i] = sign[DebtOf(receipts[i])] * receipts[i].amount
  PROVE  SumFunctionOnSet(g, R) = SumFunctionOnSet([d \in D |-> sign[d] * Repaid(d)], D)
<1>. DEFINE key == [i \in R |-> DebtOf(receipts[i])]
            Of(d) == {i \in R : key[i] = d}
            h == [d \in D |-> SumFunctionOnSet(g, Of(d))]
            k == [d \in D |-> sign[d] * Repaid(d)]
<1>1. IsFiniteSet(R) /\ \A i \in R : receipts[i].amount \in Nat
  BY ReceiptsAre
<1>2. IsFiniteSet(D)
  BY DebtsAre
<1>3. \A i \in R : key[i] \in D /\ g[i] \in Int
  BY <1>1 DEF Signs
<1>4. SumFunctionOnSet(g, R) = SumFunctionOnSet(h, D)
  <2>. HIDE DEF key
  <2>. QED BY <1>1, <1>2, <1>3, SumByKey
<1>5. ASSUME NEW d \in D PROVE h[d] = k[d] /\ h[d] \in Int
  <2>. DEFINE f == [i \in Of(d) |-> receipts[i].amount]
  <2>1. Of(d) = Repaying(d)
    <3>1. \A i \in Live(receipts) : DebtOf(receipts[i]) = d => receipts[i].source = d.source
      BY DEF DebtOf
    <3>. QED BY <3>1 DEF Repaying, ReceiptsOf
  <2>2. SumFunctionOnSet(f, Of(d)) = Repaid(d)
    BY <2>1, RepaidIs
  <2>3. \A i \in Of(d) : f[i] \in Int /\ g[i] = sign[d] * f[i]
    BY <1>1
  <2>4. IsFiniteSet(Of(d))
    BY <1>1, FS_Subset
  <2>5. Repaid(d) \in Nat /\ sign[d] \in Signs
    BY RepaidIs
  <2>. HIDE DEF f, Of
  <2>6. SumFunctionOnSet(g, Of(d)) = sign[d] * SumFunctionOnSet(f, Of(d))
    BY <2>3, <2>4, <2>5, SumSigned DEF Signs
  <2>. QED BY <2>2, <2>5, <2>6 DEF Signs
<1>. HIDE DEF h, k
<1>6. SumFunctionOnSet(h, D) = SumFunctionOnSet(k, D)
  BY <1>2, <1>5, SumSame
<1>. QED BY <1>4, <1>6 DEF k

\* What somebody owes the payer of a payment.
PaymentDebt(i, u) ==
  [source |-> i, from |-> u, to |-> payments[i].payer, currency |-> payments[i].currency]

LEMMA PaymentDebtIs ==
  ASSUME Inv, NEW i \in Live(payments), NEW u \in Users, u # payments[i].payer,
         payments[i].covers[u] # 0
  PROVE  PaymentDebt(i, u) \in Debts
<1>. DEFINE d == PaymentDebt(i, u)
<1>1. /\ i \in PaymentIds /\ payments[i].payer \in Users /\ payments[i].currency \in Currencies
      /\ payments[i].covers[u] \in Nat
  BY LiveAre, AmountsAre DEF Inv, Payment
<1>2. d.source = i /\ d.from = u /\ d.to = payments[i].payer /\ d.currency = payments[i].currency
  BY DEF PaymentDebt
<1>3. d \in Debt
  BY <1>1 DEF Debt, Sources, PaymentDebt
<1>. HIDE DEF d
<1>4. Owed(d) = payments[i].covers[u]
  BY <1>1, <1>2 DEF Owed
<1>. QED BY <1>1, <1>3, <1>4, DebtsOwed DEF d

LEMMA DebtIsPayments ==
  ASSUME Inv, NEW d \in Debts, d.source \in PaymentIds
  PROVE  /\ d.source \in Live(payments) /\ d.from # payments[d.source].payer
         /\ d = PaymentDebt(d.source, d.from) /\ Owed(d) = payments[d.source].covers[d.from]
<1>1. d \in Debt /\ Owed(d) > 0
  BY DebtsOwed
<1>2. /\ d.source \in Live(payments) /\ payments[d.source].payer = d.to /\ d.from # d.to
      /\ payments[d.source].currency = d.currency /\ Owed(d) = payments[d.source].covers[d.from]
  BY <1>1 DEF Owed
<1>3. d = [source |-> d.source, from |-> d.from, to |-> d.to, currency |-> d.currency]
  BY <1>1 DEF Debt
<1>. QED BY <1>2, <1>3 DEF PaymentDebt

LEMMA CoveredIs ==
  ASSUME Inv, NEW S \in SUBSET Live(payments), NEW u \in Users
  PROVE  /\ Covered(S, u) = SumFunctionOnSet([i \in S |-> payments[i].covers[u]], S)
         /\ Covered(S, u) \in Nat /\ IsFiniteSet(S)
         /\ \A i \in S : payments[i].covers[u] \in Nat
<1>. DEFINE f == [i \in S |-> payments[i].covers[u]]
<1>1. Covered(S, u) = SumFunctionOnSet(f, S)
  BY Sums DEF Covered
<1>2. IsFiniteSet(S) /\ \A i \in S : payments[i].covers[u] \in Nat /\ f[i] \in Nat
  BY PaymentsAre, AmountsAre
<1>. HIDE DEF f
<1>3. SumFunctionOnSet(f, S) \in Nat
  BY <1>2, SumNat
<1>. QED BY <1>1, <1>2, <1>3 DEF f

\* Of what a cost's payments cover of somebody's share, they owe what others paid.
LEMMA OwedByShares ==
  ASSUME Inv, NEW c, NEW u \in Users
  PROVE  LET D == {d \in DebtsFor(c) : d.from = u}
         IN SumFunctionOnSet([d \in D |-> Owed(d)], D)
            = Covered(PaymentsOf(c), u)
              - Covered({i \in PaymentsOf(c) : payments[i].payer = u}, u)
<1>. DEFINE D == {d \in DebtsFor(c) : d.from = u}
            M == PaymentsOf(c)
            O == {i \in M : payments[i].payer = u}
            name == [d \in D |-> d.source]
            owed == [d \in D |-> Owed(d)]
            all == [i \in M |-> payments[i].covers[u]]
            own == [i \in M |-> IF payments[i].payer = u THEN payments[i].covers[u] ELSE 0]
            others == [i \in M |-> IF payments[i].payer = u THEN 0 ELSE payments[i].covers[u]]
            mine == [i \in O |-> payments[i].covers[u]]
<1>1. M \in SUBSET Live(payments) /\ O \in SUBSET Live(payments)
  BY DEF PaymentsOf
<1>2. IsFiniteSet(M) /\ \A i \in M : payments[i].covers[u] \in Nat
  BY <1>1, CoveredIs
<1>3. Covered(M, u) = SumFunctionOnSet(all, M) /\ Covered(O, u) = SumFunctionOnSet(mine, O)
  <2>. HIDE DEF M, O
  <2>. QED BY <1>1, CoveredIs
<1>4. D \in SUBSET Debts
  BY DEF DebtsFor
<1>5. /\ \A d \in D : name[d] \in M /\ owed[d] \in Int /\ others[name[d]] = owed[d]
      /\ \A d, e \in D : name[d] = name[e] => d = e
  <2>1. ASSUME NEW d \in D
        PROVE  /\ d.source \in M /\ payments[d.source].payer # u
               /\ Owed(d) = payments[d.source].covers[u] /\ d = PaymentDebt(d.source, u)
    <3>1. d \in Debts /\ d.source \in M /\ d.from = u
      BY DEF DebtsFor
    <3>2. d.source \in PaymentIds
      BY <1>1, <3>1, PaymentsAre
    <3>. QED BY <3>1, <3>2, DebtIsPayments
  <2>. QED BY <1>2, <2>1
<1>6. ASSUME NEW i \in M, \A d \in D : name[d] # i PROVE others[i] = 0
  <2>1. SUFFICES ASSUME payments[i].payer # u, payments[i].covers[u] # 0 PROVE FALSE
    OBVIOUS
  <2>2. PaymentDebt(i, u) \in Debts
    BY <1>1, <2>1, PaymentDebtIs
  <2>3. PaymentDebt(i, u).source = i /\ PaymentDebt(i, u).from = u
    BY DEF PaymentDebt
  <2>4. PaymentDebt(i, u) \in D
    BY <2>2, <2>3 DEF DebtsFor
  <2>. QED BY <1>6, <2>3, <2>4
<1>7. IsFiniteSet(D)
  BY <1>4, DebtsAre
<1>8. SumFunctionOnSet(owed, D) = SumFunctionOnSet(others, M)
  <2>. HIDE DEF D, M, name, owed, others
  <2>. QED BY <1>2, <1>5, <1>6, <1>7, SumByName
<1>9. SumFunctionOnSet(others, M) = SumFunctionOnSet(all, M) - SumFunctionOnSet(own, M)
  <2>1. \A i \in M : all[i] \in Int /\ own[i] \in Int /\ others[i] = all[i] - own[i]
    BY <1>2
  <2>. HIDE DEF M, all, own, others
  <2>. QED BY <1>2, <2>1, SumMinus
<1>10. SumFunctionOnSet(own, M) = SumFunctionOnSet(mine, O)
  <2>1. /\ \A i \in M : own[i] \in Int
        /\ \A i \in M \ O : own[i] = 0
        /\ \A i \in O : own[i] = mine[i] /\ own[i] \in Int
    BY <1>2
  <2>2. IsFiniteSet(O) /\ O \in SUBSET M
    BY <1>1, CoveredIs
  <2>. HIDE DEF M, O, own, mine
  <2>3. SumFunctionOnSet(own, M) = SumFunctionOnSet(own, O)
    BY <1>2, <2>1, <2>2, SumWithin
  <2>. QED BY <2>1, <2>2, <2>3, SumSame
<1>. QED BY <1>3, <1>8, <1>9, <1>10

\* What somebody repaid of what a cost's payments make them owe.
LEMMA RepaidByShares ==
  ASSUME Inv, SourcesStand, NEW c, NEW u \in Users
  PROVE  LET D == {d \in DebtsFor(c) : d.from = u}
             R == {i \in Live(receipts) :
                     receipts[i].from = u /\ receipts[i].source \in PaymentsOf(c)}
         IN /\ SumFunctionOnSet([d \in D |-> Repaid(d)], D) = Sum([i \in R |-> receipts[i].amount])
            /\ Sum([i \in R |-> receipts[i].amount]) \in Nat
<1>. DEFINE D == {d \in DebtsFor(c) : d.from = u}
            R == {i \in Live(receipts) :
                    receipts[i].from = u /\ receipts[i].source \in PaymentsOf(c)}
            amount == [i \in R |-> receipts[i].amount]
            one == [d \in D |-> 1]
            signed == [d \in D |-> one[d] * Repaid(d)]
<1>1. D \in SUBSET Debts /\ R \in SUBSET Live(receipts)
  BY DEF DebtsFor
<1>2. ASSUME NEW i \in Live(receipts) PROVE i \in R <=> DebtOf(receipts[i]) \in D
  <2>1. DebtOf(receipts[i]).source = receipts[i].source /\ DebtOf(receipts[i]).from = receipts[i].from
    BY DEF DebtOf
  <2>2. ASSUME i \in R PROVE DebtOf(receipts[i]) \in Debts
    <3>1. Linked(receipts[i])
      <4>1. receipts[i].source \in PaymentIds
        BY <2>2, LiveAre DEF PaymentsOf, Inv
      <4>. QED BY <4>1, LedgerAssumption DEF Linked, Sources
    <3>2. receipts[i] \in Receipt
      BY LiveAre DEF Inv
    <3>. QED BY <3>1, <3>2, DebtOfReceipt, DebtsOwed DEF SourcesStand
  <2>. QED BY <2>1, <2>2 DEF DebtsFor
<1>3. IsFiniteSet(R) /\ \A i \in R : receipts[i].amount \in Nat
  BY <1>1, ReceiptsAre
<1>4. IsFiniteSet(D) /\ \A d \in D : Repaid(d) \in Nat
  BY <1>1, DebtsAre
<1>5. /\ \A d \in D : one[d] = 1 /\ one[d] \in Signs
      /\ \A i \in R : amount[i] = one[DebtOf(receipts[i])] * receipts[i].amount
  BY <1>2, <1>3 DEF Signs
<1>6. SumFunctionOnSet(amount, R) = SumFunctionOnSet(signed, D)
  <2>. HIDE DEF D, R, amount, one
  <2>. QED BY <1>1, <1>2, <1>5, RepaidByDebt
<1>7. signed = [d \in D |-> Repaid(d)]
  BY <1>4
<1>8. Sum(amount) = SumFunctionOnSet(amount, R) /\ \A i \in R : amount[i] \in Nat
  BY <1>3, Sums
<1>. HIDE DEF amount, R
<1>9. SumFunctionOnSet(amount, R) \in Nat
  BY <1>3, <1>8, SumNat
<1>. QED BY <1>6, <1>7, <1>8, <1>9 DEF amount, R

\* What somebody owes others for a cost, and what they repaid too much, differ by
\* what they owe and repaid.
LEMMA ReimbursementLessCredit ==
  ASSUME Inv, NEW c, NEW u \in Users
  PROVE  LET D == {d \in DebtsFor(c) : d.from = u}
             over == Sum([d \in D |-> NotNegative(-Outstanding(d))])
         IN /\ Reimbursement(c, u) \in Nat /\ over \in Nat
            /\ Reimbursement(c, u) - over
               = SumFunctionOnSet([d \in D |-> Owed(d)], D)
                 - SumFunctionOnSet([d \in D |-> Repaid(d)], D)
            /\ SumFunctionOnSet([d \in D |-> Repaid(d)], D) \in Nat
            /\ SumFunctionOnSet([d \in D |-> Owed(d)], D) \in Nat
<1>. DEFINE D == {d \in DebtsFor(c) : d.from = u}
            open == [d \in D |-> NotNegative(Outstanding(d))]
            extra == [d \in D |-> NotNegative(-Outstanding(d))]
            rest == [d \in D |-> Outstanding(d)]
            owed == [d \in D |-> Owed(d)]
            repaid == [d \in D |-> Repaid(d)]
<1>1. D \in SUBSET Debts
  BY DEF DebtsFor
<1>2. IsFiniteSet(D)
  BY <1>1, DebtsAre
<1>3. \A d \in D : /\ owed[d] \in Nat /\ repaid[d] \in Nat /\ rest[d] = owed[d] - repaid[d]
                   /\ rest[d] \in Int
  <2>1. \A d \in D : Owed(d) \in Nat /\ Repaid(d) \in Nat /\ Outstanding(d) = Owed(d) - Repaid(d)
    BY <1>1, DebtsAre
  <2>. HIDE DEF D
  <2>. QED BY <2>1
<1>4. \A d \in D : open[d] \in Nat /\ extra[d] \in Nat /\ rest[d] = open[d] - extra[d]
  <2>. TAKE d \in D
  <2>1. Outstanding(d) \in Int
    BY <1>3
  <2>2. -Outstanding(d) \in Int
    BY <2>1
  <2>. QED BY <2>1, <2>2, NotNegativeIs
<1>5. Reimbursement(c, u) = SumFunctionOnSet(open, D)
  BY Sums DEF Reimbursement
<1>6. Sum(extra) = SumFunctionOnSet(extra, D)
  BY Sums
<1>. HIDE DEF D, open, extra, rest, owed, repaid
<1>7. /\ SumFunctionOnSet(open, D) \in Nat /\ SumFunctionOnSet(extra, D) \in Nat
      /\ SumFunctionOnSet(owed, D) \in Nat /\ SumFunctionOnSet(repaid, D) \in Nat
  BY <1>2, <1>3, <1>4, SumNat
<1>8. SumFunctionOnSet(rest, D) = SumFunctionOnSet(open, D) - SumFunctionOnSet(extra, D)
  BY <1>2, <1>4, SumMinus
<1>9. SumFunctionOnSet(rest, D) = SumFunctionOnSet(owed, D) - SumFunctionOnSet(repaid, D)
  BY <1>2, <1>3, SumMinus
<1>10. /\ Reimbursement(c, u) \in Nat /\ Sum(extra) \in Nat
       /\ Reimbursement(c, u) - Sum(extra) = SumFunctionOnSet(owed, D) - SumFunctionOnSet(repaid, D)
  BY <1>5, <1>6, <1>7, <1>8, <1>9
<1>. QED BY <1>7, <1>10 DEF D, extra, owed, repaid

\* Nobody's share of a cost is lost or counted twice.
LEMMA ShareAddsUp ==
  ASSUME Inv, SourcesStand, NEW c \in Live(costs), NEW u \in Users
  PROVE  LET own == Covered({i \in PaymentsOf(c) : payments[i].payer = u}, u)
             repaid == Sum([i \in {i \in Live(receipts) :
                                             /\ receipts[i].from = u
                                             /\ receipts[i].source \in PaymentsOf(c)} |->
                                      receipts[i].amount])
         IN /\ costs[c].shares[u] = own + repaid + Remaining(c, u) - Credit(c, u)
            /\ Credit(c, u) = 0 => Paid(c, u) = own + repaid
<1>. DEFINE D == {d \in DebtsFor(c) : d.from = u}
            over == Sum([d \in D |-> NotNegative(-Outstanding(d))])
            owed == SumFunctionOnSet([d \in D |-> Owed(d)], D)
            back == SumFunctionOnSet([d \in D |-> Repaid(d)], D)
            own == Covered({i \in PaymentsOf(c) : payments[i].payer = u}, u)
            repaid == Sum([i \in {i \in Live(receipts) :
                                             /\ receipts[i].from = u
                                             /\ receipts[i].source \in PaymentsOf(c)} |->
                                      receipts[i].amount])
<1>1. costs[c].shares[u] \in Nat
  BY LiveAre, AmountsAre DEF Inv, Cost
<1>2. Covered(PaymentsOf(c), u) \in Nat /\ own \in Nat
  <2>1. /\ PaymentsOf(c) \in SUBSET Live(payments)
        /\ {i \in PaymentsOf(c) : payments[i].payer = u} \in SUBSET Live(payments)
    BY DEF PaymentsOf
  <2>. QED BY <2>1, CoveredIs
<1>3. Reimbursement(c, u) \in Nat /\ over \in Nat /\ Reimbursement(c, u) - over = owed - back
  BY ReimbursementLessCredit
<1>4. owed = Covered(PaymentsOf(c), u) - own
  BY OwedByShares
<1>5. back = repaid /\ repaid \in Nat
  BY RepaidByShares
<1>6. PICK unpaid \in Int : unpaid = Unpaid(c, u)
  BY <1>1, <1>2 DEF Unpaid
<1>7. unpaid = costs[c].shares[u] - Covered(PaymentsOf(c), u)
  BY <1>6 DEF Unpaid
<1>8. /\ NotNegative(unpaid) \in Nat /\ NotNegative(-unpaid) \in Nat
      /\ NotNegative(unpaid) - NotNegative(-unpaid) = unpaid
  <2>1. -unpaid \in Int
    OBVIOUS
  <2>. QED BY <2>1, NotNegativeIs
<1>9. Remaining(c, u) = NotNegative(unpaid) + Reimbursement(c, u)
  BY <1>6 DEF Remaining
<1>10. Credit(c, u) = NotNegative(-unpaid) + over
  BY <1>6 DEF Credit
<1>. HIDE DEF over, owed, back, own, repaid
<1>11. costs[c].shares[u] = own + repaid + Remaining(c, u) - Credit(c, u)
  BY <1>1, <1>2, <1>3, <1>4, <1>5, <1>7, <1>8, <1>9, <1>10
<1>12. ASSUME Credit(c, u) = 0 PROVE Paid(c, u) = own + repaid
  <2>1. costs[c].shares[u] - Remaining(c, u) = own + repaid /\ own + repaid \in Nat
    BY <1>1, <1>2, <1>3, <1>5, <1>8, <1>9, <1>11, <1>12
  <2>. QED BY <2>1, NotNegativeIs DEF Paid
<1>. QED BY <1>11, <1>12 DEF own, repaid

\* What the business still has to be paid is what each member has not paid it.
LEMMA BusinessAddsUp ==
  ASSUME Inv, NEW c \in Live(costs)
  PROVE  BusinessRemaining(c) = Sum([u \in Users |-> Unpaid(c, u)])
<1>. DEFINE M == PaymentsOf(c)
            m == [i \in M |-> payments[i].covers]
            share == costs[c].shares
            unpaid == [u \in Users |-> Unpaid(c, u)]
            paid == [u \in Users |-> SumFunctionOnSet([i \in M |-> m[i][u]], M)]
            totals == [i \in M |-> SumFunctionOnSet(m[i], Users)]
<1>1. share \in [Users -> Amounts]
  BY LiveAre DEF Inv, Cost
<1>2. M \in SUBSET Live(payments)
  BY DEF PaymentsOf
<1>3. /\ IsFiniteSet(M) /\ IsFiniteSet(Users) /\ \A i \in M : m[i] \in [Users -> Amounts]
  BY <1>2, PaymentsAre, Finite
<1>4. ASSUME NEW u \in Users
      PROVE  share[u] \in Int /\ paid[u] \in Int /\ unpaid[u] = share[u] - paid[u]
  <2>1. Covered(M, u) = SumFunctionOnSet([i \in M |-> payments[i].covers[u]], M) /\ Covered(M, u) \in Nat
    BY <1>2, CoveredIs
  <2>2. [i \in M |-> payments[i].covers[u]] = [i \in M |-> m[i][u]]
    OBVIOUS
  <2>3. share[u] \in Nat
    BY <1>1, AmountsAre
  <2>4. paid[u] = Covered(M, u) /\ unpaid[u] = share[u] - Covered(M, u)
    BY <2>1, <2>2 DEF Unpaid
  <2>. HIDE DEF M, paid, unpaid, share
  <2>. QED BY <2>1, <2>3, <2>4
<1>5. Sum(unpaid) = SumFunctionOnSet(unpaid, Users)
  BY Sums
<1>6. Total(share) = SumFunctionOnSet(share, Users)
  BY <1>1, TotalNat
<1>7. Funded(M) = SumFunctionOnSet(totals, M)
  <2>1. \A i \in M : Total(payments[i].covers) = SumFunctionOnSet(m[i], Users)
    BY <1>3, TotalNat
  <2>2. [i \in M |-> Total(payments[i].covers)] = totals
    BY <2>1
  <2>. QED BY <1>2, <2>2, FundedIs
<1>8. \A i \in M, u \in Users : m[i][u] \in Int
  <2>. TAKE i \in M, u \in Users
  <2>1. m[i] \in [Users -> Amounts]
    BY <1>3
  <2>. HIDE DEF M, m
  <2>2. m[i][u] \in Nat
    BY <2>1, AmountsAre
  <2>. QED BY <2>2
<1>9. SumFunctionOnSet(totals, M) = SumFunctionOnSet(paid, Users)
  <2>. HIDE DEF M, m
  <2>. QED BY <1>3, <1>8, SumSwap
<1>10. SumFunctionOnSet(unpaid, Users) = SumFunctionOnSet(share, Users) - SumFunctionOnSet(paid, Users)
  <2>. HIDE DEF share, paid, unpaid
  <2>. QED BY <1>3, <1>4, SumMinus
<1>. QED BY <1>5, <1>6, <1>7, <1>9, <1>10 DEF BusinessRemaining

\* What some owe for a cost others are owed.
LEMMA OwedIsReceivable ==
  ASSUME Inv, NEW c
  PROVE  Sum([u \in Users |-> Reimbursement(c, u)]) = Sum([u \in Users |-> Receivable(c, u)])
<1>. DEFINE D == DebtsFor(c)
            open == [d \in D |-> NotNegative(Outstanding(d))]
            from == [d \in D |-> d.from]
            to == [d \in D |-> d.to]
<1>1. D \in SUBSET Debts
  BY DEF DebtsFor
<1>2. IsFiniteSet(D) /\ IsFiniteSet(Users)
  BY <1>1, DebtsAre, Finite
<1>3. ASSUME NEW d \in D PROVE open[d] \in Int /\ from[d] \in Users /\ to[d] \in Users
  <2>1. d \in Debt /\ Outstanding(d) \in Int
    BY <1>1, DebtsAre
  <2>. QED BY <2>1, NotNegativeIs DEF Debt
<1>4. ASSUME NEW S \in SUBSET D
      PROVE  Sum([d \in S |-> NotNegative(Outstanding(d))]) = SumFunctionOnSet(open, S)
  <2>. DEFINE f == [d \in S |-> NotNegative(Outstanding(d))]
  <2>1. Sum(f) = SumFunctionOnSet(f, S)
    BY Sums
  <2>2. \A d \in S : f[d] = open[d] /\ f[d] \in Int
    BY <1>3
  <2>3. IsFiniteSet(S)
    BY <1>2, FS_Subset
  <2>. HIDE DEF f, open
  <2>4. SumFunctionOnSet(f, S) = SumFunctionOnSet(open, S)
    BY <2>2, <2>3, SumSame
  <2>. QED BY <2>1, <2>4 DEF f
<1>5. ASSUME NEW u \in Users
      PROVE  /\ Reimbursement(c, u) = SumFunctionOnSet(open, {d \in D : from[d] = u})
             /\ Receivable(c, u) = SumFunctionOnSet(open, {d \in D : to[d] = u})
  <2>1. /\ {d \in D : from[d] = u} = {d \in D : d.from = u}
        /\ {d \in D : to[d] = u} = {d \in D : d.to = u}
    OBVIOUS
  <2>2. /\ Sum([d \in {d \in D : d.from = u} |-> NotNegative(Outstanding(d))])
           = SumFunctionOnSet(open, {d \in D : d.from = u})
        /\ Sum([d \in {d \in D : d.to = u} |-> NotNegative(Outstanding(d))])
           = SumFunctionOnSet(open, {d \in D : d.to = u})
    <3>. HIDE DEF D, open
    <3>. QED BY <1>4
  <2>. QED BY <2>1, <2>2 DEF Reimbursement, Receivable
<1>6. /\ [u \in Users |-> Reimbursement(c, u)]
         = [u \in Users |-> SumFunctionOnSet(open, {d \in D : from[d] = u})]
      /\ [u \in Users |-> Receivable(c, u)]
         = [u \in Users |-> SumFunctionOnSet(open, {d \in D : to[d] = u})]
  BY <1>5
<1>. HIDE DEF D, open, from, to
<1>7. SumFunctionOnSet(open, D)
      = SumFunctionOnSet([u \in Users |-> SumFunctionOnSet(open, {d \in D : from[d] = u})], Users)
  BY <1>2, <1>3, SumByKey
<1>8. SumFunctionOnSet(open, D)
      = SumFunctionOnSet([u \in Users |-> SumFunctionOnSet(open, {d \in D : to[d] = u})], Users)
  BY <1>2, <1>3, SumByKey
<1>9. /\ Sum([u \in Users |-> Reimbursement(c, u)])
         = SumFunctionOnSet([u \in Users |-> Reimbursement(c, u)], Users)
      /\ Sum([u \in Users |-> Receivable(c, u)])
         = SumFunctionOnSet([u \in Users |-> Receivable(c, u)], Users)
  BY Sums
<1>. QED BY <1>6, <1>7, <1>8, <1>9

\* The status of a cost adds up in every state, whatever order its shares, its
\* payments and their receipts were written, corrected and deleted in.
THEOREM StatusAlwaysAddsUp == Spec => []StatusAddsUp
<1>1. Inv /\ SourcesStand => StatusAddsUp
  BY ShareAddsUp, BusinessAddsUp, OwedIsReceivable DEF StatusAddsUp
<1>. QED BY <1>1, Invariance, SourcesAlwaysStand, PTL

\* Of an amount that goes from somebody to somebody, what it makes of u's balance.
SignOf(u, gets, gives) == (IF u = gets THEN 1 ELSE 0) - (IF u = gives THEN 1 ELSE 0)

LEMMA SignOfIs ==
  ASSUME NEW u, NEW gets, NEW gives
  PROVE  SignOf(u, gets, gives) \in Signs /\ SignOf(u, gets, gives) = -SignOf(u, gives, gets)
BY DEF SignOf, Signs

\* What each row of S, a loan or a receipt, makes of u's balance, and what u gives
\* and gets in them.
Moves(rows, S, u) == [i \in S |-> SignOf(u, rows[i].from, rows[i].to) * rows[i].amount]
Given(rows, S, u) == Sum([i \in {i \in S : rows[i].from = u} |-> rows[i].amount])
Gotten(rows, S, u) == Sum([i \in {i \in S : rows[i].to = u} |-> rows[i].amount])

LEMMA Movements ==
  ASSUME NEW u, NEW S, IsFiniteSet(S), NEW rows, \A i \in S : rows[i].amount \in Nat
  PROVE  /\ SumFunctionOnSet(Moves(rows, S, u), S) = Given(rows, S, u) - Gotten(rows, S, u)
         /\ Given(rows, S, u) \in Nat /\ Gotten(rows, S, u) \in Nat
         /\ \A i \in S : Moves(rows, S, u)[i] \in Int
<1>. DEFINE signed == Moves(rows, S, u)
            gave == [i \in S |-> IF rows[i].from = u THEN rows[i].amount ELSE 0]
            got == [i \in S |-> IF rows[i].to = u THEN rows[i].amount ELSE 0]
            V == {i \in S : rows[i].from = u}
            G == {i \in S : rows[i].to = u}
            given == [i \in V |-> rows[i].amount]
            gotten == [i \in G |-> rows[i].amount]
<1>1. \A i \in S : /\ gave[i] \in Int /\ got[i] \in Int /\ signed[i] = gave[i] - got[i]
                   /\ signed[i] \in Int
  BY DEF SignOf, Moves
<1>2. IsFiniteSet(G) /\ IsFiniteSet(V)
  BY FS_Subset
<1>3. /\ \A i \in S \ V : gave[i] = 0
      /\ \A i \in V : gave[i] = given[i] /\ given[i] \in Nat /\ gave[i] \in Int
      /\ \A i \in S \ G : got[i] = 0
      /\ \A i \in G : got[i] = gotten[i] /\ gotten[i] \in Nat /\ got[i] \in Int
      /\ G \in SUBSET S /\ V \in SUBSET S
  OBVIOUS
<1>4. /\ Given(rows, S, u) = SumFunctionOnSet(given, V)
      /\ Gotten(rows, S, u) = SumFunctionOnSet(gotten, G)
  <2>1. Given(rows, S, u) = Sum(given) /\ Gotten(rows, S, u) = Sum(gotten)
    BY DEF Given, Gotten
  <2>2. DOMAIN given = V /\ DOMAIN gotten = G
    OBVIOUS
  <2>. HIDE DEF given, gotten, V, G
  <2>. QED BY <2>1, <2>2, Sums
<1>. HIDE DEF signed, got, gave, G, V, given, gotten
<1>5. SumFunctionOnSet(signed, S) = SumFunctionOnSet(gave, S) - SumFunctionOnSet(got, S)
  BY <1>1, SumMinus
<1>6. SumFunctionOnSet(gave, S) = SumFunctionOnSet(gave, V)
  BY <1>1, <1>3, SumWithin
<1>7. SumFunctionOnSet(got, S) = SumFunctionOnSet(got, G)
  BY <1>1, <1>3, SumWithin
<1>8. SumFunctionOnSet(gave, V) = SumFunctionOnSet(given, V)
  BY <1>2, <1>3, SumSame
<1>9. SumFunctionOnSet(got, G) = SumFunctionOnSet(gotten, G)
  BY <1>2, <1>3, SumSame
<1>10. SumFunctionOnSet(given, V) \in Nat /\ SumFunctionOnSet(gotten, G) \in Nat
  BY <1>2, <1>3, SumNat
<1>11. SumFunctionOnSet(signed, S) = Given(rows, S, u) - Gotten(rows, S, u)
  BY <1>4, <1>5, <1>6, <1>7, <1>8, <1>9
<1>. QED BY <1>1, <1>4, <1>10, <1>11 DEF signed

\* The debts of a payment make of a balance what its payer paid less what it
\* covers.
LEMMA PaymentSigned ==
  ASSUME Inv, NEW u \in Users, NEW i \in Live(payments), NEW D, NEW signed,
         D = {d \in Debts : d.currency = payments[i].currency /\ d.source = i},
         \A d \in D : signed[d] = SignOf(u, d.to, d.from) * Owed(d)
  PROVE  SumFunctionOnSet(signed, D)
         = (IF payments[i].payer = u THEN Total(payments[i].covers) ELSE 0) - payments[i].covers[u]
<1>1. PICK covers, payer : covers = payments[i].covers /\ payer = payments[i].payer
  OBVIOUS
<1>. DEFINE name == [d \in D |-> d.from]
            h == [v \in Users |-> IF v = payer THEN 0 ELSE SignOf(u, payer, v) * covers[v]]
            a == [v \in Users |-> IF payer = u THEN covers[v] ELSE 0]
            k == [v \in Users |-> IF v = u THEN covers[v] ELSE 0]
<1>2. /\ i \in PaymentIds /\ covers \in [Users -> Amounts] /\ payer \in Users
      /\ \A v \in Users : covers[v] \in Nat
  <2>1. i \in PaymentIds /\ covers \in [Users -> Amounts] /\ payer \in Users
    BY <1>1, LiveAre DEF Inv, Payment
  <2>. QED BY <2>1, AmountsAre
<1>3. ASSUME NEW d \in D
      PROVE  /\ d = PaymentDebt(i, d.from) /\ d.to = payer /\ d.from \in Users /\ d.from # payer
             /\ Owed(d) = covers[d.from]
  <2>1. d \in Debts /\ d.source = i
    OBVIOUS
  <2>2. d.source \in PaymentIds
    BY <1>2, <2>1
  <2>3. d = PaymentDebt(i, d.from) /\ d.from # payer /\ Owed(d) = covers[d.from]
    BY <1>1, <2>1, <2>2, DebtIsPayments
  <2>4. PaymentDebt(i, d.from).to = payer
    BY <1>1 DEF PaymentDebt
  <2>5. d.from \in Users
    BY <2>1, DebtsOwed DEF Debt
  <2>. QED BY <2>3, <2>4, <2>5
<1>4. /\ \A d \in D : signed[d] \in Int /\ name[d] \in Users /\ h[name[d]] = signed[d]
      /\ \A d, e \in D : name[d] = name[e] => d = e
  <2>1. ASSUME NEW d \in D PROVE signed[d] \in Int /\ name[d] \in Users /\ h[name[d]] = signed[d]
    <3>1. signed[d] = SignOf(u, payer, d.from) * covers[d.from]
      BY <1>3
    <3>2. covers[d.from] \in Nat /\ SignOf(u, payer, d.from) \in Signs
      BY <1>2, <1>3, SignOfIs
    <3>. QED BY <1>3, <3>1, <3>2 DEF Signs
  <2>2. \A d, e \in D : name[d] = name[e] => d = e
    BY <1>3
  <2>. QED BY <2>1, <2>2
<1>5. ASSUME NEW v \in Users, \A d \in D : name[d] # v PROVE h[v] = 0
  <2>1. CASE v # payer /\ covers[v] # 0
    <3>1. PaymentDebt(i, v) \in Debts
      BY <1>1, <2>1, PaymentDebtIs
    <3>2. /\ PaymentDebt(i, v).source = i /\ PaymentDebt(i, v).from = v
          /\ PaymentDebt(i, v).currency = payments[i].currency
      BY DEF PaymentDebt
    <3>. QED BY <1>5, <3>1, <3>2
  <2>2. CASE v # payer /\ covers[v] = 0
    BY <2>2, SignOfIs DEF Signs
  <2>. QED BY <2>1, <2>2
<1>6. IsFiniteSet(D) /\ IsFiniteSet(Users)
  BY DebtsAre, Finite
<1>7. SumFunctionOnSet(signed, D) = SumFunctionOnSet(h, Users)
  <2>. HIDE DEF name, h
  <2>. QED BY <1>4, <1>5, <1>6, SumByName
<1>8. \A v \in Users : a[v] \in Int /\ k[v] \in Int /\ h[v] = a[v] - k[v]
  BY <1>2 DEF SignOf
<1>9. SumFunctionOnSet(h, Users) = SumFunctionOnSet(a, Users) - SumFunctionOnSet(k, Users)
  <2>. HIDE DEF h, a, k
  <2>. QED BY <1>6, <1>8, SumMinus
<1>10. SumFunctionOnSet(k, Users) = covers[u]
  <2>1. /\ \A v \in Users : k[v] \in Int
        /\ \A v \in Users \ {u} : k[v] = 0
        /\ k[u] = covers[u] /\ {u} \in SUBSET Users
    BY <1>2
  <2>. HIDE DEF k
  <2>2. SumFunctionOnSet(k, Users) = SumFunctionOnSet(k, {u})
    BY <1>6, <2>1, SumWithin
  <2>. QED BY <2>1, <2>2, SumOne
<1>11. SumFunctionOnSet(a, Users) = IF payer = u THEN Total(covers) ELSE 0
  <2>1. CASE payer = u
    <3>1. \A v \in Users : a[v] = covers[v] /\ a[v] \in Int
      BY <1>2, <2>1
    <3>. HIDE DEF a
    <3>2. SumFunctionOnSet(a, Users) = SumFunctionOnSet(covers, Users)
      BY <1>6, <3>1, SumSame
    <3>. QED BY <1>2, <2>1, <3>2, TotalNat
  <2>2. CASE payer # u
    <3>1. \A v \in Users : a[v] = 0
      BY <2>2
    <3>. HIDE DEF a
    <3>. QED BY <1>6, <2>2, <3>1, SumZero
  <2>. QED BY <2>1, <2>2
<1>. QED BY <1>1, <1>7, <1>9, <1>10, <1>11

\* The debt of a loan makes of a balance what it lent or borrowed.
LEMMA LoanSigned ==
  ASSUME Inv, NEW u \in Users, NEW i \in Live(loans), NEW D, NEW signed,
         D = {d \in Debts : d.currency = loans[i].currency /\ d.source = i},
         \A d \in D : signed[d] = SignOf(u, d.to, d.from) * Owed(d)
  PROVE  SumFunctionOnSet(signed, D) = SignOf(u, loans[i].from, loans[i].to) * loans[i].amount
<1>. DEFINE d == [source |-> i, from |-> loans[i].to, to |-> loans[i].from,
                  currency |-> loans[i].currency]
<1>1. /\ i \in LoanIds /\ i \notin PaymentIds /\ loans[i].from \in Users /\ loans[i].to \in Users
      /\ loans[i].currency \in Currencies /\ loans[i].amount \in Nat
  <2>1. i \in LoanIds /\ loans[i] \in Loan
    BY LiveAre DEF Inv
  <2>. QED BY <2>1, AmountsAre, LedgerAssumption DEF Loan
<1>2. d \in Debt
  BY <1>1 DEF Debt, Sources
<1>3. /\ d.source = i /\ d.from = loans[i].to /\ d.to = loans[i].from
      /\ d.currency = loans[i].currency
  OBVIOUS
<1>4. ASSUME NEW e \in D PROVE e = d
  <2>1. e \in Debt /\ Owed(e) > 0 /\ e.source = i /\ e.currency = loans[i].currency
    BY <1>4, DebtsOwed
  <2>2. e.from = loans[i].to /\ e.to = loans[i].from
    BY <1>1, <2>1 DEF Owed
  <2>3. e = [source |-> e.source, from |-> e.from, to |-> e.to, currency |-> e.currency]
    BY <2>1 DEF Debt
  <2>. QED BY <2>1, <2>2, <2>3
<1>. HIDE DEF d
<1>5. Owed(d) = loans[i].amount
  BY <1>1, <1>3 DEF Owed
<1>6. SignOf(u, loans[i].from, loans[i].to) \in Signs
  BY SignOfIs
<1>7. CASE loans[i].amount = 0
  <2>1. d \notin D
    BY <1>5, <1>7, DebtsOwed
  <2>2. D = {}
    BY <1>4, <2>1
  <2>3. SumFunctionOnSet(signed, D) = 0
    BY <2>2, SumNone
  <2>4. SignOf(u, loans[i].from, loans[i].to) * loans[i].amount = 0
    BY <1>6, <1>7 DEF Signs
  <2>. QED BY <2>3, <2>4
<1>8. CASE loans[i].amount > 0
  <2>1. d \in D
    BY <1>2, <1>3, <1>5, <1>8, DebtsOwed
  <2>2. D = {d}
    BY <1>4, <2>1
  <2>3. signed[d] = SignOf(u, loans[i].from, loans[i].to) * loans[i].amount
    BY <1>3, <1>5, <2>1
  <2>4. signed[d] \in Int
    BY <1>1, <1>6, <2>3 DEF Signs
  <2>. QED BY <2>2, <2>3, <2>4, SumOne
<1>. QED BY <1>1, <1>7, <1>8

Within(table, c) == {i \in Live(table) : table[i].currency = c}
LinkedIn(c) == {i \in Within(receipts, c) : Linked(receipts[i])}
LooseIn(c) == {i \in Within(receipts, c) : ~Linked(receipts[i])}
DebtsIn(c) == {d \in Debts : d.currency = c}

\* What payments and debts make of u's balance.
PaidIn(u, c) ==
  [i \in Within(payments, c) |->
     (IF payments[i].payer = u THEN Total(payments[i].covers) ELSE 0) - payments[i].covers[u]]

OwedIn(u, c) == [d \in DebtsIn(c) |-> SignOf(u, d.to, d.from) * Owed(d)]
OpenIn(u, c) == [d \in DebtsIn(c) |-> SignOf(u, d.to, d.from) * Outstanding(d)]

\* What is owed is what payments and loans make of a balance.
LEMMA OwedSigned ==
  ASSUME Inv, NEW u \in Users, NEW c
  PROVE  /\ SumFunctionOnSet(OwedIn(u, c), DebtsIn(c))
            = SumFunctionOnSet(PaidIn(u, c), Within(payments, c))
              + SumFunctionOnSet(Moves(loans, Within(loans, c), u), Within(loans, c))
         /\ SumFunctionOnSet(PaidIn(u, c), Within(payments, c)) \in Int
         /\ SumFunctionOnSet(Moves(loans, Within(loans, c), u), Within(loans, c)) \in Int
<1>. DEFINE D == DebtsIn(c)
            signed == OwedIn(u, c)
            paid == PaidIn(u, c)
            lent == Moves(loans, Within(loans, c), u)
<1>0. /\ D = {d \in Debts : d.currency = c}
      /\ \A d \in D : signed[d] = SignOf(u, d.to, d.from) * Owed(d)
      /\ \A i \in Within(payments, c) :
           paid[i] = (IF payments[i].payer = u THEN Total(payments[i].covers) ELSE 0)
                     - payments[i].covers[u]
      /\ \A i \in Within(loans, c) :
           lent[i] = SignOf(u, loans[i].from, loans[i].to) * loans[i].amount
  BY DEF DebtsIn, OwedIn, PaidIn, Moves
<1>. HIDE DEF D, signed, paid, lent
<1>. DEFINE P == Within(payments, c)
            L == Within(loans, c)
            source == [d \in D |-> d.source]
            by == [i \in P \union L |-> SumFunctionOnSet(signed, {d \in D : source[d] = i})]
<1>1. P \subseteq Live(payments) /\ P \subseteq PaymentIds /\ L \subseteq Live(loans) /\ L \subseteq LoanIds
  BY LiveAre DEF Within, Inv
<1>2. IsFiniteSet(P) /\ IsFiniteSet(L) /\ P \intersect L = {}
  BY <1>1, Finite, LedgerAssumption
<1>3. IsFiniteSet(P \union L)
  BY <1>2, FS_Union
<1>4. IsFiniteSet(D)
  BY <1>0, DebtsAre
<1>5. ASSUME NEW d \in D PROVE signed[d] \in Int /\ source[d] \in P \union L
  <2>1. d \in Debt /\ Owed(d) > 0 /\ Owed(d) \in Nat /\ d.currency = c
    BY <1>0, DebtsAre, DebtsOwed
  <2>2. SignOf(u, d.to, d.from) \in Signs
    BY SignOfIs
  <2>3. signed[d] \in Int
    BY <1>0, <2>1, <2>2 DEF Signs
  <2>4. d.source \in P \union L
    BY <2>1 DEF Owed, Within
  <2>. QED BY <2>3, <2>4
<1>6. SumFunctionOnSet(signed, D) = SumFunctionOnSet(by, P \union L)
  <2>. HIDE DEF P, L, source
  <2>. QED BY <1>3, <1>4, <1>5, SumByKey
<1>7. ASSUME NEW i \in P PROVE by[i] = paid[i] /\ paid[i] \in Int
  <2>1. i \in Live(payments) /\ payments[i].currency = c
    BY <1>7 DEF Within
  <2>2. {d \in D : source[d] = i} = {d \in Debts : d.currency = payments[i].currency /\ d.source = i}
    BY <1>0, <2>1
  <2>3. SumFunctionOnSet(signed, {d \in D : source[d] = i})
        = (IF payments[i].payer = u THEN Total(payments[i].covers) ELSE 0) - payments[i].covers[u]
    <3>1. \A d \in {d \in D : source[d] = i} : signed[d] = SignOf(u, d.to, d.from) * Owed(d)
      BY <1>0
    <3>. HIDE DEF source
    <3>. QED BY <2>1, <2>2, <3>1, PaymentSigned
  <2>4. Total(payments[i].covers) \in Nat /\ payments[i].covers[u] \in Nat
    <3>1. payments[i].covers \in [Users -> Amounts]
      BY <2>1, LiveAre DEF Inv, Payment
    <3>. QED BY <3>1, AmountsAre, TotalNat
  <2>5. paid[i] = (IF payments[i].payer = u THEN Total(payments[i].covers) ELSE 0) - payments[i].covers[u]
    BY <1>0, <1>7
  <2>6. by[i] = SumFunctionOnSet(signed, {d \in D : source[d] = i})
    BY <1>7
  <2>. HIDE DEF by, source
  <2>. QED BY <2>3, <2>4, <2>5, <2>6
<1>8. ASSUME NEW i \in L PROVE by[i] = lent[i] /\ lent[i] \in Int
  <2>1. i \in Live(loans) /\ loans[i].currency = c
    BY <1>8 DEF Within
  <2>2. {d \in D : source[d] = i} = {d \in Debts : d.currency = loans[i].currency /\ d.source = i}
    BY <1>0, <2>1
  <2>3. SumFunctionOnSet(signed, {d \in D : source[d] = i})
        = SignOf(u, loans[i].from, loans[i].to) * loans[i].amount
    <3>1. \A d \in {d \in D : source[d] = i} : signed[d] = SignOf(u, d.to, d.from) * Owed(d)
      BY <1>0
    <3>. HIDE DEF source
    <3>. QED BY <2>1, <2>2, <3>1, LoanSigned
  <2>4. loans[i].amount \in Nat /\ SignOf(u, loans[i].from, loans[i].to) \in Signs
    BY <2>1, LiveAre, AmountsAre, SignOfIs DEF Inv, Loan
  <2>5. lent[i] = SignOf(u, loans[i].from, loans[i].to) * loans[i].amount
    BY <1>0, <1>8
  <2>6. by[i] = SumFunctionOnSet(signed, {d \in D : source[d] = i})
    BY <1>8
  <2>. HIDE DEF by, source
  <2>. QED BY <2>3, <2>4, <2>5, <2>6 DEF Signs
<1>. HIDE DEF P, L, by
<1>9. SumFunctionOnSet(by, P \union L) = SumFunctionOnSet(by, P) + SumFunctionOnSet(by, L)
  BY <1>2, <1>7, <1>8, SumUnion
<1>10. SumFunctionOnSet(by, P) = SumFunctionOnSet(paid, P) /\ SumFunctionOnSet(by, L) = SumFunctionOnSet(lent, L)
  BY <1>2, <1>7, <1>8, SumSame
<1>11. SumFunctionOnSet(paid, P) \in Int /\ SumFunctionOnSet(lent, L) \in Int
  BY <1>2, <1>7, <1>8, SumInt
<1>. QED BY <1>6, <1>9, <1>10, <1>11 DEF P, L, D, signed, paid, lent

\* What is outstanding makes of a balance what is owed less what is repaid.
LEMMA OutstandingSigned ==
  ASSUME Inv, SourcesStand, NEW u \in Users, NEW c
  PROVE  /\ SumFunctionOnSet(OpenIn(u, c), DebtsIn(c))
            = SumFunctionOnSet(OwedIn(u, c), DebtsIn(c))
              + SumFunctionOnSet(Moves(receipts, LinkedIn(c), u), LinkedIn(c))
         /\ SumFunctionOnSet(OwedIn(u, c), DebtsIn(c)) \in Int
         /\ SumFunctionOnSet(Moves(receipts, LinkedIn(c), u), LinkedIn(c)) \in Int
<1>. DEFINE D == DebtsIn(c)
            R == LinkedIn(c)
            rest == OpenIn(u, c)
            owed == OwedIn(u, c)
            moved == Moves(receipts, LinkedIn(c), u)
<1>0. /\ D = {d \in Debts : d.currency = c}
      /\ R = {i \in Within(receipts, c) : Linked(receipts[i])}
      /\ \A d \in D : /\ rest[d] = SignOf(u, d.to, d.from) * Outstanding(d)
                       /\ owed[d] = SignOf(u, d.to, d.from) * Owed(d)
      /\ \A i \in R : moved[i] = SignOf(u, receipts[i].from, receipts[i].to) * receipts[i].amount
  BY DEF DebtsIn, LinkedIn, OpenIn, OwedIn, Moves
<1>. HIDE DEF D, R, rest, owed, moved
<1>. DEFINE sign == [d \in D |-> SignOf(u, d.from, d.to)]
            back == [d \in D |-> sign[d] * Repaid(d)]
<1>1. D \in SUBSET Debts /\ R \in SUBSET Live(receipts)
  BY <1>0 DEF Within
<1>2. ASSUME NEW i \in Live(receipts) PROVE i \in R <=> DebtOf(receipts[i]) \in D
  <2>1. /\ DebtOf(receipts[i]).source = receipts[i].source
        /\ DebtOf(receipts[i]).currency = receipts[i].currency
    BY DEF DebtOf
  <2>2. receipts[i] \in Receipt
    BY LiveAre DEF Inv
  <2>3. ASSUME Linked(receipts[i]) PROVE DebtOf(receipts[i]) \in Debts
    BY <2>2, <2>3, DebtOfReceipt, DebtsOwed DEF SourcesStand
  <2>4. ASSUME DebtOf(receipts[i]) \in Debts PROVE Linked(receipts[i])
    BY <2>1, <2>4, LedgerAssumption, DebtsOwed DEF Debt, Linked
  <2>. QED BY <1>0, <2>1, <2>3, <2>4 DEF Within
<1>3. \A d \in D : sign[d] \in Signs
  BY SignOfIs
<1>4. \A i \in R : moved[i] = sign[DebtOf(receipts[i])] * receipts[i].amount
  <2>. TAKE i \in R
  <2>1. /\ DebtOf(receipts[i]) \in D
        /\ DebtOf(receipts[i]).from = receipts[i].from /\ DebtOf(receipts[i]).to = receipts[i].to
    BY <1>1, <1>2 DEF DebtOf
  <2>2. sign[DebtOf(receipts[i])] = SignOf(u, receipts[i].from, receipts[i].to)
    BY <2>1
  <2>. QED BY <1>0, <2>2
<1>5. SumFunctionOnSet(moved, R) = SumFunctionOnSet(back, D)
  <2>. HIDE DEF sign
  <2>. QED BY <1>1, <1>2, <1>3, <1>4, RepaidByDebt
<1>6. IsFiniteSet(D)
  BY <1>1, DebtsAre
<1>7. ASSUME NEW d \in D
      PROVE  owed[d] \in Int /\ back[d] \in Int /\ rest[d] = owed[d] + back[d]
  <2>1. Owed(d) \in Nat /\ Repaid(d) \in Nat /\ Outstanding(d) = Owed(d) - Repaid(d)
    BY <1>1, DebtsAre
  <2>2. SignOf(u, d.to, d.from) \in Signs /\ SignOf(u, d.from, d.to) = -SignOf(u, d.to, d.from)
    <3>1. SignOf(u, d.to, d.from) = -SignOf(u, d.from, d.to)
      BY SignOfIs
    <3>2. SignOf(u, d.to, d.from) \in Signs /\ SignOf(u, d.from, d.to) \in Signs
      BY SignOfIs
    <3>. QED BY <3>1, <3>2 DEF Signs
  <2>3. /\ rest[d] = SignOf(u, d.to, d.from) * Outstanding(d)
        /\ owed[d] = SignOf(u, d.to, d.from) * Owed(d)
        /\ back[d] = SignOf(u, d.from, d.to) * Repaid(d)
    BY <1>0
  <2>. HIDE DEF back
  <2>. QED BY <2>1, <2>2, <2>3 DEF Signs
<1>. HIDE DEF back
<1>8. SumFunctionOnSet(rest, D) = SumFunctionOnSet(owed, D) + SumFunctionOnSet(back, D)
  BY <1>6, <1>7, SumPlus
<1>9. SumFunctionOnSet(owed, D) \in Int /\ SumFunctionOnSet(back, D) \in Int
  BY <1>6, <1>7, SumInt
<1>. QED BY <1>5, <1>8, <1>9 DEF D, R, rest, owed, moved

\* A balance by what payments, loans, linked receipts and loose ones make of it.
LEMMA BalanceIs ==
  ASSUME Inv, NEW u \in Users, NEW c
  PROVE  /\ Balance(u, c)
            = SumFunctionOnSet(PaidIn(u, c), Within(payments, c))
              + SumFunctionOnSet(Moves(loans, Within(loans, c), u), Within(loans, c))
              + SumFunctionOnSet(Moves(receipts, LinkedIn(c), u), LinkedIn(c))
              + SumFunctionOnSet(Moves(receipts, LooseIn(c), u), LooseIn(c))
         /\ SumFunctionOnSet(Moves(receipts, LooseIn(c), u), LooseIn(c)) \in Int
<1>1. PICK L, Q, R, S :
        L = Within(loans, c) /\ Q = Within(receipts, c) /\ R = LinkedIn(c) /\ S = LooseIn(c)
  OBVIOUS
<1>. DEFINE lent == Moves(loans, L, u)
            all == Moves(receipts, Q, u)
            moved == Moves(receipts, R, u)
            rest == Moves(receipts, S, u)
<1>2. L \subseteq Live(loans) /\ L \subseteq LoanIds /\ Q \subseteq Live(receipts)
  BY <1>1, LiveAre DEF Within, Inv
<1>3. IsFiniteSet(L) /\ IsFiniteSet(Q) /\ \A i \in Q : receipts[i].amount \in Nat
  BY <1>2, Finite, ReceiptsAre
<1>4. \A i \in L : loans[i].amount \in Nat
  BY <1>2, LiveAre, AmountsAre DEF Inv, Loan
<1>5. /\ SumFunctionOnSet(lent, L) = Given(loans, L, u) - Gotten(loans, L, u)
      /\ Given(loans, L, u) \in Nat /\ Gotten(loans, L, u) \in Nat
  BY <1>3, <1>4, Movements
<1>6. /\ SumFunctionOnSet(all, Q) = Given(receipts, Q, u) - Gotten(receipts, Q, u)
      /\ Given(receipts, Q, u) \in Nat /\ Gotten(receipts, Q, u) \in Nat
      /\ \A i \in Q : all[i] \in Int
  BY <1>3, Movements
<1>7. Q = R \union S /\ R \intersect S = {} /\ R \subseteq Q /\ S \subseteq Q
  BY <1>1 DEF LinkedIn, LooseIn
<1>8. IsFiniteSet(R) /\ IsFiniteSet(S)
  BY <1>3, <1>7, FS_Subset
<1>9. /\ \A i \in R : all[i] = moved[i] /\ all[i] \in Int
      /\ \A i \in S : all[i] = rest[i] /\ all[i] \in Int
  <2>1. (\A i \in R : all[i] = moved[i]) /\ (\A i \in S : all[i] = rest[i])
    BY <1>7 DEF Moves
  <2>. HIDE DEF all, moved, rest
  <2>. QED BY <1>6, <1>7, <2>1
<1>10. Balance(u, c) = Sum(PaidIn(u, c)) + Given(loans, L, u) - Gotten(loans, L, u)
                       + Given(receipts, Q, u) - Gotten(receipts, Q, u)
  BY <1>1 DEF Balance, BalanceOf, Within, Given, Gotten, PaidIn
<1>11. Sum(PaidIn(u, c)) = SumFunctionOnSet(PaidIn(u, c), Within(payments, c))
  BY Sums DEF PaidIn
<1>12. SumFunctionOnSet(PaidIn(u, c), Within(payments, c)) \in Int
  BY OwedSigned
<1>. HIDE DEF lent, all, moved, rest
<1>13. SumFunctionOnSet(all, Q) = SumFunctionOnSet(all, R) + SumFunctionOnSet(all, S)
  BY <1>6, <1>7, <1>8, SumUnion
<1>14. SumFunctionOnSet(all, R) = SumFunctionOnSet(moved, R) /\ SumFunctionOnSet(all, R) \in Int
  BY <1>8, <1>9, SumSame, SumInt
<1>15. SumFunctionOnSet(all, S) = SumFunctionOnSet(rest, S) /\ SumFunctionOnSet(all, S) \in Int
  BY <1>8, <1>9, SumSame, SumInt
<1>16. Balance(u, c) = SumFunctionOnSet(PaidIn(u, c), Within(payments, c))
                       + SumFunctionOnSet(lent, L) + SumFunctionOnSet(moved, R)
                       + SumFunctionOnSet(rest, S)
  BY <1>5, <1>6, <1>10, <1>11, <1>12, <1>13, <1>14, <1>15
<1>. QED BY <1>1, <1>15, <1>16 DEF lent, moved, rest

\* Balances and debts never say different things about who owes what.
THEOREM BalancesAlwaysMatchDebts == Spec => []BalancesMatchDebts
<1>1. ASSUME Inv, SourcesStand, NEW u \in Users, NEW c \in Currencies
      PROVE  Balance(u, c) = Sum(OpenIn(u, c)) + Sum(Moves(receipts, LooseIn(c), u))
  <2>1. /\ Sum(OpenIn(u, c)) = SumFunctionOnSet(OpenIn(u, c), DebtsIn(c))
        /\ Sum(Moves(receipts, LooseIn(c), u))
           = SumFunctionOnSet(Moves(receipts, LooseIn(c), u), LooseIn(c))
    BY Sums DEF OpenIn, Moves
  <2>. QED BY <1>1, <2>1, OwedSigned, OutstandingSigned, BalanceIs
<1>2. ASSUME Inv, SourcesStand, NEW u \in Users, NEW c \in Currencies
      PROVE  LET open == [d \in Debts |-> Outstanding(d)]
                 loose == {i \in Live(receipts) : ~Linked(receipts[i])}
             IN Balance(u, c) =
                  Sum([d \in {d \in Debts : d.currency = c} |-> SignOf(u, d.to, d.from) * open[d]])
                  + Sum([i \in {i \in loose : receipts[i].currency = c} |->
                           SignOf(u, receipts[i].from, receipts[i].to) * receipts[i].amount])
  <2>1. OpenIn(u, c) = [d \in {d \in Debts : d.currency = c} |->
                          SignOf(u, d.to, d.from) * [e \in Debts |-> Outstanding(e)][d]]
    BY DEF OpenIn, DebtsIn
  <2>2. Moves(receipts, LooseIn(c), u)
        = [i \in {i \in {i \in Live(receipts) : ~Linked(receipts[i])} : receipts[i].currency = c} |->
             SignOf(u, receipts[i].from, receipts[i].to) * receipts[i].amount]
    <3>1. LooseIn(c) = {i \in {i \in Live(receipts) : ~Linked(receipts[i])} : receipts[i].currency = c}
      BY DEF LooseIn, Within
    <3>. QED BY <3>1 DEF Moves
  <2>3. Balance(u, c) = Sum(OpenIn(u, c)) + Sum(Moves(receipts, LooseIn(c), u))
    BY <1>1, <1>2
  <2>. QED BY <2>1, <2>2, <2>3
<1>3. Inv /\ SourcesStand => BalancesMatchDebts
  BY <1>2 DEF BalancesMatchDebts, SignOf
<1>. QED BY <1>3, Invariance, SourcesAlwaysStand, PTL
=============================================================================
