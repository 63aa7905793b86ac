-------------------------------- MODULE Ledger --------------------------------
(***************************************************************************)
(* The expense ledger of one trip (src/internal/expenses): costs with the  *)
(* shares planned for them, business payments that cover shares, loans,    *)
(* and receipts of repayments, linked to the debt they settle or not.      *)
(*                                                                         *)
(* A write is one transaction under the trip's lock (lockWriter), which    *)
(* also keeps the member rows as they are.  It decides what to write, and  *)
(* the step that commits writes it.  What a request did before it had the  *)
(* lock is decided again under it, so a request begins here by taking the  *)
(* lock; one that is refused, or that repeats a key, writes nothing and is *)
(* no step.  Deleted records keep their row and key.                       *)
(*                                                                         *)
(* Amounts are minor units up to MaxMinor, the largest integer.  Dates,    *)
(* descriptions, planned coverers and the activity's id are left out; of   *)
(* an equal split, of the member's payment and of the server's allocation  *)
(* only that they are splits within the limits.                            *)
(***************************************************************************)
EXTENDS Integers, Sequences, FiniteSetsExt

CONSTANTS
  Users,       \* people who are or were on the trip
  Procs,       \* requests in flight
  Standings,   \* the roles that each user may come to have, of Roles
  Ties,        \* whether costs belong to an activity: of TRUE and FALSE
  Currencies,
  CostIds, PaymentIds, LoanIds, ReceiptIds,  \* ids; bounds on the records made
  Legacy,      \* receipts made before histories were kept
  Keys,        \* submission keys users choose; a cost's id stands for its purchase's key
  MaxMinor,    \* the largest amount the integers hold
  MaxVersion,  \* bound on the versions of a record of each kind
  NoUser, NoRow, NoSource, NoJob, New, Nobody

Roles == {"editor", "member", "viewer", "none"}  \* owners write like editors

Sources == PaymentIds \union LoanIds

Amounts == 0 .. MaxMinor

Kinds == {"cost", "payment", "loan", "receipt"}

ASSUME LedgerAssumption ==
  /\ \A S \in {Users, Currencies, CostIds, PaymentIds, LoanIds, ReceiptIds} : IsFiniteSet(S)
  /\ Standings \in [Users -> SUBSET Roles] /\ Ties \subseteq BOOLEAN
  /\ MaxMinor \in Nat \ {0} /\ MaxVersion \in [Kinds -> Nat \ {0}]
  /\ NoUser \notin Users /\ Nobody \notin Procs
  /\ NoSource \notin Sources
  /\ PaymentIds \intersect LoanIds = {} /\ Legacy \subseteq ReceiptIds
  /\ New \notin CostIds \union PaymentIds \union LoanIds \union ReceiptIds

Cost == [by : Users, key : Keys, payer : Users \union {NoUser}, tied : Ties,
         currency : Currencies, shares : [Users -> Amounts],
         version : Nat, live : BOOLEAN]

\* A purchase's payment has a key made from the cost's id, which a user may choose too.
Payment == [by : Users, key : Keys \union CostIds, cost : CostIds, payer : Users,
            currency : Currencies, covers : [Users -> Amounts],
            version : Nat, live : BOOLEAN]

Loan == [by : Users, key : Keys, from : Users, to : Users, currency : Currencies,
         amount : Amounts, version : Nat, live : BOOLEAN]

Receipt == [by : Users, key : Keys, source : Sources \union {NoSource},
            from : Users, to : Users, currency : Currencies, amount : Amounts,
            version : Nat, live : BOOLEAN]

Entry == [action : {"received", "corrected", "allocated", "reversed"}, by : Users]

ASSUME RowsAssumption ==
  /\ NoRow \notin Cost \union Payment \union Loan \union Receipt

VARIABLES
  standing,  \* each user's role, changed by Memberships
  costs, payments, loans, receipts,  \* the tables
  history,   \* settlement_history of each receipt
  lock,      \* who holds the trip's row
  job        \* what each request has decided to write

TableOf(kind) ==
  CASE kind = "cost" -> costs
    [] kind = "payment" -> payments
    [] kind = "loan" -> loans
    [] kind = "receipt" -> receipts

books == <<costs, payments, loans, receipts, history>>
vars == <<standing, books, lock, job>>

\* A row to be written: with id New an insert, else for the record read at
\* version seen.
JobOf(kind, ids, rows) ==
  [actor : Users, kind : {kind}, id : ids \union {New}, seen : Nat, row : rows]

Job ==
  JobOf("cost", CostIds, Cost) \union JobOf("payment", PaymentIds, Payment) \union
  JobOf("loan", LoanIds, Loan) \union JobOf("receipt", ReceiptIds, Receipt)

ASSUME JobsAssumption == NoJob \notin Job

TypeOK ==
  /\ standing \in [Users -> Roles]
  /\ costs \in [CostIds -> Cost \union {NoRow}]
  /\ payments \in [PaymentIds -> Payment \union {NoRow}]
  /\ loans \in [LoanIds -> Loan \union {NoRow}]
  /\ receipts \in [ReceiptIds -> Receipt \union {NoRow}]
  /\ history \in [ReceiptIds -> Seq(Entry)]
  /\ lock \in Procs \union {Nobody}
  /\ job \in [Procs -> Job \union {NoJob}]

\* Slip: a deleted record's key may be used again.
KeyFreeOfLive(table, u, k) ==
  ~\E i \in DOMAIN table :
    table[i] # NoRow /\ table[i].live /\ table[i].by = u /\ table[i].key = k

KeyFree(table, u, k) ==
  ~\E i \in DOMAIN table : table[i] # NoRow /\ table[i].by = u /\ table[i].key = k

\* While a request holds the lock nobody else writes, and what it decided by
\* stays so: the version it read, its key's freedom, its actor's role.
DecisionsHold ==
  \A p \in Procs :
    job[p] # NoJob =>
      /\ lock = p
      /\ standing[job[p].actor] \in {"editor", "member"}
      /\ LET table == TableOf(job[p].kind)
         IN IF job[p].id = New
              THEN KeyFree(table, job[p].row.by, job[p].row.key)
              ELSE LET old == table[job[p].id]
                   IN /\ old # NoRow /\ old.version = job[p].seen
                      /\ old.by = job[p].row.by /\ old.key = job[p].row.key

\* A key makes one record, deleted or not, however often it is submitted.
KeyMakesOneRecord ==
  \A table \in {costs, payments, loans, receipts} :
    \A i, n \in DOMAIN table :
      table[i] # NoRow /\ table[n] # NoRow /\ table[i].by = table[n].by /\ table[i].key = table[n].key
      => i = n

Inv == TypeOK /\ DecisionsHold /\ KeyMakesOneRecord

-----------------------------------------------------------------------------
(***************************************************************************)
(* Sums, debts and balances.                                               *)
(***************************************************************************)
\* A sum; TLC has that of nothing sooner this way.
Sum(f) == IF DOMAIN f = {} THEN 0 ELSE SumFunction(f)

Total(split) == Sum(split)

\* Every way to split a positive amount.
Splits == {s \in [Users -> Amounts] : Total(s) \in 1 .. MaxMinor}

Sharers(split) == {u \in Users : split[u] > 0}

Live(table) == {i \in DOMAIN table : table[i] # NoRow /\ table[i].live}
Unused(table) == {i \in DOMAIN table : table[i] = NoRow}

\* The live records that the bound on versions lets change once more.
Changeable(kind, table) == {i \in Live(table) : table[i].version < MaxVersion[kind]}

PaymentsOf(c) == {i \in Live(payments) : payments[i].cost = c}
ReceiptsOf(source) == {i \in Live(receipts) : receipts[i].source = source}

Debt == [source : Sources, from : Users, to : Users, currency : Currencies]

\* What a live source makes somebody owe: others' shares to a payer, a loan to
\* its lender.
Owed(d) ==
  IF d.source \in PaymentIds
    THEN IF /\ d.source \in Live(payments)
            /\ payments[d.source].payer = d.to /\ d.from # d.to
            /\ payments[d.source].currency = d.currency
           THEN payments[d.source].covers[d.from]
           ELSE 0
    ELSE IF /\ d.source \in Live(loans)
            /\ loans[d.source].to = d.from /\ loans[d.source].from = d.to
            /\ loans[d.source].currency = d.currency
           THEN loans[d.source].amount
           ELSE 0

Debts ==
  {d \in [source : Live(payments) \union Live(loans), from : Users, to : Users,
          currency : Currencies] : Owed(d) > 0}

DebtOf(r) == [source |-> r.source, from |-> r.from, to |-> r.to, currency |-> r.currency]

Outstanding(d) ==
  Owed(d) - Sum([i \in {i \in ReceiptsOf(d.source) : DebtOf(receipts[i]) = d} |->
                           receipts[i].amount])

\* The balance of a user, of tables of payments, loans and receipts: what they
\* paid out less what they got or used.
BalanceOf(pays, lent, repaid, u, c) ==
  LET In(table) == {i \in Live(table) : table[i].currency = c}
      Given(table) == Sum([i \in {i \in In(table) : table[i].from = u} |-> table[i].amount])
      Gotten(table) == Sum([i \in {i \in In(table) : table[i].to = u} |-> table[i].amount])
  IN Sum([i \in In(pays) |->
                    (IF pays[i].payer = u THEN Total(pays[i].covers) ELSE 0)
                    - pays[i].covers[u]])
     + Given(lent) - Gotten(lent) + Given(repaid) - Gotten(repaid)

Balance(u, c) == BalanceOf(payments, loans, receipts, u, c)

\* A cost's status, by member: what nobody has paid the business of their share
\* (negative when more was, for a share that has shrunk since), what they owe the
\* payers and are owed, and what they are in advance.
NotNegative(n) == Max({0, n})

\* What payments cover, of one user's share or of all.
Covered(among, u) == Sum([i \in among |-> payments[i].covers[u]])
Funded(among) == Sum([i \in among |-> Total(payments[i].covers)])

\* Slip: a share that has shrunk is taken to be paid just in full.
UnpaidAtLeastZero(c, u) ==
  NotNegative(costs[c].shares[u] - Covered(PaymentsOf(c), u))

Unpaid(c, u) == costs[c].shares[u] - Covered(PaymentsOf(c), u)

DebtsFor(c) == {d \in Debts : d.source \in PaymentsOf(c)}

Reimbursement(c, u) ==
  Sum([d \in {d \in DebtsFor(c) : d.from = u} |-> NotNegative(Outstanding(d))])

Receivable(c, u) ==
  Sum([d \in {d \in DebtsFor(c) : d.to = u} |-> NotNegative(Outstanding(d))])

Credit(c, u) ==
  NotNegative(-Unpaid(c, u))
  + Sum([d \in {d \in DebtsFor(c) : d.from = u} |-> NotNegative(-Outstanding(d))])

Remaining(c, u) == NotNegative(Unpaid(c, u)) + Reimbursement(c, u)

Paid(c, u) == NotNegative(costs[c].shares[u] - Remaining(c, u))

BusinessRemaining(c) ==
  Total(costs[c].shares) - Funded(PaymentsOf(c))

\* summary() succeeds on these tables: no total or balance leaves the integers.
TotalsFit(planned, pays, lent, repaid) ==
  \A c \in Currencies :
    /\ Sum([i \in {i \in Live(planned) : planned[i].currency = c} |->
                      Total(planned[i].shares)]) <= MaxMinor
    /\ Sum([i \in {i \in Live(pays) : pays[i].currency = c} |->
                      Total(pays[i].covers)]) <= MaxMinor
    /\ \A u \in Users : BalanceOf(pays, lent, repaid, u, c) \in -MaxMinor - 1 .. MaxMinor

-----------------------------------------------------------------------------
(***************************************************************************)
(* Transactions.                                                           *)
(***************************************************************************)
Editor(u) == standing[u] = "editor"

MayWrite(u, row) == Editor(u) \/ (standing[u] = "member" /\ row.by = u)

Participants == {u \in Users : standing[u] # "none"}

\* Everyone the trip's financial records name, deleted ones too.
Historical ==
  LET Rows(table) == {table[i] : i \in DOMAIN table \ Unused(table)}
  IN Users \intersect
     UNION ({Sharers(r.shares) \union {r.by, r.payer} : r \in Rows(costs)}
            \union {Sharers(r.covers) \union {r.payer} : r \in Rows(payments)}
            \union {{r.from, r.to} : r \in Rows(loans)}
            \union {{r.from, r.to, r.by} : r \in Rows(receipts)}
            \union {{history[i][n].by : n \in DOMAIN history[i]} : i \in ReceiptIds})

\* Where the row of j goes: an insert takes an id that is free.
Targets(j, table) == IF j.id = New THEN Unused(table) ELSE {j.id}

\* The table with the row of j written to i, its version counted up.
Stored(j, table, i) ==
  [table EXCEPT ![i] = IF table[i] = NoRow
                         THEN j.row
                         ELSE [j.row EXCEPT !.version = table[i].version + 1]]

\* The payment that comes with a cost paid already, by its payer and in full.
Purchase(c, row) ==
  [by |-> row.by, key |-> c, cost |-> c, payer |-> row.payer, currency |-> row.currency,
   covers |-> row.shares, version |-> 1, live |-> TRUE]

IsPurchase(j) == j.id = New /\ j.row.payer # NoUser

\* The payments once cost i of j is written.
PaymentsWith(j, i) ==
  IF IsPurchase(j)
    THEN {[payments EXCEPT ![n] = Purchase(i, j.row)] : n \in Unused(payments)}
    ELSE {payments}

\* The totals fit with what j writes, whatever id an insert takes.
Fits(j) ==
  CASE j.kind = "cost" ->
         \A i \in Targets(j, costs) : \A paid \in PaymentsWith(j, i) :
           TotalsFit(Stored(j, costs, i), paid, loans, receipts)
    [] j.kind = "payment" ->
         \A i \in Targets(j, payments) :
           TotalsFit(costs, Stored(j, payments, i), loans, receipts)
    [] j.kind = "loan" ->
         \A i \in Targets(j, loans) :
           TotalsFit(costs, payments, Stored(j, loans, i), receipts)
    [] j.kind = "receipt" ->
         \A i \in Targets(j, receipts) :
           TotalsFit(costs, payments, loans, Stored(j, receipts, i))

\* Slip: no lock.
BeginUnlocked(p) == job[p] = NoJob

\* Only one transaction at a time gets past the trip's row.
Begin(p) == lock = Nobody

\* The actor may write, and the request is in order.  The transaction looks at
\* the totals after its own rows, which nobody else sees before it commits.
Decide(p, j) ==
  /\ standing[j.actor] \in {"editor", "member"}
  /\ Fits(j)
  /\ lock' = p
  /\ job' = [job EXCEPT ![p] = j]
  /\ UNCHANGED <<standing, books>>

Insert(p, kind, table, row) ==
  /\ KeyFree(table, row.by, row.key)
  /\ Decide(p, [actor |-> row.by, kind |-> kind, id |-> New, seen |-> 1, row |-> row])

\* The request names the version it read; any but the current one is refused.
Change(p, u, kind, table, i, row) ==
  Decide(p, [actor |-> u, kind |-> kind, id |-> i, seen |-> table[i].version, row |-> row])

Remove(p, u, kind, table, i) ==
  Change(p, u, kind, table, i, [table[i] EXCEPT !.live = FALSE])

-----------------------------------------------------------------------------
(***************************************************************************)
(* Costs, and purchases: costs that somebody has paid in full already.     *)
(***************************************************************************)
CreateCost(p) ==
  /\ Unused(costs) # {}
  /\ \E u \in Users, k \in Keys, payer \in Users \union {NoUser}, tied \in Ties,
        c \in Currencies, s \in Splits :
       /\ tied \/ payer # NoUser
       /\ Editor(u) \/ payer = u
       /\ payer \in Participants \union {NoUser}
       /\ Sharers(s) \subseteq Participants
       /\ Insert(p, "cost", costs,
                 [by |-> u, key |-> k, payer |-> payer, tied |-> tied, currency |-> c,
                  shares |-> s, version |-> 1, live |-> TRUE])

\* The payer stays; a paid cost keeps its currency; a former sharer may stay.
UpdateCost(p) ==
  \E u \in Users, i \in Changeable("cost", costs), tied \in Ties, c \in Currencies, s \in Splits :
    LET old == costs[i]
    IN /\ MayWrite(u, old)
       /\ Editor(u) \/ old.payer = u
       /\ old.tied => tied
       /\ PaymentsOf(i) # {} => c = old.currency
       /\ Sharers(s) \subseteq Participants \union Sharers(old.shares)
       /\ Change(p, u, "cost", costs, i,
                 [old EXCEPT !.tied = tied, !.currency = c, !.shares = s])

\* Slip: the payments of the cost are not looked for.
DeleteCostPaid(p) ==
  \E u \in Users, i \in Changeable("cost", costs) :
    /\ MayWrite(u, costs[i])
    /\ Remove(p, u, "cost", costs, i)

DeleteCost(p) ==
  \E u \in Users, i \in Changeable("cost", costs) :
    /\ MayWrite(u, costs[i])
    /\ Editor(u) \/ ~costs[i].tied \/ costs[i].payer = u
    /\ PaymentsOf(i) = {}
    /\ Remove(p, u, "cost", costs, i)

-----------------------------------------------------------------------------
(***************************************************************************)
(* Business payments.                                                      *)
(***************************************************************************)
\* Slip: each share is checked, the cost as a whole is not.
CoversShares(s, c, payment) ==
  \A u \in Users :
    s[u] <= NotNegative(costs[c].shares[u] - Covered(PaymentsOf(c) \ {payment}, u))

\* What payment, or a new one, may cover: at most what is left of each share
\* and of the cost, the other payments counted.
Covers(s, c, payment) ==
  LET others == PaymentsOf(c) \ {payment}
  IN /\ Total(s) <= Total(costs[c].shares) - Funded(others)
     /\ \A u \in Users : s[u] <= NotNegative(costs[c].shares[u] - Covered(others, u))

CreatePayment(p) ==
  /\ Unused(payments) # {}
  /\ \E u \in Users, k \in Keys, c \in Live(costs), payer \in Participants, s \in Splits :
       /\ Editor(u)
       /\ Covers(s, c, New)
       /\ Insert(p, "payment", payments,
                 [by |-> u, key |-> k, cost |-> c, payer |-> payer, currency |-> costs[c].currency,
                  covers |-> s, version |-> 1, live |-> TRUE])

\* Slip: a payment somebody has repaid may still be corrected.
UpdatePaymentRepaid(p) ==
  \E u \in Users, i \in Changeable("payment", payments), s \in Splits :
    /\ Editor(u)
    /\ payments[i].cost \in Live(costs)
    /\ Covers(s, payments[i].cost, i)
    /\ Change(p, u, "payment", payments, i, [payments[i] EXCEPT !.covers = s])

UpdatePayment(p) ==
  \E u \in Users, i \in Changeable("payment", payments), s \in Splits :
    /\ Editor(u)
    /\ payments[i].cost \in Live(costs)
    /\ ReceiptsOf(i) = {}
    /\ Covers(s, payments[i].cost, i)
    /\ Change(p, u, "payment", payments, i, [payments[i] EXCEPT !.covers = s])

\* Slip: the receipts of the payment are not looked for.
DeletePaymentRepaid(p) ==
  \E u \in Users, i \in Changeable("payment", payments) :
    Editor(u) /\ Remove(p, u, "payment", payments, i)

DeletePayment(p) ==
  \E u \in Users, i \in Changeable("payment", payments) :
    /\ Editor(u)
    /\ ReceiptsOf(i) = {}
    /\ Remove(p, u, "payment", payments, i)

-----------------------------------------------------------------------------
(***************************************************************************)
(* Loans, from the lender to the borrower.                                 *)
(***************************************************************************)
CreateLoan(p) ==
  /\ Unused(loans) # {}
  /\ \E u \in Users, k \in Keys, from, to \in Participants, c \in Currencies, a \in Amounts \ {0} :
       /\ from # to
       /\ Editor(u) \/ from = u
       /\ Insert(p, "loan", loans,
                 [by |-> u, key |-> k, from |-> from, to |-> to, currency |-> c, amount |-> a,
                  version |-> 1, live |-> TRUE])

\* Slip: a repaid loan may change its people and currency.
UpdateLoanFreely(p) ==
  \E u \in Users, i \in Changeable("loan", loans), from, to \in Users,
     c \in Currencies, a \in Amounts \ {0} :
    /\ from # to
    /\ MayWrite(u, loans[i])
    /\ Editor(u) \/ from = u
    /\ Change(p, u, "loan", loans, i,
              [loans[i] EXCEPT !.from = from, !.to = to, !.currency = c, !.amount = a])

\* A repaid loan keeps its people and currency; its amount may change.
UpdateLoan(p) ==
  \E u \in Users, i \in Changeable("loan", loans), from, to \in Users,
     c \in Currencies, a \in Amounts \ {0} :
    LET old == loans[i]
        new == [old EXCEPT !.from = from, !.to = to, !.currency = c, !.amount = a]
    IN /\ from # to
       /\ MayWrite(u, old)
       /\ Editor(u) \/ from = u
       /\ {from, to} \subseteq Participants \/ <<from, to>> = <<old.from, old.to>>
       /\ ReceiptsOf(i) # {} => <<from, to, c>> = <<old.from, old.to, old.currency>>
       /\ Change(p, u, "loan", loans, i, new)

DeleteLoan(p) ==
  \E u \in Users, i \in Changeable("loan", loans) :
    /\ MayWrite(u, loans[i])
    /\ Editor(u) \/ loans[i].from = u
    /\ ReceiptsOf(i) = {}
    /\ Remove(p, u, "loan", loans, i)

-----------------------------------------------------------------------------
(***************************************************************************)
(* Receipts of repayments.                                                 *)
(***************************************************************************)
Linked(r) == r.source # NoSource

MayReceive(u, r) == MayWrite(u, r) \/ (Linked(r) /\ r.to = u)

\* Slip: what was repaid already is not counted.
SettlesTwice(r, returned) ==
  Linked(r) => r.amount <= Owed(DebtOf(r))

\* A linked receipt must match a debt and not exceed it; the amount of the
\* receipt it replaces is given back first if it settled the same debt.
Settles(r, returned) ==
  Linked(r) => /\ Owed(DebtOf(r)) > 0
               /\ r.amount <= Outstanding(DebtOf(r)) + returned

CreateReceipt(p) ==
  /\ Unused(receipts) # {}
  /\ LET known == Participants \union Historical IN
     \E u \in Users, k \in Keys, source \in Sources \union {NoSource}, from, to \in known,
        c \in Currencies, a \in Amounts \ {0} :
       LET new == [by |-> u, key |-> k, source |-> source, from |-> from, to |-> to,
                   currency |-> c, amount |-> a, version |-> 1, live |-> TRUE]
       IN /\ from # to
          /\ IF Linked(new) THEN to = u ELSE Editor(u)
          /\ Settles(new, 0)
          /\ Insert(p, "receipt", receipts, new)

\* Only an unlinked receipt changes its people or gets a source.
UpdateReceipt(p) ==
  LET known == Participants \union Historical IN
  \E u \in Users, i \in Changeable("receipt", receipts), source \in Sources \union {NoSource},
     from, to \in known, c \in Currencies, a \in Amounts \ {0} :
    LET old == receipts[i]
        new == [old EXCEPT !.source = source, !.from = from, !.to = to,
                           !.currency = c, !.amount = a]
        received == \E n \in DOMAIN history[i] : history[i][n].action = "received"
    IN /\ from # to
       /\ MayReceive(u, old)
       /\ ~Linked(old) /\ Linked(new) /\ u # old.to => ~received
       /\ Linked(old) => DebtOf(new) = DebtOf(old)
       /\ Linked(new) => Editor(u) \/ to = u
       /\ Settles(new, IF DebtOf(new) = DebtOf(old) THEN old.amount ELSE 0)
       /\ Change(p, u, "receipt", receipts, i, new)

DeleteReceipt(p) ==
  \E u \in Users, i \in Changeable("receipt", receipts) :
    /\ MayReceive(u, receipts[i])
    /\ Editor(u) \/ receipts[i].to = u
    /\ Remove(p, u, "receipt", receipts, i)

-----------------------------------------------------------------------------
(***************************************************************************)
(* The end of a transaction.                                               *)
(***************************************************************************)
Has(p, kind) == job[p] # NoJob /\ job[p].kind = kind

Release(p) ==
  /\ lock' = IF lock = p THEN Nobody ELSE lock
  /\ job' = [job EXCEPT ![p] = NoJob]
  /\ UNCHANGED standing

\* The unique index refuses a purchase whose payment's key its author has used:
\* nobody looks that key up.  Other keys have been looked up under the lock, so
\* the index is left out there.
PurchaseKeyFree(j, i) == IsPurchase(j) => KeyFree(payments, j.row.by, i)

\* The payment of a purchase is written with it.
WriteCost(p) ==
  /\ Has(p, "cost")
  /\ \E i \in Targets(job[p], costs) :
       /\ PurchaseKeyFree(job[p], i)
       /\ costs' = Stored(job[p], costs, i)
       /\ payments' \in PaymentsWith(job[p], i)
  /\ UNCHANGED <<loans, receipts, history>>
  /\ Release(p)

WritePayment(p) ==
  /\ Has(p, "payment")
  /\ \E i \in Targets(job[p], payments) : payments' = Stored(job[p], payments, i)
  /\ UNCHANGED <<costs, loans, receipts, history>>
  /\ Release(p)

WriteLoan(p) ==
  /\ Has(p, "loan")
  /\ \E i \in Targets(job[p], loans) : loans' = Stored(job[p], loans, i)
  /\ UNCHANGED <<costs, payments, receipts, history>>
  /\ Release(p)

\* Slip: a reversal is noted as a correction.
ActionBroad(p, i) == IF job[p].id = New THEN "received" ELSE "corrected"

\* What the history says of the write.
ActionOf(p, i) ==
  LET row == job[p].row
  IN IF job[p].id = New THEN "received"
     ELSE IF ~row.live THEN "reversed"
     ELSE IF ~Linked(receipts[i]) /\ Linked(row) THEN "allocated"
     ELSE "corrected"

WriteReceipt(p) ==
  /\ Has(p, "receipt")
  /\ \E i \in Targets(job[p], receipts) :
       /\ receipts' = Stored(job[p], receipts, i)
       /\ history' = [history EXCEPT ![i] =
            Append(@, [action |-> ActionOf(p, i), by |-> job[p].actor])]
  /\ UNCHANGED <<costs, payments, loans>>
  /\ Release(p)

\* The timeout, a disconnect, a crash, or the key of a purchase.
Abort(p) ==
  /\ job[p] # NoJob
  /\ Release(p)
  /\ UNCHANGED books

\* Slip: the member rows are not locked.
ChangeStandingAnytime(u) ==
  /\ \E s \in Standings[u] : standing' = [standing EXCEPT ![u] = s]
  /\ UNCHANGED <<books, lock, job>>

\* Memberships waits for the rows a ledger write has locked.
ChangeStanding(u) ==
  /\ lock = Nobody
  /\ \E s \in Standings[u] : standing' = [standing EXCEPT ![u] = s]
  /\ UNCHANGED <<books, lock, job>>

LegacyReceipt ==
  {r \in [by : Users, key : Keys, source : {NoSource}, from : Users, to : Users,
          currency : Currencies, amount : Amounts \ {0}, version : {1}, live : {TRUE}] :
   r.from # r.to}

Init ==
  /\ standing \in {f \in [Users -> Roles] : \A u \in Users : f[u] \in Standings[u]}
  /\ costs = [i \in CostIds |-> NoRow]
  /\ payments = [i \in PaymentIds |-> NoRow]
  /\ loans = [i \in LoanIds |-> NoRow]
  /\ \E old \in [Legacy -> LegacyReceipt] :
       receipts = [i \in ReceiptIds |-> IF i \in Legacy THEN old[i] ELSE NoRow]
  /\ KeyMakesOneRecord /\ TotalsFit(costs, payments, loans, receipts)
  /\ history = [i \in ReceiptIds |-> <<>>]
  /\ lock = Nobody
  /\ job = [p \in Procs |-> NoJob]

Start(p) ==
  /\ Begin(p)
  /\ \/ CreateCost(p) \/ UpdateCost(p) \/ DeleteCost(p)
     \/ CreatePayment(p) \/ UpdatePayment(p) \/ DeletePayment(p)
     \/ CreateLoan(p) \/ UpdateLoan(p) \/ DeleteLoan(p)
     \/ CreateReceipt(p) \/ UpdateReceipt(p) \/ DeleteReceipt(p)

Write(p) == WriteCost(p) \/ WritePayment(p) \/ WriteLoan(p) \/ WriteReceipt(p)

Next ==
  \/ \E p \in Procs : Start(p) \/ Write(p) \/ Abort(p)
  \/ \E u \in Users : ChangeStanding(u)

Spec == Init /\ [][Next]_vars

-----------------------------------------------------------------------------
(***************************************************************************)
(* Properties.                                                             *)
(***************************************************************************)

\* No order of edits, corrections and deletions leaves a payment whose cost is
\* gone or of another currency, or a linked receipt whose debt is gone.
SourcesStand ==
  /\ \A i \in Live(payments) :
       LET c == payments[i].cost
       IN c \in Live(costs) /\ costs[c].currency = payments[i].currency
  /\ \A i \in Live(receipts) : Linked(receipts[i]) => Owed(DebtOf(receipts[i])) > 0

\* No total and no balance leaves the integers.  A write looks at them with its own
\* rows in place and not again when it commits: what fits by itself must not be
\* joined there by another write that fits by itself.
SumsFit == TotalsFit(costs, payments, loans, receipts)

\* What a balance says, computed from all movements by summary(), is what the
\* debts say, computed source by source by debts(): the two views of the
\* ledger never disagree.  The tables stand still while the lock is held.
BalancesMatchDebts ==
  LET open == [d \in Debts |-> Outstanding(d)]
      loose == {i \in Live(receipts) : ~Linked(receipts[i])}
  IN lock = Nobody => \A u \in Users, c \in Currencies :
       LET Sign(gets, gives) == (IF u = gets THEN 1 ELSE 0) - (IF u = gives THEN 1 ELSE 0)
       IN Balance(u, c) =
            Sum([d \in {d \in DOMAIN open : d.currency = c} |-> Sign(d.to, d.from) * open[d]])
            + Sum([i \in {i \in loose : receipts[i].currency = c} |->
                             Sign(receipts[i].from, receipts[i].to) * receipts[i].amount])

\* A cost's status adds up, however costs shrink and payments are corrected: its
\* members' shares are what they have put in, their own part of what they paid and
\* what they repaid, and what remains for them less their credit; what remains for
\* the business is what the members have not paid it; and what some owe others are
\* owed.
StatusAddsUp ==
  lock = Nobody => \A c \in Live(costs) :
    /\ \A u \in Users :
         LET own == Covered({i \in PaymentsOf(c) : payments[i].payer = u}, u)
             repaid == Sum([i \in {i \in Live(receipts) :
                                             /\ receipts[i].from = u
                                             /\ receipts[i].source \in PaymentsOf(c)} |->
                                      receipts[i].amount])
         IN /\ costs[c].shares[u] = own + repaid + Remaining(c, u) - Credit(c, u)
            /\ Credit(c, u) = 0 => Paid(c, u) = own + repaid
    /\ BusinessRemaining(c) = Sum([u \in Users |-> Unpaid(c, u)])
    /\ Sum([u \in Users |-> Reimbursement(c, u)])
       = Sum([u \in Users |-> Receivable(c, u)])

\* Nobody repays more than their share of a payment: a payment's debt can be
\* corrected only while it has no receipts.
NeverOverRepaid ==
  \A d \in Debts : d.source \in PaymentIds => Outstanding(d) >= 0

\* A loan may shrink below what was repaid, but no receipt is accepted that
\* takes its debt below zero.
LoansRepaidWithin ==
  [][\A i \in ReceiptIds :
       /\ receipts'[i] # receipts[i] /\ receipts'[i].live
       /\ receipts'[i].source \in LoanIds
       => Outstanding(DebtOf(receipts[i]))' >= 0]_vars

\* A payment that is recorded or corrected leaves its cost at most paid in full.
NeverOverPaid ==
  [][\A i \in PaymentIds :
       payments'[i] # payments[i] /\ payments'[i].live
       => (Funded(PaymentsOf(payments[i].cost)) <= Total(costs[payments[i].cost].shares))']_vars

\* An edit replaces the version its author read, so nobody's change is lost.
NothingLost ==
  [][\A p \in Procs :
       books' # books /\ job[p] # NoJob /\ job'[p] = NoJob /\ job[p].id # New
       => TableOf(job[p].kind)[job[p].id].version = job[p].seen]_vars

\* Whoever lost the right to write while their request ran writes nothing.
WritersOnly ==
  [][\A p \in Procs :
       books' # books /\ job[p] # NoJob /\ job'[p] = NoJob
       => standing[job[p].actor] \in {"editor", "member"}]_vars

\* The history tells every version of a receipt: it begins when it was received
\* and a reversal is the end of it.
HistoryTellsAll ==
  \A i \in ReceiptIds :
    LET h == history[i]
    IN IF receipts[i] = NoRow
         THEN h = <<>>
         ELSE /\ Len(h) = receipts[i].version - (IF i \in Legacy THEN 1 ELSE 0)
              /\ \A n \in DOMAIN h :
                   /\ h[n].action = "received" <=> n = 1 /\ i \notin Legacy
                   /\ h[n].action = "reversed" <=> n = Len(h) /\ ~receipts[i].live

\* docs/backend/README.md:393 says that only the recipient may create a linked
\* repayment receipt, even when another actor is owner or editor, and line 398
\* that a new unlinked receipt is no way around it.
RecipientConfirms ==
  [][\A i \in ReceiptIds, p \in Procs :
       /\ receipts'[i] # receipts[i] /\ receipts'[i].live /\ Linked(receipts'[i])
       /\ receipts[i] = NoRow \/ ~Linked(receipts[i])
       /\ job[p] # NoJob /\ job'[p] = NoJob
       => receipts'[i].to = job[p].actor]_vars
=============================================================================
