# Verification of the travel-planner API

TLA+ models, TLC runs and TLAPS proofs for the Go service in `src/`. The
service is one stateless process over one PostgreSQL database: everything that
outlives a request is a row, every request runs in its own goroutine, and the
only shared memory is the places throttle and the profile cache. What can go
wrong is therefore almost always two requests whose statements interleave, a
request cut off between two statements, or a request sent twice.

How to run: `tlc -config Memberships_roles.cfg MCMemberships.tla`, and
`tlapm MembershipsProofs.tla`; the other modules alike (`Ledger_loans.cfg` with
`MCLedger`, `Services.cfg` with `MCServices`, and so on). The longest runs take
one to three minutes.

## 1. Inventory

| Part | State | Operations | Interacts with | What is hard |
|---|---|---|---|---|
| Memberships and invitations (`internal/memberships`) | `trips.owner_user_id`, `trip_members`, `trip_invitations` | invite (replacing), revoke, accept by id or token, decline, change role, remove or leave, transfer ownership, listings | every other part asks it for a role in a statement of its own; deletion of the trip cascades into it; sign-ins change the emails it compares | decisions on one invitation race; roles are checked in one statement and relied on in another; time sampled before lock waits |
| Trips (`internal/trips`) | `trips`: dates or exact times, zone, destination | create, update, delete, get, list | locks the trip row all others lock; update checks and rewrites activities | the window moves while activities are saved |
| Itinerary (`internal/itinerary`) | `itinerary_items`, `activity_plan_requests` | create, update, delete, list, overlaps, conflicts; costs saved with the activity | trip window and zone; ledger (`SaveActivityCosts`) | stale window; retried submissions |
| Prep (`internal/prep`) | `prep_tasks`, `prep_task_ticks` | create, update, delete, assign, claim, drop, complete, reopen, progress | role, activity links, cascade on member removal and trip deletion | single-statement writes whose subqueries keep a snapshot while the row is rechecked |
| Expense ledger (`internal/expenses`) | `expenses`, `expense_payments`, `expense_loans`, `settlements` and their shares, receipt history, versions, keys | create, update, delete of costs, payments, loans and receipts; summaries; previews | locks trip, then members; activity costs join the activity's transaction | keys, versions, coverage limits, order of deletions |
| Allocation and balances (`expenses/activity.go`, `service.go`) | none | split by shares, net balances, suggested payments, checked addition | ledger | remainders, overflow, zero sums |
| Places (`internal/places`) | cache rows, one process-wide pacing slot, a window per user | search, resolve | external provider | the slot under cancellation, limits |
| Authentication (`internal/auth`) | `users`, profile cache in memory | token check, `GetOrCreate` | external identity provider; memberships by email | cache races, email changes |
| Server, HTTP helpers, start-up | none | routing, 25 s timeout, shutdown | cancels every request's context | cancellation between statements |
| Migrations, scripts | schema | run once | constraints decide outcomes above | |

What makes each part correct:

- **Memberships.** The owner never has a member row; an invitation is decided
  once, by its addressee, in time; a successful request is one atomic change of
  who may do what; only an owner manages; a request always ends.
- **Trips and itinerary.** Every saved activity lies inside its trip's window
  and carries the trip's zone, whatever moves when; one submission key makes
  one activity; the conflict listing is exactly the pairs that intersect.
- **Prep.** A task's columns never break its constraints; a claim is won once;
  who finished a task was taking part; only the recipients of a separate task
  tick it, each for themselves.
- **Ledger.** A balance, computed from all movements, is what the debts, computed
  source by source, say; nobody repays more than they owe; no record outlives
  what it refers to; an edit replaces the version its author read; a key makes
  one record.
- **Allocation.** Shares add up to the amount and differ from the ideal by less
  than a unit; suggested payments settle every balance; no sum wraps around.
- **Places.** The provider is not asked more often than the pace allows; nobody
  waits longer than they said they would; no user exceeds the window; no answer
  is older than it may be.
- **Authentication.** A user's row says what was stated of that user, and a
  withdrawn verification does not come back for long.

The hazards, each at its line, are listed in `PROJECT.json`.

## 2. Plan

In this order; a module is written so that it can be proved about (constants
with named assumptions, one action per step, invariants as named conjuncts, no
RECURSIVE operator).

| Module | Models | Abstract specification or reference | Theorems |
|---|---|---|---|
| `Memberships` (done) | memberships, trip deletion, sign-in, timeout | `TripAccess`, refined | the invariant: types, owner without row, one decision, acceptance by the addressee; no collision; the refinement of `TripAccess`; lateness (proved); liveness (left to TLC) |
| `Schedule` (done) | trip update, itinerary, submission keys | set of instants for the conflict listing | types, activities fit, one activity per key, applied once, exact listing (proved) |
| `Prep` (done) | prep tasks with statement snapshots | the table's CHECK constraints | types, rows consistent, a finished task keeps its assignee and was finished by them, dates (proved) |
| `Ledger` (done) | costs, payments, loans, receipts, keys, versions, history | balances against debts | decisions hold, one record per key, no edit lost, only writers write, sources stand, nothing paid or repaid beyond what is owed, totals, histories, balances and status (proved) |
| `Settlement` (done) | the equal and the exact split, `checkedAdd` with its width, `Allocate`, `suggest` | what the loops have to have at each step; the splits `Ledger` chooses from | the loops' invariant, nothing left, all of it given, fair parts, exact addition, suggestions (proved) |
| `Clock`, `Places` (done) | the provider's pace, the window per user, the cached search, the resolution, a restart | rate limits as histories | queue, pace, age of answers, searches per user (proved) |
| `Profiles` (done) | the profile cache and `GetOrCreate` | the cache as a partial function | rows about their users, never staler (proved) |
| `SumTheorems` (done) | nothing of the code: lemmas about the sums that `Ledger`, `Settlement` and `Places` are made of | | what a sum of a finite set is (section 10) |

What is left: theorems about `TripAccess` itself, such as that an offer once
decided stays decided, which the refinement would carry over to `Memberships`.

`MC*` modules instantiate each for TLC. `Memberships` decides roles; the others
take a role check as a statement that may be stale, which is how the code sees
it. `MCServices` instantiates the three parts that hold no trip (`Settlement`,
`Places`, `Profiles`): they share no state but the clock, so each behaviour is
one part's. What `Profiles` writes to a user's row is what `SignIn` chooses from
in `Memberships`. The parts meet in the database: `Schedule` and `Ledger` lock the trip's row,
and a ledger write also keeps the member rows it read locked, so that
`Memberships` waits for it.

## 3. Memberships

`Memberships.tla` follows one trip (every write filters on one trip id). A
request is a process: `Start*` is the service (role check, verified email, time
of arrival), the later steps are the repository's statements up to the next
point where another request can interfere, and `Finish` is COMMIT or ROLLBACK.

| State | Code |
|---|---|
| `owner`, `member`, `account` | `trips.owner_user_id`, `trip_members`, `users.email`/`email_verified` |
| `rows`, `terms`, `acceptedBy`, `revoked`, `declined`, `expired` | `trip_invitations`: row present, email and role, `accepted_by_user_id`, `revoked_at`, `declined_at`, `expires_at` passed |
| `tripLock`, `invLock` | row locks taken by `FOR UPDATE` and by `UPDATE` inside a transaction |
| `pc`, `req` | where each request is, what it carries |

PostgreSQL at READ COMMITTED is modelled by what a statement can see: a
statement reads what is committed when it runs, writes of an open transaction
are published by the step that commits, and a locked row makes others wait. A
single autocommitted UPDATE that waits rechecks its WHERE on the new row
version, which is why it is one step guarded by the lock.

`TripAccess.tla` is what the component promises: each successful request is one
atomic change of roles and offers, an offer is decided once, the ownership
moves in one step. `Access` in `Memberships` is the refinement mapping.

| Run | Question | Bounds |
|---|---|---|
| `membership_roles` | owner without a row, refinement of `TripAccess`, every request ends | 3 users, 1 invitation, 2 requests in flight, no symmetry |
| `membership_invitations` | the proofs' invariant, one decision, replacement, addressee, expiry | 2 users, 2 invitations, emails that change at sign-in, 2 requests |
| `membership_manage` (violation) | "owner only" of `docs/backend/README.md:107` | as above |
| `membership_transfer` (violation) | "requires an existing member" of `docs/backend/README.md:146` | as above |

Two requests in flight are enough for every pair of operations to interleave at
every step, and requests start again without limit, so sequences of any length
are covered. Three users let an owner, a target and a bystander differ; two
invitations let one replace the other. `InvIds` bounds the invitations ever
created; ids are not reused.

Fairness: strong fairness of each request's own steps. A running request keeps
running, and PostgreSQL's lock queue is first come first served, so a request
that finds its lock free again and again gets it. No fairness is put on users'
sending requests or on cancellation, so `RequestsFinish` does not lean on the
25 second timeout.

The two violation runs are real disagreements with the documentation: three
writes do not recheck the owner after the service's role check, and the
membership row a transfer relies on is not locked.

### Proofs (`MembershipsProofs.tla`)

For any users, emails, requests and invitations: `TypeCorrect`,
`OwnerNeverMember`, `DecidedOnce` and `NeverCollides`. None of the last three is
inductive alone. The argument: `LockDiscipline` says who holds the trip's row
between two steps and that invitation rows are only locked by that request;
`IdsAreFresh` that an id about to be inserted is nobody else's; and
`StillDecided` that what a request found under its locks still holds when it
writes. Under them each write preserves `OwnerHasNoMemberRow` and `OneDecision`,
and an `INSERT` can meet no active invitation. The proofs take these parts in
that order, one lemma per part, and combine them in `CoreInvariant`.

`AcceptedByItsInvitee` goes on from there. The email a request presents was read
when it arrived, and the user may sign in with another before the request is
decided; `SignedIn` says that it stays one the user has had verified, and the
lock on the invitation's row that the email compared is still the invitation's
when the acceptance is written. `Invariance` puts both together: `Inv`, which
TLC checks on the small instance, holds on every one.

`Refines` is the refinement, for any number of requests: initial states map to
initial states, and under the invariants above each step maps to a step of `TripAccess` or to
none. Most steps are none (taking a lock, reading, aborting); a step that writes
is the one operation of `TripAccess` that its kind of request stands for, and its
guard there follows from what the request found under its locks. `OfferState`
and the roles are read from the columns, so the proof has one lemma for each way
that a write changes columns, and what it leaves alone.

`LateAnswersChangeNothing` rests on one more invariant, `TimelyWrites`: a request
past the reading of the invitation arrived in time. That is all the code can
promise, since lateness is judged by a time taken on arrival.

Only model-checked: `RequestsFinish`, the one liveness property (the prover has
no support for fairness).

## 4. Schedule

`Schedule.tla` follows one trip's window and its activities. A request takes the
role check's result as given (requests come from editors, or from users who just
were) and then reads the trip's window and zone (`read_window`), takes the trip's
row lock (`Take`), checks again under it and writes. Submission keys are looked
up under the lock as well (`Replay`, `Record`), and `TripWrite` refuses a window
that excludes an activity and rewrites the zone of them all.

| State | Code |
|---|---|
| `trip` | the row of `trips`: dates or exact times, zone |
| `act`, `used` | `itinerary_items` and the ids given out |
| `plans` | `activity_plan_requests`; a record of what the hash covers stands for the hash |
| `answered` | history: activities a caller was answered with under a key |
| `lock`, `pc`, `req` | `FOR UPDATE` on the trip's row, the requests |

Time is a handful of instants, and a zone a function from instants to local
dates (`DayOf`), which keeps what matters: a date window means different
instants in different zones. Go's and PostgreSQL's zone tables are taken to
agree. `TwoZones` has two instants on a date in the west and shifts the east by
one, so that an activity that fits in one zone does not in the other.

| Run | Question | Bounds |
|---|---|---|
| `schedule_saves` | activities stay inside the window and in its zone; a key makes one activity and is applied once; the conflict listing is exactly the pairs with a common instant | 2 requests, 2 activities, 1 user and key, 4 windows (dates and exact times, two zones), 3 spans |
| `schedule_retry` (violation) | "Retry the same key/payload for the same saved result" (`docs/backend/README.md:420`) | the same |

Two activities are what a listing of pairs, and a key that must not make a
second one, can tell apart. Users have keys of their own, so one user suffices.
Deadlock is not checked: once the trip is deleted nothing more happens.

`schedule_retry` is a disagreement with the documentation: the key is looked up
after the window checks and the hash covers the zone read just before, so an
edit of the trip between a save and its retry refuses the retry.

Proved (`ScheduleProofs.tla`), for every calendar, window and number of
requests: `ScheduleTyped` and `ActivitiesAlwaysFit`. The invariant `Inv` adds to
the types that only the holder of the trip's lock is past it and that what it
checked under the lock (`save_write` fits the window; `trip_write` excludes
nothing) still holds when it writes; each write then preserves
`ActivitiesFit`.

On `Inv` rest three more. `OneActivityPerKey`: while there is a trip, what was
answered under a key is what its saved submission made (`OneAnswer`); deleting
the trip removes submissions, and then no save gets past the window check.
`AppliesOnce`: a save that writes found its key free under the lock it still
holds. `ListingExact`: saved activities end after they begin (`Ordered`), so two
intervals share an instant exactly when each begins before the other ends.

## 5. Prep

Every write of `internal/prep` is one statement that commits by itself, and
the interesting part is what such a statement sees. It begins with a snapshot;
when it reaches a row that has changed since, PostgreSQL evaluates the condition
again on the new row, but subqueries in the condition (who takes part, which
days the trip has) still answer from the snapshot. So statements with a subquery
have a step that reads (`ClaimRead`, `AssignRead`, `UpdateRead`, `CreateRead`:
who takes part is remembered in `req.part`) and one that writes (the row is
looked at again). Statements about the row alone are one step. Completing and
reopening read the task's kind in a statement of their own.

| State | Code |
|---|---|
| `tasks`, `used`, `ticks` | `prep_tasks`, its ids, `prep_task_ticks` |
| `standing`, `days` | the roles and the trip's days, which others change at any time |
| `claimant`, `everDays` | history, for two properties |

| Run | Question | Bounds |
|---|---|---|
| `prep_tasks` | the proofs' invariant, the tables' CHECK constraints among it, holds whatever races; a saved date was a day of the trip once; a finished task keeps its assignee and was finished by them | 2 users without a date, or 1 user and 1 date that is and is not a day of the trip; 2 requests, 1 task |
| `prep_winner` (violation) | "concurrent claims have one winner" (`docs/backend/README.md:263-264`) | as `prep_tasks` |

Writes touch one task each, so one task is enough; two users and two requests
make every pair of writes meet. Dates and people do not depend on each other, so
`MCPrep` takes them in turn (`alone`). Titles and links to activities are left out: a
foreign key is all that happens to them.

`prep_winner` needs three actors' steps: a claim's statement begins while
somebody is not on the trip; they join and claim the task; the first statement,
having waited for the row, looks again, finds an assignee its snapshot does not
know, takes the task for open and takes it over. Both claims are answered 204.
A related race needs no run of its own: the role that admits a claim, a tick or
a completion is read in an earlier statement, so a member removed in between
still writes (the same shape as `membership_manage`).

Proved (`PrepProofs.tla`), for any users, tasks, dates and requests:
`Invariance`, and from it `PrepTyped` and `RowsAlwaysConsistent`. `RowsConsistent` is not inductive: that ticks
belong to tasks for everyone needs that an id is never used twice, so a request
that read a task's kind still knows it, and that no request creates a task for
everyone with an assignee. `RequestsFit` says both.

The action properties have one lemma behind them, `RowChanges`: under `Inv` the
row that a step changes is its own request's task, and it changes in one of four
ways: another date, another assignee of what is unfinished, finished for its
assignee, unfinished again. `AssigneeKeptWhenFinished` and `OnlyAssigneeFinishes`
read off which of them are possible. `DatesAlwaysWereDays` needs `DaysOnRecord`:
the days a statement's snapshot holds were the trip's at some time, so a date
checked against it may be no day of the trip when it is written, but was one.

## 6. Ledger

`Ledger.tla` follows one trip's costs, payments, loans and receipts. Every
write is a transaction that first takes the trip's row (`Begin`) and decides
(`Create*`, `Update*`, `Delete*` × `Cost`, `Payment`, `Loan`, `Receipt`: one
action per kind and operation, with the code's conditions in its guard, the
totals with the transaction's own rows among them), then commits what it wrote
(`WriteCost`, `WritePayment`, `WriteLoan`, `WriteReceipt`), or is cut off
(`Abort`). Between decision and commit others run, as far as the lock
lets them. A refusal changes nothing and is no step. `ChangeStanding` waits for
the lock: a ledger write holds the member rows it read, `FOR SHARE`.

| State | Code |
|---|---|
| `costs`, `payments`, `loans`, `receipts` | `expenses` with `expense_shares`, `expense_payments` with what they cover, `expense_loans`, `settlements`; deleted records keep their row and key |
| `history` | `settlement_history` |
| `standing`, `lock`, `job` | roles, the trip's row lock, what each transaction is about to write |

A cost with a payer is a purchase: its payment is written with it, under the key
`purchase:<id>` (`WriteCost`), for which the model takes the cost's id itself. A
user may send that key too. Nobody looks it up when the purchase is written, so
the unique index of `expense_payments` answers (`PurchaseKeyFree`): such a
purchase can only be given up. Every other key is looked up under the lock
(`KeyFree`), and there the index behind it is left out, so that what is shown is
that the lookup is enough.

Amounts go up to `MaxMinor`, which plays the largest integer. `saveTx` computes
the summary after its own statements and before it commits, on rows that nobody
else sees yet; `Fits` therefore computes it, in the deciding step, on the tables
as the write will leave them, whatever id an insert takes. The step that commits
does not look again: that the totals fit then (`SumsFit`) rests on nobody else
committing in between. Where the code computes a split (equal shares, the
member's payment, the server's allocation) the model takes any split within the
limits, so what holds here holds for every way to divide.

| Run | Question | Bounds |
|---|---|---|
| `ledger_payments` | a key makes one record, a purchase's key too; no payment without its cost or in another currency; no cost paid more than in full by a new or corrected payment; nobody repays more than they owe; balances agree with debts, and the payment status of a cost with both | 2 users (an editor, a member), 1 cost, 2 payments, 1 receipt, 2 currencies, amounts to 2, 2 versions; the one key users send is the purchase's |
| `ledger_loans` | the proofs' invariant, keys, versions, roles, totals; no receipt accepted beyond its debt; the history tells every version | 2 requests, a member who leaves and returns, 1 loan, 2 receipts (one from before histories), 2 currencies, amounts to 2, 2 versions |
| `ledger_recipient` (violation) | "Only the recipient may create a linked repayment receipt" (`docs/backend/README.md:393-394`) | 3 users, 1 loan, 1 receipt |

The lock makes decisions one at a time, so a second request matters where the
lock, a version or a total is in question, which is what `ledger_loans` has it
for: without the lock, a loan and a receipt that each fit take a balance out of
the integers together. Two
payments for one cost let coverage run out; amounts to 2 let a debt be repaid in
parts and a total overflow. Every id can be made once, changed and deleted.
Requests, keys, currencies and the ids of a table are interchangeable (`Symm`):
no action names one of them and no property orders them. `MaxVersion` bounds how
often a record of a kind changes (`Changeable`).
With one cost, a user can send a purchase's key only after the purchase; that a
user has sent the key of a cost still to come needs a second cost, which is more
states than a run can visit beside the rest, and is left to the proof.
Deadlock is not checked: once every record is deleted nothing more happens.

`ledger_recipient`: when an unlinked receipt is linked later, the code compares
the actor with the recipient the receipt had, while the same request may change
the recipient; an editor can so settle a debt owed to somebody else. A smaller
disagreement has no run: a former editor who is now a member may still correct a
repayment they recorded for two other people (`activity_repository.go:243`),
which `docs/backend/README.md:102` does not grant.

Two limits the model shows and the documentation does not exclude: the shares of
a paid cost may move between people, so existing payments may cover somebody who
shares no longer (therefore `NeverOverPaid` is about payments when they are
written), and a loan may shrink below what was repaid (therefore
`LoansRepaidWithin` is about receipts when they are accepted).

`StatusAddsUp` is about `paymentStatus`, which tells each sharer of a cost what
they have paid, still owe the business and their fellows, are owed and have too
much: written operator by operator after the code, in any state that edits of
shares, payments and receipts reach.

Left out: dates, descriptions, planned coverers, the activity a cost belongs to
(only whether it has one), deletion of the trip, and batches: the costs of an
activity plan are several of these writes in one transaction under one lock.

Proved (`LedgerProofs.tla`), for any users, records, keys and requests:
`Invariance`, `KeysMakeOneRecord`, `NoEditLost`, `OnlyWritersWrite`.
`KeyMakesOneRecord` needs to know that a key found free when the write was
decided is free when it commits; `DecisionsHold` says that, and that version and
role are what they were, because the job's request holds the lock. For the key
of a purchase's payment, which a user may have sent before or send afterwards,
the proof uses the index at the purchase and the lookup at every other write.
The two action properties `NothingLost` and `WritersOnly` follow from
`DecisionsHold`.

All other properties of the ledger are proved as well, for any records and any
amounts. None is inductive; each needs to know more of what was decided under
the lock and is not yet written:

- `SourcesAlwaysStand`: `Promised` says of each decided row what its decision
  checked: a payment's cost is live and of its currency, a repaid loan keeps its
  people and currency, a linked receipt has a debt. As the lock is held nothing
  in between can take it back, and every write keeps `SourcesStand` under it.
- `HistoryAlwaysTellsAll`: a receipt to be stored is a first version or one over
  a receipt that is not reversed (`ReceiptsNext`), so that a reversal is the end.
- `PaymentsNeverOverpay`: `CoversPromised` says that a decided payment fits into
  what the cost's other payments leave; the write moves one element of the sum.
- `LoanReceiptsFit` and `PaymentsNeverOverRepaid`: `SettlesPromised` says that a
  decided receipt fits into what is outstanding of its debt, less what the receipt
  it replaces repaid of the same one. The second also needs that a payment changes
  only while nobody has repaid it, which is part of `Promised`.
- `TotalsAlwaysFit`: `TotalsPromised` says that the totals of what a request has
  decided fit. They were computed on the tables of that moment; as nobody else
  writes while the lock is held, the same tables are there when it commits.
- `BalancesAlwaysMatchDebts` and `StatusAlwaysAddsUp` are no invariants of their
  own but identities of any ledger that satisfies `Inv` and `SourcesStand`. The
  first adds up the same movements record by record and debt by debt: debts of
  payments are grouped by the payment (`PaymentDebt`), repayments by the debt
  (`RepaidByDebt`), and a payment's covers are what others owe the payer and what
  they covered for themselves. The second does so for one cost. That sources
  stand matters: a linked receipt whose debt is gone would be in the balance and
  in no debt.

Assumed of the constants (`LedgerAssumption`): people, currencies and the ids of
records are finite sets, without which a sum of records would mean nothing. Keys
are any set, the ids of costs included or not.

## 7. Settlement

`Settlement.tla` is the arithmetic under the ledger. A calculation is a loop over
people in ascending order of ids, and a step of the model is a turn of the loop:
`AskEqual`/`Split` (the equal split of `validate`), `AskExact`/`Add`/`Exact` (the
check of exact shares), `AskAllocate`/`Add`/`Own`/`Floor`/`Hand` (`Allocate`),
`AskSuggest`/`Match` (`suggest`). `MaxMinor` stands for 2^63-1; `Plus` wraps
around it as Go's addition does, so that `Overflows` (the comparison that
`checkedAdd` makes first) has something to prevent. Products are exact: the code
takes them with `math/big`.

`upTo` and `rest` are histories: totals of the shares and of the divisions'
remainders up to each person. They let "what was given out so far" be said
without a sum over a set.

Run `services` asks of it: is everything handed out and no more
(`AllocatesAll`), does every step have what it has to have (`SettlementInv`), and
do the suggested transfers settle all balances, the smallest integer included
(`SuggestionsSettle`). Four people and amounts to 5 give up to three units left
by the divisions, payers with and without shares of their own, totals that
overflow, and balances of both extremes.

Proved (`SettlementProofs.tla`), for any number of people and any largest
integer: `Calculates` (the invariant is inductive), `AdditionExact`,
`LeavesNothing` and `FairParts`. That nothing is left is the deep one: after the
divisions `left * total` is the sum of their remainders, each below `total`, so
`left` is less than the number of people whose division left a remainder; each of
those has room for a unit (their share is above their part), and `HandSoFar`
counts down what is left against the remainders still to come. So one round is
enough, which is what the code's single loop relies on.

`NothingLost` (`AllocatesAll`) adds `GivenSoFar`: what was given, as a sum over the
people, and what is left are the amount asked for, at every turn of every loop.
With `NothingLeft` the parts are the amount. `SuggestionsAlwaysSettle` has an
invariant of its own, `SuggestedSoFar`: the balances to settle add up to zero, stay
integers, and the transfers made so far and the people with a balance left are at
most as many as the people. A transfer takes one of two people with a balance off
the list and makes one transfer, so at the end there are fewer than people; and
when nobody owes, or nobody is due, a sum of zero leaves only zeros
(`NobodyOwes`). The balances are what the code starts from: any that add up to
zero, the smallest integer included.

Units left go by ascending id to whoever has room. Somebody whose proportional
part was exact may therefore get a whole unit more while somebody with a larger
remainder gets none: parts are fair to within a unit and no closer.

## 8. Places

`Places.tla` follows each request from the admission by the user's window
(`Search`) over the cache (`CachedSearch`), the turn at the provider (`Reserve`,
under its mutex), the wait and the call (`Send`) to what is stored (`Store`). A
destination search asks the provider twice; `Resolve` has no window and no cache.
`Fail` is a cancellation, the timeout, or a failure of the provider, of the checks
on its answer, or of the database; a turn is not returned. `Restart` loses the
memory and keeps the tables.

| State | Code |
|---|---|
| `window`, `next` | `Service.users`, `Nominatim.next`: memory under mutexes |
| `cache`, `places` | `place_search_cache`, `places` |
| `call` | the requests under way |
| `searched`, `allowance` | histories, for the two rate limits: how many searches of the window up to a user's latest were admitted at each time, and what the pace allows |

`allowance` grows with the clock and falls by the pace with each request to the
provider; `Paced` says it is never negative. It does not say that two calls are a
pace apart: turns are, but a request that is late for its turn may go out right
before the next one. `SlidingBound` says what the window really gives: fewer than
twice the limit in any stretch as long as the window, because the window begins
with its first search. After a restart both begin anew.

Bounds: two requests at a time, one user, one key and one place, a clock to 3,
pace, patience, timeout and lifetime of one tick, a window of two ticks and two
searches. Turns queue up, run ahead and are refused; windows fill, end and follow
each other; two answers for one key arrive in either order and expire.

Proved (`PlacesProofs.tla`), for any number of requests, users and keys and any
times: `QueueStaysBounded`, `NeverTooOften`, `AnswersNeverTooOld`. `Paced` is not
inductive. The strengthening is `Affords`: until any instant to come, the
allowance by then pays for every waiting request whose turn comes by then, and
for one more if its turn would be reserved now. Reserving takes the "one more",
and its turn is a pace later; sending takes one from both sides; giving up only
helps.

`SearchesStayBounded` (`SlidingBound`) follows from `Windowed`: the searches since
the window's start are its count, and those that remain of earlier ones are fewer
than the limit. When a window starts, the last one's first search is at least a
window ago and so no longer among them; that is the one search that makes it
fewer than twice the limit.

## 9. Profiles

`Profiles.tla` is the way of a request through the middleware: `Arrive` decides
whether the token has to be asked about, `LookUp`, `Fetch` and `Keep` are
`userInfo` up to its first unlock, its call and its second lock, and `Save` is
`GetOrCreate`. `Reboot` empties the memory. A profile is abstracted to whom it is
about and when the issuer stated it.

Two requests can overtake each other between any two steps, so an older answer
may go over a newer one in the row. `NeverStaler` bounds it: what is written was
stated at most the time a profile is kept and two request timeouts ago.
`RowsAsStated` says it is about the row's user, although it is kept under a token
and written under a subject.

Bounds: two requests, two users, three tokens (two for one user, of which one
carries an email), a cache for one profile, a clock to 4. Filling the cache
clears it, every profile expires, every request may be overtaken.

Proved (`ProfilesProofs.tla`) for any of them: `RowsAboutTheirUsers`,
`RowsNeverStaler`, from the inductive `ProfilesInv`: a profile kept is its
token's holder's and expires within the time it is kept after an answer at most a
timeout old; a request about to write has one that was good when it began.

A token with neither `openid` nor an email makes the row's email NULL until the
user's next request with another token; the model has it as a statement of the
issuer like any other.

## 10. Sums

The ledger's totals and balances, the settlement's amounts and the searches in a
window are sums over finite sets (`SumFunction` of the community modules, which
takes the elements in an order of its own choice). `SumTheorems.tla` proves what
they obey: that the recursion they are written as has a value, that the order does
not matter (`SumTake`), and from these that sums of parts add up (`SumUnion`),
that a change of one element changes the sum by as much (`SumMoved`), that only
what is not zero counts (`SumWithin`), that sums keep signs, differences and
inequalities, and that a sum may be taken group by group.

The library's induction theorems take an operator as a parameter, which the
provers at hand do not instantiate. `SumTheorems` has its own (`Induction`,
`StrongInduction`), whose claim is a set of subsets: strict inclusion among the
subsets of a finite set is well-founded, and a well-founded relation has a minimal
element of every set that is not empty, which is a fact without such a parameter.

## 11. Fairness

Only `membership_roles` needs it (section 3). No other component holds a lock
across steps that another request could make wait for ever: ledger and schedule
requests hold the trip's row from decision to commit, both of which the timeout
ends, and nothing promises more than that they end.

## 12. Not modelled

Routing, JSON, CORS, configuration, migrations and scripts keep no state a
property could be about; the timeout and the shutdown appear in every module as
`Abort`, `Fail`, `GiveUp` or `InTime`. Listings and previews only read. The
token's verification and the provider's and issuer's answers are external. A
cache key is taken as it is: `destination:` is put before the query of a
destination search, and an ordinary query may begin with the same word, so the two
scopes are not quite apart (`Places` lets a key be asked for in either scope).
An invalid role, an unknown currency and other refusals of input are not steps:
they change nothing.

Every property of the passing runs is also proved for all values of the
constants, except `RequestsFinish`: liveness is model-checked only, as the prover
has no support for fairness. The runs that find a disagreement with the
documentation stay what they are, counterexamples on a small instance.
