# Verification of ctech-billing

TLA+ models of the billing service in `src/api`, checked with TLC and proved with TLAPS.
All paths below are relative to `src/api/internal/` unless they say otherwise.

## 1. The system

ctech-billing issues invoices for organizations (tenants), collects them through the
organization's own bank ("BYOK", bring your own key: Banco Inter's Pix API), chases the ones
that are not paid, tells integrations about it through webhooks, and keeps a finance ledger
("Finanças") with bills, recurrences, cards, imported files and synced bank statements. It is
one Go API (`cmd/server`) and a set of scheduled jobs (`cmd/byok`, `cmd/dunning`,
`cmd/deliver`, `cmd/finance`, `cmd/reconcile`, `cmd/sweep`), all stateless: **every bit of
shared state is a DynamoDB row**, and the only synchronization is a conditional write or a
small transaction. Every request and every job is therefore a process whose steps are single
database or bank calls; between any two of them every other process may run, the process may
die, and what it has read may be stale.

| Component | State it keeps | Operations | Where it is hard | Module |
|---|---|---|---|---|
| Collection (`services/byok_collector.go`, `byok_confirm.go`, `byok_sweep.go`, `collecting.go`) | attempts, the bank's charge, excess rows, invoice status and credit | checkout, "new Pix", void, credit note, re-query, sweep | reads rows, calls the bank, writes rows; the bank moves on its own | `Collection` |
| Refunds (`services/byok_refunds.go`) | the excess row's status and refund id | refund, follow | two presses, a late answer | `Refunds` |
| Payouts (`services/payouts.go`) | payout row, bank transfer | create, send, follow | timeout of a call that moved money | `Payouts` |
| Dunning and posting (`services/dunning.go`, `finance_invoices.go`) | position in the policy, subscription status, one queue key for two queues | remind, escalate, abandon; record, replay | acts on a page read earlier | `Dunning` |
| Billing cycle (`services/invoicing.go`, `subscribing.go`, `oneoff_invoices.go`) | subscription, items, drafts, the number counter | sweep, subscribe, change, cancel, finalize | requests and runs on one row, death between draft and number | `Cycle` |
| Ledger (`repositories/ledger*.go`) | journal, cached balances and totals | post, reverse, open, rebuild | caches that follow the journal | `Ledger`, `Chart` |
| Bills (`repositories/bills.go`) | a bill and its postings | create, edit, settle, cancel and back | postings computed from what was read | `Bills` |
| Recurrences (`repositories/recurrences.go`) | rule, cursor, occurrence locks | materialize, confirm, skip, edit | a job that dies between two occurrences | `Recurrences` |
| Cards (`repositories/cards*.go`) | purchases, statement items, bills | buy, refund, advance, close, reopen | a write while a statement closes | `Cards` |
| Imports (`repositories/imports.go`) | locks by transaction, lines, decisions | upload, decide, expire | overlapping files, retries | `Imports` |
| Bank statement (`services/byok_statement.go`, `byok_linker.go`) | line locks, links, entries | backfill, sync, link, classify | either order of line and invoice | `Statement` |
| Bank connections (`services/byok_connections.go`, `byok_job.go`) | hot row, sealed bundle, guard | connect, test, renew, disconnect, warn | slow calls between count and create | `Connections` |
| Payment notices (`services/byok_collection_setup.go`, `byok_webhooks.go`) | hook row and secret, the bank's URL by key | register, move, take down | two systems, no conditional write on one side | `Hooks` |
| Webhook outbox (`services/delivering*.go`) | events, deliveries, endpoints | fan out, attempt, kick | overlapping passes | `Outbox` |
| Idempotency (`middleware/idempotency.go`) | the claim of a key | claim, complete, release | death with the claim held | `Idempotency` |
| Realtime (`realtime/`, `repositories/realtime_log.go`, `src/ui/src/lib/realtime`) | change log, connection, the client's cursor | publish, register, replay, poll | what falls between replay and live | `Realtime` |
| Applications (`services/applications.go`) | application, pointer, lease | apply, approve, reject | steps before the decision | `Applications` |
| Credentials (`services/credentials.go`, `provision/`) | credential, guard, index, cache | connect, disconnect, provision | stale index and cache | `Credentials` |
| Closure (`services/closing.go`) | closure, marker, read-only flag | request, confirm, cancel, purge | links clicked twice, death anywhere | `Closure` |
| Erasure (`services/erasing.go`) | rows that name partitions | check, erase, acknowledge | order of deletion | `Erasure` |

Handlers and jobs call services; services call repositories (DynamoDB) and the bank (through
`byokrpc`; the provider library `api-commons/byok` is outside this repository). A settlement
activates the subscription, tells the settlement bus and records in the ledger, best effort and
in that order. State changes write their audit row and their outbox event in the same
transaction (`repositories/transition.go`), which is why no model has them as steps of their own.

## 2. How the models are written

One module per component, one action per database or bank call. A process carries the name of
its **next call** and what the code holds in local variables: the copy of a row it read is the
state a conditional write is compared with. A read followed by a conditional write of the same
row is one action only where the write's condition is the whole of what was read. A transaction
is one action. Death, a failed call, a refusing gate and a rate limit are one action each
module has (`Fail`, `Dies`, `Crash`...): the process forgets everything, the rows stay. Names
are the code's. Bounds on what never ends in the code (attempts, ids, revisions, days, crashes)
are constants named `Max...` or `Last...`.

`PROJECT.json` maps every definition to the lines it stands for. The sections below say what a
reader would not guess.

### Collection

`inv` is the invoice row from the moment it is OPEN, `att` the attempts by number, `bank` the
charge of each attempt's reference (status, amount, payments in order), `excess` the excess rows
keyed as in `ExcessSK` (attempt, payment, and whether it is the part above the amount). `proc` are
the requests and jobs. `Pay`, `NewAttempt`, `Latest`, `Open`, `CreateCharge`, `SetByokCharge` are
`Collector.Pay` and `NewAttempt`; `VoidInvoice` to `WriteVoid` the console's void; `CreditInvoice`
to `SetByokAmount` a credit note; `Confirm` to `RecordExcess` the re-query; `Sweep`, `SweepNew`,
`SweepOld` the job. The bank is modelled by how the code uses it: creating is idempotent by
reference, cancelling and updating work on an open charge only, payments are only added, and a
payer pays what is asked plus what `Surcharges` lists.

### Refunds, Payouts, Dunning

`Refunds` follows one excess row and the refunds under the ids drawn for it. `Payouts` follows one
reference: the row it names, the transfer of each UUID a create drew, what the bank does with
the request now (`treat`), the events told. `Dunning` follows the invoices of one subscription;
`inv[i].queue` says which of the two queues the row's one schedule key puts it in. A page of a
dunning run is any subset of the queue, which covers suspended tenants and a lagging index.

### Cycle

One subscription with its items, its invoices by generation key (a period, the swap of a plan or
a one-off reference) and the tenant's number counter. `DueOn`, `InvoiceOne`, `Renew`,
`EndAtBoundary` and `ChangeAtBoundary` are the sweep over a copy read at its start; `Create`,
the numbering and `FinalizeDraft` are shared by every process that issues an invoice. Periods
have `PeriodDays` days and are numbered; proration is `MulDiv` with the code's rounding.
Dunning's effect on the subscription is `EscalateTo`.

### Ledger, Chart, Bills, Recurrences

A ledger transaction is a function from accounts to signed amounts. `Ledger` keeps the journal
and the caches; its rebuild reads in three queries and overwrites row by row. `Chart` is the
space row, the accounts and their seeding. `Bills` is one bill with the transactions it posted
and the guard of each write. `Recurrences` is one rule, with months for days: the cursor, the
lock of each occurrence, the pending amounts, everything made.

### Statement, Cards, Imports

`Statement` is one account: what the bank lists from which day on, the lock of a line, the entry
for each part of it, the sync lock, the connection's backfill mark. `Cards` is one card: items by
month, owner and tag, statements, bills. `Imports` has the lock row of each transaction, the
lines, their expiry and what was decided.

### Outbox, Realtime, Idempotency

`Outbox` has event and delivery rows, endpoints under a revision counter, the timer's pass and
the kicked one with `DeliveryKick`'s two flags. A reading of the fan-out queue shows any
`KickBatch` at most of the events emitted, since the index lags both ways; a kicked round that
found nothing looks again, `KickRetries` times; an event whose endpoints or fan-out fail stays
queued. `kick` remembers what became of each kick. `Realtime` follows one client: a change's id and
revision are the instant its process read the clock, and it may commit any time after that, behind a
later change of its entity too (`byok_job.go:142` hands one instant to every write of a run); the
model has the log, the server's side of one connection, the client's cursor, screens and poller.
`Idempotency` is one key, whose answer or release may fail to be written. `IdempotentCall` is what a
key promises: one handler at a time, under a claim; once an answer stands every later request is
told that answer or refused; and an answer told but not recorded keeps others out only until its
claim lapses. `KeepsThePromise` is the refinement: `running` are the handlers that run, `holder`
who has the claim, `winner` whose answer is recorded.

### Applications, Credentials, Connections, Hooks, Closure, Erasure

Each is the life of one organization in one table or two: the application its pointer names and
the lease under which it is approved; the credential, its guard, the index that lags and the
cache that remembers; the connection's hot row under a revision and the bundle sealed for it;
the hook's secret here and the URL at the bank; the closure with its marker and flag; the rows
that name the partitions to delete, with the order of their tables.

## 3. Runs

| Run | Instance | Properties |
|---|---|---|
| `collection` | two requests, 2 attempts, total 2, notes of 1; and one request, all operations, 2 attempts with 2 payments, total 3, late charges and overpayment | `OneLiveAttempt`, `CountedOnce`, `NeverUndercharged`, `AmountsAddUp` |
| `sweep` | a request and the job, every operation, 1 attempt, with fairness | `PaidChargeConcludes` |
| `refunds` | a press and the job one after the other, 4 ids; two presses and the job overlapping, 3 ids, with fairness; refunds may fail | `RefundsOnce`, `OverlapOnceUntilFailure`, `OverlapRefundConcludes` |
| `payouts` | 2 creators of 2 requests and the job, the bank may begin to refuse, with fairness | `PaidAsReserved`, `OnlyTheBanksWord`, `PayoutConcludes` |
| `posting` | an invoice, a dunning run that overlaps nothing, a settlement, a replay, with fairness | `QueuedUntilPosted`, `PostingConcludes` |
| `books` | `Ledger`, `Chart`, `Bills`, `Recurrences`: two requests, or a request and the job | `CachesAreDerived`, `OneOpening`, `ReadyIsComplete`, `BooksFollowBills`, `EachOccurrenceOnce` |
| `bank` | `Statement`, `Cards`, `Imports`: two processes | `PaymentInBooksOnce`, `BackfillLeavesNoHole`, `EveryCentBilled`, `StatementsFollowLedger`, `BookedOnce`, `NoneDropped` |
| `cycle` | `Cycle` with two workers, a plan in advance and one in arrears; `Dunning` with overlapping runs | `NumbersHaveNoGap`, `RenewedIsInvoiced`, `NoStepSkipped` |
| `delivery` | `Outbox` with two passes that read one event at a time and look again once, `Realtime` with one client, `Idempotency` with four requests | `NothingQueuedIsLost`, `KicksAreServed`, `CaughtUp`, `KeepsThePromise` |
| `tenants` | the six modules of an organization, two requests each | `PendingIsCurrent`, `SubscribedOnce`, `AdmittedOnce`, `ProvisionedStays`, `PurgeIsPastCancelling`, `ErasureIsResumable`, `WithinQuota`, `WarnedWasTold`, `RegisteredIsOurs` |
| `late_answer` | `Refunds`, overlapping | `RefundsOnce` violated |
| `unknown_key` | `Hooks`, a key the bank does not know | `RegisteredIsHeard` violated |

The modules of one run share no variable: a behaviour picks one of them at its start (`part`), and
the state space is the sum of theirs, not the product. The components of a run do meet in
the code, through calls the models have as steps (a settlement's posting, a closed
statement's bill); what one module takes from another is an external action there.

**Bounds.** Two processes are the least that race; three of a kind appear where the third is
what goes wrong (a refund id too many, a second take-over of a claim). Two attempts give a failed
predecessor, two payments a second one on a charge, four ledger transactions an opening that is
reversed, posted again and reversed by who read the first. A `KickBatch` of 1 makes one event more
than a reading shows, and a `KickRetries` of 1 a second look that may find or miss. The MC modules name what they leave
out beyond the constants: `SweepBound` (dunning gives up and a re-query starts while nothing is
under way; both are steps no fairness speaks of), `LedgerBound`, `StatementBound`, `CardBound` (with no
advance once a credit is on the card), `ImportBound`, `OutboxBound` and `ConnectionBound`, each with a comment saying which overlaps remain. They cut
overlaps of steps that touch different rows; each property's mutant shows that the
overlaps it is about are still there. `CHECK_DEADLOCK` is off: a concluded refund, a closed
tenant or a statement after its last day is really finished.

**Fairness.** `cmd/byok` runs every hour and takes up every pending row, so the job's start is
strongly fair, and a step it takes again every hour goes through in the end (strong fairness
of its calls, which are the code's retries). Nothing is assumed of requests, notices or payers.
`Refunds` and `Payouts` assume the same of the same job and that the bank concludes what it
took. In `Dunning` a run under way ends, because its calls have deadlines; the replay reads its
whole queue each time, so starting on a queued invoice and recording a side are strongly fair.

## 4. What the properties say

Each is stated in its module, with the behaviour it is about, and each property of a passing run
has a mutant (`Bad...`, before the definition it distorts) that breaks it.

- *Money in*: at most one attempt is pending or settled; a payment settles or is an excess, once; a
  live charge never asks for less than is owed; however notes race, no payment settles for less than the
  total, less the notes, and its late charges; with one request at a time what settles and what is
  given back are right to the cent; a paid charge is concluded by the sweep.
- *Money out*: one refund, one transfer per reference, both followed to their end, whatever is
  lost or repeated; a payout's outcome is what the bank said of it.
- *Invoices*: numbers without a gap although the counter and the invoice are read first; no period
  is renewed past without an issued invoice; no step of the policy is passed unperformed; a paid
  invoice stays queued until both ledgers have it, unless a late dunning write takes it off.
- *Books*: the caches equal the journal unless a posting met a rebuild and no quiet rebuild
  has run since; one opening per account; a space that says it is seeded has its whole
  chart; the ledger holds what the bill says; an occurrence is turned into one thing once.
- *Bank*: a payment is in the account once, whichever of line and invoice comes first; a backfill
  that failed leaves no window out; every cent of a card is on a bill or an open statement;
  a transaction two files hold under a key of its own is booked once, and none is dropped.
- *Messages*: a delivery leaves the queue taken, given up or closed; the kicked loop stops only when each
  kick had a round of its own that looked until it found something or ran out of looks, and what it
  found is fanned out or its fan-out failed; a connected client whose queue is empty has dealt with
  every change its replay had to bring; a key keeps its promise.
- *Tenants*: the pending application is the one the pointer names; an organization is subscribed
  once and a client admitted once; a provisioned credential is not removed by a stale request; a
  purge begins past cancelling; an erasure that died is resumed with everything still
  reachable; the quota holds; a warning marked was sent; a notice said to be registered is there.

## 5. Where code and its own words disagree

Two runs expect a violation; `PROJECT.json` quotes the line each contradicts.

1. *A late answer about an older refund* (`late_answer`). `SetExcessStatus` is conditioned on the
   status, not on the refund id, so a refund in flight is marked failed and sent once more.
2. *A key the bank does not know* (`unknown_key`). The hook's secret is rotated before the PUT; when
   the bank refuses the new key, the URL it keeps for the present one carries the old secret,
   whose notices are refused once the overlap ends.

**Observations** are met in the models step by step but have no run of their own; some explain why
a property is stated as it is. Where a comment says otherwise it is given.

*Collection and refunds.* A void that lists the attempts between the two writes of a settlement
finds SUCCEEDED, answers "nothing paid" and is written (`services/byok_collector.go:361`, against
`api/v1/console.go:388`). An invoice credited in full still settles its attempt for the old amount
(`byok_confirm.go:99`). `SetByokAmount` (`payments_byok.go:317`) is conditioned on the status
alone, so with racing notes a settled attempt may say more than was paid: `SettledInFull` and
`ExcessExact` in `AmountsAddUp` are checked with one request at a time, `CoversTotal` with every
overlap. The sweep lists PENDING attempts only (`byok_sweep.go:120`):
an invoice whose settlement died between its two writes waits for a notice. An invoice given up by
dunning or credited in full after the bank's charge was lowered but before the attempt's row was:
confirming the payment only alerts (`byok_confirm.go:98`). A re-send that is
refused a token is read as the bank's refusal (`services/payouts.go:228`, against
`domain/billing/payout.go:26`); `OnlyTheBanksWord` is checked and proved while the scope is kept.

*Dunning and posting.* `AdvanceDunning` (`repositories/invoices.go:726`, against `:479`) writes the
schedule key whatever it holds and can take a paid invoice off the posting queue: the `posting`
run keeps dunning exclusive, and `OnlyDunningUnqueues` proves that nothing else does it. `step` trusts its page, so a paid invoice may still be reminded
(`dunning.go:134`); two runs send one reminder twice (`:149`); a subscription another payment
reactivated is written off without being cancelled (`:266`).

*Cycle.* Two plan changes that read the same items leave both plans (`subscriptions.go:483`, against
`:417`). A draft left by a dead run is taken for billed at a scheduled end (`invoicing.go:607`,
against `:600`). A change at the boundary to a plan in advance renews before it
generates; a plan change that races a renewal rewinds the period; a recovery from PAST_DUE later
than the sweep looks back schedules a day no run reads; a sweep with an old copy bills a
subscription just cancelled; a `Subscribe` that dies before its first invoice stays INCOMPLETE.

*Books.* `MarkMaterialised` (`recurrences.go:821`, against `:546`) writes a schedule key computed
from what it read. A run repeated after a confirmation puts the pending row back
(`recurrences.go:144`); the condition of a made bill does not compare the rule's end
(`bills.go:273`). An edit sets the job's key from the auto_settle it read (`bills.go:895`).
A posting that meets a rebuild is overwritten until the next one (`ledger_rebuild.go:116`).

*Bank.* The backfill is marked done before the eve's balance is read, and a failure there loses
the opening (`byok_statement.go:133`, against `:65`). A sync re-reads three days whatever day the last
one reached (`:147`); `synced_through` is written and never read. Two syncs that race on the excess
of two payments under one bank id leave one of them to a later sync though its line is linked
(`repositories/ledger_byok.go:143`), hence `ExcessIdsDiffer`. An installment advanced, reopened
and advanced again stays on both statements (`cards_close.go:53`, against `:22`), which is
why `StatementsFollowLedger` leaves such purchases out. A line without the payment's id is taken as
the payment of the attempt its reference names (`byok_linker.go:66`); were two payments of one charge
listed and either without its id, both would pass for the invoice's own (the instance has one such
line). `UpdateCard` writes the schedule key
unconditionally. A transaction imported under its bank id is imported again from an export that
repeats the id (`domain/finance/statement/match.go:54`, against `:26`). When a bank gives an id again
to another transaction, the second is keyed by its content; once the first one's lock has expired
undecided, a third file claims the id for the second transaction and it can be booked twice
(`repositories/imports.go:484`), so `BookedOnce` speaks of transactions whose key is theirs alone. A slow upload that added
nothing deletes its header without a condition.

*Messages.* Marks of a delivery are unconditional, so delivery is at least once and a late mark
may requeue. A kicked event that the index does not show within the looks of its round, that lies
beyond the batch (a round stops at the first reading that finds anything, `delivering_kick.go:70`) or
whose fan-out fails waits for the minute's timer; `KicksAreServed` promises no more. A change whose publish is lost is passed by the cursor of a later one
(`realtime_log.go:178`, against `src/docs/specs/2026-10-14-realtime.md:182`); a replay overtaken
by a live change and then cut loses the rest; a poller cannot pass an overlap that holds more
than a page. A change that commits with an old instant is dropped by a client that has applied a
later revision of its entity (`src/ui/src/lib/realtime/core.ts:147`), and is missed by every replay
if the cursor is past it by more than `ChangeOverlap`; the job's syncs and sweeps write all with the
instant the run started (`byok_job.go:142`), so both happen. `CaughtUp` names the first and speaks of
what the replay's overlap reaches. When `Complete` fails the answer goes out as a success
(`middleware/idempotency.go:159`), and a retry after the lease runs the handler again. A request that
outlives its lease (`SlowCalls`) breaks the key's promise.

*Tenants.* The read-only flag is raised and lifted in writes of their own (`closing.go:235`).
A purge that dies after both tenant rows are gone never finishes (`closing.go:121`, against
`tenant_purge.go:68`). The cycle job may bill between the eraser's check and its cancellation.
`SaveConnection` compares only a revision that starts at one again (`byok.go:283`, against
`:277`), so the holder of a disconnected connection can overwrite its successor. Disconnecting an
onboarding row deletes without a condition. Two registers at once may leave the URL with the previous
secret, and the second one's PUT may replace the URL the first one's save then names; a job that read
a former life of a connection saves its copy over the new row, whose revision starts at one again:
`RegisteredIsOurs` is checked, and proved, over one life and one console request at a time beside the job. An approval that failed after subscribing releases its lease; a retry within the
index's lag subscribes again, as do two approvals that outlive their lease (`Slow`). A connect right
after a disconnect is answered from the index or the cache.

## 6. Proofs

Every theorem holds for every value of the constants that satisfies the module's named assumption.

| Module | Theorems | Under a further hypothesis |
|---|---|---|
| `CollectionProofs` | `TypeCorrect`, `OneLive` (`OneLiveAttempt`), `PaidIsPaid` (`PaidByPayment`), `MoneyCountedOnce` (`CountedOnce`), `NeverAsksLess` (`NeverUndercharged`), `NotesWithinTotal` (`CreditWithinTotal`), `NeverSettlesForLess` (`CoversTotal`), `CollectionEndsAreFinal` (`EndsAreFinal`) | |
| `RefundsProofs` | `TypeCorrect`, `RefundedIsPaid` (`RefundedMeansPaid`), `OnceBeforeFailure` (`OnceUntilFailure`, which the run `refunds` checks as `OverlapOnceUntilFailure`) | `PaysOnce` (`RefundsOnce`), `Followed` (`InFlightIsFollowed`): `Separated`, requests do not overlap or no refund fails |
| `PayoutsProofs` | `TypeCorrect`, `PaysAsReserved` (`PaidAsReserved`), `TellsOnce` (`AnnouncedOnce`) | `SettlesTruly` (`OnlyTheBanksWord`): `Steady`, the scope is not lost and what was refused is not taken later |
| `InvoicingProofs` | of `Dunning`: `TypeCorrect`, `Ladder` (`NoStepSkipped`), `Chased` (`WrittenOffAfterChase`), `Final` (`EndsAreFinal`), `OnlyDunningUnqueues` (`StaysQueued`), `Unchased` (`UnchasedIsQueued`); of `Cycle`: `NumbersRunOn` (`NumbersHaveNoGap`), `RenewalsAreInvoiced` (`RenewedIsInvoiced`) | |
| `DeliveryProofs` | `NoWebhookIsLost` (`NothingQueuedIsLost`), `NoKickIsLost` (`KicksAreServed`), `ResumesWithoutLoss` (`CaughtUp`) | `KeyKeepsItsPromise` (`KeepsThePromise`, the refinement of `IdempotentCall`): `~SlowCalls`, no request outlives its lease |
| `TenantsProofs` | `ClientAdmittedOnce` (`AdmittedOnce`), `PlanCredentialStays` (`ProvisionedStays`), `ApplicationIsCurrent` (`PendingIsCurrent`), `PurgesPastCancelling` (`PurgeIsPastCancelling`), `ErasureResumes` (`ErasureIsResumable`), `NeverOverQuota` (`WithinQuota`), `MarkedMeansTold` (`WarnedWasTold`) | `OneSubscription` (`SubscribedOnce`): `~Slow`, no decision outlives its lease; `NoticesAreOurs` (`RegisteredIsOurs`): `OneAtATime`, one console request at a time and one life of the connection |
| `BooksProofs` | `ReadySpaceIsComplete` (`ReadyIsComplete`), `OccurrencesAreMadeOnce` (`EachOccurrenceOnce`), `TransactionsAreBookedOnce` (`BookedOnce`), `NoTransactionIsDropped` (`NoneDropped`), `BackfillHasNoHole` (`BackfillLeavesNoHole`) | `PaymentsAreInBooksOnce` (`PaymentInBooksOnce`): `ExcessIdsDiffer`, no bank id is given to two payments that exceed their charges |
| `LedgerProofs` | `OpeningsAreUnique` (`OneOpening`), `CachesFollowJournal` (`CachesAreDerived`), `BillsKeepTheirBooks` (`BooksFollowBills`), `StatementsAreBilled` (`EveryCentBilled`), `StatementsKeepTheLedger` (`StatementsFollowLedger`) | |

None of the invariants is inductive on its own, because each step acts on what its process
read earlier. The inductive invariant `IInv` of each module is the type invariant, a part about
rows, and what every process knows (`ProcOK`, `SamePayout` in `Payouts`): **what a stale copy still
guarantees**.

- *Collection*: a process at "create" knows that every lower attempt has failed; one holding
  an ended copy knows the row still has that status; one past the bank's answer knows that at least
  `seen` payments are there and that the first is the one it saw. `NeverAsksLess` adds `AskedInv`:
  what the invoice collects only falls, so any copy asks at least as much, and every amount on an
  attempt, at the bank or in hand comes from such a copy; `NotesWithinTotal` adds `NotesInv`.
  `NeverSettlesForLess` adds `CoverInv`: every amount on a row or in a copy covers, with the notes
  issued by now, the total, whichever copy of the invoice it was computed from, and notes are only
  added; so a payment compared with any of these amounts covers it too.
- *Refunds*: the row names the last id drawn and the bank knows no later one; a copy's id is at
  most the row's. `PaysOnce` adds `Latest`: only the last id can be alive.
  `OnceBeforeFailure` adds `Untroubled`: while the bank has failed nothing, one id was drawn at most
  and the row says refunding as long as the bank is working on it.
- *Payouts*: every process under way carries the reserved UUID and request. `SettlesTruly` adds
  `Truly`: a verdict in hand is what the bank will go on saying.
- *Dunning*: a copy's position is at most the row's and below the policy's length; a run at
  "advance" has performed the step it will record; a posting at "posted" has both sides or is
  past its window. `QueuedUntilPosted` needs `Exclusive` and is left to TLC; what holds in every
  interleaving is proved: `StaysQueued` says which single write can break it, and `UnchasedIsQueued`
  that it cannot before dunning has counted a step.

- *Cycle* (`CycleInv`): the issued invoices are as many as the counter says and bear its numbers,
  so the transaction that takes counter + 1 keeps them a run; a worker at "renew" knows that the
  invoice of the period it leaves is issued, which nothing undoes.
- *Idempotency* (`IdemInv`): while no request outlives its lease, the one handler that runs holds
  the claim, and whoever is to answer holds it too or has its answer recorded; with
  that each step of the middleware is a step of `IdempotentCall` or a stutter.
- *Outbox* (`OutboxInv`): what a pass carries (events, endpoints, due rows, marks) still justifies
  the write it is about to make, and `KicksHeld`: an event asked for and not yet sought keeps `again`
  up or is before the round that runs, one being sought leaves that round looks to take, and one
  found and still queued is in its pass's hands.
- *Realtime* (`RtInv`): a client is registered before its replay is read, so a published change in
  reach of its cursor is shown, queued, found by the replay or covered by a gap (`OnItsWay`); a
  revision in hand is a committed change, and everything up to it is shown or was committed behind
  it (`Dealt`).
- *Credentials, applications, closure*: guard and rows agree (`Guarded`); the lease's holder is
  the only reviewer past its lock (`LeaseInv`); a worker past "purging" works for a closure that no
  save can cancel any more.
- *Erasure*: an eraser that goes on to the next table has left nothing the former ones name; rows
  only shrink, so what one delivery knows survives another's steps.
- *Connections*: a copy whose guard or revision is still the row's is the row, so the count it was
  read with, and the notice it was sent for, still hold.
- *Chart* (`ChartInv`): whatever a seeding does not hold any more is there or was left out
  because its name is taken (`SeedingOK`).
- *Recurrences* (`RecInv`): a run's draft is the first occurrence past the cursor it read and each
  one before it has its lock or its pending row (`RunOK`), so that the mark it writes leaves none out.
- *Openings* (`OpeningsInv`): the marker of an account names its one standing opening, and a
  call that read an opening to reverse it still names it or one reversed since.
- *Ledger* (`CacheInv`): until a rebuild overlaps a posting every balance and every month's totals
  are the sums of the journal, a rebuild that compared holds the drift of the journal it read, and a
  posting adds to each cache what it adds to each sum.
- *Bills* (`BillInv`): a copy of the row with as many transactions as the row has its amount and
  category (`CopyOf`), since whatever changes them posts; so what a request planned from its copy is
  what the row asks for when its guard holds. Of a canceled or paid bill the invariant also says what
  its last transaction did, which is what a reversal undoes.
- *Cards* (`CardInv`): the months before the open one are closed with the total of their items, and
  only their live bills and their carries are there (`StatementsOK`); a bill's id names the month and
  a version no later closing of it can have (`BillIds`); a request's total is the month's while the
  card has the month and version it read (`KnowsOK`), though items may have come between its two
  reads. `ContentInv` adds what the items of a purchase are: its plan's rows, with what was advanced as
  one of them and the last, so a closing never parts an advanced item, and a refund gives back
  exactly what was billed. Bound by name: any number of installments up to `MaxInstallments`.
- *Imports* (`ImportsInv`): a lock belongs to a line that is there and bears its key, and a booked
  line holds its lock, decided, for good; two lines of a file never share a key (`KeysDiffer`, from
  the ordinals of equal lines), so `decide`, which compares the import only, means the line.
- *Statement* (`StInv`): every copy of the connection, fresh or stale, has no hole above its cursor,
  and what a sync has not accounted for yet of its window is still in its list; locks are
  permanent, so nobody undoes it. `PaymentsAreInBooksOnce` adds `PayInv`: an entry holds a lock of
  its own line (the id may be another's, the content is not), a line carried to a post is not its
  invoice's unless the linker gave up on it, and one carried to its link has its excess booked.
- *Hooks* (`HooksInv`): until its PUT a console request's copy has the row's hook, which its URL
  will name; from the PUT on, the URL of the copy it is about to save stands; and before the old
  key's URL is removed the row has left that key (`ConsoleOK`). The job's copy is the row's while the
  revisions agree, but for the notice it found gone (`JobCopyOK`), so its save keeps hook and key.

What makes these facts survive other processes' steps is stated once per module (in `Collection`
and `Dunning` as `Grows`: ended things stay ended, positions and payments only grow). One lemma
shows that it keeps what a process that does not move knows; then each action has a lemma of its own.

Sums need an induction, and the library's induction theorems take a predicate, which the provers
cannot instantiate. `LedgerProofs` goes another way: `SumFunctionOnSet` is a recursive function on
the subsets of a finite set, strict inclusion among them is well founded
(`FS_StrictSubsetOrderingWellFounded`), and `WFMin` takes the *set* of the subsets a claim fails for.
`SubsetInduction` and the lemmas `SumIn`, `SumOut`, `SumPlus`, `SumUnion` and `SumByKey` follow from
that, for any finite set and any integers; `SplitsTotal`, that the installments of a purchase come to its
total whatever the remainder, follows from them.

Only model-checked, and why: all liveness (`PaidChargeConcludes`, `OverlapRefundConcludes`,
`PayoutConcludes`, `PostingConcludes`), which the prover cannot reach. `AmountsAddUp` and
`OverlapOnceUntilFailure` are names a run gives to what is proved (`NotesWithinTotal` and
`NeverSettlesForLess`, `OnceBeforeFailure`), the former with two conjuncts more, `SettledInFull` and
`ExcessExact`, on an instance of one request at a time. `QueuedUntilPosted` is checked while a
dunning run overlaps nothing.

## 7. Not modelled

`PROJECT.json` lists every component with what is left out of it. Left out for good: HTTP parsing
and rendering, authorization, the console UI but for its realtime client, e-mail, PDF, Terraform,
one-off backfills, file parsing, calendars and validation (no shared state of their own);
suspension, charge gates and plan limits (a refused call is a failed call of every model).
What remains possible: the election among tabs, the checkout session, credit notes in the posting
queue, the sandbox of the payment notices, consumption counters.
