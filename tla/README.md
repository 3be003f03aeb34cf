# Bharat Matka backend: specifications in TLA+

This directory models the backend: a betting session from its creation to its
last payout, the rules of the games, the batches that refund bets, the desk of
the administration and its reports, deposits and withdrawals, the settings, and
the accounts, bank details and devices of the users. The modules are translated from the
JavaScript under `src/src`; TLC checks them on small instances and TLAPS proves
most of the invariants for all values of the constants. `PROJECT.json`
maps every definition to the lines it stands for.

- [The system](#the-system): components, state, operations, interactions
- [Modules](#modules): which module models what, and how
- [Runs](#runs): what TLC checks, bounds, fairness
- [Proofs](#proofs): what TLAPS proves, from which assumptions
- [Where code and documents differ](#where-code-and-documents-differ)
- [Not modelled](#not-modelled)
- [Plan](#plan)

## The system

A Node.js process serves an Express API over MongoDB and runs cron jobs in the
same process. There is one JavaScript thread, but every `await` lets other
requests, jobs and task runs in, and several server processes may share the
database. Money changes inside MongoDB transactions. Much of what decides
*whether* it changes is read before the transaction starts: that is where most
of the hard behaviour comes from.

### Components

| component | state it keeps | operations that change it | what makes it correct |
|---|---|---|---|
| Sessions (`modules/sessions`, `gameSessionRepo.js`) | one `GameSession` per market and day: `status`, `phase`, results, revisions, settlement status, consistency flag and warning | daily creation, scheduled phase change, lock toggle, cancel, declare, reset, settlement writes | phases only move as the guards say; a settled session has its close result; the flag says what it claims |
| Bet placement (`bets.service.js`) | `Bet` documents, `BET_DEBIT` transactions | validate, then debit wallet, store bets and ledger entry in one transaction | no bet without its debit and its exposure |
| Results (`ResultApplicationService.js`, `result.service.js`) | results and `resultRevision` in the session, `SettlementJob`, `EventTask` | declare (one transaction, queues a settlement), reset | each displayed result has its own revision |
| Settlement (`SettlementOrchestrator.js`, `settlementService.js`) | bet statuses, `WIN_CREDIT`s, settled result, wallets | the open pass, the close pass, the catch path | every bet decided once, winners paid once, on the result of the task that settles them |
| Task queue and runner (`infrastructure/queue`) | `EventTask` documents: status, attempts | schedule, fetch, claim, complete, retry, fail | every task ends |
| Scheduler (`infrastructure/scheduler`) | a flag per job | cron tick, skip of an overlapping tick | a job does not overlap itself |
| Revert batches (`modules/admin/results/revertBatch.*`) | `RevertBatch`: status, cursor, counters | preflight, create, schedule, chunked execution, resume | refunded once, none left behind, the batch ends |
| Wallet and ledger (`walletRepository.js`, `transactionRepository.js`) | balance, exposure, `Transaction` documents | debit and credit operators the others call | balance explained by the ledger, exposure by the pending bets |
| Payments (`modules/payments`) | `Payment` and `Payout` documents | order, webhook, verify, UPI callback, request, approve, reject, delete | credited once, paid out once, never overdrawn |
| Admin user and bet administration (`adminUser.service.js`, `admin/analytics`) | bets, books, wallets, transactions | edit and delete bets and lines, adjust funds, delete transactions; reports | exposure, book and ledger follow the edit; an adjustment is made once; the reports agree with the money |
| Game rules, motor games (`domain/rule-engine`, `domain/combinations`, `modules/motor`) | none | pure functions: templates, panas, combinations, winning, payout | a bet wins where its template says, each pana has one name |
| Exposure and preview (`domain/exposure`, `domain/preview`, `admin/simulation`) | one `SessionExposure` per session and mode | add and remove a bet; simulate, preview | what is forecast for an outcome is what its settlement pays |
| Markets (`modules/markets`, `admin/markets`) | `Market` documents: times, days, active | create, edit, delete | a session opens before it closes |
| Settings (`admin/settings`, `configCache.js`) | `GlobalConfig` documents, a cache in the process | update, contact, UPI id of the merchant, read through the cache | minimum below maximum; no request uses settings that were not in force |
| Authentication and users (`modules/auth`, `modules/users`) | `User`: password, refresh and reset token, status; bank details | register, log in, refresh, log out, reset, block, delete; add, set default, delete | one account for a phone; ended sessions stay ended; one default |
| Notifications (`modules/notifications`) | device tokens | register, refresh, remove, send, clean up | a reachable device is not switched off |
| Heartbeat, logs, roles, application shell | audit records, permissions | plain reads and writes | |

### How they interact

1. The daily job creates a session for each market and schedules its phase
   change and its lock as `EventTask`s.
2. A user's bet is validated against the session, and then written in a
   transaction that does not read the session again.
3. An admin declares a result. One transaction stores it with a new revision,
   creates a `SettlementJob` and queues a task. After it, the request starts
   `TaskRunner.run()` itself with `setTimeout`; the cron job runs it as well.
4. The runner fetches the pending tasks once, and saves each one as
   `processing` before it calls the handler. The save is not conditional on the
   status being still `pending`.
5. `settleResult` reads the session, then the pending bets, then the session
   again, and settles the bets in one transaction. The settled result, the end
   of the session and the consistency metadata are separate writes after it.
6. An admin may reset a result or cancel the session at any time, each with a
   read, a check and a later write. An admin may also start a revert batch,
   which is executed by the same runner and meets the settlement at the bets.
7. Deposits, withdrawals and bets share the wallet balance; the administration
   edits bets, adjusts balances and deletes transactions beside all of them.
8. Bets, deposits and withdrawals read their limits from the settings through
   the cache of the process; messages go to the devices users have registered.

### What is hard here

- *Interleaving*: runs of the task runner that overlap; requests that read a
  row others have changed by the time they write; webhook, verify call and
  callback on one payment.
- *Partial failure*: an error after the settlement transaction has committed
  has the whole task run again; the catch block writes to a session that may
  have moved on; a refund fails in the middle of a chunk.
- *Crashes*: a process that dies leaves a task in `processing`, which no query
  finds again, and a batch likewise.
- *Order*: the close pass before the open pass, a stale task after a reset, a
  `payment.failed` webhook after the `payment.captured` one.
- *Long legal sequences*: declare, settle, reset, declare again.

`PROJECT.json` lists these one by one, each at its line, with the property that
watches it.

## Modules

| module | models | source |
|---|---|---|
| `SessionDoc` | every write to the session row, as operators from a row to a row; the consistency metadata | `gameSessionRepo.js`, `resultState.js`, `result.service.js`, `sessions.service.js` |
| `BetBook` | *abstract*: a bet is placed once and decided once, and paid in the step that decides it | |
| `Settlement` (extends `SessionDoc`) | bets, admin requests, task runner, settlement passes, errors and crashes, of one session | `SettlementOrchestrator.js`, `settlementService.js`, `taskRunnerService.js`, `ResultApplicationService.js`, `bets.service.js`, ... |
| `RevertBatch` | revert batches of one session, with placing, declaring and settling reduced to what they can meet | `revertBatch.service.js`, `revertBatch.controller.js`, repositories |
| `Payments` | deposits and withdrawals of one user, with the gateway as an external actor | `payment.service.js`, `razorpay` use, repositories |
| `GameRules` | the rules as operators: panas, templates, validation, motor combinations, edits of a bet, winning, payout, the book of a session, preview and history rows | `domain/rule-engine`, `domain/combinations`, `domain/exposure`, `panaCanonicalization.js`, `betProjection.service.js`, `adminUser.service.js` |
| `GameRound` (extends `GameRules`) | a round of one session, step by step, to check the rules against each other; the pages of the history | `bets.service.js`, `motor.service.js`, `result.service.js`, `resultSimulation.service.js` |
| `BetDesk` (extends `GameRules`) | orders, edits, deletions, adjustments and settlement passes of one session, each split where the code reads before its transaction | `adminUser.service.js`, `settlementService.js`, repositories |
| `Reports` (extends `BetDesk`) | the reports of the administration, the figures and the transaction history of a user, as queries on that state | `adminAnalyticsRepository.js`, `adminAnalytics.service.js`, `users.service.js`, `betRepository.js` |
| `MarketDay` | markets, the daily creation, the tasks of a session, locks, cancellation, declaration times, when a bet is admitted and what is shown | `sessions.service.js`, `gameSessionRepo.js`, `adminMarket.service.js`, `taskRunnerService.js`, `ResultApplicationService.js` |
| `Settings` | configuration documents, their updates, the cache | `adminSettings.service.js`, `configCache.js`, `globalConfigRepository.js` |
| `Devices` | device tokens, messages in batches, answers of the provider | `notification.service.js`, `userDeviceRepository.js` |
| `Accounts` (extends `Devices`) | accounts, sessions, passwords, bank details | `auth.service.js`, `users.service.js`, `middleware/auth.js`, bank detail repository |
| `*Proofs` | theorems about the module they are named after | |
| `SumLemmas` | what adding, removing or changing one element does to a sum over a finite set | |
| `MC*` | values of the constants for TLC | |

A definition marked `\* Mutant`, directly before the one it resembles, is that
definition with a plausible mistake in it (a dropped check, a missing reset). No
specification uses it. Putting it in the place of its neighbour must make the
run named in `PROJECT.json` fail, which shows that the property can fail.

### Atomicity

A MongoDB transaction is one step. A read outside a transaction is a step, and
what was read is kept until it is used: `placing` (validated bets), `requests`
(admin and payment requests after their checks), `worker[r].seen` and
`worker[r].bets` (what the settlement has read), `worker[r].queue` (what the
runner's query returned), `settling` and `creating` in `RevertBatch`. Reads and
writes of the same document without a check in between, and consecutive writes
nobody can observe apart, are one step.

### Settlement

`session` is the row of `SessionDoc`. A result is a pana, a model value: the
digit derived from it, declaration times and audit fields are left out, and
`result` and `currentResult`, always written together, are one field. Time is
`clock`: 0 before `openTime`, 1 before `closeTime`, 2 after it.

| code | definition |
|---|---|
| `bets.service.js` `placeBets`: validation, transaction | `ValidateBet`, `PlaceBet`, `RejectBet` |
| `ResultApplicationService`: checks, transaction | `ReceiveDeclare`, `DeclareStep` |
| `result.service.js` reset | `ReceiveReset`, `ResetStep` |
| `sessions.service.js` `cancelSession` | `ReceiveCancel`, `CancelStep` |
| `MARKET_PHASE_CHANGE`, `MARKET_LOCK`, the admin's lock | `ChangePhase`, `ReceiveLock`, `LockStep` |
| `TaskRunner.run` | `Fetched` (at most `FetchLimit`), `StartRun`, `ClaimTask`, `CompleteTask`, `RetryOrFailTask`, `EndRun` |
| `settleResult` | `CheckSession`, `ReadBets`, `RecheckSession`, `SettleBatch`, `StoreSettledResult`, `ReadRemaining`, `CloseSession`, `WriteResultState`, `CompleteJob`, `CatchError` |
| a rejected `await`; a process that dies | `ThrowError`, `AbandonRun` |

The rules of a game are constants: `Kind` says which pass decides a bet,
`Covers` which panas it wins on, `Payout` what it pays for each pana. The motor
games pay by the stake on the declared combination, so `Payout` depends on the
pana, and the code takes that pana from another read of the session than the
one the win was found with. The model keeps both reads.

What should hold:

- `WalletMatchesLedger`, `ExposureMatchesPending`: balance and exposure are
  explained by ledger and bets.
- `PaidOnceUncontested`, `OutcomesAreFinal`: a bet is decided once, and a winner
  paid once.
- `DecidesOnItsPana`: a bet is decided for a task that was the latest change of
  the result when its handler looked at the session, and on the pana of that task.
- `OutcomesMatchSettled`: what the session claims to have settled is what the
  bets were decided on.
- `IsBetBook`: all of this implements the protocol of `BetBook`, with
  `status <- bets`, `credits <- ledger.credits` and `contested <- past.contested`.
- `TasksEnd`: a queued task completes or fails, unless the run that had claimed
  it died.

Nothing in the code keeps two runs apart or a reset away, and neither does the
model. What cannot hold then is named by the history variable `past`, which no
action reads:

- `past.contested`: the bets that two runs have had in their batches at one time.
  It grows with the read that gives the second run the bet. The properties above
  leave those bets out (`ExposureMatchesPending` their users); `PaidOnce`, which
  does not, is what `settle_twice` refutes.
- `past.reset`: the modes of which a reset has changed the displayed result.
  `OutcomesMatchSettled` is about the bets of the other modes.
- `past.lost`: a reset was stored over a revision it had not read, from when on
  two results may have one revision. `DecidesOnItsPana` holds until then.

`DecidesOnItsPana` speaks of the handler's look at the session, its only
comparison of revisions. A reset or declaration stored after it is not seen: the
second look (`RecheckSession`) is for the status only, and the task decides its
bets as if nothing had happened.

### RevertBatch

Bets are numbered by their id, because the cursor of a batch is an id. An order
is one placement; its bets share one `BET_DEBIT`. A create request keeps, in
`creating`, the eligible bets and the declared results its preflight has read, and
stores them with the batch. `refunds` is a history variable. The worker's program counter follows `executeRevertBatch`: load, mark
processing, read a chunk, one transaction per bet (`RefundBet`, `SkipBet`,
`FailBet`), save cursor and counters, complete, or mark failed in the catch
block. A settlement is a read (`ReadPendingBets`) and a transaction
(`SettleBets`) that aborts as a whole when one of its bets was removed.

A debit is deleted with the last bet of its order, and until then keeps its whole
amount: what it charges too much is `StillCharged`, and `LedgerExplainsBalance`
says that the transactions left are off by nothing else. (`DocumentsExplainBalance`,
which says that they are not off at all, is refuted.)

Properties: `RefundedOnce`, `ExposureMatchesPending`, `LedgerExplainsBalance`,
`CompletedLeavesNone` (a completed batch leaves no bet behind, save those it
counts as failed), `BatchesEnd`.

### Payments

A deposit goes through one of three providers. For the gateway's
(`razorpay`) `AttemptEnds` is the gateway (external): attempts on one order may
fail until one is captured. `FinalizeCapturedPayment` is what both the
`payment.captured` webhook and the verify call do; it checks the status inside
its transaction. The `payment.failed` webhook and the UPI callback read first
and write later (`ReceiveFailure`, `ReceiveCallback`, then `MarkFailed` or
`CreditUpiDeposit`). A withdrawal reserves nothing when it is requested;
approval debits with a conditional update; rejection is a read, a check and a
save without a transaction. `PlaceBet` stands for everything else that spends
the balance. The history variable `crossed` holds the deposits of which two
callbacks were under way at one time, or whose credit a failure was written over.
These can be credited twice, and `MaxCredits` bounds how often.

Properties: `NeverOverdrawn`, `LedgerExplainsBalance`, `PaidOutOnce`,
`CreditedOnceUncrossed` (a deposit is credited once, unless it is one of those),
`CapturedIsCredited`.

### GameRules and GameRound

A pana is a sequence of three digits, in the canonical order in which zero comes
last; a bet is a record with its template, mode, selection, stakes and odds. The
templates are data (`Templates`, `Motors`, `Combined`), and what a template
decides is one operator each: `ValidBet`, `SpMotor` and `DpMotor`,
`IsWinningBet`, `Payout`. The book of a session (`Added`, `Removed`) is what
`SessionExposure` stores. `GameRound` lets TLC reach every combination of bets,
edits and results and compares what the code computes in different places:

- `BookPricesOutcomes`: the simulation of an outcome, from the stored book or
  from the bets, is the profit the settlement of that outcome makes;
- `PreviewMatchesSettlement`: the winners previewed are those that are paid;
- `CombosComplete`: a motor game covers all panas of its kind over its digits,
  computed here from the definition of such a pana;
- `HistoryAddsUp`: rows and pages of the history add up to stakes and credits.

Amounts are chosen so that a stake divides evenly by its lines. The values of an
edit are those of a bet of the same game: the code normalises the new value of
an edited bet without validating it (`adminUser.service.js:195`).

### BetDesk and Reports

Each request of the administration reads its bet, checks it (`Ask...`), and
later commits a transaction (`Commit`): the delta between what it read and what
it wants goes to wallet, book and ledger. The bet is saved by Mongoose, which
writes the fields that differ from what was read (`Saved`), under the version
that was read if a list of panas is replaced (`ReplacesPanas`). The schema
refuses an amount below 1 (`Storable`), which the removal of a line can come to
after an edit that overtook another. The passes of the settlement are split in
the same way. `overtaken` is a history variable: it is TRUE once a transaction
has written something that had changed since it was read. Some properties hold
even then (`LedgerExplainsBalance`, `CollectionMatchesExposure`, `AdjustedOnce`,
no balance below zero in `TypeOK`), the others hold as long as it is FALSE: without that
condition TLC refutes them, since an edit that meets a settlement leaves a wrong
exposure and a wrong book.

`AgreesUnlessOvertaken` compares, figure by figure, the books, the exposure and
the lines with the bets, and what a book forecasts for a result that is still
open with what its pass would pay (`PassPayout`).

`Reports` defines the queries without paging: profit and loss, dashboard, bid
summary, bid report, bid histories, winning history, the figures of a user and
the transaction history. `ProfitExplained` relates all the figures to the money
that left the wallets; `WinsShownOnce` relates the history to the payouts. The
net figure of a user leaves out the stakes of the bets that won, and the
property says so.

### MarketDay

Time is a number of instants. A creation job reads the markets, then creates
session by session: `InsertSession` stores the tasks (outside the transaction)
and prepares the session, `CommitSession` or `AbortSession` ends the
transaction; the unique index is `Duplicate`. `AskLock`, `AskCancel` and
`AskEditMarket` read, `Write` writes. `Fetch`, `Take`, `Finish` and `Fail` are
the runner with postponed retries and priorities, `Crash` is the death of the
process. Of the settlement there are three writes: `processing` is set with a
declaration and ends with its pass (`EndPass`), and the close pass ends the
session (`WriteSettled`), which changes a session one time only. `Eligible` is
the question `bets.service.js` asks of a bet, and the
operators after it are what users and administration are shown.

Properties: `OneSessionPerDay`, `AdmittedBlind` (no bet on a result declared at
an earlier instant), `EligibleIsListed`, `EndedStaysEnded`, `ReachesClosePhase`.
Creation and its transaction are assumed to end within an instant (`Tick`).

### Settings

`docs` are the configuration documents in the order of their creation: more
than one can exist, since an update creates one when its query found none, and
so does a request that reads. Updates and the page of the settings use the
first document the collection yields, taken to be the oldest; everything else
uses the newest through the cache. The UPI id of the merchant is set in the
cached document itself. `UsedWasInForce` says how stale the limits of a request
can be; `PairsValid` holds unless an update was saved over a changed document.

### Accounts and Devices

A request of a user is `Ask`ed, then goes through the writes of its handler one
by one. A bank account may come with a UPI id or without one (`InsertBank`).
`disturbed` and `stale` note which requests were overtaken by a write of
the account or the bank details they had read: `SessionsStayEnded` and
`BanksInOrder` hold for the others, and TLC refutes both without the condition.
`DevicesReachable` says that a device whose token is live and registered stays
active through sending, token refresh and cleanup.

## Runs

| run | instance | checks |
|---|---|---|
| `settle_resets` | two runs that may overlap, one bet, two declarations with resets between them | `PaidOnceUncontested`, `DecidesOnItsPana` |
| `settle_cancel` | one fair runner, an open and a jodi bet, locks and cancellation, one database error, one crash, two attempts per task | balance and exposure, outcomes against the settled result, `IsBetBook`, `TasksEnd` |
| `revert_retries` | three bets in chunks of two, two of them in one order, one runner, one error, one crash | exposure, ledger, completeness |
| `revert_overlap` | two fair runners on one batch of one bet, one error, two tasks | single refund, `BatchesEnd` |
| `payments_core` | a deposit of each provider, two withdrawals of which the balance covers one, a bet, two requests in flight | five properties |
| `game_round` | two bets out of all games over the digits 0, 4, 7 (one motor game of four digits), one edit, three panas to draw | the rules against each other |
| `desk_requests` | a motor bet and a jodi of one user, three requests of which two are in flight, both passes | balances, books and what they forecast, keys, reports |
| `market_day` | one market, one day of four instants, two creation jobs, two requests in flight, one fault | creation, phases, times, what is shown |
| `settings` | two updates, two requests that wait, a cache of two ticks, restarts | limits and cache |
| `accounts` | two users, four requests of which two are in flight, three bank details, two tokens | accounts, sessions, defaults, devices |
| `settle_twice`, `payments_twice` | the smallest instance that shows it | one property each, violated: see below |

### Bounds, and why they are enough

- *Two bets, two panas* in `settle_cancel`: an open bet and a bet that needs both
  panas meet both passes, both modes and both outcomes. The open bet pays
  differently for p and for any other pana, so a payout computed from the wrong
  read shows.
- *Two declarations* (`MaxTasks`): open and close in `settle_cancel`, one mode
  twice with a reset in between in `settle_resets`, which leaves a stale task and
  a current one to two runs that overlap in every way. Admin requests come one at
  a time in both: any number of them, and resets stored over each other, are left
  to the proofs. Runs are exchangeable (`SYMMETRY`), as the run checks no liveness.
- *`MaxInFlight` 2*, elsewhere: one request overtakes another; a third adds no
  new pair.
- *Two attempts per task* instead of the code's default: a first failure with a
  retry and a last failure without one.
- *`MaxErrors`, `MaxCrashes`*: one error at every await, and one crash at every
  program counter, on every path. That a task uses up its attempts does not need a
  second error: the handler also fails on a session that was cancelled.
- *Two runners*: what goes wrong between overlapping runs here goes wrong
  between two of them, since they only meet in the documents.
- *Three bets in chunks of two*: a full chunk, a boundary, and a last partial
  chunk. `revert_overlap` has one bet, to leave room for two runners.
- *`MaxCredits` 2* in `payments_core`: one credit too many. Failures are delivered
  in any order and callbacks overlap, up to two requests in flight.
- `settle_cancel` has `AdminOps = {"lock", "cancel"}` and `settle_resets` has
  `{"reset"}`: all of them together with two runs, errors and crashes are too many
  states, and the safety properties of both runs are proved with all of them.
- `revert_retries` has an order of two bets and one of a single bet, with a chunk
  boundary between them.
- *`game_round`*: zero, which is ordered last, and two other digits give panas of
  every kind; two bets share a book; one edit before or after the other bet. A
  page reads at most three batches of up to two bets, so that a page can end in
  the middle of a motor bet, of a batch, and of the bets.
- *`desk_requests`*: any two of the halves of three requests can cross, with a
  pass between them; one order may hold one bet or both.
- *`market_day`*: a day of four instants with the open time at 1 and the close
  time at 3 has an instant before, at, between and after each; the second
  creation job meets the first one's transaction.
- *`settings`*: with a cache of two ticks and a clock of three, an entry expires
  once; two updates and two waiting requests make each pair of halves cross.
- *`accounts`*: two requests in flight out of four, so that one can end a session
  another is about to renew, with requests before and after.

`CHECK_DEADLOCK FALSE` is said everywhere, because these systems do stop: when
every bound is used up and the last task has ended, nothing is left to do.

### Fairness

- `WF_vars(RunnerStep(r))`: the cron job calls `TaskRunner.run()` on every tick,
  and a run that has started continues by itself, since every `await` in it
  settles. Weak fairness is enough: no step of a runner is disabled by others
  for ever. Errors and crashes are not fair; they are bounded. `TasksEnd` is checked
  with a crash and makes an exception for the task it abandons; `BatchesEnd` is
  only claimed without crashes. In `revert_overlap` there are fewer errors than
  attempts.
- `WF_vars(ScheduleBatch(k))`: the request that stored a batch goes on to
  schedule it, unless the process dies.
- `WF_vars(FinalizeCapturedPayment(d))`: the gateway delivers a webhook again
  until it is answered with success. This is external, and the reason it is
  assumed is that the code relies on it.
- In `MarketDay`: `WF_vars(Tick)`, `WF_vars(CreatorStep)` and
  `WF_vars(RunnerStep(r))`: the clock goes on, a transaction ends, and the cron
  job keeps starting the runner. A crash is not fair, and `ReachesClosePhase`
  makes an exception for the task it abandons.
- Nothing is assumed of users and admins.

## Proofs

TLAPS checks these for every value of the constants: any number of bets, users,
panas, tasks, requests, markets, documents, tokens, errors and crashes.

| theorem | says |
|---|---|
| `TypeCorrect` | `Settlement!Spec => []TypeOK` |
| `WinnersPaidOnce` | `=> []PaidOnceUncontested` |
| `DecidedForGood` | `=> OutcomesAreFinal` |
| `SettlementImplementsBetBook` | `=> IsBetBook` |
| `WalletIsExplained` | `=> []WalletMatchesLedger` |
| `ExposureIsPending` | `=> []ExposureMatchesPending` |
| `DecidedOnItsPana` | `=> DecidesOnItsPana` |
| `SettledExplainsOutcomes` | `=> []OutcomesMatchSettled` |
| `RevertTypeCorrect` | `RevertBatch!Spec => []TypeOK` |
| `StakesRefundedOnce` | `=> []RefundedOnce` |
| `CompletedLeavesNoneBehind` | `=> []CompletedLeavesNone` |
| `ExposureIsPending` | `=> []ExposureMatchesPending` |
| `BalanceIsExplained` | `=> []LedgerExplainsBalance` |
| `PaymentsTypeCorrect` | `Payments!Spec => []TypeOK` |
| `BalanceNeverOverdrawn` | `=> []NeverOverdrawn` |
| `BalanceIsExplained` | `=> []LedgerExplainsBalance` |
| `DepositsCreditedOnce` | `=> []CreditedOnceUncrossed` |
| `WithdrawalsPaidOutOnce` | `=> []PaidOutOnce` |
| `DeskTypeCorrect` | `BetDesk!Spec => []TypeOK` |
| `BalanceIsTheLedger` | `=> []LedgerExplainsBalance` |
| `CollectionIsHeld` | `=> []CollectionMatchesExposure` |
| `FundsAdjustedOnce` | `=> []AdjustedOnce` |
| `AgreeUntilOvertaken` | `=> []AgreesUnlessOvertaken` |
| `ProfitIsExplained` | `=> []ProfitExplained`, with `Reports` |
| `WinsAreShownOnce` | `=> []WinsShownOnce`, with `Reports` |
| `DayTypeCorrect` | `MarketDay!Spec => []TypeOK` |
| `OneSession` | `=> []OneSessionPerDay` |
| `BetsAreBlind` | `=> []AdmittedBlind` |
| `EndIsFinal` | `=> EndedStaysEnded` |
| `AdmittedIsListed` | `=> []EligibleIsListed` |
| `SettingsTypeCorrect` | `Settings!Spec => []TypeOK` |
| `SettingsInForce` | `=> []UsedWasInForce` |
| `MinimumBelowMaximum` | `=> []PairsValid` |
| `AccountsTypeCorrect` | `Accounts!Spec => []TypeOK` |
| `SessionsEndForGood` | `=> []SessionsStayEnded` |
| `DevicesStaySwitchedOn` | `=> []DevicesReachable` |
| `BankDetailsInOrder` | `=> []BanksInOrder` |

None of them assumes how many runs overlap, in what order reports arrive, or that
nothing is reset. Where the code lets such things break a promise, the property
itself names what it leaves out, by a history variable that says what has happened
(`contested`, `reset`, `lost`, `crossed`, `overtaken`, `disturbed`, `stale`), and
TLC refutes it without. Nothing is assumed
but the `ASSUME`s of the modules: sets of bets, orders, users and payments are
finite where amounts are summed over them, amounts and stakes are numbers, an
order is placed by one user and is not empty (`DeskAssumption`), values are
sequences of digits and results have three (`ValuesAssumption`), users are
numbered from 1 and the limit of bank accounts is a number (`UsersAssumption`,
`BanksAssumption`), there is at least one day (`DayAssumption`), and the default
settings have no minimum above its maximum (`SettingsAssumption`).

*Settlement.* `PaidOnceUncontested` is not inductive: a settlement transaction
pays the bets of a list read earlier and does not look at them again. The
invariant

    BookInv == TypeOK /\ PlacingIsNew /\ HeldIsPending /\ HeldApart
               /\ past.contested \subseteq Placed /\ PaidOnceUncontested

adds what makes the list safe: that every bet a worker between its read and its
commit has on its list is still pending or is contested (`HeldIsPending`), that a
bet on two lists is contested (`HeldApart`), and that a bet between validation
and commit has no document yet (`PlacingIsNew`). Only a settlement takes a bet out
of `pending`. When one does so, every other list that has the bet shares it, so
the bet is contested; that is all that `settle_twice` needs, and the proof shows
that nothing else pays twice, for any number of overlapping runs.
`TypeCorrect` rests on one lemma per write to the session row. `DecidedForGood`
and the refinement follow from `BookInv`: every step either leaves bets and
credits alone, places a bet that had none, contests pending bets, or decides a
batch of pending or contested ones.

The money has an invariant of its own:

    WalletInv == TypeOK /\ PlacingIsNew /\ wallet \in [Users -> Amounts]
                 /\ (\A r : worker[r].bets \subseteq Placed)
                 /\ ledger.debits \subseteq Placed /\ WalletMatchesLedger

A bet paid twice has two entries, so balance and ledger agree on the mistake. A
batch settled twice also releases its stakes twice, so `ExposureMatchesPending`
is proved for the users without contested bets, from the conjunction of `BookInv`,
`WalletInv` and itself.

`DecidesOnItsPana` speaks of the moment of the decision. `PanaInv` carries it
there, as long as no reset was stored over a revision it had not read: a task of
the revision in force is of the result displayed (`TasksCurrent`), and a worker
past its check has read the revision and the result of its task (`SettlesPana`).
A declaration is given the revision after the stored one within its transaction,
and so is never a cause of `lost`.

`OutcomeInv` says, of the modes no reset has changed, that every result read or
stored is part of the displayed one (`ResultsAgree`), that the open result is
declared first (`OpenFirst`), that a worker past its check has read the results
its bets are decided on (`SettlesDeclared`), and that bets are decided by what is
displayed (`DecidedByCurrent`). The results of these modes only grow, so
overlapping runs, cancellations and resets of the other mode do no harm, and the
settled result a worker stores late is still the right one.

*Revert batches.* No theorem restricts the number of runners: the transaction of
a refund looks at the bet it removes, so `RefundedOnce` is inductive beside
`TypeOK`. All that is assumed is `OrdersAssumption` (finitely many bets, with
positive ids: 0 is the null cursor) and `LimitsAssumption` (chunks are not
empty). `CompletedLeavesNone` rests on

    AccountsInv == TypeOK /\ CreatedOnce /\ (\A k : BatchAccounts(k))
                          /\ (\A r : WorkerAccounts(r))

where `BatchAccounts` says that the failures a batch has counted are at least
the bets left behind its cursor, and `WorkerAccounts` says the same of a
worker's own cursor and counts, in the form each of its steps needs: behind the
cursor between chunks, behind the last bet of the chunk but for the bets still
to be looked at within one, and of the whole batch when the next chunk is
empty. Two runs of one batch add to and overwrite each other's counters, and the
run that completes it writes its own. So the invariant also says that the
counter in the document is at least that of each worker's finished chunks, or
else at least what is left of the batch, which is what a completing run leaves.
`CreatedOnce` is needed for a fresh batch: no worker holds the task of a batch
that is not stored. That a chunk misses no bet between cursor and last bet
(`ChunkIsNext`) is where an off-by-one in the query would break the proof.

`ExposureMatchesPending` needs one more fact: a bet a settlement has read is
still pending or was removed (`ReadIsPending`), and in the second case its
transaction aborts. For the balance, the debit of an order names the bets of it
that are left and keeps the amount of all of them until the last is given back
(`DebitOK`): giving back one that is not the last adds its stake to the balance
and to `StillCharged`, and giving back the last takes debit and `StillCharged`
away together.

*Payments.* `PaymentsInv == TypeOK /\ NeverOverdrawn /\ PaidOutOnce` is inductive. Its
only debits are guarded by the balance they debit (`CanDebit`), and an approval
leaves `pending` for good, since no action returns a payout to it: a rejection
that was read earlier can overwrite `approved`, but not make it approvable.
`LedgerExplainsBalance` is inductive beside it: the entry and the balance are
written in one transaction. `CreditedOnceUncrossed` rests on `CreditsInv`, which
assumes no order of reports. Unless the deposit is crossed, a callback that will
credit it was read before any credit and is the only callback under way
(`ReportOK`), and the status of the deposit tells how often it was credited
(`DepositOK`). The rest of the property, that the reports of the
administration agree, is a lemma about sums over the deposits by their status.

*Desk.* The invariant is

    DeskInv == DeskOK /\ LedgerExplainsBalance /\ CollectionMatchesExposure
               /\ AdjustedOnce

and nothing in it says that what a request has read is still true: the first
four theorems hold however requests, orders and passes overtake each other. `DeskOK`
only says that stored bets are well formed and that what a request carries is so
too, unless the schema will refuse it (`ChangeOK`). This is where `Storable`
matters: after edits that overtook each other, the removal of a line could
otherwise store a bet with nothing at stake. For the two sums, each transaction
changes wallet, row and book by the same amounts, computed from the same reads;
an order adds its bets to the book one after the other (`AddedAll`), which is
proved by a smallest set of bets that adds up wrongly, and a pass pays its
winners by owner (`SumByOwner`). `AdjustedOnce` follows from the key being
looked at in the transaction that writes the row; the earlier look plays no
part.

As long as no request has been overtaken, more is true:

    AgreeInv == DeskInv /\ (~overtaken => BetsAgreed)

`AgreesUnlessOvertaken` builds the book anew from the stored bets, with a fold,
and compares; that cannot be carried through an edit, which takes one bet out
and puts another one in. `BetsAgreed` says the same of each figure of a book, the
collection and the amount at every key: it is a sum over all bets of what each
`Adds` to it, and amounts of zero are not kept (`BookAgrees`). An addition or a
removal is then the change of one summand, and a pass, which leaves stakes and
lines alone (`SameStake`), changes none. The exposures are sums of the same form
(`WalletsAgree`), and the lines of a motor bet, stored or about to be, are
distinct and sum to its stake (`Agrees`). Nothing needs to be known of what a
request has read: if it was not overtaken, that is what is stored. That such a
book is the one a fold builds (`BookIsRebuilt`) is proved last.

The last part of `AgreesUnlessOvertaken` is what the book is for: as long as a
result is open, the amounts at the keys of a pana are the payouts the pass would
make if the pana were declared (`BookForetells`). A bet that would win is counted
at exactly one of those keys (`BetPays`), by the lengths of its parts, which no
edit changes (`Formed`): the sum over the keys is one over the winners, by key
(`SumByOwner`). That no decided bet is still in the book of an open result needs
`ReportInv`, so the theorem is proved with it.

*Reports.* The two theorems about the reports are about the same steps:

    ReportInv == AgreeInv /\ (~overtaken => Shown)

`Shown` matches rows and bets. The orders of two debits share no bet
(`Orderly`); every bet that has won has one win row, with its payout, which names
its debit unless that was deleted before (`WinsBooked`); debits and changes
together are what the books have collected, with the sign changed; and what was
decided was decided by results that are still shown (`ResultStands`), for which
every pass under way has read only bets its result decides (`Foreseen`). From
this `WinsShownOnce` follows by looking at the rows that can be credited to one
debit (`CreditedOnce`), whether they name it or share a bet with it. For
`ProfitExplained` all figures become sums over bets or rows: the stakes by status
(`StakesByStatus`), the wins by owner (`SumByOwner`), and what left the wallets as
the amounts of all rows, which are split by kind (`TotalsByKind`).

*Market days.* `DayInv` carries `OneSessionPerDay` and, for each session, what
the other two theorems need: no declared result is older than its time nor newer
than the clock, and a session that has ended is not in a running phase. The
second is inductive because a lock or a task writes only a session that is still
active (`PhaseSet`), and because a cancellation under way holds a phase in which
the session does not run, even if the session was settled when it was read.
`OneSessionPerDay` rests on the commit alone: the check before the creation
plays no part in the proof, the unique index does. Of the markets only this is
needed, that times are numbers, through edits that overtake each other.

`TypeOK` and `EligibleIsListed` need `OfferInv` as well: no task is tried more
often than it may, what a run has fetched was due (`TurnOK`), and a session opens
before it closes and enters the close phase no earlier than its open time
(`TimesOK`), which a lock or a phase change under way has to promise too
(`LockOK`). The last is why a bet on the open result, admitted before its time,
cannot be missing from the lists that go by the phase.

*Settings.* `SettingsInv == TypeOK /\ ForceInv`, where `ForceInv` says that the
document in force is recorded as such at every instant, that what a request has
fetched was in force since the request began, and what is cached since the time
it is dated with. The age of a cache entry counts from the start of the request
that filled it, and this is what makes an entry that outlives an invalidation
harmless after `TTL`. The UPI id, which is set in the cached document
before it is saved, is no limit.

`PairsValid` is inductive with what an update knows (`CheckedUpdate`): what it
read and what it will write were valid together, or it has found no document and
merges with the defaults. As long as the document is still what it read, saving
it is what was checked.

*Accounts and devices.* `SessionsStayEnded` speaks of the stored session; its
invariant `UsersInv` speaks of the sessions about to be stored: a request that
will open one was made after the sessions of its user last ended, or else is
known to be `stale`. Each write of an account ends what those in flight have
read and marks them so (`AccountChanges`). A request of a new user needs no mark,
as nobody has read an account that did not exist. `DevicesInv` says that no
token a message will deactivate can be reached, as long as nothing is
`disturbed`: only a registration makes a token reachable, and it notes the
messages that have called the token invalid.

`AccountsTypeCorrect` needs that a write of an account takes a phone that is free
or keeps its own (`WritesAccount`, for the unique index on the phone).
`BanksInOrder` rests on what a request knows of the details it has seen
(`SeenWell`): it clears or has found no default before it makes one, and it
counted fewer bank accounts than allowed. The details seen are those stored as
long as no request was overtaken.

*Sums.* The library's induction over finite sets takes the statement as an
operator, so `SumLemmas` proves its facts without it: if a fact failed for a
finite set it would fail for a smallest one (`SmallestSet`, by well-founded
induction on set inclusion), and the equation of `SumFunctionOnSet` leads from
that set to a smaller one. From the equation follow the facts the proofs cite:
adding or removing an element, changing a summand, adding two sums, taking a
subset away, renaming the elements, summing by owner. They are why the sets the
model sums over are assumed to be finite.

*With TLC only.* Liveness (`TasksEnd`, `BatchesEnd`, `CapturedIsCredited`,
`ReachesClosePhase`): fairness and `ENABLED` are beyond the prover. The rules of
the games (`GameRules`) are folds over digits and lines: what they compute for
every input is an induction over data, so `GameRound` compares them on bounded
inputs: `BookPricesOutcomes` and `PreviewMatchesSettlement` after every edit the
administration allows (`AgreeUntilOvertaken` proves the pricing for the desk,
whose edits change stakes and lines), `CombosComplete` and `HistoryAddsUp`, which
are about enumeration, sorting and paging.

## Where code and documents differ

Two differences have a run that exhibits them, and a finding in `PROJECT.json`:

- `settle_twice`: two overlapping runs settle the same bets twice and pay a
  winner twice. The guard against overlapping ticks does not cover the run a
  declaration starts by itself.
- `payments_twice`: a failure reported after the capture makes a credited
  deposit creditable again.

The modules also define the following, each of which TLC refutes in an instance
like those above; they are kept as statements of intent:

| property | promised at | refuted by |
|---|---|---|
| `PaidAsDecided`, with resets | `src/docs/games/sp-motor.md:78` | a reset between the decision's read and the commit's: the motor payout has no pana to go by |
| `OutcomesMatchSettled`, for modes that were reset | `src/docs/architecture/result-financial-divergence.md:37` | after settle, reset and a second declaration the settled result is overwritten by one the bets were not decided on |
| `DecidesOnItsPana`, once a reset is lost | `src/docs/admin/admin-results.md:168` | two resets computed from one row write one revision twice, and a stale task takes a result declared under its revision |
| `FlagMeansDivergence` | `src/docs/architecture/result-financial-divergence.md:122` | the flag feeds its own next value, and once down stays down after a completed settlement of the displayed result |
| `ResultChangeTakesRevision` | `src/docs/admin/admin-results.md:168` | two requests that read one row write one revision |
| `TasksEnd`, with a crash | `src/docs/operations/scheduler.md:12` | a task left in `processing` is never fetched |
| `FailureIsVisible` | `src/docs/architecture/result-financial-divergence.md:86` | an error before the `try` block fails the task but not the session |
| `NeverHidesDivergence` | `src/docs/architecture/result-financial-divergence.md:42` | a cancellation writes the flag without looking at the results |
| `NoCancelDuringSettlement` | the check at `src/src/modules/sessions/sessions.service.js:609` | a declaration between that check and the write |
| `BatchesEnd`, with a crash | `src/src/modules/admin/results/revertBatch.service.js:18` | a batch whose run died is never resumed by posting its key |
| `DocumentsExplainBalance` | the debit of an order in `bets.service.js` | removing one bet of an order leaves the amount of its debit |
| `CountersAddUp` | `src/src/infrastructure/models/RevertBatch.js:130` | two runs of one batch add their counters to one base |
| `CursorPassesNone` | `src/src/infrastructure/models/RevertBatch.js:143` | the cursor passes a bet whose refund failed |
| `OneActiveBatch` | `src/docs/admin/admin-results.md:182` | two create requests pass the preflight before either stores its batch |
| `NoRefundAfterDeclaration` | `src/docs/architecture/result-financial-divergence.md:188` | a result declared between the preflight and the refund |
| `PaidIsNotRejected` | `src/docs/admin/admin-withdrawals.md:19` | an approval between a rejection's read and its save |

Several properties have a condition, a history variable (`contested`, `reset`,
`lost`, `crossed`, `overtaken`, `disturbed`), that TLC refutes them without. What the code then does, and other
facts of this kind the models show or rest on:

*Settlement.* A task that a reset overtakes after its one comparison of revisions
decides and pays its bets on the result that was reset. Two runs that overlap pay
a bet twice, release its stake twice, and may decide it differently when a reset
and a new declaration come between their reads.

*Payments.* Two callbacks of the UPI app that overlap credit a deposit twice, the
second one having read it before the first was written.

*Desk.* An edit or a deletion that meets a settlement, or another edit, leaves a
wrong exposure, a wrong book, or line stakes that no longer sum to the amount,
which `Bet.js:87` says they must. Two deletions of one transaction debit it
twice, and `deleteUserTransaction` takes back transactions of any type. The
rebuilt exposure snapshot is never written, because a session with a bet has a
stored book. A combined order does not count as a bet when it is placed, and is
subtracted when it is deleted. After the reset of a result, a motor bet that won
is shown as lost.

*Reports.* The winning history never lists motor bets that won: the query does
not project the panas the filter looks at (`adminAnalyticsRepository.js:381`,
`adminAnalytics.service.js:317`); it filters after paging, and lists cancelled
bets that match. No session in the filter means all sessions. The bids of a
deleted account vanish from the bid report but stay in the summary. An order
with a bet an administrator deleted stays `pending` for ever. The net figure of
a user ignores the stakes of bets that won.

*Days.* The lock task toggles: it opens again a session that was locked by hand
(`gameSessionRepo.js:166`; `taskHandlersInit.js:42` says "Lock market session at
close time"), a late retry of the phase change opens it as well, and two runs
that overlap toggle twice. A session cancelled while its close pass runs becomes
settled. The cron job waits while today's own sessions have no results
(`sessions.service.js:325`), the request of an administrator does not. Tasks are
stored outside the transaction of their session: they may be missing, or remain
without one. At the very instant of the open time a bet is admitted and a result
can be declared.

*Accounts and settings.* A refresh or login that overtakes a logout, block or
new password stores a session again, and two requests may use one reset token.
Making the UPI account that is the default the default again clears all
defaults. Two requests can leave two defaults or one account too many. A bank
detail can be deleted under a new withdrawal. Deleting an account leaves wallet,
bets, bank details and devices. One invalid argument deactivates every token of
a batch. Two updates of the settings, each valid, can leave a minimum above its
maximum, and two first requests can create two configuration documents, of which
the oldest is shown and the newest is in force. Invalidation reaches only the
cache of its own process.

## Not modelled

- *Application shell*: wiring, request validation, rate limits, logging,
  migrations. They keep no state a protocol depends on; the check of the token
  on each request is in `Accounts`.
- *OpenAPI descriptions* (`*.openapi.js`, `config/openapi`): data for documentation.
- *Roles, permissions, profile fields, audit logs*: single reads and writes.
- *Game types and their odds*: read as the constants of `GameRules`.
- *Idempotency key of an order, bet limits*: one check each before the
  transaction; the limits are read as `Settings` says.
- *Lists, search and paging* of the administration, except the pages of the
  history in `GameRound`; the digit summary; the cache of the dashboard.
- *The synchronous revert preview and the rebuilt exposure snapshot*: the first
  writes nothing, the second only where no book is stored.
- *Creation of a session for another day by hand*.
- *The guard of one process against overlapping jobs*: runs that a declaration
  or another process starts do not see it.
- *Rounding*: amounts divide evenly by their lines in the instances.
- *Parallel saves of one cached Mongoose document*, which Mongoose refuses.

A component is "partly" modelled in `PROJECT.json` when one of these is part of it.

## Plan

Done, in this order: settlement with its proofs; revert batches; payments with
their proofs; the proofs of the batches; rules of the games and rounds; desk and
reports; market days; settings; accounts and devices; the proofs of days,
settings and accounts; the proofs of the money (`Settlement`, `RevertBatch`,
`Payments`, `BetDesk`), of the declared and settled results, of what is offered,
of the bank details, and of the books and the reports until a request is
overtaken. What remains worth doing:

1. An abstract wallet (money in, money held, money out) that `Settlement`,
   `RevertBatch`, `Payments` and `BetDesk` implement, as `BetBook` is for bets.
2. `MarketDay` composed with `Settlement`: the settlement is one write there.
3. The idempotency key of an order, with the retries of a client.
4. A proof of `PreviewMatchesSettlement` and of `BookPricesOutcomes`, from the books
   as sums, as for the desk.
