# A verification model of the mobile check deposit system

This directory holds TLA+ modules that model the check deposit service under
`src/backend` and its web client under `src/web`, TLC configurations that
check them on small instances, and proofs, checked by TLAPS, that hold for
every instance.

## 1. Inventory

One Go server (gin handlers, no background worker) keeps everything in
Postgres and Redis. Every behaviour of it is a request; requests run
concurrently and share nothing else. One React client keeps nothing but
component state: what it shows is what some request read some time ago.

| part | state it keeps | operations | what makes it correct |
|---|---|---|---|
| state machine (`internal/state`) | `transfers.status`, `state_transitions` | `Transition`, `BeginAndTransition` | only permitted moves; the history is an unbroken path to the current status; a conflict is noticed (`WHERE status = from`) |
| deposit pipeline (`internal/deposit`) | the transfers row | `Submit`, `ApproveAndPost`, `ProcessReturn` | the answer is true; the credit and the status agree; nothing gets stuck |
| vendor stub (`internal/vendor`) | none | `Validate` | a function of the scenario |
| funding rules (`internal/funding`) | `dupe:check:*` keys in Redis | `ApplyRules` = account query, `EXISTS`, `SETNX` | a check is funded once; limits and eligibility hold for what is funded |
| ledger (`internal/ledger`) | `ledger_entries` (append-only) | `PostFundsTx`, `PostReversal`, balance | one deposit, at most one reversal of the same amount, one fee |
| operator review (`internal/operator`) | `audit_logs`, the reviewed row | `Approve`, `Reject`, `OverrideContributionType` | one ruling per deposit, audited; a lost race leaves no trace |
| settlement (`internal/settlement`) | `settlement_batches`, `transfers.settlement_batch_id`, files | `RunSettlement`, `RetryBatch`, acknowledgement stub | a completed deposit is in one batch and in its file; rows sum up files; escalation is earned |
| notifications (`internal/notification`) | `notifications` | `Create`, list, mark one or all read | what is said has happened, and decisions get said |
| middleware | `ratelimit:*` keys in Redis | rate limiter, session checks | limit per account and minute; a route demands the header its callers send |
| migrations (`internal/db`) | `schema_migrations` | `RunMigrations` at start | each migration once |
| API client (`api.js`) | none | one function per endpoint | every call meets a route, with the headers it demands |
| deposit form (`DepositForm.jsx`, `InvestorView.jsx`) | the form, its outcome, the open tab | type, submit, sign in, retake | the client lets through what the server accepts; outcomes do not mix; it stops loading |
| transfer status (`TransferStatus.jsx`) | the transfer shown, one interval | fetch, look up, poll | shows the transfer as it is on the server, and polls until it is final |
| inbox (`NotificationPanel.jsx`) | the notices, the unread badge | poll, mark one, mark all, switch account | list and badge settle on what the server has |
| list views (eight components) | rows, flags, an interval | fetch, poll, filter | rows settle on those of the endpoint, for the key that is shown |
| operator console (`OperatorView.jsx`) | the open page, its form | approve, reject, override | one ruling per page, with the amount typed on it |
| settlement console (`SettlementView.jsx`) | preview, trigger, batch page, dialogs | preview, trigger, return, view file | one settlement at a time; the batch page catches up after a return |
| admin console (`AdminView.jsx`) | trace, two actions | look up, hand over, settle, return | the trace is that of the last look-up; one outcome per action |

The parts meet in the `transfers` row. `Submit` moves it through the automatic
stages, each in a transaction of its own, and calls the vendor stub, the
funding rules (Redis) and, in its last transaction, the ledger. Operators
read the row and later open a transaction that acts on it; settlement reads
many rows and later opens one transaction per row; a return does the same on a
completed row. Only `Transition` guards its update by the status read
earlier. Updates by id (verified amount, contribution type, batch rows) are
unguarded and rely on a guarded update in the same transaction, or on nothing.

Server and client meet in the requests of `api.js` only. The client reads, and
some time later shows or acts on what it read; several of its requests may be
under way at once, and nothing orders their answers.

What is hard on the server: requests that interleave between a read and the transaction
that uses it; commits whose error nobody looks at; a request that ends between
two commits; Redis and the file system, which take no part in transactions;
best-effort inserts after a commit. What is hard in the client: answers that
overtake each other; answers that come when the component, the page, the
dialog or the account they were asked for is gone; values captured by a
callback at one render and used at a later one; intervals that are started and
cleared by different effects. `PROJECT.json` lists every hazard at its
line.

## 2. The modules

| module | models |
|---|---|
| `TransferStates` | the statuses and the table of moves (`states.go`) |
| `VendorStub` | the stub's answer and the flag reason derived from it |
| `FundingRules` | accounts, limits, the collected violations |
| `TransferStore` | the Postgres state of transfers and the transactions of state machine, ledger and audit log |
| `CheckDeposit` | the requests: `Submit`, the operator endpoints, returns, the notices, the settlement transaction; all properties |
| `ProvisionalCredit` | abstract: what a holder of a check is promised |
| `CreditRefinement` | the mapping under which `CheckDeposit` implements it |
| `MCCheckDeposit` | instances for TLC, and `SerialSpec` |
| `LedgerProofs`, `HistoryProofs`, `PromiseProofs` | theorems about `CheckDeposit`, each built on the one before |
| `Settlement` | `RunSettlement`, `RetryBatch`, restart; its properties |
| `EndOfDay` | abstract: what settlement promises of a deposit and of a batch |
| `SettlementRefinement` | the mapping under which `Settlement` implements it |
| `MCSettlement` | instances for TLC, and `SerialSpec` |
| `SettlementProofs` | theorems about `Settlement` |
| `Api` | the calls of `api.js` and the routes of `cmd/server/main.go` |
| `InvestorAccounts` | the accounts the client knows (`accounts.js`), beside those of `FundingRules` |
| `DepositForm`, `InvestorView` | the form and the screen around it; they use `VendorStub` and `FundingRules` for the server's side |
| `TransferStatus` | the tracked transfer and its polling; it uses `TransferStates` |
| `NotificationPanel` | the inbox, on the server and on the screen |
| `Listings` | the eight views that list what one endpoint returns |
| `OperatorView`, `SettlementView`, `AdminView` | the consoles |
| `MCClients` | all screens together |
| `InvestorProofs` | theorems about the form and the screen around it |
| `ConsoleProofs`, `SettlementViewProofs` | theorems about the consoles |
| `ClientProofs` | theorems about tracker, inbox, lists, and all screens together |

The server's modules are composed with one another through `TransferStore`
and the two refinements. The client's modules meet the server in what a request
may read or be answered: each keeps the part of the server that its screen can
see (a status that only moves along `TransferStates`, the inbox, the rows of a
list, the deposits returned) and changes it under the screen in every way the
server's modules allow.

### Correspondence

A submission is named by its transfer (`Deposits`), which `POST /deposits`
draws fresh. `form[d]` is its multipart form, `pc[d]` the place its handler
has reached, `answer[d]` what the client was told. One action is one call to
Postgres or Redis:

| `Submit` step | action |
|---|---|
| form checks, `createTransfer` | `RefuseForm`, `Create` |
| Requested -> Validating (commit error dropped) | `BeginValidation` |
| vendor says fail: Validating -> Rejected | `VendorFails` |
| Validating -> Analyzing with the flag columns | `Analyze`, `AnalyzeConflict` |
| account query and `EXISTS` | `CheckRules` |
| Analyzing -> Rejected after a rule error | `RefuseByRules` |
| `SETNX` | `MarkCheck` |
| contribution type | `SetContribution` |
| `ApproveAndPost` | `AutoPost`, `AutoPostFails` |

An operator request `o` acts on `about[o]`. `ReadToApprove`, `ReadToReject`,
`ReadToOverride` and `ReadToReturn` are the reads with their checks; `held[o]`
is the amount the request carries from there; `CommitApprove`,
`CommitReject`, `CommitOverride` and `CommitReturn` are the transactions, and
`Notify` the insert that follows a committed decision. `AutoPost`, the four
commits and the transitions each cover a whole transaction, in every outcome:
guard lost, commit failed, commit done. `Settle` is the one transaction of
settlement that touches a transfer.

A transaction is one step because each takes the lock of its transfers row
with its first statement and otherwise only inserts rows keyed by that
transfer: two transactions on one transfer are serialised by the lock, and
those on different transfers touch nothing in common. For the same reason the
status "approved" is never seen from outside a transaction.

In `Settlement` a deposit has a status, a creation time and a batch. A run `r`
goes through `ReadEligible`, `InsertBatch`, `WriteFile`, `MoveDeposit` once
per deposit in creation order, and `FinishRun`; it makes at most one batch,
which carries its name. A retry `q` is `ReadBatch` then `WriteBatch`. `sent`
counts submissions to the bank and exists for the properties only.
`SetBankAckMode` is the service's setter. Nothing in `cmd/server` calls it, so
the shipped server always acknowledges and its retry path runs in the tests
only; the model lets the setter be used between requests, which is how the
tests use it.

In the client's modules a request is a record in a set (`fetches`, `posts`,
`inboxCalls`, `listCalls`, `opCalls`, `deskCalls`, `adminCalls`). It is sent
by a click, an effect or an interval; where it matters what it read, it is
served at one moment and answered at a later one; answers come in any order,
and any of them may be an error. An answer whose component has been unmounted
sets nothing: the flags `mounted`, `page` and `dialog` say whether the
component, the page or the dialog that asked is still there, and leaving one
clears the flag on its requests. A value a callback captured travels in its
request: the status a transfer had when the interval's fetch began, the unread
count of the render in which a notice was clicked.

React's order is kept where it shows. A state update of an answer takes effect
at once; an effect runs after the next paint, so several answers may come
before it, but a click or a key press has pending effects run first
(`TransferStatus`: `StatusEffect`). What an overlay covers cannot be clicked:
while a modal dialog is open the page under it has no actions. The doubled
mount effects of React's development mode are not modelled.

`screen` in `MCClients` is a device for checking: the screens share no state,
so the composition is explored one screen at a time instead of in product.
`upsets` in `TransferStatus` (an "overlap": requests of the view were under
way at once; "mixed": for different transfers; a "lapse": one failed, the id
was cleared or a second one handed over, or two answers within one paint undid
each other, so that no effect saw either), `strained` in `SettlementView`
(fetches of a batch page have overlapped, or a return took place whose answer
was an error) and the `asked` of a trace exist for the properties only.

### Abstractions

- Amounts are small integers with the limits scaled down; `Limit < Cap`, as in
  the code, where the contribution cap can therefore never bind.
- The stub gives every readable check the same MICR line, so the Redis key of
  a check is determined by its amount. Its 90-day expiry is beyond a run.
- Account rows are constants: no code path writes them. `Known` are those that
  exist. A deposit may name one that does not, since `transfers.account_id` has
  no foreign key; a notice may not, since `notifications.account_id` has one.
- `FormNeverRefused` compares the two amount checks under one `Limit`, as both
  sides have the same constant written into them; that one of the two may be
  changed without the other is beyond it.
- The two image-quality failures differ in wording only and are one scenario.
- Batch counts and totals are sums over a set of deposits; `counted` is that
  set.
- A crash of the server is every request under way ending (`Abort`,
  `ReviewDies`); nothing else is kept in memory.
- A request that is turned away by its read changes nothing and has no action.
- Money in the form is counted in tenths of a cent, so that the check of the
  dollars typed and the rounding of the cents sent can differ. The browser's
  own validation of the field's step is not relied on.
- The form's fields that only choose details of a stub scenario (simulated
  time, simulated OCR amount, the camera) are left out, as are the file
  download and the zoom of an image.
- The account `InvestorView` starts on is neither in `accounts.js` nor in the
  seed data of the server: the client lets it pass and the server rejects its
  deposits. `StartAccount` is such an account.
- The health page reads an error as both services being disconnected.
- The dialog that reports a returned deposit is unmounted by the refetch the
  return itself starts; the model has it go with that.
- A filter of a list is one key, whichever field it is of.
- A return fee that is not positive breaks the CHECK of `ledger_entries`, so
  no return commits then; the model keeps that branch.

## 3. The runs

Faults of `CheckDeposit`: "abort" (a request ends anywhere), "commit" (a
commit fails, or takes place and its reply is lost), "redis", "lookup" (the
account query fails). Faults of `Settlement`: "disk", "tx" (a statement or
transaction fails), "reply" (a lost commit reply), "restart". In the client
any request may end with an error.

| run | instance | shows |
|---|---|---|
| `deposit_one` | 1 deposit, 3 operator requests, 4 kinds of account, amounts below, at and above both limits, no fault | flagged deposits are funded by operators only; what the pipeline funds was vetted; credits stay within the limit; amounts change by approval only; what a request read is current when its guard succeeds |
| `deposit_race` | 2 deposits, 2 operator requests, accounts that exist and one that does not, all faults | ledger, status, history and audit agree; answers and notices are true although commits and inserts fail; terminal means terminal; the refinement of `ProvisionalCredit` |
| `deposit_live` | 2 deposits, 1 operator request, accounts that exist and one that does not, no request cut off, no commit failing | automatic stages are left; every approval and every return is followed by a notice, and so is every rejection on an account that exists |
| `deposit_serial` | 3 deposits submitted one after another | a check is funded once |
| `settle_race` | 2 runs, 3 retries, 2 deposits on two days, disk, transactions, restarts | the batch invariants; nothing settled is undone; the refinement of `EndOfDay` |
| `settle_serial` | 3 runs one at a time, 3 deposits | files are disjoint and agree with the rows |
| `settle_live` | 2 overlapping runs, 3 deposits | what is filed is completed |
| `clients` | each of the seven screens (tracker, inbox, form, listing, operator, settlement, admin), two of everything it shows, two requests under way at once | the form agrees with the server on amounts, its outcomes exclude each other and it stops loading; the tracked transfer follows the server until its view lapses, although answers overtake each other, and a final one is left alone; inbox, lists and batch page settle on what the server has; the consoles send no second ruling, settlement or action, show the trace last asked for and approve with the amount typed for that deposit |

`clients` has 202,681 distinct states; the screens are disjoint parts of it.

Four further runs show where the code departs from what its documents or
comments say; TLC finds each counterexample in a fault-free instance:

| run | counterexample |
|---|---|
| `double_funding` | two submissions of one check both pass `EXISTS` before either sets the mark |
| `rules_bypassed` | an operator approves a flagged deposit of a suspended account |
| `double_file` | two overlapping runs write one deposit into two files |
| `poll_stalls` | a second transfer in the same status is selected: the cleanup clears the interval, and the effect that starts one, which depends on the status alone, does not run |

`FollowsTransfer` of the `clients` run is the part of the polling promise that
does hold: the transfer shown is followed, through look-ups and edits, until a
lapse, although its answers overtake each other. An old answer may put back a
status that is no longer true after a final one has stopped the interval, and
a final one may stop the interval of a newer fetch; since each change of the
status shown has the effect start the interval again, the display still
catches up. `EffectOnId`, its mutant, lets the effect depend on the id alone,
which only overtaking answers tell apart. `FinalIsLeftAlone` is not true of
overlaps: the answer to a look-up may then set an interval beside one the
effect has set, and `pollRef` knows only one.

`DecisionsAreTold` likewise is the part that holds of a promise that does not:
`architecture.md` says the investor is notified of a rejection, but a deposit
on an account that does not exist may be flagged before any rule looks the
account up, an operator may reject it, and its notice then always fails on the
foreign key of `notifications.account_id`, an error the handler drops. So a
rejection is claimed to be told only if the account exists, and the instance
has one that does not: without the condition TLC finds the untold rejection,
with no fault. An approval and a return need no such condition: an approval
looks the account up first, and only what was funded can be returned.
`DetailCatchesUp` leaves out the page whose fetches overlap: the older of two
copies may be the one that stays on the screen.

Two properties of `deposit_live` and one of `settle_serial` depend on the
absence of a fault, and fail with it: with "abort" or "commit" a deposit stays
in an automatic stage for ever and a decision may go untold; with "tx" a file
names deposits its row does not count.

### Why the bounds are enough

A property about a transfer can be disturbed by requests on that transfer
and, through Redis, by another submission of the same check. Three operator
requests let a third act on the outcome of a race of two; two deposits let
marks collide; three serial deposits let a mark outlive a rejected deposit in
the middle. Amounts 0 to 4 with limits 3 and 4 hit every side of every
comparison. In settlement, two runs overlap in every pair of steps; three
retries are what it takes to escalate and still have an older read in hand.
No counter needs a cap there: each request runs once.

The client's screens go on for ever, so their modules name bounds: requests
under way at once (`Slots`, `InboxSlots`, `OpenPosts`, `ListSlots`, `OpCalls`,
`DeskCalls`, `AdminCallCap`), visits to a page or account (`Visits`,
`FormVisits`, `PageVisits`, `DeskVisits`, `AdminVisits`), failures (`Outages`,
`ListBudget`), and what may be typed (`Edits`, `Scenes`, `TypedAmounts`). Two
requests overtake each other, and a third would meet the same two flags; two
visits leave an answer behind for the page that follows; two deposits,
transfers or accounts let one be taken for the other. The amounts typed lie
below, at and above both checks of the form, and between them. `Endings` names
the upsets after which a tracked transfer is not explored further: none in
`poll_stalls`; in `clients` a lapse, where what `FollowsTransfer` promises
ends, and, to keep the instance small, requests for different transfers at
once. `Moving` names the transfers that move meanwhile: one of the two in
`clients`, the one that can also be typed. An interval is not bounded in time:
it ticks whenever a slot is free.

### Fairness

`FairSpec` assumes that a handler, once begun, is eventually run to its end:
weak fairness of each step of `SubmitStep`, `ReviewStep` and `RunStep`. A
handler is a straight-line goroutine whose database calls return, so this is
what the Go scheduler gives as long as the request is not cut off; the faults
"abort" and "restart" are exactly that, and the live runs leave them out.
Nothing assumes that a client, an operator or a settlement trigger ever acts.

The client's specifications assume what the browser does by itself: pending
effects run, an interval that is set fires again, and a request that was sent
is served and answered, if only with an error (`fetch` settles). Weak fairness
of each is enough; in `Listings` it is stated apart for the first fetch of a
key and for the polls, as neither keeps the other from being answered. Clicks,
typing, tabs and the server's own changes have no fairness. Failures of the
inbox and the lists are finite (`Outages`, `ListBudget`), since a screen whose
every request fails shows nothing new; in the tracker and on the batch page a
failure ends what the property promises.

## 4. The proofs

The theorems hold for every value of the constants: any number of deposits,
requests, runs, retries, accounts and pages, every limit and, but where a theorem
names the faults it excludes, every fault set.

### The deposit service

`LedgerProofs` proves `TypeCorrect` (`TypeOK` is inductive) and
`LedgerAgrees`: the ledger of a transfer is exactly what
its status and amount say. That alone is not inductive: `CommitReturn`
reverses the amount it read, so one must know that it is still the transfer's
amount (`HeldIsCurrent`), which needs that a completed transfer's amount is
never written; and `CommitApprove` may post zero unless the row came from an
accepted form (`RowsAreAccepted`) and a lost approval leaves the amount alone
(`AmountChangeIsApproved`). `LedgerInv` is the conjunction; `LedgerInvariant`
shows it inductive with one step per action, and `LedgerAgrees`,
`AmountChangesApproved`, `ReadsStayCurrent` and `CreditBounded` follow.

`HistoryProofs` goes through the actions once more and reduces each to what it
does to one transfer (`StepOf`): leave the row, insert it, make one of six
plain moves, reject with an audit row, post unflagged for the system, approve
flagged with an audit row. That an unflagged transfer is posted by the system
only needs `Unflagged`: the flag is written by the last step of a submission
that gets one. Everything about history then follows from `StepOf` without
looking at an action again: `HistoryInv` holds a path and its rulings for each
transfer, and the key is that a transfer under analysis has had no ruling yet
(`OpenForRuling`), so that whichever operator's guard succeeds writes the only
one. `HistoryPath`, `OneAuditedRuling` and `FlaggedReviewed` are its parts.

`PromiseProofs` proves what is not taken back. `NothingGoesBack` is the action
property `NoGoingBack`: the ledger before and after a step are both what
`LedgerInv` says for the status, the status moves to a successor, and a
credited amount is not written. `PromiseKept` is the refinement
`Spec => Promise!Spec`: under the mapping, `StepOf` gives the stage, and
`LedgerMatchesStatus` before and after a step gives the books, so each step is
one of `ProvisionalCredit` or a stutter. `AnswersTrue`, `NoticesTrue` and
`AutoFundedVetted` add one small invariant each about the requests under way:
an answer is given by the step that makes it true; a notice, or a request about
to write one, speaks of an outcome that stays, and the decision that commits
is the first of its kind about its transfer (`NoticeInv`); a submission past
the rules has satisfied them (`VetInv`).

Its last section says when a check can be funded twice. `NoDoubleFunding` is
not an invariant of `Spec` (run `double_funding`), so the theorem names the
one race that breaks it: `ChecksApart` says that no two submissions of a check
are both between `EXISTS` and `SETNX`, and `DoubleFundingNeedsOverlap` that in
every behaviour where this stays so, and Redis is reachable, a check is funded
once, whatever aborts, failed commits and operators do. `FundInv` is the
invariant behind it: a submission about to mark has found no mark; one past
its mark is the only one of its check, which nobody has funded.
`FundedOnceWhenSerial` derives that `SerialSpec`, the specification of
`deposit_serial`, keeps submissions apart, for any number of them.

### Settlement

`SettlementProofs` proves `SettlementType` and three groups of results.
`FilingInv` ties the run's local list to its file and its cutoff while it
moves deposits; `CompletedFiled` and `CutoffKept` follow. `RetryInv` relates
what a retry has read to how often the batch has been sent, and says that a
batch once reported belongs to a run that is over; `EscalationEarned` and the
action property `SettledForGood` follow, for any number of overlapping
retries. `CountInv` says that a run's count is the set of deposits that name
its batch; `RowsAreRight` follows, assuming that no reply of a commit is lost,
which is the one fault that makes the count wrong.

The files are treated like double funding. `RunsApart` says that runs under
way have no deposit in common among those they still have to move.
`DoubleFilingNeedsOverlap`: while that stays so, transactions succeed and the
server stays up, no deposit is in two files; `OpenInv` is the invariant (what
a run still has to move is funded and in no batch; what a file carries is in
its batch or about to be). `FilesAreSummedUp` adds that the reported row
counts its file, if commits answer too. The run `double_file` shows that the
first hypothesis is needed, and with "tx" or "restart" a file names deposits
that a later run files again. `FilesDisjointWhenSerial` and
`RowsSumUpWhenSerial` are the same for `SerialSpec`, where `RunsApart` is a
consequence.

`PromiseOfBatches` is the refinement of `EndOfDay`. The home of a deposit is
its batch, the stage of a batch is its row's state, its report is what it was
counted with. `StageInv` says that a run which is moving deposits has its
batch open; a step of a run is then `Open`, `Settle`, `Report` or a stutter
(`RunPromise`), one of a retry `Accept`, `GiveUp` or `Resubmit`
(`RetryPromise`), where `SettledForGood`'s invariant rules out a retry that
takes a verdict back. It assumes that no commit reply is lost: with one, a
deposit is in a batch whose report leaves it out, which is what the code does.

### The form

`InvestorProofs` proves `OneOutcomeShown` and `NothingRefusedForItsAmount`.
`FormInv` carries the first: the form shows the outcome of one submission at
most; while one is under way it shows none and is on the screen; and at most
one submission under way is still the form's own, since leaving the tab cuts
off the others. That the form exists exactly on its tab ties it to
`InvestorView`. `CentsInv` carries the second: what was sent passed the check
on rounded cents, which implies the handler's checks and the rule on the
limit.

### The consoles

`OperatorInv` says what the flags of a page guarantee of the rulings under
way: `approving` or `rejecting` is set while one is, the rejection form is
never open during an approval, and the amount typed is this deposit's.
`VerifiedAmounts` and `OneRuling` follow. `DeskInv` says that a settlement is
under way only while `confirming` is set on the open end-of-day page, whatever
happens to the preview; `OneTrigger` follows. `AdminInv` does the same for the
look-up and the two actions; `LastTrace` and `OneOutcome` follow.

### The client as a whole

`ClientProofs` adds the types of the tracker, the inbox and the lists, where
the badge stays a count of notices because every count a call carries is one.
`ScreensApart` shows that a step of the
composition is a step or a stutter of each screen. `ClientInv`, the
conjunction of the screens' inductive invariants, is therefore inductive for
`ClientSpec`, and `ClientType` and `ClientKeepsPromises` say of the whole
client what the earlier theorems say of each screen.

### Assumptions and limits

The assumptions are those named in the modules (`FundingAssumption`,
`StoreAssumption`, `DepositAssumption`, `SettlementAssumption`,
`AccountsAssumption`, `TrackerAssumption`, `InboxAssumption`,
`FormAssumption`, `ListingAssumption`, `OperatorAssumption`, `DeskAssumption`,
`AdminAssumption`): they type the constants, ask that known accounts are
accounts and that the markers for "none" are none of the things. The notices
and the rows of a list are finite, as they are counted; there is at least one
scenario to choose in the form. No other set is bounded. Hypotheses on the
faults, and the two on overlaps, are in the theorems that need them.

Every safety property of a passing run is stated by a theorem. Model-checked
only is liveness: `LeavesAutomaticStages` and `DecisionsAreTold`
(`deposit_live`), `FiledIsCompleted` (`settle_live`) and the six temporal
properties of `clients`. Liveness under fairness is out of the prover's reach,
as are ENABLED and induction over data.

## 5. Not modelled

- The rate limiter's counters: a fixed window per account and minute. No other
  state depends on them; a refused request is one of the errors any request
  may end with. The header each route demands is in `Api`.
- The migration runner: the deployment starts one server. Two at once would
  both apply a migration (`migrations.go:40`).
- Start-up wiring, CORS, demo scripts: no state, or none that a request sees.
- The application shell: changing the role mounts another view afresh.
- The read endpoints of the server beyond what the client's modules say they
  return: the roll-over count of a preview, the columns of a trace, images.
- Wording, layout, images and the download of a file in the client.

## 6. Plan

1. Done: the deposit service and settlement with their runs; the client's
   screens; the safety of all of them and both refinements proved.
2. The rate limiter (fixed minute windows, `INCR` and `EXPIRE` apart) and two
   servers running the migrations at once.
3. The tracker: the safety part of `FollowsTransfer`, that a view that has not
   lapsed, of a transfer that is not final, has a poll, a fetch or an effect
   due, stated as an invariant and proved.
4. The ledger view, which is fetched once per account and may stay behind.
5. Cutoff and business-day arithmetic as pure operators.
