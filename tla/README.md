# Verification of MORES Hub

TLA+ models of the money-moving parts of this repository, checked with TLC on
small instances, and theorems about them proved with TLAPS for instances of
every size. The code is the reference; each definition that models code is
mapped to its lines in `PROJECT.json` (`map`).

    tlc -workers 2 -config Disbursement_races.cfg MCDisbursement.tla
    tlapm ApiProofs.tla

## 1. The system

The monorepo holds three back ends that share no state, and their clients.

* `apps/api`: NestJS on PostgreSQL through Prisma. Wallets over a double-entry
  ledger, top-ups, QRIS, cards, and the field payments of the company's agents.
* `apps/payments` (MORES PAY): Flask on one SQLite file. The stand-alone version
  of the field payments.
* `apps/erp`: Flask on SQLite files, one per "database" of the user. Books,
  budgets, cash plans, invoicing, investments, reports.
* `apps/mobile`, `apps/admin`, `apps/erp/static`: clients without state of their
  own. `data/`: files read at run time.

### 1.1 apps/api

Handlers are async functions of one Node process: at every `await` any other
handler may run, and an exception or a restart ends a handler at any `await`.
There are no cross-statement transactions except inside `LedgerService.post`.

| component | state it keeps | operations | who it talks to | what is hard | what makes it correct |
|---|---|---|---|---|---|
| Field requests (`field-payments.service.ts`) | `PaymentRequest.status`, agents, quota | create, decide, top up a quota wallet | start() of Disbursement | check of the status, then update by id; quota compared before the insert | one decision, one payout out per request; the month's quota |
| Disbursement (`disbursement.service.ts`) | `GatewayPayout`, the ledger legs of a payout | start, settle, retry | provider (external), ledger, webhook and mock timer call settle | six awaits in start, three in settle; webhooks repeat, come early, or are answered and lost | settled once; clearing covers what is in flight; PAID means expensed; every payout settles |
| Reconciliation (`reconciliation.service.ts`) | `ReconciliationRun` | nightly run | reads ledger and payouts | two reads without a snapshot | tells exactly when money is stranded |
| Ledger (`ledger.service.ts`) | `Wallet`, `Transaction`, `LedgerEntry` | post, getBalance | everybody | READ COMMITTED without locks | one transaction per external reference, bounded overdraft, freeze |
| Top-up (`topup.service.ts`) | `TopupOrder` | createOrder, settle | provider, ledger, compliance | repeated notifications; dies between post and update | a PAID order is credited once and reported once |
| Compliance | `ComplianceCase` | checkLtkt, limits, sanctions | top-up, transfer | duplicates on repetition | one report per large top-up |
| Administration (`admin.service.ts`) | `DualApproval`, `isFrozen` | freeze, adjust, approve | ledger, audit | read, post, mark in three steps | two people; executed once; freezing takes hold |
| Audit (`audit.service.ts`) | `AuditLog` | record, verifyChain | administration | read last row, insert; JSONB | records are true; the chain verifies |
| QRIS, cards, transfers | rows | pay, authorize, transfer | ledger | a dynamic code can be paid again | the ledger's |
| Reports, auth, users, storage | - | read, sign in | - | - | - |

### 1.2 apps/payments

Threads of one process, one SQLite connection per request. Python's `sqlite3`
runs a SELECT in autocommit and opens a transaction, which takes the one write
lock, at the first write: everything a handler checks before it writes may be
stale when it writes. State: `transactions`, `gateway_payouts`, `ledger`,
`audit_log`; the mock provider's timers live in memory. Operations: an agent
submits reimbursements and orders and pays QRIS codes, finance tops up, decides
and retries, timers and webhooks settle. Correct: clearing holds exactly the
pending payouts; the status of a transaction is true of a payout; the wallet is
not overdrawn; what was answered is on file.

### 1.3 apps/erp

Same connections, about 90 writing handlers. The parts with state of their own:

| component | state | operations | what is hard | what makes it correct |
|---|---|---|---|---|
| Budget Center | `budgets` (company, account, project, year, month, week) | save grid, delete, import months, fold into week 1 | reads before the transaction; rounding; NULL keys | month totals survive; contracted money stays contracted |
| Plan versions | `plan_versions`, `plan_weeks` | create, import, copy, seed, save, status, delete | the lock is checked before the write | a locked plan does not change; lineage; one row per cell |
| Journals | `journal_entries`, `journal_lines` | create, edit, post, bulk, delete, import, opening balances | numbers from COUNT(*)+1; one opening entry | balanced, unique numbers, posted entries are kept |
| Bank import | none (parse, then create journals) | parse, flag duplicates | checked at parse time only | nothing is booked twice |
| Money tracker, contracts (`harmony.py`) | `projects.contract_value`, `money_tracker` and its stages | create, edit, advance, status, plan, check, fix | compared before inserted; stages found by a phase read earlier | invoices stay within the contract; one stage open; the check says the same in every scope and its repairs heal |
| Investments, receivables, payables | rows and commitments | edit, schedule, pay, delete | deletion edits plans | what is committed is counted |
| Oracle (`fpa_cash.py`) | buffer policy | consult | the day money moves, rounding of shares, bisection | never better than what may happen; margins are real |
| Chart of accounts | `accounts` (a tree), `companies`, `projects` | create, edit, delete, import, standard chart | the parent is checked before the write; foreign keys refuse after the handler agreed | the tree has no circle; nothing dangles |
| Reports (`reports.py`, `expense_detail.py`, `ceo.py`) | none | about twenty statements, each with queries of its own | one sum, many queries: signs, attribution, cash codes, elimination | every screen tells the same of the same money |
| Databases and migrations (`database.py`) | SQLite files, their shape and profiles | move, make, migrate at the start of each process; create, switch, freeze, delete | several workers start at once, any dies between two commits; the guard is read before the handler writes | no money is lost or doubled; the current shape; a frozen database rests |
| Users and sessions | `users` of each database, a cookie | sign in, switch, edit users | the last admin is looked for before the write | an admin stays |
| Products, import and export, pages | rows | edit, read | parsing, layout | - |

`PROJECT.json` lists every component with its status, and under `hazards` each
place where this code can go wrong in a way that a test would hardly reach.

## 2. Plan

1. `Disbursement` with `PayoutLifecycle`; `Ledger`, `Hub`; `MoresPay`; `Plan`;
   `Books`, each with its proofs: done.
2. `Tracker` and `Oracle` with their proofs, `Chart` and `Reports`, `Startup` and
   `Registry`, each with their proofs: done.
3. Left: the monthly quota over Disbursement's requests and the wallet's QRIS
   payments; the hash chain of the audit log; the product workbook
   (`sbu_report.py`, `product_fa.py`).

## 3. Modules and the code

**Disbursement** (`field-payments/`). A handler in flight is a record in `fin`
(Finance calls) or `hook` (notifications) whose `pc` names the await it stands
before; each action is what runs between two awaits. `ReadForDecision`,
`Approve`, `Reject` are decide(); `CreateDisbursement`, `PostStart`,
`CreatePayout`, `MarkDisbursing` are start(); `ReadForRetry` is retry();
`SettleFlip`, `SettleIgnored`, `SettlePost`, `SettleMark` are settle();
`ReconReadClearing`, `ReconFinish` are the nightly run. `legs` counts the ledger
transactions of a payout. The gateway keeps repeating a notification until it
is answered 2xx (`acked`). With `Faults` a handler may die at any await; with
`Slow` no notification overtakes the handler that started its payout.

**PayoutLifecycle** is the documented state machine of a request; `Disbursement`
implements it with the mapping `Life` (phase, held, spent, returned).

**Ledger** is post() and the freeze: `CallPost`, `CheckSource`, `CheckDest`,
`Commit`, `Refused`/`LeavePost` are the steps of the READ COMMITTED transaction.
**Hub** EXTENDS it with what runs around a post: payments (`Pay`), top-ups
(`InsertOrder`, `AssignVa`, `SettleTopup`, `TopupPosted`, `CheckLtkt`,
`MarkPaid`), adjustments (`RequestDual`, `ApproveDual`, `DualPosted`,
`MarkExecuted`), freezing and `Audit`. `job[p]` is what request p does,
`post[p]` its ledger call. Every behaviour of Hub is one of `LedgerSpec`
(theorem `Refinement`), so what the ledger promises alone holds in the hub.

**MoresPay** is the Flask application: per handler one action for each check it
reads in autocommit and one for its transaction. `mock` chooses the deployment:
the in-process timers, or a gateway whose notifications may repeat. decide()
holds the write lock while it calls the gateway and retry does not; the model
holds it in neither.

**Plan** is the budget of one line (company, account, project, year) and the
plan versions. `task[u]` is the request a user waits for and what it read.
`ReadDominant`/`SaveMixedGrid`, `SaveGrid`, `DeleteBudgetRow`,
`ReadMonths`/`ImportMonths`, `ReadGroups`/`CollapseToWeek1` are the Budget
Center; the rest are the handlers of `/api/plan`. A version's cell is a sequence
of rows, because imports insert without looking; `imported` marks the versions
where that happened. Amounts are integer cents, as `round(x, 2)` keeps them;
`Rounded` is the rounding of a share, up at one half. The handlers' access
checks, notes, cash-flow classes and the tag of an investment are left out.

**Books** is the journals: `entry` by id, `task[u]` the request a user waits for
and what it read in autocommit, `page[u]` the bank page in that user's browser
(the lines its statement left unflagged, and those still ticked).
`CountEntries`/`InsertEntry` are create_journal(), `ParseStatement` and
`ChooseCompany` the bank page, `CountForImport`/`InsertImport` the workbook,
`ReadEntry`/`ReadNumbers`/`WriteEntry` update_journal(),
`ReadForBulk`/`BulkWrite` posting, deleting and bulk actions,
`ReadOpenings`/`ReplaceOpening`/`ReadSequence`/`InsertOpening`
save_opening_balances(). `books` is the company whose accounts the lines use.
`stale` and `outdated` are no state of the code: they record whose request or page
saw the books change, which several properties except. Of an imported entry
the reference, which comes from the workbook, is left out, as are lines that a
person ticks although they are flagged, and an `entry_no` of the caller's own,
which no client sends.

**Tracker** is projects, their contracts and the invoice tracks that bill them.
`ReadCreate`/`InsertTrack`, `UpdateTrack`, `ReadStatus`/`WriteStatus`,
`ReadAdvance`/`WriteAdvance`, `ReadPlan`/`WritePlan` and `DeleteTrack` are the Money Tracker's
handlers, a read in autocommit and the transaction that follows it;
`CreateProject`, `UpdateProject`, `SetProjectType`, `DeleteProject` the project's.
`invoiced_total`, `Fits` and `Issues` are harmony.py's invoiced_total(),
check_room() and check(); `ReadFix`/`WriteFix` its repairs. `stage[t][ph]` is the list of
stage rows of a phase, because no key stops a second one. `stale` and
`handled` are no state of the code: they record which requests were overtaken and whose
phase somebody typed.

**Oracle** is the cash forecast. Its actions are the edits of the tables it reads,
one row per commit; a consultation writes nothing, so consult() is an operator of
the state, as are `materialise` (every dated movement of money), `daily_ledger`,
`buffer_floor`, `verdict`, `weekly_view`, `movable`, `apply_axis` and `Bisected`.
Days are numbers, a year is any list of month starts; amounts are cents, shares
are rounded half up.

**Chart** is companies, accounts, projects, and the entries and budgets that hold
them by foreign keys: `ReadCreate`/`WriteCreate` and so on are the handlers,
`ImportChart` import_coa(), `ApplyStandard` the standard chart, `HeldBack` what makes
delete_company_cascade() fail. `Climb` is the loop of _validate_account_parent(): the codes
on the way up from an account, at most as many steps as there are codes. `Sound` is what the
tables promise by their keys, of every database a run starts with and of every state
(`TypeOK`). **Reports** EXTENDS it with one operator for each
report, named as in the code, over `Journal`, the posted lines. Account codes are
numbers of eight digits, so that prefixes are quotients; amounts are whole rupiah.

**Startup** is a server process from its first request on: `ReadMove`/`Move`,
`Group`, `Sandbox`, `Open`, `Seed`, then for each database `Connect` and the
steps of migrate_database() (`Steps`), each of them `Read` (PRAGMA or SELECT in
autocommit) and its writes up to a commit: `AddSource`/`Backfill`, `AddColumns`,
`DropCopy`/`CreateCopy`/`Swap`/`Cleanup` for the two tables that are rebuilt,
`Fold`, `Baseline`, `Standard`. `Crash` ends a process anywhere, `Locked` is a
busy timeout. **Registry** EXTENDS it with browsers: a request opens the database
its cookie names (`OpenDb`, with the frozen guard), then `Write`, `Switch`,
`OwnUser`, `ReadPicker`/`SavePicker` (users and profiles of any database),
`ReadCreate`/`InitOne`/`SeedOne`, `Delete`. Of a database the model keeps what tells the
steps apart; `lost` marks a connection to a file that has been removed meanwhile,
which writes into nothing.

## 4. Runs

| run | expects | what it shows |
|---|---|---|
| `disbursement_races` | pass | 2 requests, 2 references, 2 Finance and 2 notification handlers, faults: `SettledOnce`, `InFlightIsBacked`, `PaidIsExpensed`, `ReconciliationTells` |
| `disbursement_lifecycle` | pass | 2 requests, 3 references, 1 Finance handler, no faults, slow gateway: refines `PayoutLifecycle`, `OneLivePayout`, every payout settles |
| `hub_races` | pass | 2 requests at once, 3 wallets, 2 orders, an approval, 2 admins: keys, overdraft, top-ups, audit, freeze |
| `mores_pay_races` | pass | 2 sessions, 2 finance users, 2 settling threads, 2 transactions, 3 payouts, aborts and restarts |
| `plan_races` | pass | an admin and an accountant, 2 versions, a month of 2 weeks, 2 certainties |
| `books_races` | pass | an admin and an accountant, 2 companies, 2 entries, 1 bank line, a workbook of 2 entries |
| `tracker_races` | pass | 2 users, a project with a contract of 3, 2 tracks of 2, 2 phases: `OneOpenStage`, and which requests alone can take invoices past the contract (`InvoicesFit`) |
| `tracker_harmony` | pass | 2 users, 2 companies, a sector, a track of the other company from before the check: `ScopesAgree`, `FixHeals` |
| `oracle_forecast` | pass | 2 companies, an investment, up to 3 rows in all tables, 2 months of 3 and 5 days: `NoWorseThanTold`, `BoundCountsCommitted`, `MarginIsReal`, `ScreensTell` |
| `reports` | pass | 2 users, 2 companies with different charts, a project of one booked in the other, six entries over two years, 3 changes: `NothingLost`, `StatementsAgree`, `ChartKeepsForest` |
| `registry` | pass | 2 processes and 2 browsers, old, new, moved and missing databases, 3 starts or requests: `StartingKeepsMoney`, `PassedIsCurrent`, `GuardHolds`, `PickerKeepsAnAdmin` |
| `registry_new_database` | violation | a database made from the picker lacks what only a migration adds (`OpenedIsCurrent`) |

**Bounds and why they are enough.** Every race above needs two handlers at one
row, and a third handler only repeats what one of the two does; two requests of
different amounts show mix-ups of rows and make sums tell; a second reference
lets a request be retried, a third lets the retry fail too. In the hub two
orders of one wallet, one large, share posts with payments and adjustments;
`Float` bounds what SYSTEM wallets pay out, `MaxExecutions` the times an approval is executed. In
`Plan` two users are the reader and the writer of every stale read; two weeks
are the one that rescaling rounds and the one that takes the remainder; two versions
are one and its copy; `Asked` keeps one unlocked and one locked status of the
four, which the code treats alike in pairs; `MaxWrites` counts commits of
amounts, of which the second overwrites the first. In `Books` two entries are what a
taken number needs, and what a bulk action needs to have read one entry before its
transaction and one in it; `OpeningHeals` with several openings to replace is
beyond two entries and rests on its proof. `Forms`, `Typed`, `Workbooks` and `Bookers` are
the inputs people make: the run lets the accountant alone create entries, posted and with a
bank reference, and lets edits keep the reference.

In `Tracker` two invoices of two against a contract of three are the smallest that
fit alone and not together; one project suffices, since a request names one. The
Oracle's `Year` has a month whose last week is longer than the others, a day in the past,
and rows (`BudgetForms` and the like) of every source, direction and certainty;
three rows are one that makes a shortage, one that covers it and one that moves. In
`Reports` the data is in the start state, where every rule of a statement has an
entry that tells it apart (a card, petty cash, an inter-company account, another company's
project, a draft, last year), and `MaxChanges` lets a request be overtaken once after a
change. In `Registry` `MaxWork` is three starts or requests: two that meet and one that made
the state they meet in, or a process that dies, another beside it and one after it.
Symmetry is used in runs without liveness only, over actors that the
instance treats alike.

**Deadlock** is checked where the system goes on for ever. It is not in the runs of
`Tracker` (a project and a track take ids that `MaxProjects` and `MaxTracks` use up),
`Reports` (`MaxChanges`) and `Registry` (`MaxWork`), where the bound stops the model.

**Fairness** (`FairSpec` of Disbursement): a handler that stands before an await
goes on (Node resumes it, the database answers), and the gateway repeats a
notification until it is acknowledged, as payment gateways do. Nobody is
assumed to decide or retry. `EverySettlementLands` is checked without faults:
with a handler that dies after the flip it is false, and `ReconciliationTells`
says that the nightly run notices.

**Finding.** `registry_new_database`: create_database() makes a database's tables
and seeds it but never migrates it (`database.py:1126`), though the comments at
`server.py:5588` and `database.py:1712` say that without the migrations the routes
fail.

**Sentences the code does not keep.** The modules state these as definitions that
no run lists; each is refuted within seconds when it is put in the configuration of the run
named, with the change in parentheses.

* `OneLivePayout` (`disbursement_lifecycle`, 2 Finance handlers): start() makes a fresh
  idempotency key each time (`disbursement.service.ts:42`), so two approvals that both
  read PENDING (`field-payments.service.ts:227`), or two retries, are two payouts;
  `disbursement.provider.ts:5` says "provider dedupes retries on this". With one handler
  and `Faults`: a retry that dies before its last write leaves the request FAILED, open to
  a second retry.
* `EverySettlementLands` (`disbursement_lifecycle`, `Slow = FALSE`): the payout is handed to
  the provider before its row exists (`disbursement.service.ts:43`, 65); a result in
  between matches nothing, is answered 2xx and never comes again.
* `ExecutedOnce` (`hub_races`, `MaxExecutions = 2`): approveDualAction() posts without
  an external reference and marks EXECUTED later (`admin.service.ts:142`, 150), although
  line 120 refuses what is "Already resolved".
* `ClearingIsInFlight` (`mores_pay_races`, `Serial = FALSE`): settle_disbursement() "is
  idempotent" (`payments/server.py:136`) only when notifications come one after the other; it
  tests the status in autocommit and updates by id.
* `AnsweredIsFiled` (`mores_pay_races`): create_payment_order() commits only inside
  `if save_vendor` (`payments/server.py:639`); any other order is answered 201 and
  rolled back.
* `OneOpening` (`books_races`): the "single opening-balance entry per company"
  (`server.py:1846`) is looked for in autocommit (line 1918), so two savers make two.
* `SnapshotForecasts` (`oracle_forecast`): a plan version seeded from the budget is "a
  faithful WEEK-FOR-WEEK copy" (`server.py:3785`) and takes the non-cash lines with it,
  which materialise() leaves out of the budget only (`fpa_cash.py:254`): depreciation
  is then paid in cash.
* `DashboardHasOneCash` (`reports`): `reports.py:55` promises "ONE definition, shared by the
  dashboard and both cash-flow reports"; dashboard() draws its cash flow without the
  cash codes (`reports.py:1240`).

**Seen while modelling.** What follows needs no search, or is excepted by a property that says so.

* Payments: `apps/payments/README.md:52-53` proposes to retry accounts starting 000,
  which `server.py:835` refuses. A top-up whose handler died between the post and the
  update stays AWAITING_PAYMENT for good. Deleting an investment (`server.py:2960` of
  the ERP) writes rows of approved plans.
* Tracker: `harmony.py:6` "never add up to more than its contract" fails when one of
  four requests is overtaken (`InvoicesFit` names them). A track made in the last phase is
  never set to done; typing a phase moves no stage.
* Oracle: spread_evenly() rounds the share of a week up and lets the last week take what
  is left (`fpa_cash.py:115-117`), so a few cents over many weeks make a last part below
  zero, a payment that brings money in: 24 cents over 48 weeks are 47 parts of one cent and one of
  minus 23. `NoWorseThanTold` and `MarginIsReal` suppose that no part is negative
  (`PartsArePaid`). Bills due in an earlier year, and receivables expected in another, are left
  out of the forecast; no handler writes `receivables.paid_date`, so the collection lag stays a
  guess; `fpa_cash.py:62` says the verdict is always pessimistic, and the
  policy decides (`server.py:3999`); the advice "covers all" heals the days from the
  payment's own to the worst.
* Chart: import_coa() checks no parent, and the standard chart put back above orphans
  can close a circle (`ChartKeepsForest` names both); an account with only zero budget
  rows cannot be deleted although `server.py:809` means it to be; deleting a company fails when another
  company's entry is tagged to its project; companies whose charts differ can make a circle, or
  overwrite each other's types, in the consolidated view (`reports.py:168` takes them as
  uniform, and so does `NothingLost`).
* Starting: two workers that start at once on an old database can make each other
  fail, and both serve it with a printed warning; a crash between adding
  `journal_entries.source` and filling it leaves every entry 'manual'; seed_investments() brings the demo
  investments back whenever the list is empty; a process that dies while it seeds the
  group database leaves it without users; a request that has read a name while its
  database is deleted makes an empty file again, whose migration fails at each start and
  keeps every database listed after it from being migrated.
* Databases: creating "a_b" opens an existing "a b"; one made without demo data has no users;
  set_db_profile() reads, merges and writes, so it can undo a freeze; the last admin is
  guarded in the picker only, and two requests at once remove the last two.

## 5. Proofs

Liveness and ENABLED are beyond the prover and stay with TLC. Everything below
holds for every number of rows, handlers and users. Of the constants it assumes what
the code or the tables give: ids, rows and amounts of the right shape, no name used
twice, and, where money is summed, that the sets summed over are finite
(`FiniteAssumption` of the references of payouts and of the transactions and sessions
of MORES PAY, `PosterAssumption` of the requests of the hub, and the months and
weeks in `CellAssumption`; the tracks and entries are numbers up to a bound).

**SumTheorems** has the lemmas about `SumFunctionOnSet`, in which every balance,
total and worth of these modules is written. The library's induction theorems take a
predicate, which the provers cannot instantiate; a set of subsets they can. So `Smallest`
says that of the subsets of a finite set for which something fails one is smallest, by
the well-foundedness of strict inclusion, and each lemma that needs induction looks at the
smallest subset for which it fails. First the fold is shown to satisfy the recursion it
is defined by (`SumUnfolds`), then that any element may be taken out first
(`SumRemove`); the rest follows: a sum depends on the values alone, grows with them, splits, is
updated, moves along an interval, and is bounded when its summands are.

**ApiProofs, payouts.** `SettledOnce` alone is not inductive. The invariant
`PayoutIInv` ties each handler's program counter to the rows it is about to write: a
notification handler before its post owns the flip of its reference, so no
second handler stands there and no leg has been posted; a Finance handler
before the payout row owns its reference, which has its start leg or none.
From it: `NoDoubleSettlement`, `Backing`, `Expensing`, and `PayoutTyping` of rows and
handlers. One lemma per action, a case analysis of Next, and PTL.

`Reconciling`: while no handler is in flight what clearing holds is what is pending and
what is stranded (`ClearingIsPendingAndStranded`), and a sum of amounts above zero is zero
only when there is nothing to sum. `AtMostOneLive` assumes `OneFinance`: one Finance
handler and no deaths, however early notifications arrive. Without either
`OneLivePayout` is false (section 4). `PayInv` says that a payout either came back
(`Returned`) or bars the next one: its handler is still running, or the status is one
that `decide()` and `retry()` refuse (`Barred`); of two payouts of a request one came back
(`OneOpen`). `PayoutRefinement` assumes besides that no notification overtakes the handler
(`OneAtATime`), the setting the lifecycle is documented for: a request that is marked
DISBURSING after it was settled has no place in it. `LifeInv` adds where a payout that did not come
back stands, and its request with it (`Stage`); then each await of a handler is a step of
`PayoutLifecycle` or a stutter. What the lifecycle calls held, spent and returned are
the sets of a request's payouts whose legs say so.

**ApiProofs, the hub.** First the ledger alone: its types, one posting per key
(`Commit` finds the key free), and that a frozen wallet which no post is on its
way to keeps its balance. Then the hub: `IInv` says what each step of a job
implies of its row (a top-up that awaits its report has been posted; an
approval that is being marked has been executed), giving `Topups`,
`TwoApprovers` and `Auditing`. `Refinement` shows that each step of the hub is a
step of the ledger or a stutter, and `OneKey`, `Freezing` and `Overdrafts` follow from it.
The overdraft bound is inductive with the types: a source is checked against what is
committed, so with the check's own amount in flight at most the other posters' amounts are
missing, and a commit turns what was in flight into what is booked.

**MoresPayProofs.** A reference the provider returned belongs to one request until its row
is committed (`OneStarts`), and what a thread that settles has read of the row stays true
(`Settlers`), so two threads that settle one payout write the same status: `Typing` and
`Backing` hold whatever the notifications do. They post twice, though. Only `Clearing` assumes `Serial`:
the notifications of one payout come one after the other, as the mock's do; then a pending
payout belongs to at most one thread (`OneSettles`). Without it `Clearing` is false (section 4).
`WalletBounds` assumes nothing of the gateway, since notifications do not touch the
wallet: `SubmitInv` says that a submission in progress has a row of its own that is not
filed and passed the limit of one transaction, so what others filed after a session's check is
at most one payment of each.

**PlanProofs.** The amounts a handler writes matter to neither lineage nor lock, so
`IInv` is small: the tables keep their rows, the status a request is about to
set is one of the four, and `Lineage`. `Rested` states what one step may do to a
version at rest; each lemma shows that one kind of request keeps `IInv` and
`Rested` together. A copy links a version that nothing descends from, and a
delete clears the links to what it removes, so no circle can close. `OneRow` is inductive
when it is said of versions without an imported sheet (`CellInv`); the removal of zero rows is a
recursive function over a cell's rows, of which at most one is there. `FoldingKeeps` and
`ImportingIsExact` need what budgets and the requests' copies of them are made of
(`BudgetInv`), and that rounded shares are whole amounts. A fold moves a month's sum into
its first week; an import gives the last week what the others leave of the figure
(`MonthIsExact`).

**BooksProofs.** Numbers play no part in the first four theorems, since who is refused
a number writes nothing. `IInv` says that lines are in their entry's books, that a
request nobody disturbed has read what is still so (`Watching`: the entries it is to
replace are the company's opening entries, the entry it is to delete may be
deleted), and that rows beyond `last` are free. A commit that changes the books
makes every watched request stale, so one lemma (`Changed`) covers all of them;
`Alone` adds that an undisturbed save leaves one opening entry, and `WritesBulk`
that a deletion removes at most the one entry it read before its transaction.
`NumbersAreFree` is about numbers alone: no two entries of a company share one
(`Distinct`, the table's UNIQUE), so the code's search upwards from the count meets a free
one within as many steps as there are entries (`FreeIsFree`, a pigeonhole), and nobody who would
take it leaves the request undisturbed.

**TrackerProofs.** `OnePhase`: `IInv` adds to the types that outside the tracks
whose phase was typed time runs in the track's own phase only, and that an advance nobody
overtook still stands where it read. `OneStory` needs no invariant: the tracks of a
project are in every scope that holds its company, and an issue names its project.
`Repairing` has an invariant of its own: a repair nobody overtook is about rows that
still are what it read; then its write takes off one reason for an issue and gives none.
`InvoicesStay` has `MInv`: amounts are amounts (`Amounts`), and what a request nobody
overtook has compared with the contract still fits (`Compared`). `MoneyTracks` covers every
write of one track: the worth of a project's invoices grows by what that track gained
at most. A plan adds several tracks at once; their worth is the sum of its termins
(`SumShift`).

**ErpProofs, the databases.** A file is compared with what a step makes of it: `Grown` is
what no step of any process or request takes back (tables, columns, classes, the fold, the
holding), `SameMoney` what a starting process keeps. `OnTrack` says of a process that it
has reached everything its earlier steps are for, and that a step it is about to skip is
not needed. Since steps of others only grow a file, or take it out of the folder
and mark who held it `lost`, `OnTrack` survives them. `Keeping` and `Passing` follow;
`Guarding` and `Heading` rest on what a request has seen (`Guarded`, `Vetted`). Assumed is
what the constants are: ids, rows and profiles of the right shape, a group database
and a sandbox, and files whose columns stand in tables.

**ErpProofs, the forecast.** What a consultation answers is a function of the tables, so the inductive
invariant is what the tables hold (`TablesOK`: finitely many rows of their schema's shape);
the rest is arithmetic, for any calendar whose months hold their weeks (`CalendarAssumption`), any
companies, investments and policies. A balance is the opening plus a sum, over all
movements counted, of what each has done by that day (`LedgerIs`). So two ledgers are
compared movement by movement: if every movement of one has done no more by any day than its
image in the other, its balance is never higher (`LedgersCompare`; the image need not
be one to one, which is why a movement carries its row in `ref`). `NoWorseThanTold` and each axis
are instances: the pessimistic day of a week is the worst of it (`Settlement`, `PlacedIs`),
a share of more is more (`ShareMonotone`), what comes later has done less. `BoundCountsCommitted`
rests on parts that sum to the whole (`SpreadAddsUp`) and on a spread that has a part in every
week ahead. For `MarginIsReal` the bisection is a function on 0..`Halvings`; the distance of its ends
is a multiple of a power of two (`StepAssumption`: the halvings leave no fraction), so each
step halves it exactly and keeps one end failing and one holding (`BisectionHolds`).

**ReportsProofs, the charts.** `ChartIInv` says that the tables are as their keys promise
(`Keyed`: rows refer to what exists, entries balance), and of a request that waits to write
that its form has the right shape and, while nobody has overtaken it, that its parent would still
be let through (`Waits`). From it `NothingDangles`. For `ChartsStayForests` the way up is
characterised first: `Climb` is a function on 0..`Cardinality(Codes)`, and by a pigeonhole its
values are the least set of codes that holds the first and, with each of its members, the
member's parent (`ClimbWithin`, `ClimbHolds`). So a circle that appears needs an edge that was put
below its own ancestor, which a validated, undisturbed request does not write, and the
standard chart writes only above orphans, since its parents have the smaller codes
(`StandardAssumption`, true of STANDARD_COA).

**ReportsProofs, the statements.** `StatementsAgree` and `NothingLost` speak of states, so
they need no more than `ChartIInv`, from which the posted lines are `Told`: told apart by their
ids, each on an account of its company, and balanced entry by entry. Whatever is
filtered by company and date keeps entries whole and nets to zero (`SheetHolds`); whatever is
grouped by a key, account, month, year, project or company, is a sum over the
fibres of that key (`NetByKey`), which gives `ProfitHolds`, `ProjectsHold`, `ClosingHolds`
and `CashHolds`; `AgesHold` moves each bill to a bucket that is no younger; in `PettyHolds` a
line's weights are rounded shares, each off by half a rupiah at most. The calendar is any
twelve increasing month starts (`CalendarAssumption`). For the grouped trial balance, a row
without a group below it holds the postings of its own code alone (`EndsHoldAll`), a
group with postings of its own has a direct row, and where no way up is circular every code
with postings is below a root (`EverybodyShown`); so the leaves add up to all of it
(`LeavesAddUp`). A chart without circles is such a tree (`ForestIsMerged`), and so is a merged
one that makes no circle (`MergedTree`).

Assumed of the data of `Chart` and `Reports` is what the tables and forms give, and this: a
line's debit and credit are not negative (the journal form has `min="0"`; the
handler and the Excel import refuse no negative amount), and, amounts being whole rupiah,
balanced means equal (the handlers tolerate a cent).

Only model-checked: `EverySettlementLands`, which is liveness. TLC
has also checked `TablesOK` on the instance of `oracle_forecast`. The type invariants
are proved and not repeated in the runs; so is `TwoPeople`.

## 6. Not modelled

Access control beyond the guards of `Registry`; passwords; parsing of bank files and
workbooks, formatting, layout, logging; products and their reports; KPI
tiles, thresholds and highlights; the clients. `migrate_cakun.py`, a script run once by hand.

Known gaps inside the models, each a place where the code can go wrong:

* Two requests, or a request and a QRIS payment, are compared with the month's quota
  before either is written (`field-payments.service.ts:143`).
* Two first payments create two clearing wallets (`system-wallets.service.ts:32`).
* Audit records written at once chain to the same predecessor (`audit.service.ts:22`),
  and the hash is of JSON that went through JSONB, which keeps no order (line 64).
* Every top-up is created with the virtual account 'pending', which is unique, so that a failed
  provider call blocks the next (`topup.service.ts:53`).
* The copy of an imported plan forgets the investment of a row (`server.py:3666`); an edit
  of a cell that was imported as several rows sets each of them (`database.py:1385`).
* Journals: their amounts (every handler refuses lines that do not balance), and what the
  deletion of an account or a company takes with it is in `Chart` only.
  `AloneIsAccepted` says nothing of create_journal() and import_journals(): after a
  deletion their count names a number that is taken, and they are refused until the count
  has caught up.
* `Registry`: icons, colours, the data-as-of date, menus, and companies a user may
  see; one budget cell stands for all other writes.
