# Verification of the ledger-credit system

TLA+ models of the NestJS backend under `src/` (ledger posting, transfers, external rail and the two
together, end-of-day batch, credit assessments, statements, sessions), the TLC instances that
model-check them, and TLAPS proofs about each of them, for every number of requests, accounts, calls or
lines. Paths below are relative to the repository root.

```
cd tla
tlc -workers 2 -config Transfers.cfg MCTransfers     # one model-checking run
tlapm TransfersProofs.tla                            # one proof module
```

`PROJECT.json` lists the components, the runs, for every checked property a mutant of the code that
it catches, the source lines each definition translates, the hazards and the theorems.

## 1. The system

One PostgreSQL database, reached through Prisma; several stateless Node processes; a pg-boss queue in
the same database. No transaction of the repository asks for an isolation level, so all run at READ
COMMITTED: a statement reads what is committed when it runs, reading takes no lock, writing locks the
row until the transaction ends. Nothing in the code locks a row in order to read it. What is hard here
follows from that: values that are read, checked and written back later.

| component | state | operations | talks to | hard behaviour | correct if |
|---|---|---|---|---|---|
| Ledger posting `modules/ledger/ledger.service.ts` | journal entries, postings, statement lines, balance projections | `postJournalEntry`, inside its caller's transaction | called by transfers, rail, batch | the balance is read without a lock and upserted later | entries are balanced and committed whole; projections follow the journal; one entry per cause |
| Idempotency `common/idempotency` | `idempotency_record`, unique per operation and key | `begin`, `complete` (`fail` has no caller) | transfers, credit | look-up, then insert; concurrent duplicates | a key has one outcome and replays it |
| Transfer creation `modules/transfers/transfers.service.ts` | transfer requests, first rail event, audit, jobs | `createTransfer`, `getTransferById` | idempotency, ledger, audit, rail queue | failure between any two statements, deadlocks, publishing after the commit | answers are truthful; a key is one transfer; every request is answered |
| External rail `external-rail*.ts`, `modules/ops` | transfer status, provider events, compensation | submit (job), reconcile, redrive, callback, `applyNormalizedEvent` | queue, ledger, audit | at-least-once delivery, late and duplicate events, status read before the row is locked, audit after the commit | status, events and ledger agree; compensated once; a terminal status stays; jobs resolve |
| Job queue `common/jobs` | pg-boss rows | `publish`, `registerHandler`, `schedule` | rail, batch | retries, expiry, workers that die | every job ends |
| End-of-day batch `modules/batch/batch.service.ts` | batch runs and items | `runBatch`, `retryFailedItems`, `getBatchRun` | ledger, transfers' balances, audit | snapshot used late, chunk that falls back to items, concurrent retries, lost acknowledgements | interest is posted once; COMPLETED leaves nothing behind; balances follow entries |
| Sessions `common/auth/auth-identity.service.ts` | auth sessions, refresh tokens | `login`, `refresh`, `logout`, `authenticateAccessToken` | audit | check and rotation in different transactions; opposite lock orders | an ended session stays ended and yields no tokens; an active one can be refreshed |
| Provisioning `modules/auth/auth-provisioning.service.ts` | principals, roles, identities | three upserts | audit | none: each is one transaction that only adds | |
| Credit `modules/credit` | snapshots, assessments | `createAssessment`, `reviewAssessment`, `getAssessmentById` | idempotency, transfers, balances | balances and counts read by separate statements while transfers go on; decision by id after an unlocked check | one assessment per key; a snapshot is of one moment; a better record scores no less; a decision is final |
| Accounts and paging `modules/accounts`, `common/pagination` | reads only, audits | `getBalance`, `getLedgerEntries` | ledger tables, audit | cursor arithmetic, lines that appear late, page sizes at and above the cap | pages in order, nothing twice, nothing lost; views are audited |
| Audit `modules/audit` | audit events | `record`, `recordInTransaction`, `search` | everybody | outside the transaction in most callers | state changes leave evidence |
| Money, HTTP boundary, configuration, web front end, Java API, contracts, deployment | none | | | | |

## 2. Modules

```
ReadCommitted            row locks, deadlocks
 |- Ledger               postJournalEntry; LedgerSpec, the abstract ledger
 |   |- LedgerTruth      balances computed from the journal
 |   |- LedgerProofs     theorems about every behaviour of LedgerSpec
 |   |- Transfers        createTransfer          <- MCTransfers (4 cfgs), TransfersProofs
 |   |- ExternalRail     rail, queue, operators  <- MCExternalRail (4 cfgs), ExternalRailProofs
 |   |- Payments         Transfers + ExternalRail over one ledger and queue  <- MCPayments, PaymentsProofs
 |   |    \- implements TransferOutcomes
 |   \- Batch            end-of-day close        <- MCBatch (4 cfgs), BatchProofs
 |- Credit               assessments, over TransferOutcomes  <- MCCredit (4 cfgs), CreditProofs
 \- AuthSessions         login, refresh, logout  <- Auth.cfg, AuthSessionsProofs
TransferOutcomes         what a transfer is to those who only read it
Statements               balances and paged statements  <- MCStatements (3 cfgs), StatementsProofs
```

**ReadCommitted** is PostgreSQL as the code uses it: `held[p]` is the set of rows that the open
transaction of session `p` has written. `Acquire` is a writing statement: it waits until no other
transaction has written the row. An entry of a unique index is a row, too, so that two inserts of one
key wait for each other. `Deadlocked` is a cycle of waiting transactions; the components roll a member
of it back. The foreign keys' KEY SHARE locks do not conflict with updates of other columns, which is
all the updates here, and are left out. Uncommitted writes live in variables indexed by the session
(`newBalance`, `row`, ...) and the committing action publishes them.

**Ledger** is `postJournalEntry`. Every caller passes one debit and one credit of one amount, so an
entry is a record of two accounts, an amount, an operation and a *cause* (the idempotency key, provider
event or batch item that makes it due). `OpenEntry` creates it; each posting on a customer account is
`ReadProjection` (unlocked, line 95) then `UpsertProjection` (106-121, computed from what was read);
`CommitEntry` and `RollbackEntry` end the caller's transaction. System accounts have no projection.
`LedgerSpec` is the abstract specification: whatever callers do between, these steps and the acquiring
of the callers' own rows are all that can happen to the ledger. `Transfers` and `ExternalRail` are shown
to implement it. `overwritten` is a history variable: the accounts a balance of which was replaced by
one computed from an older balance.

**Transfers** is `createTransfer`: one action per statement from the boundary checks to the answer.

| code (`transfers.service.ts`) | actions |
|---|---|
| 35-62, `idempotency.service.ts` 32-45 | `Begin` (replay, conflict, in progress, new) |
| `idempotency.service.ts` 48-60 | `InsertRecord` |
| 64-116 | `ReadSource` (account checks, funds check, row RECEIVED) |
| 118-123 | `Validate` |
| 125-163, 205-238 | `RouteInternal`, `RouteExternal` |
| posting loop of the ledger | `Post` |
| 165-179 | `Settle` |
| 181-284 | `Commit` (event, record, audit, COMMIT) |
| 286-288 | `Enqueue`, outside the transaction |
| 290-294 | `Respond` |
| exceptions, crashes, timeouts | `Throw`, `Fail`, `DeadlockVictim` |

**ExternalRail** starts where an interbank transfer is PENDING_EXTERNAL. Workers take jobs (`FetchJob`),
which may fail, expire and be fetched again up to `RetryLimit` times; an operator may `Reconcile` or
`Redrive`; a provider may `Callback`. All end in `applyNormalizedEvent`: `ReadState` (the transfer and
the event are looked up), `InsertEvent`, `MarkSettled` or `MarkFailed` - `Post` - `MarkCompensated`,
`Commit`, and `Audit` outside the transaction. The two adapters differ in wording only. What adapters and providers
report is `Normalized`: `Adapted`, what the adapters answer to a submission or a reconciliation, and `Inbound`, what
providers call back with. `Late` are callbacks that come only after their transfer has ended (`MayArrive`), under ids
of their own; they may say the opposite of what was reported before.

**TransferOutcomes** is the abstract specification of a transfer: it takes an amount from its source
once, when it is created as settled or as pending; a pending one settles, or gives the whole amount
back; there is nothing after that. Each of its steps is one commit, which is all a reader can see.

**Payments** composes `Transfers` and `ExternalRail` (`INSTANCE ... WITH`) over one journal, one status
per transfer and one queue. A request that has committed an interbank transfer stands at `Enqueue`, which
publishes the job that `FetchJob` takes; `jobs` of `Transfers` is the set of transfers with a job of the
rail. All other steps are the steps of the two modules, with the other's variables unchanged. A provider
calls back only about transfers it has acknowledged. What the rail knows of a transfer (`Detail`) it reads from the
row that `createTransfer` wrote; `Described` says that a request asks for that source and amount. Requests are
not sessions of the rail, and no provider uses the id `<<r, "submitted">>` of the event that `createTransfer` records
(`PaymentsAssumption`). With `taken` computed from the journal it is shown to
implement `TransferOutcomes` (`ImplementsOutcomes`): retries, double delivery, redrives and callbacks come to
no more than that. `Reconcile` is left out, because a reconciliation that overlaps a submission breaks
it (run `rail_reconcile`); the refinement says what holds as long as nobody reconciles meanwhile.

**Credit** is `CreditService`, checked over `TransferOutcomes` in place of the transfers themselves: it reads
their committed statuses and balances and nothing else of them, and `Payments` shows what those can do.
`createAssessment` is one transaction: `Begin`, `InsertRecord` (`IdempotencyService.begin`), `ReadCustomer` (with the
balances), `CountSettled`, `CountFailed`, `CreateAssessment`, three times `Advance`, `Commit`. `Profile`, `Components` and
`Score` are the arithmetic of `createAssessment` and of `computeCreditDecision`. `reviewAssessment` is `Load` (read and
check), `Decide` (update by id), `AuditReview`, each a transaction of its own. Transfers older than the instance
are in `Earlier`.

**Statements** is `AccountsService`. `Posters` are the transactions of the ledger as a statement sees them: a line is
dated (`DateLine`) and appears later (`CommitLine`), and may have the date of another. A reader runs `Query` with
its cursor, `Audit`, `AnswerPage`, and follows the next cursor; a failure or a lost answer makes the client ask the
same page again. `PageCap` is the 100 of the code. `Limits` are the page sizes clients ask for: nothing between the
query string and the query refuses one (`accounts.controller.ts:30`), so they are integers. `Rows` is `take`, which for
a negative number means the last rows, of which the answer then shows none; `HasMore` compares with the size asked for and not with the
one taken. `ContractLimits` are the sizes that the API contract admits, 1 to 200.

**Batch** is the end-of-day close. `StartRun`, `FindAccounts` (the snapshot), `CreateItems`; accounts
without a ledger account go to the item workers, the others in chunks: `BeginChunk`, `UpsertRow` for each
row of the bulk upsert, `CommitChunk`, or `FailChunk`, which hands the items to the workers; then `Count`
and `FinishRun`. A worker `TakeItem`s, then `ReadItem`, `ReadAccount`, `MarkRunning`, `Post` ..., `CommitItem`,
or `Throw` and `MarkFailed`. `Retry` is an operator's `retryFailedItems`. Payers post transfers meanwhile. An
item is RUNNING only inside transactions that overwrite that before they commit, so no other session
sees it. The chunk writes journal and projections itself, with bulk statements, and several entries at
once: `Batch` uses the actions of `Ledger` for items and payments but does not implement `LedgerSpec`,
and has its own `BalancesFollowEntries`. Attempt counts and shard keys are left out. `InOrder(S)` lists accounts in
the order of their ids, as both `orderBy` and the filters that keep that order do: each account has as many of
`S` before it as are of a smaller id.

**AuthSessions** is `login`, `refresh`, `logout` with `revokeSession` and `expireSession`. A refresh reads the
token, then the session (`Refresh`, `ReadSession`), decides, and rotates in a transaction (`SpendToken`,
`TouchSession`, `CommitRotation`); a revocation locks the session (`RevokeSession`), then the tokens its
second statement matched (`MatchTokens`, `RevokeToken`), and commits. Calls are numbered in the order
they begin; rows are named after the call that creates them. `authenticateAccessToken` only reads.

## 3. What is checked

Passing runs; times are for two workers. Each property has a mutant in `PROJECT.json` that breaks it.

| run | instance | states | shows |
|---|---|---|---|
| `transfers` | 3 requests, 3 accounts (one closed), 6 inputs: a key repeated with another payload, crossing payments, an interbank one, refusals; a failure anywhere | 88,028 | `OneTransferPerKey`, `AnswersAreTruthful`, `RepliesAgree`, `OneEntryPerCause`, `ProjectionFollowsJournal`, `EveryRequestAnswered`; implements `LedgerSpec` |
| `rail` | a rejected transfer with its job and an accepted one whose job is lost, a redriven job, a worker, an operator, one retry per job; callbacks: the submission's own event again, and, about a transfer that has ended, the opposite outcome or the same under another id | 209,853 | `StatusTellsOutcome`, `CompensatedOncePerFailure`, `TerminalStays`, `JobsResolve`; implements `LedgerSpec` |
| `payments` | an interbank payment requested twice with one key (the second replays, collides, or makes the transfer if the first failed), a worker, an operator who redrives once, a callback; jobs are not retried but redriven | 107,145 | implements `TransferOutcomes`; `PendingIsPublished`, `CreatedIsResolved` |
| `batch` | a run over three accounts (the third with or without a ledger account; chunks of two, so one chunk or two), an operator who retries once, a worker for each, a transfer, two failures | 288,730 | `InterestPostedOnce`, `CompletedLeavesNothing`, `ItemTellsLedger`, `BalancesFollowEntries`, `EveryCallEnds` |
| `credit` | two requests on two keys and two customers (one at every cap, one with failures and an average that a transfer makes negative), three reviewers, a transfer in any state | 2,142,284 | `OneAssessmentPerKey`, `BetterRecordScoresNoLess`, `CountsAreOfTheirTime`, `ToldDecisionStands` |
| `statements` | four lines on two dates posted in any order, a reader with pages of -3, 0, 1, 2 or 3 lines and a cap of 2, a viewer, one lost answer | 1,247,856 | `PagesInOrder`, `OnlyCursorLinesMissing`, `ViewsAreAudited` |
| `auth` | four calls of any kind on any token issued before, two failures, expiry at any moment | 97,854 | `AnswersEndSession`, `NoTokensAfterEnd`, `ActiveSessionHasToken`, `RevokedForAReason`, `EndIsFinal`, `EveryCallAnswered` |

Runs that end in a counterexample, each a place where the code does not do what the repository says:

| run | property | what happens |
|---|---|---|
| `transfers_drift` | `ProjectionIsLedgerBalance` | two overlapping postings on an account: one balance change is lost (`ledger.service.ts:95`; BR-007, `docs/01-business/business-rules.md:18`) |
| `rail_reconcile` | `CompensatedAtMostOnce` | a reconciliation that overlaps a submission compensates a second time, under another event id (`external-rail.service.ts:208`; `tests/integration/transfers.spec.ts:162`) |
| `batch_retries` | `InterestPostedOnce` | two operators retry one failed item at the same time, both read FAILED (`batch.service.ts:446`; `docs/archive/legacy-flat-docs/business-rules.md:36`) |
| `credit_decision` | `DecisionIsTerminal` | two analysts load one assessment before either decides; the second decision replaces the first and both are answered a success (`credit.service.ts:209`; `docs/07-flows/state-machine.md:26`) |
| `statements_skip` | `EveryLineShown` | the line a cursor is made of is on no page: a statement read in pages of a size the contract admits lacks a line per page, without any concurrency (`accounts.service.ts:108`; `docs/archive/legacy-flat-docs/api-contract.md:106`) |

More configurations are kept beside the runs, each with a counterexample of its own and a passing run over the
same module:

| configuration | property | what happens |
|---|---|---|
| `TransfersDuplicate.cfg` | `DuplicatesReplay` | a duplicate sent while the original is served fails on the unique index, it does not replay (`idempotency.service.ts:48`) |
| `TransfersOverdraft.cfg` | `NoOverdraft` | two transfers pass the funds check on one balance (`transfers.service.ts:92`) |
| `RailAudit.cfg` | `OutcomeIsAudited` | a crash between the commit of an outcome and its audit record leaves no evidence (`external-rail.service.ts:280`, BR-019) |
| `RailTerminal.cfg` | `TerminalStays` | a callback contradicts the submission that is being applied: both read PENDING_EXTERNAL, and the second commit replaces the terminal status of the first (`external-rail.service.ts:187`; `docs/07-flows/state-machine.md:13`, "Terminal") |
| `BatchAcknowledgement.cfg` | `RetriesNeverDuplicate` | an item is posted, the acknowledgement of its commit is lost, the item is marked FAILED, and the retry of one operator posts it again (`batch.service.ts:514`; `docs/archive/legacy-flat-docs/business-rules.md:36`, which makes no exception) |
| `BatchDrift.cfg` | `ProjectionIsLedgerBalance` | a transfer that commits between the snapshot of a run and its chunk is undone in the projection, without any failure (`batch.service.ts:427`; BR-007) |
| `CreditSnapshot.cfg` | `SnapshotOfOneMoment` | a transfer commits between the read of the balances and the count: the snapshot has it in its count and not in its balance (`credit.service.ts:66`; `docs/06-database/db-schema.md:40`, "Point-in-time credit input") |
| `StatementsCap.cfg` | `EveryLineShown` | a page size that the contract admits and that is above the cap gets one page and no cursor: the older lines cannot be read (`accounts.service.ts:94`; `packages/api-contracts/openapi/openapi.yaml:132-133`, 1 to 200) |

The properties of the passing runs are worded to say what does hold in their presence:
`ProjectionFollowsJournal` and `BalancesFollowEntries` speak of the accounts not in `overwritten`,
`CompensatedOncePerFailure` of transfers whose failure one event reports, and `InterestPostedOnce` and
`CompletedLeavesNothing` of items not marked FAILED after they had been completed (`reopened`, which only
a lost acknowledgement or a concurrent worker brings about). `TerminalStays` in `rail` speaks of providers that agree
until a transfer has ended and may say anything later: the check of the status at lines 187 and 208 is what
stops them, and removing it is the mutant. `OnlyCursorLinesMissing` says, for every page size there can be, exactly what is
lost: lines that cursors were made of; with a size above the cap, what is older than the one page of the cap and one
line; with a negative size, everything. `ToldDecisionStands` says that once somebody has been told that he decided an
assessment, a review that begins later neither decides nor is on record (what overlaps is another matter: `credit_decision`);
`PendingIsPublished` that an interbank transfer is forgotten by the server only if
its request ended in an error between commit and publication. In that last case a retry of the request replays
"accepted" and publishes nothing (`Begin`), so that only an operator's redrive submits the transfer:
`CreatedIsResolved` therefore speaks of clients who were told `created`.

**Bounds.** Three requests are enough for a key's owner, its duplicate and a third that competes for
an account, and for a cycle of lock waits; the rail's two jobs for a job and its redrive, and `RetryLimit = 1`
for a delivery and a redelivery (pg-boss is more patient, which adds deliveries of the same kind). A
chunk of two accounts can deadlock with a transfer. `MaxFaults = 2` lets a chunk and the fallback of one
of its items both fail; `MaxRetries = 1` lets the retry race the run. Two workers for the run were
checked as well (no violation) and are left out for time. Four calls on a session are a login, a rotation that is under way,
a revocation and a refresh with the token the rotation left. Amounts are small: the code's arithmetic
is exact (bigint), only comparisons and the rounding of interest to zero matter, and balances are chosen
on both sides of those. Inputs contain one case of every refusal of `createTransfer`.
Two requests with one key are what composes `Transfers` with the rail: the first transfer is rejected by its
provider, the second accepted. `RetryLimit = 0` in `payments` is made up for by the redrive, which publishes a job
after the first one failed, and by `rail`, where jobs are retried. In `credit`, one transfer that is created,
settles or is compensated between any two reads is enough to tell the reads apart, and requests and reviewers are
symmetric (no property is temporal; `DecisionIsTerminal` is checked without symmetry). Three reviewers
are what it takes for two who overlap and one who comes after the first of them was answered and before the second
writes. In `statements`, four lines are one more than the largest page (a cap of two and one line), so that there is
something to lose at every size: below, at and above the cap, two lines of one date, a line that appears between two pages
below the cursor; the size of -3 makes `take` -2. The transactions that post are symmetric. In `rail`, each late
callback comes at most once and in any state of the jobs, redrives and reconciliation that its transfer has left behind.

**Fairness.** Weak fairness on `Step(p)` for each session: a handler that runs is not abandoned by the
event loop, and a statement that can proceed does. Nothing is assumed of clients, operators, providers
or the close schedule, and failures are never required to happen or to stop except where a bound is named.
For the queue: pg-boss polls, so a job that can be fetched is fetched, and expires jobs whose worker
died. `Payments` assumes of requests and of the rail what the two modules do. `Credit` and `Statements` state safety only.
Waiting is not ended by fairness: a transaction waits as long as the other holds the row, and a
cycle of waiting ones is ended by `DeadlockVictim`, PostgreSQL's deadlock detection.

Deadlock checking is off in all runs: requests, calls and jobs are finitely many and end.

## 4. What is proved

Eight modules hold theorems, each about `Spec` of one module, for every value of its constants that its `ASSUME`s
admit. The assumptions say what kind of thing the constants are (TLC evaluates them in the runs); where a theorem
needs more, it says so as a hypothesis. None of the checked invariants is inductive. Each proof has one
strengthening, `IInv`, whose conjuncts are stated per session, key or row; one lemma per action that the action
keeps it; and from it the checked properties.

**LedgerProofs** assumes `LedgerAssumption` only: customer and system accounts are disjoint, opening balances are
integers, `None` is a new value. `LedgerInvOf(S)`, for a set `S` of sessions that post through `postJournalEntry`, is
`LedgerTypeOK`, `LocksExclusive`, and for each session of `S`: without an entry it has written nothing, an entry is
postable, and each balance it has written is locked by it and, unless overwritten, is the committed balance plus
the entry's effect on that account. The last conjunct is the strengthening: without it a commit could not be
related to the balances it replaces. `LedgerInv` is that of all sessions, and an invariant of `LedgerSpec`; from it
follows `LedgerProjection`: `ProjectionFollowsJournal` for every behaviour of the ledger.

**TransfersProofs** assumes in addition `TransfersAssumption` (the accounts, inputs and ids are of their kinds) and
`RecordAssumption` (`None` is not a record). The invariant:

- `Control`: where a request is in its transaction, what it has checked and which entry it has open;
- `Keyed`: a request past its insert **owns its key** - the unique-index entry is locked by it and no
  record of the key is committed; a transfer that exists has the record of its key;
- `Answered`: what a caller was told is what is on record for its key;
- `Stored`: a record names a committed transfer of its key, with its payload and its status;
- `Journalled`: committed transfers and journal entries correspond one to one.

`OneTransferPerKey`, for instance, is preserved by `Commit` only because the committing request owns the key, and that
only because locks are exclusive. Each step is shown to be a ledger step (so `LedgerInv` is inherited and not proved
again) and to keep the rest. Proved: `TypeCorrect`, `TransferPerKey`, `EntryPerCause`, `RepliesConsistent`,
`AnswersTruthful` (the entry an accepted caller finds is debited and credited where this caller named, because a replay has
the payload of the original and `TransferEntry` is made of that), `ImplementsLedger` (`Spec => LedgerSpec`) and, through it, `BalancesFollowJournal`.

**ExternalRailProofs** follows the same line with events in place of keys: a session between the insert of its event
and its commit **owns the event** (`Owner`), so that the event, the status it leads to and the compensating entry
appear together (`Reported`, `Compensates`, `Told`). Proved without more: `TypeCorrect`, `EntryPerCause` (one provider
event is compensated for once, however often it is delivered), `ImplementsLedger`, `BalancesFollowJournal`. The
other three, `StatusTells`, `OneCompensation` and `TerminalIsFinal`, have the hypothesis `ProvidersAgree`: whatever is
reported `OnTime`, by an adapter or by a callback that is not in `Late`, tells the outcome of its transfer. Of what
is reported after the end nothing is assumed; it may be the opposite. The second invariant, `LateInv`, is for that: a
session has a late event only if its transfer had ended, and what it then reads is not PENDING_EXTERNAL (`Tardy`), so
that the check at lines 187 and 208 refuses it; no entry compensates for a late event; and a status is `Decided` by the
timely events. Without that check the three theorems are false. The hypothesis is needed as well: the status is
read before the row is locked and updated by id alone, so two transactions that both read PENDING_EXTERNAL and
carry contradictory results are both applied (`RailTerminal.cfg`). It holds of the instance of `rail`, and what
happens when one result has two event ids is in `rail_reconcile`.

**AuthSessionsProofs**: the invariant says what a call has read that can no longer change. A revocation that has
locked its session finds it ACTIVE until it commits, and one that found nothing to lock finds it ended (`Locked`);
what a refresh read of its token was true, and a token read as spent stays revoked (`Read`); a token that is revoked
in a session still ACTIVE was replaced by a refresh that has issued its successor (`Issued`), so that a second refresh
that finds it spent is a replay: `RevocationHasReason`. Proved: all five safety properties of `auth`, and the action property
`EndIsFinal`.

**CreditProofs**: a request past its insert owns its key (`Control`, `Recorder`, `Kept`, `Answered`: `OnePerKey`). What it
counted lies between what there was when it began and what there is now (`Counted`), because the steps of
`TransferOutcomes` never take an outcome back: `CountedInTime`. The score on record is that of the snapshot beside it
(`Traced`, a part of the invariant only). `ToldStands`: who was told that he decided has left a decision on the
assessment, which no later step turns back into a draft, whoever else overwrites it; so a review that begins
afterwards is refused when it loads the assessment, and is never past that (`Reviewing`) nor on record (`DecidedBy`). `MoreScoresMore` is arithmetic: each component is a
clamped quotient and so monotone, for every balance and count, not only those of the run. The average of the
balances is a sum over a set (`MapThenSumSet`, a recursive function of the library); that it is an integer is
proved by taking a subset of least size on which it would not be.

**StatementsProofs**: what has been shown is newer than the cursor (`Behind`), and a line that was there at the start is
shown, was named by a cursor, or is older than the cursor (`Accounted`); a page between its query and its answer holds
the newest lines below the cursor (`Found`). `OneList` follows, and `NothingElseMissing` for sizes within the cap. For the
others there is `Single`: such a statement ends with its first page, which above the cap is the newest lines, one more than
the cap if any is missing, and for a negative size is shorter than what the answer cuts off (`Most`). Below that is a fact about
`orderBy ... take`: the rows of a set are numbered by how many newer ones there are, no two alike, and so every
number is taken (pigeonhole). `Rows` is defined by that number and not with `SortSeq` of `TLC`, whose definition the
prover does not see.

**BatchProofs**: `IInv` says where an item is that is not finished: it is in the queue of its run, in the hands of
one of its workers, or of an account in a chunk to come (`Items`); a run that is past its pool has none left; what
it counted is what it found then (`Tally`); and the balances that a bulk upsert has written are those of the
snapshot plus the interest, for the accounts that earn and are not still to be written (`Bulk`). Workers and payers post
through `postJournalEntry` and are covered by `LedgerInvOf(Posters)`; the bulk statements of the runs are not, and are
dealt with here. Proved: `TypeCorrect`, `CompletedLeaves`, `ItemsTell`, `BalancesFollowTheEntries`.

`PostedOnce` (`InterestPostedOnce`) rests on a second invariant, `Exclusive`: no item is in two hands (the queue of a
caller, or a worker) nor in one while its chunk is to come (`Hands`); an operator who asks has nothing left of an
earlier retry (`Retrying`); and a worker that read its item as unfinished still finds it so (`Undone`). That is only
so while at most one operator retries failed items, which is the hypothesis `OneOperator` of the theorem. With two operators it is false of the code: run `batch_retries`. The runs of
the close need no hypothesis, because each has items of its own, and neither do failures, timeouts and lost
acknowledgements, which only lead to items that are `reopened`.

**PaymentsProofs** assumes what `TransfersProofs` and `ExternalRailProofs` do, and `PaymentsAssumption`. The invariants of the
two modules cannot be taken over: each has transfers, events and a queue to itself, and here the other half
changes them. `IInv` says what each half relies on. A request has a transfer only when it is past its commit, and has
checked its source before (`Request`); a session that has seen a transfer pending deals with an interbank
one that exists (`Session`), and owns the event it inserts (`Owner`); no entry is of a transfer that does not exist
(`Journalled`). A request is disturbed by the rail only in that the status of its committed interbank transfer becomes
final (`Resolves`) and jobs are added (`QueueGrows`), and a session by a request only in that new
transfers appear; both halves are proved from that. Proved without more: `PendingPublished`, `ImplementsLedger`,
`BalancesFollowJournal`.

`OutcomesImplemented`, the refinement of `TransferOutcomes`, has the hypothesis `OneReport`: whoever reports
a final result of a transfer reports the same one, and a failure under one id. It is needed for the reason given for
`ProvidersAgree`; the same id is needed because two failures with different ids, both read while the transfer is
pending, give the money back twice (`rail_reconcile`). It holds of the instance of `payments` (checked by TLC there, as `IInv`
was). With it, a transfer is `Sound`: a pending one has taken its amount, and how an interbank one ended is what its
provider decided, with the failure on record if it was compensated. So a second session that has read PENDING_EXTERNAL and
commits late carries the same result, and if that is a failure it cannot own its event. `taken` is a sum
over the journal (`FoldLeft`, a recursive function of the library on sets of positions). Two lemmas about it, `TakenAppend` (an
entry at the end adds its effect) and `TakenNothing` (entries of other transfers add nothing), are proved by taking a
set of positions of least size on which they would fail.

The strengthenings were checked with TLC on the instances of the runs before they were proved (`Exclusive` also with
two runs and an operator, and with an operator who retries twice).

Only model-checked: all liveness properties (`EveryRequestAnswered`, `JobsResolve`, `CreatedIsResolved`,
`EveryCallEnds`, `EveryCallAnswered`), because the prover handles neither fairness nor `ENABLED`. The properties that
runs refute are the subject of no theorem, but for `InterestPostedOnce` under `OneOperator` and `TerminalStays` under
`ProvidersAgree`.

## 5. What is not modelled

- *Provisioning*: upserts, each one transaction, that only activate principals and add roles; what two of them do
  to one row is decided by unique indexes alone, and nothing modelled depends on them.
- *Of credit*: the check that the approval threshold is above the rejection threshold (a configuration error,
  answered 500), the APPROVED or REJECTED that the policy suggests (no caller uses it), `getAssessmentById`.
- *Of statements*: account and ownership checks before the read, the encoding of the cursor, `getAccountForTransfer`
  (no state). That sizes below 1 reach the query at all (BR-018, `docs/01-business/business-rules.md:49`, has input
  validated at controllers) is in the model; what they should give is said nowhere.
- *`transfer-state-machine.ts`*: only its own test uses it. Its table (4-13) has no step from VALIDATED to
  PENDING_EXTERNAL, which `transfers.service.ts:210-217` takes and `docs/07-flows/state-machine.md:10` allows.
- *The scheduler and the inline mode of the queue*, which the tests use; `auditEvent` search; `getTransferById`,
  `getBatchRun`, `authenticateAccessToken`: they read and change nothing.
- *Money*: amounts are integers in minor units of one currency; mixed currencies are refused before the
  ledger sees them.
- *HTTP, configuration, front end, Java API, contracts, deployment*: stateless, or no core state.
- *Reconciling in `Payments`*: see section 2.
- Hazards no property of a run covers. Because nothing is promised: a run whose process died stays RUNNING and its
  PENDING items are never retried (`batch.service.ts:99`; `Reject` and `Stop` are in the model), and a close job that
  is delivered twice opens two runs (`batch.service.ts:46`). Because what is promised does not hold and nothing weaker is
  worth stating: the funds check on a stale balance and audit records after the commit (the configurations
  kept beside the runs; `credit.service.ts:225` is of the second kind). What is promised and does not hold of a lost
  acknowledgement (`batch.service.ts:514`) and of a snapshot (`credit.service.ts:66`) is in these
  configurations, too; the runs show what does hold.

## 6. Plan

1. The projection of an account that no upsert has overwritten is its opening balance plus the effects of the
   journal on it: the sums of `LedgerTruth`, with the fold lemmas of `PaymentsProofs`.
2. `OneTransferPerKey` and `AnswersAreTruthful` for `Payments`, where the status that an answer names may
   meanwhile have become final.
3. `Reconcile` in `Payments`, under the condition that it does not overlap a submission of the same transfer, so that
   the refinement covers what an operator does to a transfer whose job has failed.
4. What remains true of `batch` with two retrying operators: entries per item are bounded by the operators that
   read it as failed.
