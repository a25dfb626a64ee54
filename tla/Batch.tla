-------------------------------- MODULE Batch --------------------------------
(***************************************************************************)
(* BatchService: the end-of-day interest close.  A run takes a snapshot of *)
(* the active accounts, posts their interest chunk by chunk with bulk      *)
(* statements of its own, and item by item through LedgerService when a    *)
(* chunk fails; an operator retries the items that failed.  Items are      *)
(* processed by pools of workers, each item in a transaction.  Transfers   *)
(* go on meanwhile.                                                        *)
(*                                                                         *)
(* An item is RUNNING only inside transactions that overwrite the status   *)
(* before they commit, so that no other session ever reads it.             *)
(***************************************************************************)
EXTENDS Ledger, FiniteSets, Functions

CONSTANTS Runs,              \* deliveries of the close job; each creates a run of its name
          Operators,         \* operators that retry failed items
          Pool,              \* the item workers
          Caller,            \* Caller[w]: the run or the operator that worker w serves
          Payers,            \* sessions that post a transfer meanwhile
          Payments,          \* the entries they may post
          ById,              \* the active accounts in the order of their ids
          Linkings,          \* which accounts may have a ledger account
          InterestRevenue,   \* the INTEREST_REVENUE system ledger account
          InterestRateBps,
          BatchShardSize,
          MaxRetries,        \* bound on the retries an operator asks for
          MaxFaults          \* bound on what goes wrong of itself

Callers == Runs \cup Operators
Item == Runs \X Accounts

ASSUME BatchAssumption ==
    /\ Sessions = Callers \cup Pool \cup Payers
    /\ Runs \cap Operators = {} /\ Callers \cap (Pool \cup Payers) = {} /\ Pool \cap Payers = {}
    /\ Caller \in [Pool -> Callers]
    /\ Item \subseteq Causes /\ None \notin Item
    /\ \A e \in Payments : e \in Entry /\ e.cause \notin Item /\ Postable(e)
    /\ ById \in Seq(Accounts) /\ IsInjective(ById)
    /\ Linkings \subseteq SUBSET Accounts
    /\ \A e \in Payments, accounts \in Linkings : {e.debit, e.credit} \subseteq accounts \cup SystemAccounts
    /\ InterestRevenue \in SystemAccounts
    /\ InterestRateBps \in Nat
    /\ BatchShardSize \in Nat \ {0}
    /\ MaxRetries \in Nat
    /\ MaxFaults \in Nat

VARIABLES
    linked,    \* the accounts that have a ledger account; nothing creates one later
    run,       \* run[r]: status of the batch_run row, or "absent"
    item,      \* item[<<r, a>>]: committed status of a batch_run_item row, or "absent"
    audit,     \* committed audit events
    pc,        \* pc[p]: the statement a session is at
    snapshot,  \* snapshot[r]: the balances findMany returned to the run
    done,      \* done[r]: how many processable accounts the chunks have covered
    rows,      \* rows[r]: accounts whose balance the bulk upsert has still to write
    counted,   \* counted[r][s]: the count of the items of a run in status s, or None
    queue,     \* queue[c]: items the workers of a caller have not taken yet
    working,   \* working[w]: the item a worker processes, or None
    interest,  \* interest[w]: what it computed for the item
    retries,   \* retries[o]: how often an operator has asked
    reopened,  \* history: items that were marked FAILED when they were COMPLETED
    faults     \* how often something went wrong of itself

runVars  == <<linked, run, snapshot, done, rows, counted>>
history == <<reopened, faults>>
poolVars == <<queue, working, interest>>
batchVars == <<runVars, poolVars, item, audit, pc, retries, history>>
vars == <<ledgerVars, batchVars>>

Init ==
    /\ LedgerInit
    /\ linked \in Linkings
    /\ run = [r \in Runs |-> "absent"]
    /\ item = [i \in Item |-> "absent"]
    /\ audit = {}
    /\ pc = [p \in Sessions |-> "idle"]
    /\ snapshot = [r \in Runs |-> OpeningBalance]
    /\ done = [r \in Runs |-> 0]
    /\ rows = [r \in Runs |-> <<>>]
    /\ counted = [r \in Runs |-> [s \in {"COMPLETED", "FAILED"} |-> None]]
    /\ queue = [c \in Callers |-> {}]
    /\ working = [w \in Pool |-> None]
    /\ interest = [w \in Pool |-> 0]
    /\ retries = [o \in Operators |-> 0]
    /\ reopened = {}
    /\ faults = 0

-----------------------------------------------------------------------------
Goto(p, label) == pc' = [pc EXCEPT ![p] = label]

Fault ==
    /\ faults < MaxFaults
    /\ faults' = faults + 1
SetItem(i, s) == item' = [item EXCEPT ![i] = s]

\* Two truncating divisions.  A negative balance accrues nothing, whichever way
\* they round.
Interest(balance) == ((balance * InterestRateBps) \div 10000) \div 365

InterestEntry(i, amount) ==
    [operation |-> "END_OF_DAY_INTEREST", transfer |-> None, debit |-> InterestRevenue,
     credit |-> i[2], amount |-> amount, cause |-> i]

ActiveAccounts == Range(ById)

\* Accounts in the order of ById: each has as many before it as are of a smaller
\* id.
Place(a) == CHOOSE n \in DOMAIN ById : ById[n] = a
Earlier(S, a) == {b \in S : Place(b) < Place(a)}
Nth(S, n) == CHOOSE a \in S : Cardinality(Earlier(S, a)) = n - 1
InOrder(S) == [n \in 1 .. Cardinality(S) |-> Nth(S, n)]

Processable == InOrder(ActiveAccounts \cap linked)

-----------------------------------------------------------------------------
(* runBatch                                                                *)

\* batchRun.create
StartRun(r) ==
    /\ pc[r] = "idle"
    /\ run' = [run EXCEPT ![r] = "RUNNING"]
    /\ Goto(r, "findAccounts")
    /\ UNCHANGED <<ledgerVars, linked, snapshot, done, rows, counted, poolVars, item, audit, retries, history>>

\* account.findMany, with the balances.
FindAccounts(r) ==
    /\ pc[r] = "findAccounts"
    /\ snapshot' = [snapshot EXCEPT ![r] = projection]
    /\ Goto(r, "createItems")
    /\ UNCHANGED <<ledgerVars, linked, run, done, rows, counted, poolVars, item, audit, retries, history>>

\* batchRunItem.createMany; the accounts without a ledger account go to the
\* workers first.
CreateItems(r) ==
    /\ pc[r] = "createItems"
    /\ item' = [i \in Item |-> IF i[1] = r /\ i[2] \in ActiveAccounts THEN "PENDING" ELSE item[i]]
    /\ queue' = [queue EXCEPT ![r] = {<<r, a>> : a \in ActiveAccounts \ linked}]
    /\ Goto(r, "pool")
    /\ UNCHANGED <<ledgerVars, runVars, working, interest, audit, retries, history>>

Chunk(r) ==
    LET last == IF done[r] + BatchShardSize < Len(Processable)
                THEN done[r] + BatchShardSize ELSE Len(Processable)
    IN  SubSeq(Processable, done[r] + 1, last)
ItemsOf(r, accounts) == {r} \X Range(accounts)

\* Mutant: accounts that earn nothing get a journal entry, too.
InterestRows_All(r) == Chunk(r)

\* The accounts of a chunk that get a journal entry.
Earning(r) == {a \in Range(Chunk(r)) : Interest(snapshot[r][a]) > 0}
InterestRows(r) == InOrder(Earning(r))

\* updateMany to RUNNING, which locks the items, and the inserts.
BeginChunk(r) ==
    /\ pc[r] = "chunk"
    /\ \A i \in ItemsOf(r, Chunk(r)) : Free(r, CauseRow(i))
    /\ held' = [held EXCEPT ![r] = @ \cup {CauseRow(i) : i \in ItemsOf(r, Chunk(r))}]
    /\ rows' = [rows EXCEPT ![r] = InterestRows(r)]
    /\ Goto(r, "upsert")
    /\ UNCHANGED <<projection, journal, overwritten, sessionVars, linked, run, snapshot, done,
                   counted, poolVars, item, audit, retries, history>>

\* Mutant: the bulk upsert writes the balance without the interest.
RunningBalance_NoInterest(r, a) == snapshot[r][a]

\* What the upsert writes: computed from the snapshot of the run.
RunningBalance(r, a) == snapshot[r][a] + Interest(snapshot[r][a])

\* A row of upsertBalanceProjectionRows.  ON CONFLICT DO UPDATE waits for the
\* row and replaces its balance.
UpsertRow(r) ==
    /\ pc[r] = "upsert"
    /\ rows[r] # <<>>
    /\ LET a == Head(rows[r]) IN
       /\ Acquire(r, ProjectionRow(a))
       /\ newBalance' = [newBalance EXCEPT ![r][a] = RunningBalance(r, a)]
       /\ overwritten' = overwritten \cup {b \in {a} : projection[b] # snapshot[r][b]}
    /\ rows' = [rows EXCEPT ![r] = Tail(@)]
    /\ UNCHANGED <<projection, journal, entry, todo, balanceRead, linked, run, snapshot, done,
                   counted, poolVars, item, audit, pc, retries, history>>

ChunkEntries(r) ==
    [n \in DOMAIN InterestRows(r) |->
        InterestEntry(<<r, InterestRows(r)[n]>>, Interest(snapshot[r][InterestRows(r)[n]]))]

\* The catch of a chunk: its items go to the workers.
NextChunk(r, failed) ==
    /\ queue' = [queue EXCEPT ![r] = IF failed THEN ItemsOf(r, Chunk(r)) ELSE {}]
    /\ done' = [done EXCEPT ![r] = @ + Len(Chunk(r))]
    /\ rows' = [rows EXCEPT ![r] = <<>>]
    /\ Goto(r, "pool")

\* updateMany to COMPLETED and COMMIT.  The acknowledgement may be lost: then
\* the chunk has failed as far as the run can tell.
CommitChunk(r) ==
    /\ pc[r] = "upsert"
    /\ rows[r] = <<>>
    /\ projection' = [a \in Accounts |->
                        IF newBalance[r][a] = None THEN projection[a] ELSE newBalance[r][a]]
    /\ journal' = journal \o ChunkEntries(r)
    /\ item' = [i \in Item |-> IF i \in ItemsOf(r, Chunk(r)) THEN "COMPLETED" ELSE item[i]]
    /\ EndTransaction(r)
    /\ \/ NextChunk(r, FALSE) /\ UNCHANGED history
       \/ NextChunk(r, TRUE) /\ Fault /\ UNCHANGED reopened
    /\ UNCHANGED <<overwritten, linked, run, snapshot, counted, working, interest, audit, retries>>

\* Mutant: a chunk that fails is skipped.
FailChunk_Skipped(r) ==
    /\ pc[r] \in {"chunk", "upsert"}
    /\ RollbackEntry(r)
    /\ NextChunk(r, FALSE)
    /\ UNCHANGED <<linked, run, snapshot, counted, working, interest, item, audit, retries, reopened>>

\* Mutant: a chunk that fails leaves its transaction open.
FailChunk_StillOpen(r) ==
    /\ pc[r] \in {"chunk", "upsert"}
    /\ NextChunk(r, TRUE)
    /\ UNCHANGED <<ledgerVars, linked, run, snapshot, counted, working, interest, item, audit,
                   retries, reopened>>

\* Mutant: the fallback takes the chunk back only in part: the entries stay.
FailChunk_Posted(r) ==
    /\ pc[r] \in {"chunk", "upsert"}
    /\ journal' = journal \o ChunkEntries(r)
    /\ EndTransaction(r)
    /\ NextChunk(r, TRUE)
    /\ UNCHANGED <<projection, overwritten, linked, run, snapshot, counted, working, interest,
                   item, audit, retries, reopened>>

FailChunk(r) ==
    /\ pc[r] \in {"chunk", "upsert"}
    /\ RollbackEntry(r)
    /\ NextChunk(r, TRUE)
    /\ UNCHANGED <<linked, run, snapshot, counted, working, interest, item, audit, retries, reopened>>

InStatus(r, s) == {i \in Item : i[1] = r /\ item[i] = s}

\* One of the counts; the three are sent at once and answered in any order.
\* The count of all the items of the run does not change any more.
Count(r) == \E s \in {"COMPLETED", "FAILED"} :
    /\ pc[r] = "count"
    /\ counted[r][s] = None
    /\ counted' = [counted EXCEPT ![r][s] = Cardinality(InStatus(r, s))]
    /\ UNCHANGED <<ledgerVars, linked, run, snapshot, done, rows, poolVars, item, audit, pc, retries, history>>

FinalStatus(r) ==
    IF counted[r]["FAILED"] = 0 THEN "COMPLETED"
    ELSE IF counted[r]["COMPLETED"] > 0 THEN "PARTIALLY_FAILED" ELSE "FAILED"

\* batchRun.update
FinishRun(r) ==
    /\ pc[r] = "count"
    /\ \A s \in DOMAIN counted[r] : counted[r][s] # None
    /\ run' = [run EXCEPT ![r] = FinalStatus(r)]
    /\ Goto(r, "audit")
    /\ UNCHANGED <<ledgerVars, linked, snapshot, done, rows, counted, poolVars, item, audit, retries, history>>

-----------------------------------------------------------------------------
(* retryFailedItems                                                        *)

\* findMany of the FAILED items of a run; without one the operator is answered
\* at once.
Retry(o) == \E r \in Runs :
    /\ pc[o] = "idle"
    /\ run[r] # "absent"
    /\ retries[o] < MaxRetries
    /\ InStatus(r, "FAILED") # {}
    /\ retries' = [retries EXCEPT ![o] = @ + 1]
    /\ queue' = [queue EXCEPT ![o] = InStatus(r, "FAILED")]
    /\ Goto(o, "pool")
    /\ UNCHANGED <<ledgerVars, runVars, working, interest, item, audit, history>>

\* The audit record that ends a run or a retry.
Audit(c) ==
    /\ pc[c] = "audit"
    /\ audit' = audit \cup {IF c \in Runs THEN <<"batch.completed", c, run[c]>>
                           ELSE <<"batch.retry_requested", c, retries[c]>>}
    /\ Goto(c, IF c \in Runs THEN "done" ELSE "idle")
    /\ UNCHANGED <<ledgerVars, runVars, poolVars, item, retries, history>>

-----------------------------------------------------------------------------
(* processBatchItems and processBatchItem                                  *)

\* A worker takes the next item, whichever that is: items share nothing.
TakeItem(w) == \E i \in queue[Caller[w]] :
    /\ pc[w] = "idle"
    /\ queue' = [queue EXCEPT ![Caller[w]] = @ \ {i}]
    /\ working' = [working EXCEPT ![w] = i]
    /\ Goto(w, "readItem")
    /\ UNCHANGED <<ledgerVars, runVars, interest, item, audit, retries, history>>

\* The workers of a caller have returned.
PoolDone(c) ==
    /\ pc[c] = "pool"
    /\ queue[c] = {}
    /\ \A w \in Pool : Caller[w] = c => pc[w] = "idle"
    /\ Goto(c, IF c \in Operators THEN "audit"
               ELSE IF done[c] < Len(Processable) THEN "chunk" ELSE "count")
    /\ UNCHANGED <<ledgerVars, runVars, poolVars, item, audit, retries, history>>

\* The worker is through with its item and looks for another.
ItemDone(w) ==
    /\ Goto(w, "idle")
    /\ working' = [working EXCEPT ![w] = None]
    /\ interest' = [interest EXCEPT ![w] = 0]
    /\ UNCHANGED <<queue, runVars, audit, retries>>

\* Mutant: a completed item is processed again.
ReadItem_Again(w) ==
    /\ pc[w] = "readItem"
    /\ Goto(w, "readAccount")
    /\ UNCHANGED <<ledgerVars, runVars, poolVars, item, audit, retries, history>>

\* batchRunItem.findUnique: an unlocked read.
ReadItem(w) ==
    /\ pc[w] = "readItem"
    /\ \/ /\ item[working[w]] = "COMPLETED"
          /\ ItemDone(w)
       \/ /\ item[working[w]] # "COMPLETED"
          /\ Goto(w, "readAccount")
          /\ UNCHANGED <<runVars, poolVars, audit, retries>>
    /\ UNCHANGED <<ledgerVars, item, history>>

\* The transaction of an item throws and is rolled back; the catch comes next.
Throw(w) ==
    /\ RollbackEntry(w)
    /\ Goto(w, "markFailed")
    /\ UNCHANGED <<runVars, poolVars, item, audit, retries, reopened>>

\* account.findUnique, with its balance.
ReadAccount(w) ==
    /\ pc[w] = "readAccount"
    /\ \/ /\ working[w][2] \notin linked
          /\ Throw(w)
          /\ UNCHANGED faults
       \/ /\ working[w][2] \in linked
          /\ interest' = [interest EXCEPT ![w] = Interest(projection[working[w][2]])]
          /\ Goto(w, "markRunning")
          /\ UNCHANGED <<ledgerVars, runVars, queue, working, item, audit, retries, history>>

\* batchRunItem.update to RUNNING by id, which locks the item but does not look
\* at its status again; then the journal entry, if there is interest to post.
MarkRunning(w) ==
    /\ pc[w] = "markRunning"
    /\ Acquire(w, CauseRow(working[w]))
    /\ \/ /\ interest[w] > 0
          /\ OpenEntry(w, InterestEntry(working[w], interest[w]))
       \/ /\ interest[w] <= 0
          /\ UNCHANGED <<projection, journal, overwritten, sessionVars>>
    /\ Goto(w, "post")
    /\ UNCHANGED <<runVars, poolVars, item, audit, retries, history>>

\* A statement of postJournalEntry, for an item or for a transfer.
Post(p) ==
    /\ pc[p] = "post"
    /\ ReadProjection(p) \/ UpsertProjection(p)
    /\ UNCHANGED batchVars

\* batchRunItem.update to COMPLETED and COMMIT, whose acknowledgement may be
\* lost, too.
CommitItem(w) ==
    /\ pc[w] = "post"
    /\ CommitEntry(w)
    /\ SetItem(working[w], "COMPLETED")
    /\ \/ ItemDone(w) /\ UNCHANGED history
       \/ /\ Goto(w, "markFailed")
          /\ Fault
          /\ UNCHANGED <<runVars, poolVars, audit, retries, reopened>>

\* The catch: the item is FAILED whatever it is now.  The statement is its own
\* transaction.
MarkFailed(w) ==
    /\ pc[w] = "markFailed"
    /\ Free(w, CauseRow(working[w]))
    /\ SetItem(working[w], "FAILED")
    /\ reopened' = reopened \cup {i \in {working[w]} : item[i] = "COMPLETED"}
    /\ ItemDone(w)
    /\ UNCHANGED <<ledgerVars, faults>>

-----------------------------------------------------------------------------
(* Transfers, as far as the ledger is concerned.                           *)

OpenPayment(p) == \E e \in Payments :
    /\ pc[p] = "idle"
    /\ OpenEntry(p, e)
    /\ Goto(p, "post")
    /\ UNCHANGED <<held, runVars, poolVars, item, audit, retries, history>>

CommitPayment(p) ==
    /\ pc[p] = "post"
    /\ CommitEntry(p)
    /\ Goto(p, "done")
    /\ UNCHANGED <<runVars, poolVars, item, audit, retries, history>>

AbandonPayment(p) ==
    /\ pc[p] = "post"
    /\ RollbackEntry(p)
    /\ Goto(p, "done")
    /\ UNCHANGED <<runVars, poolVars, item, audit, retries, reopened>>

-----------------------------------------------------------------------------
\* A transaction is rolled back.
Abort(p) ==
    \/ p \in Runs /\ FailChunk(p)
    \/ p \in Pool /\ pc[p] \in {"readItem", "readAccount", "markRunning", "post"} /\ Throw(p)
    \/ p \in Payers /\ AbandonPayment(p)

\* A statement outside a transaction fails, or the process dies: runBatch or
\* retryFailedItems rejects, and nobody takes it up again.
Reject(c) ==
    /\ pc[c] \in {"findAccounts", "createItems", "pool", "count", "audit"}
    /\ Goto(c, "dead")
    /\ Fault
    /\ UNCHANGED <<ledgerVars, runVars, poolVars, item, audit, retries, reopened>>

\* A worker of a call that is over either goes on with what is left, unheeded,
\* or stops: its catch failed, or the process died.
Stop(w) ==
    /\ pc[Caller[w]] = "dead"
    /\ pc[w] # "dead"
    /\ RollbackEntry(w)
    /\ Goto(w, "dead")
    /\ UNCHANGED <<runVars, poolVars, item, audit, retries, history>>

Wanted == [p \in Sessions |->
    CASE pc[p] = "upsert" /\ rows[p] # <<>> -> {ProjectionRow(Head(rows[p]))}
      [] pc[p] = "markRunning" -> {CauseRow(working[p])}
      [] pc[p] = "post" /\ balanceRead[p] # None -> {ProjectionRow(NextAccount(p))}
      [] OTHER -> {}]

DeadlockVictim(p) == Deadlocked(p, Wanted) /\ Abort(p) /\ UNCHANGED faults

\* A statement fails, the transaction times out.
Fail(p) == Abort(p) /\ Fault

RunStep(r) ==
    \/ FindAccounts(r) \/ CreateItems(r)
    \/ BeginChunk(r) \/ UpsertRow(r) \/ CommitChunk(r)
    \/ Count(r) \/ FinishRun(r)

ItemStep(w) ==
    \/ TakeItem(w) \/ ReadItem(w) \/ ReadAccount(w) \/ MarkRunning(w)
    \/ Post(w) \/ CommitItem(w) \/ MarkFailed(w)

Step(p) ==
    \/ p \in Runs /\ RunStep(p)
    \/ p \in Callers /\ (PoolDone(p) \/ Audit(p))
    \/ p \in Pool /\ ItemStep(p)
    \/ p \in Payers /\ (Post(p) \/ CommitPayment(p))
    \/ DeadlockVictim(p)

Next ==
    \/ \E p \in Sessions : Step(p) \/ Fail(p)
    \/ \E c \in Callers : Reject(c)
    \/ \E w \in Pool : Stop(w)
    \/ \E r \in Runs : StartRun(r)
    \/ \E o \in Operators : Retry(o)
    \/ \E p \in Payers : OpenPayment(p)

Spec == Init /\ [][Next]_vars

\* What runs is not abandoned by the event loop or the database; the close
\* window, the operators and the payers are free to come or not.
FairSpec == Spec /\ \A p \in Sessions : WF_vars(Step(p))

-----------------------------------------------------------------------------
TypeOK ==
    /\ LedgerTypeOK
    /\ run \in [Runs -> {"absent", "RUNNING", "COMPLETED", "PARTIALLY_FAILED", "FAILED"}]
    /\ item \in [Item -> {"absent", "PENDING", "COMPLETED", "FAILED"}]
    /\ pc \in [Sessions -> {"idle", "findAccounts", "createItems", "pool", "chunk", "upsert",
                              "count", "audit", "readItem", "readAccount", "markRunning",
                              "post", "markFailed", "done", "dead"}]
    /\ snapshot \in [Runs -> [Accounts -> Int]]
    /\ done \in [Runs -> 0 .. Len(Processable)]
    /\ rows \in [Runs -> Seq(linked)]
    /\ counted \in [Runs -> [{"COMPLETED", "FAILED"} -> 0 .. Len(ById) \cup {None}]]
    /\ queue \in [Callers -> SUBSET Item]
    /\ working \in [Pool -> Item \cup {None}]
    /\ interest \in [Pool -> Int]
    /\ retries \in [Operators -> 0 .. MaxRetries]
    /\ reopened \subseteq Item
    /\ faults \in 0 .. MaxFaults

\* "Batch retries must not duplicate interest postings": whatever fails on the
\* way, an account gets the interest of a run once -- unless its item was marked
\* FAILED after it had been completed, which a lost acknowledgement brings about.
InterestPostedOnce ==
    \A m, n \in DOMAIN journal :
        journal[m].cause = journal[n].cause /\ journal[m].cause \in Item \ reopened => m = n

\* "Batch retries must not duplicate interest postings or other money movement",
\* whatever becomes of an acknowledgement.
RetriesNeverDuplicate ==
    \A m, n \in DOMAIN journal :
        journal[m].cause = journal[n].cause /\ journal[m].cause \in Item => m = n

\* "Batch completion evidence must include counts ... and failure summary": a
\* run that says COMPLETED has left no item behind, FAILED or PENDING, however
\* its chunks failed and whatever was retried while it counted.  A run that has
\* ended in any way has left no item PENDING, for nobody retries those.
CompletedLeavesNothing ==
    \A r \in Runs, a \in ActiveAccounts :
        /\ run[r] = "COMPLETED" /\ <<r, a>> \notin reopened => item[<<r, a>>] = "COMPLETED"
        /\ run[r] \in {"COMPLETED", "PARTIALLY_FAILED", "FAILED"} => item[<<r, a>>] # "PENDING"

\* An item that a retry may take has posted nothing: whatever the chunk, the
\* pools and the failures did, the interest of an account is in the journal only
\* if its item says COMPLETED, or was marked FAILED after it had said so.
ItemTellsLedger ==
    \A n \in DOMAIN journal :
        journal[n].cause \in Item \ reopened => item[journal[n].cause] = "COMPLETED"

\* The entries of a step move the balances, and nothing else does -- as long as
\* no upsert has replaced a balance it was not computed from.  A chunk appends
\* an entry for each of its accounts, an item or a transfer one.
BalancesFollowEntries ==
    [][\A a \in Accounts \ overwritten :
          LET posted == {n \in DOMAIN journal' \ DOMAIN journal : Effect(journal'[n], a) # 0} IN
          IF posted = {} THEN projection'[a] = projection[a]
          ELSE \E n \in posted : posted = {n} /\ projection'[a] = projection[a] + Effect(journal'[n], a)]_vars

AtRest == {"idle", "done", "dead"}

\* A run or a retry ends: chunks, items and transfers that wait for one
\* another's rows do not wait forever.
EveryCallEnds == \A c \in Callers : []<>(pc[c] \in AtRest)
=============================================================================
