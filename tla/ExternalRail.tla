---------------------------- MODULE ExternalRail ----------------------------
(***************************************************************************)
(* ExternalRailService: what happens to an interbank transfer once it is   *)
(* PENDING_EXTERNAL.  Workers take submission jobs from the pg-boss queue, *)
(* ops operators reconcile and redrive, providers call back; all of them   *)
(* end in applyNormalizedEvent, a transaction modelled statement by        *)
(* statement, followed by an audit record outside it.  The transfers,      *)
(* created and debited, and their first jobs are in the initial state.     *)
(***************************************************************************)
EXTENDS Ledger, FiniteSets

CONSTANTS Workers,      \* sessions that run the external-transfer.submit handler
          Operators,    \* sessions that serve one ops reconcile or redrive
          Callbacks,    \* sessions that serve one provider callback
          Pending,      \* the transfers waiting for their provider
          Detail,       \* Detail[t]: source, clearing, amount, outcome, ref
          Queued,       \* the transfers of the jobs in the queue at the start
          Inbound,      \* the normalized events providers may call back with
          Late,         \* those of them that come only once their transfer has ended
          RetryLimit,   \* how often pg-boss retries a job
          MaxJobs       \* bound on the jobs ever published, which bounds redrives

\* transfer_request.status, once its provider has it.
Status == {"PENDING_EXTERNAL", "SETTLED", "FAILED", "COMPENSATED"}

ASSUME RailAssumption ==
    /\ None \notin Status
    /\ Workers \cup Operators \cup Callbacks \subseteq Sessions
    /\ Workers \cap (Operators \cup Callbacks) = {}
    /\ Operators \cap Callbacks = {}
    /\ Pending \subseteq TransferIds
    /\ Queued \in Seq(Pending)
    /\ Late \subseteq Inbound
    /\ RetryLimit \in Nat
    /\ MaxJobs \in Nat
    /\ \A t \in Pending :
          /\ Detail[t].source \in Accounts
          /\ Detail[t].clearing \in SystemAccounts
          /\ Detail[t].amount \in Nat \ {0}
          /\ Detail[t].outcome \in {"SETTLED", "FAILED"}

VARIABLES
    status,   \* status[t]: transfer_request.status, committed
    events,   \* external_transfer_event rows, committed
    audit,    \* audit_event rows, committed
    job,      \* the rows of the queue in the order they were published
    pc,       \* pc[p]: where a session is
    inbox,    \* inbox[p]: normalized events it has still to apply
    target,   \* target[p]: the transfer it works on, or None
    seen,     \* seen[p]: the status applyNormalizedEvent read
    row,      \* row[p]: the status it has written, uncommitted, or None
    serving   \* serving[p]: the job a worker runs, or 0

sessionState == <<pc, inbox, target, seen, row, serving>>
railVars == <<status, events, audit, job, sessionState>>
vars == <<ledgerVars, railVars>>

Users == Workers \cup Operators \cup Callbacks

\* A row of the queue.
Job == [transfer : Pending, tries : 0 .. RetryLimit,
        state : {"created", "active", "completed", "failed"}]
NewJob(t) == [transfer |-> t, state |-> "created", tries |-> 0]

\* The transfers are as createTransfer leaves them; the journal starts after
\* their initiating entries, whose effect is in the opening balances.
Init ==
    /\ LedgerInit
    /\ status = [t \in Pending |-> "PENDING_EXTERNAL"]
    /\ events = {}
    /\ audit = {}
    /\ job = [j \in DOMAIN Queued |-> NewJob(Queued[j])]
    /\ pc = [p \in Users |-> "idle"]
    /\ inbox = [p \in Users |-> <<>>]
    /\ target = [p \in Users |-> None]
    /\ seen = [p \in Users |-> None]
    /\ row = [p \in Users |-> None]
    /\ serving = [p \in Users |-> 0]

-----------------------------------------------------------------------------
\* A normalized event; its id is unique per provider, here per event.
Event(t, id, type) == [id |-> id, transfer |-> t, ref |-> Detail[t].ref, type |-> type]

\* The outcome is decided by the destination number, whoever asks; the id says
\* who asked.
TerminalEvent(t, reason) ==
    Event(t, <<t, reason, Detail[t].outcome>>, Detail[t].outcome)

\* adapter.submitTransfer and adapter.reconcileTransfer of the two adapters.
SubmitTransfer(t) ==
    <<Event(t, <<t, "submit", "ACKNOWLEDGED">>, "ACKNOWLEDGED"), TerminalEvent(t, "submit")>>
ReconcileEvents(t) == <<TerminalEvent(t, "reconcile")>>

\* findFirst by id or external reference.
Matches(e) == {t \in Pending : t = e.transfer \/ Detail[t].ref = e.ref}

\* Mutant: the unique index on (provider, providerEventId) is missing.
Recorded_Never(id) == FALSE

\* externalTransferEvent.findUnique, and what the unique index forbids.
Recorded(id) == \E e \in events : e.id = id

\* What the adapters report, and what is not reported late.
Adapted ==
    {Event(t, <<t, "submit", "ACKNOWLEDGED">>, "ACKNOWLEDGED") : t \in Pending}
        \cup {TerminalEvent(t, reason) : t \in Pending, reason \in {"submit", "reconcile"}}
OnTime == Adapted \cup (Inbound \ Late)

\* All that adapters and providers may report.
Normalized == Adapted \cup Inbound

LateIds == {e.id : e \in Late}

\* normalizeInboundEvent lets no other type pass.  A late event has an id of its
\* own.  The id of the event that records a compensation is made from that of
\* the event it compensates, and providers do not use such ids.
ASSUME EventAssumption ==
    /\ Normalized \subseteq [id : Causes, transfer : {e.transfer : e \in Normalized},
                             ref : {e.ref : e \in Normalized},
                             type : {"ACKNOWLEDGED", "SETTLED", "FAILED"}]
    /\ \A e \in OnTime : e.id \notin LateIds
    /\ \A c \in Causes : <<c, "compensated">> \notin Causes

CompensationEntry(t, id) ==
    [operation |-> "INTERBANK_TRANSFER_COMPENSATION", transfer |-> t,
     debit |-> Detail[t].clearing, credit |-> Detail[t].source,
     amount |-> Detail[t].amount, cause |-> id]

Goto(p, label) == pc' = [pc EXCEPT ![p] = label]

-----------------------------------------------------------------------------
(* pg-boss, as the jobs service uses it: at least once, RetryLimit retries. *)

JobState(j, s) == job' = [job EXCEPT ![j].state = s]

\* A failed or expired run of a job: back in the queue, or given up.
Retried(r) ==
    IF r.state # "active" THEN r
    ELSE IF r.tries < RetryLimit THEN [r EXCEPT !.state = "created", !.tries = r.tries + 1]
    ELSE [r EXCEPT !.state = "failed"]
Retry(j) == job' = [job EXCEPT ![j] = Retried(job[j])]

\* The run of a job outlives its expiry; a worker may still be at it.
Expire(j) ==
    /\ job[j].state = "active"
    /\ Retry(j)
    /\ UNCHANGED <<ledgerVars, status, events, audit, sessionState>>

\* Fetch a job and load its transfer: processQueuedSubmission returns at once
\* unless the transfer is pending, and otherwise submits it.
FetchJob(w, j) ==
    /\ pc[w] = "idle"
    /\ job[j].state = "created"
    /\ LET t == job[j].transfer IN
       \/ /\ status[t] # "PENDING_EXTERNAL"
          /\ JobState(j, "completed")
          /\ UNCHANGED <<pc, inbox, serving>>
       \/ /\ status[t] = "PENDING_EXTERNAL"
          /\ JobState(j, "active")
          /\ inbox' = [inbox EXCEPT ![w] = SubmitTransfer(t)]
          /\ serving' = [serving EXCEPT ![w] = j]
          /\ Goto(w, "read")
    /\ UNCHANGED <<ledgerVars, status, events, audit, target, seen, row>>

\* An operator reconciles a transfer, whatever its status.
Reconcile(o, t) ==
    /\ pc[o] = "idle"
    /\ inbox' = [inbox EXCEPT ![o] = ReconcileEvents(t)]
    /\ Goto(o, "read")
    /\ UNCHANGED <<ledgerVars, status, events, audit, job, target, seen, row, serving>>

\* An operator asks to redrive a transfer: 409 unless it is pending.
Redrive(o, t) ==
    /\ pc[o] = "idle"
    /\ target' = [target EXCEPT ![o] = t]
    /\ Goto(o, IF status[t] = "PENDING_EXTERNAL" THEN "publish" ELSE "done")
    /\ UNCHANGED <<ledgerVars, status, events, audit, job, inbox, seen, row, serving>>

Publish(o) ==
    /\ pc[o] = "publish"
    /\ Len(job) < MaxJobs
    /\ job' = Append(job, NewJob(target[o]))
    /\ Goto(o, "auditRedriven")
    /\ UNCHANGED <<ledgerVars, status, events, audit, inbox, target, seen, row, serving>>

\* ingestProviderEvent
Callback(c, e) ==
    /\ pc[c] = "idle"
    /\ inbox' = [inbox EXCEPT ![c] = <<e>>]
    /\ Goto(c, "read")
    /\ UNCHANGED <<ledgerVars, status, events, audit, job, target, seen, row, serving>>

-----------------------------------------------------------------------------
(* applyNormalizedEvent, for the head of the inbox.                        *)

\* The two lookups.  An event that is on record is not applied again; its
\* transaction commits having written nothing.
ReadState(p) ==
    /\ pc[p] = "read"
    /\ \E t \in Matches(Head(inbox[p])) :
          /\ target' = [target EXCEPT ![p] = t]
          /\ seen' = [seen EXCEPT ![p] = status[t]]
    /\ Goto(p, IF Recorded(Head(inbox[p]).id) THEN "audit" ELSE "insert")
    /\ UNCHANGED <<ledgerVars, status, events, audit, job, inbox, row, serving>>

\* Mutant: a handler that fails leaves its transaction open.
Abandon_StillOpen(p) ==
    /\ Goto(p, IF p \in Workers THEN "idle" ELSE "done")
    /\ inbox' = [inbox EXCEPT ![p] = <<>>]
    /\ target' = [target EXCEPT ![p] = None]
    /\ seen' = [seen EXCEPT ![p] = None]
    /\ row' = [row EXCEPT ![p] = None]
    /\ serving' = [serving EXCEPT ![p] = 0]
    /\ UNCHANGED <<ledgerVars, status, events, audit>>

\* Everything of the session is dropped, its transaction rolled back.
Abandon(p) ==
    /\ RollbackEntry(p)
    /\ Goto(p, IF p \in Workers THEN "idle" ELSE "done")
    /\ inbox' = [inbox EXCEPT ![p] = <<>>]
    /\ target' = [target EXCEPT ![p] = None]
    /\ seen' = [seen EXCEPT ![p] = None]
    /\ row' = [row EXCEPT ![p] = None]
    /\ serving' = [serving EXCEPT ![p] = 0]
    /\ UNCHANGED <<status, events, audit>>

\* Mutant: the handler of a job swallows its errors, and the job completes.
Throw_Swallowed(p) ==
    /\ Abandon(p)
    /\ IF p \in Workers THEN JobState(serving[p], "completed") ELSE UNCHANGED job

\* The handler throws.  pg-boss retries the job of a worker; a caller gets an
\* error.
Throw(p) ==
    /\ Abandon(p)
    /\ IF p \in Workers THEN Retry(serving[p]) ELSE UNCHANGED job

\* Mutant: a terminal event is applied whatever the status of its transfer.
InsertEvent_AnyStatus(p) ==
    /\ pc[p] = "insert"
    /\ Free(p, CauseRow(Head(inbox[p]).id))
    /\ \/ /\ Recorded(Head(inbox[p]).id)
          /\ Throw(p)
       \/ /\ ~ Recorded(Head(inbox[p]).id)
          /\ Acquire(p, CauseRow(Head(inbox[p]).id))
          /\ Goto(p, IF Head(inbox[p]).type = "ACKNOWLEDGED" THEN "commit" ELSE "update")
          /\ UNCHANGED <<projection, journal, overwritten, sessionVars, status, events,
                         audit, job, inbox, target, seen, row, serving>>

\* externalTransferEvent.create: it waits for an open insert of the same id and
\* violates the unique index once that has committed.
InsertEvent(p) ==
    /\ pc[p] = "insert"
    /\ Free(p, CauseRow(Head(inbox[p]).id))
    /\ \/ /\ Recorded(Head(inbox[p]).id)
          /\ Throw(p)
       \/ /\ ~ Recorded(Head(inbox[p]).id)
          /\ Acquire(p, CauseRow(Head(inbox[p]).id))
          /\ Goto(p, IF Head(inbox[p]).type = "ACKNOWLEDGED" \/ seen[p] # "PENDING_EXTERNAL"
                     THEN "commit" ELSE "update")
          /\ UNCHANGED <<projection, journal, overwritten, sessionVars, status, events,
                         audit, job, inbox, target, seen, row, serving>>

\* The update is by id alone: what decides is the status read before, whatever
\* has been committed to the row since.
MarkSettled(p) ==
    /\ pc[p] = "update"
    /\ Head(inbox[p]).type = "SETTLED"
    /\ Acquire(p, TransferRow(target[p]))
    /\ row' = [row EXCEPT ![p] = "SETTLED"]
    /\ Goto(p, "commit")
    /\ UNCHANGED <<projection, journal, overwritten, sessionVars, status, events,
                   audit, job, inbox, target, seen, serving>>

\* FAILED, then the compensating entry.
MarkFailed(p) ==
    /\ pc[p] = "update"
    /\ Head(inbox[p]).type = "FAILED"
    /\ Acquire(p, TransferRow(target[p]))
    /\ row' = [row EXCEPT ![p] = "FAILED"]
    /\ OpenEntry(p, CompensationEntry(target[p], Head(inbox[p]).id))
    /\ Goto(p, "post")
    /\ UNCHANGED <<status, events, audit, job, inbox, target, seen, serving>>

Post(p) ==
    /\ pc[p] = "post"
    /\ ReadProjection(p) \/ UpsertProjection(p)
    /\ UNCHANGED railVars

\* Mutant: the compensated transfer stays FAILED.
MarkCompensated_Skipped(p) ==
    /\ pc[p] = "post"
    /\ Posted(p)
    /\ Goto(p, "commit")
    /\ UNCHANGED <<ledgerVars, row, status, events, audit, job, inbox, target, seen, serving>>

\* The last update of the transfer, after the compensating entry is posted.
MarkCompensated(p) ==
    /\ pc[p] = "post"
    /\ Posted(p)
    /\ row' = [row EXCEPT ![p] = "COMPENSATED"]
    /\ Goto(p, "commit")
    /\ UNCHANGED <<ledgerVars, status, events, audit, job, inbox, target, seen, serving>>

\* Mutant: the compensation leaves no event of its own.
NewEvents_Silent(p) == {[Head(inbox[p]) EXCEPT !.transfer = target[p]]}

\* The rows external_transfer_event gets: the event, and what it compensated.
NewEvents(p) ==
    LET e == [Head(inbox[p]) EXCEPT !.transfer = target[p]] IN
    {e} \cup {[e EXCEPT !.id = <<e.id, "compensated">>, !.type = "COMPENSATED"] :
                  x \in {row[p]} \cap {"COMPENSATED"}}

Commit(p) ==
    /\ pc[p] = "commit"
    /\ CommitEntry(p)
    /\ status' = [status EXCEPT ![target[p]] = IF row[p] = None THEN @ ELSE row[p]]
    /\ events' = events \cup NewEvents(p)
    /\ Goto(p, "audit")
    /\ UNCHANGED <<audit, job, inbox, target, seen, row, serving>>

AuditAction(type, s) ==
    CASE type = "ACKNOWLEDGED" -> "transfer.external_acknowledged"
      [] type = "SETTLED" -> "transfer.settled"
      [] type = "FAILED" -> IF s = "COMPENSATED" THEN "transfer.compensated" ELSE "transfer.failed"

\* After the transaction: auditService.record, then the next event of the inbox
\* or the end of the handler.
Audit(p) ==
    /\ pc[p] = "audit"
    /\ audit' = audit \cup {<<AuditAction(Head(inbox[p]).type,
                                         IF row[p] = None THEN seen[p] ELSE row[p]), target[p]>>}
    /\ inbox' = [inbox EXCEPT ![p] = Tail(@)]
    /\ row' = [row EXCEPT ![p] = None]
    /\ seen' = [seen EXCEPT ![p] = None]
    /\ Goto(p, IF Len(inbox[p]) > 1 THEN "read"
               ELSE IF p \in Workers THEN "complete"
               ELSE IF p \in Operators THEN "auditReconciled" ELSE "done")
    /\ UNCHANGED <<ledgerVars, status, events, job, target, serving>>

\* The handler of a job returns; pg-boss completes the job if it is active.
CompleteJob(w) ==
    /\ pc[w] = "complete"
    /\ job' = [job EXCEPT ![serving[w]].state = IF @ = "active" THEN "completed" ELSE @]
    /\ Goto(w, "idle")
    /\ target' = [target EXCEPT ![w] = None]
    /\ serving' = [serving EXCEPT ![w] = 0]
    /\ UNCHANGED <<ledgerVars, status, events, audit, inbox, seen, row>>

\* The audit record of the operator's own action.
AuditOperator(o) ==
    /\ pc[o] \in {"auditReconciled", "auditRedriven"}
    /\ audit' = audit \cup {<<IF pc[o] = "auditRedriven" THEN "transfer.redriven"
                              ELSE "transfer.reconciled", target[o]>>}
    /\ Goto(o, "done")
    /\ UNCHANGED <<ledgerVars, status, events, job, inbox, target, seen, row, serving>>

\* A statement fails, a transaction times out, or the process dies; then a job
\* stays active until it expires.
Fail(p) ==
    /\ pc[p] \notin {"idle", "done"}
    /\ Throw(p) \/ (Abandon(p) /\ UNCHANGED job)

-----------------------------------------------------------------------------
Apply(p) ==
    \/ ReadState(p) \/ InsertEvent(p) \/ MarkSettled(p) \/ MarkFailed(p)
    \/ Post(p) \/ MarkCompensated(p) \/ Commit(p) \/ Audit(p)

\* What a session that has been given something to do does next.
Step(p) ==
    \/ Apply(p)
    \/ p \in Workers /\ CompleteJob(p)
    \/ p \in Operators /\ (Publish(p) \/ AuditOperator(p))

\* When a provider may send an event: a late one only of a transfer that has
\* ended, any other at any time.
MayArrive(e) == e \in Late => \A t \in Matches(e) : status[t] # "PENDING_EXTERNAL"

Next ==
    \/ \E p \in Users : Step(p) \/ Fail(p)
    \/ \E w \in Workers, j \in DOMAIN job : FetchJob(w, j)
    \/ \E j \in DOMAIN job : Expire(j)
    \/ \E o \in Operators, t \in Pending : Reconcile(o, t) \/ Redrive(o, t)
    \/ \E c \in Callbacks, e \in Inbound : MayArrive(e) /\ Callback(c, e)

Spec == Init /\ [][Next]_vars

\* Workers poll the queue, running handlers are not abandoned by the event loop,
\* and pg-boss expires the jobs of those that died.  Nobody has to reconcile,
\* redrive or call back.
FairSpec ==
    /\ Spec
    /\ \A p \in Users : WF_vars(Step(p))
    /\ \A w \in Workers : WF_vars(\E j \in DOMAIN job : FetchJob(w, j))
    /\ WF_vars(\E j \in DOMAIN job : Expire(j))

-----------------------------------------------------------------------------
TypeOK ==
    /\ LedgerTypeOK
    /\ status \in [Pending -> Status \ {"FAILED"}]
    /\ \A e \in events :
          /\ e.transfer \in Pending
          /\ e.type \in {"ACKNOWLEDGED", "SETTLED", "FAILED", "COMPENSATED"}
    /\ job \in Seq(Job)
    /\ pc \in [Users -> {"idle", "read", "insert", "update", "post", "commit", "audit",
                         "complete", "publish", "auditReconciled", "auditRedriven", "done"}]
    /\ target \in [Users -> Pending \cup {None}]
    /\ seen \in [Users -> (Status \ {"FAILED"}) \cup {None}]
    /\ row \in [Users -> (Status \ {"PENDING_EXTERNAL"}) \cup {None}]
    /\ serving \in [Users -> 0 .. Len(job)]

Compensations(t) ==
    {i \in DOMAIN journal : /\ journal[i].transfer = t
                            /\ journal[i].operation = "INTERBANK_TRANSFER_COMPENSATION"}
EventsOf(t, type) == {e \in events : e.transfer = t /\ e.type = type}
Timely(t, type) == {e \in EventsOf(t, type) : e.id \notin LateIds}

\* A transfer's status, the events on record and the ledger tell one story,
\* whatever order deliveries, retries and reconciliations came in: it is pending
\* until a terminal event is on record, settled or compensated as the provider
\* said before it ended, whatever is reported late, and compensated on the
\* ledger if and only if it failed.
StatusTellsOutcome ==
    \A t \in Pending :
        /\ status[t] = "PENDING_EXTERNAL" <=> Timely(t, "SETTLED") \cup Timely(t, "FAILED") = {}
        /\ status[t] = "SETTLED" <=> Timely(t, "SETTLED") # {}
        /\ status[t] = "COMPENSATED" <=> Compensations(t) # {}
        /\ Cardinality(Compensations(t)) = Cardinality(EventsOf(t, "COMPENSATED"))

\* The test "compensates rejected submissions exactly once": the customer gets
\* the amount of a failed transfer back once.
CompensatedAtMostOnce == \A t \in Pending : Cardinality(Compensations(t)) <= 1

\* As long as one provider event reports the failure of a transfer before it
\* ends, however often it is delivered, retried, redriven or followed by late
\* reports under other ids, the transfer is compensated once.
CompensatedOncePerFailure ==
    \A t \in Pending : Cardinality(Timely(t, "FAILED")) = 1 => Cardinality(Compensations(t)) = 1

\* state-machine.md, "SETTLED: terminal": a settled or compensated transfer stays
\* so, also when a provider later reports the opposite.
TerminalStays ==
    [][\A t \in Pending : status[t] # "PENDING_EXTERNAL" => status'[t] = status[t]]_vars

\* Every job ends, and a transfer that has a job reaches its outcome unless the
\* retries of that job are exhausted.
JobsResolve ==
    \A j \in 1 .. MaxJobs :
        (j \in DOMAIN job) ~> (j \in DOMAIN job /\
                                 \/ job[j].state = "failed"
                                 \/ /\ job[j].state = "completed"
                                    /\ status[job[j].transfer] # "PENDING_EXTERNAL")

\* BR-019, "state-changing operations must leave audit evidence": the outcome of
\* a transfer gets its audit record.
OutcomeIsAudited ==
    \A t \in Pending :
        /\ (status[t] = "COMPENSATED") ~> (<<"transfer.compensated", t>> \in audit)
        /\ (status[t] = "SETTLED") ~> (<<"transfer.settled", t>> \in audit)
=============================================================================
