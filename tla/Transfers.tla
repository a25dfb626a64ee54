------------------------------ MODULE Transfers ------------------------------
(***************************************************************************)
(* TransfersService.createTransfer with IdempotencyService.begin and       *)
(* complete.  A request is a session of its own: it receives an input,     *)
(* runs one interactive transaction statement by statement, interleaved    *)
(* with the other requests' statements, and after the commit enqueues the  *)
(* submission of an external transfer and answers.  A request creates at   *)
(* most one transfer, so the transfer's id is the request's name.          *)
(***************************************************************************)
EXTENDS Ledger

CONSTANTS Requests,             \* createTransfer calls, each served once
          Inputs,               \* the requests clients may send
          Account,              \* the static columns of an account row
          SupportedCurrencies,
          Clearing,             \* the CLEARING system ledger account
          External              \* destination of an interbank transfer

ASSUME TransfersAssumption ==
    /\ Requests \subseteq Sessions
    /\ Requests \subseteq TransferIds
    /\ None \notin Requests
    /\ Clearing \in SystemAccounts
    /\ External \notin Accounts
    /\ \A i \in Inputs : i.key \in Causes /\ i.amount \in Int

VARIABLES
    pc,      \* pc[r]: the statement the request is at
    input,   \* input[r]: what it was asked
    row,     \* row[r]: status of its transfer row inside its transaction
    status,  \* status[t]: committed status of a transfer, or "absent"
    record,  \* record[k]: the committed idempotency record of a key, or None
    reply,   \* reply[r]: what the caller got
    events,  \* committed external_transfer_event rows
    jobs,    \* transfers published to external-transfer.submit
    audit    \* committed audit events

requestVars == <<pc, input, row, reply>>
tableVars   == <<status, record, events, jobs, audit>>
vars == <<ledgerVars, requestVars, tableVars>>

NoReply == [kind |-> "none", transfer |-> None, status |-> "absent"]
Refused(kind) == [kind |-> kind, transfer |-> None, status |-> "absent"]

Init ==
    /\ LedgerInit
    /\ pc = [r \in Requests |-> "idle"]
    /\ input = [r \in Requests |-> None]
    /\ row = [r \in Requests |-> "absent"]
    /\ status = [t \in TransferIds |-> "absent"]
    /\ record = [k \in Causes |-> None]
    /\ reply = [r \in Requests |-> NoReply]
    /\ events = {}
    /\ jobs = {}
    /\ audit = {}

-----------------------------------------------------------------------------
Goto(r, label) == pc' = [pc EXCEPT ![r] = label]
Update(r, s)   == row' = [row EXCEPT ![r] = s]   \* an uncommitted update of the row

Answer(r, answer) ==
    /\ reply' = [reply EXCEPT ![r] = answer]
    /\ Goto(r, "done")

\* Mutant: an exception is answered and its transaction left open.
Throw_StillOpen(r, kind) ==
    /\ Update(r, "absent")
    /\ Answer(r, Refused(kind))
    /\ UNCHANGED <<ledgerVars, input, tableVars>>

\* An exception thrown in the transaction: roll back, then answer.  The
\* idempotency record goes with the rest: IdempotencyService.fail has no caller.
Throw(r, kind) ==
    /\ RollbackEntry(r)
    /\ Update(r, "absent")
    /\ Answer(r, Refused(kind))
    /\ UNCHANGED <<input, tableVars>>

\* Mutant: the destination is left out of the request hash.
Payload_NoDest(i) == [source |-> i.source, currency |-> i.currency, amount |-> i.amount]

\* requestHash covers every field but the key and the caller.
Payload(i) == [source |-> i.source, dest |-> i.dest,
               currency |-> i.currency, amount |-> i.amount]

\* What an existing record answers.  The last case needs a committed record
\* without a response.
Recorded(rec, i) ==
    IF rec.hash # Payload(i) THEN Refused("conflict")
    ELSE IF rec.status = "SUCCEEDED"
         THEN [kind |-> "replayed", transfer |-> rec.transfer, status |-> rec.response]
         ELSE Refused("in_progress")

\* Boundary checks, then the first statement: idempotencyRecord.findUnique.
Begin(r) == \E i \in Inputs :
    /\ pc[r] = "idle"
    /\ input' = [input EXCEPT ![r] = i]
    /\ \/ /\ i.currency \notin SupportedCurrencies
          /\ Answer(r, Refused("unsupported_currency"))
       \/ /\ i.currency \in SupportedCurrencies
          /\ record[i.key] # None
          /\ Answer(r, Recorded(record[i.key], i))
       \/ /\ i.currency \in SupportedCurrencies
          /\ record[i.key] = None
          /\ Goto(r, "insertRecord")
          /\ UNCHANGED reply
    /\ UNCHANGED <<ledgerVars, row, tableVars>>

\* Mutant: idempotency_record without its unique index.
InsertRecord_NoIndex(r) ==
    /\ pc[r] = "insertRecord"
    /\ Goto(r, "readSource")
    /\ UNCHANGED <<ledgerVars, input, row, reply, tableVars>>

\* idempotencyRecord.create.  It waits for an open transaction that inserts the
\* key; if that one commits, the insert violates the unique index.  (The unique
\* transfer_request.idempotencyKey is written by the same transactions, after
\* this, and decides nothing more.)
InsertRecord(r) ==
    /\ pc[r] = "insertRecord"
    /\ Free(r, CauseRow(input[r].key))
    /\ \/ /\ record[input[r].key] # None
          /\ Throw(r, "unique_violation")
       \/ /\ record[input[r].key] = None
          /\ Acquire(r, CauseRow(input[r].key))
          /\ Goto(r, "readSource")
          /\ UNCHANGED <<input, row, reply, tableVars, projection, journal,
                         overwritten, sessionVars>>

\* The checks on the source account that need no balance.
SourceAccepted(i) ==
    /\ i.source \in Accounts
    /\ Account[i.source].owner = i.caller
    /\ Account[i.source].status = "ACTIVE"
    /\ Account[i.source].currency = i.currency
    /\ i.amount > 0

InsufficientFunds(i) == projection[i.source] < i.amount

\* account.findUnique with its balance, the checks, transferRequest.create.
ReadSource(r) ==
    /\ pc[r] = "readSource"
    /\ \/ /\ ~ SourceAccepted(input[r])
          /\ Throw(r, "source_refused")
       \/ /\ SourceAccepted(input[r])
          /\ InsufficientFunds(input[r])
          /\ Throw(r, "insufficient_funds")
       \/ /\ SourceAccepted(input[r])
          /\ ~ InsufficientFunds(input[r])
          /\ Update(r, "RECEIVED")
          /\ Goto(r, "validate")
          /\ UNCHANGED <<ledgerVars, input, reply, tableVars>>

Validate(r) ==
    /\ pc[r] = "validate"
    /\ Update(r, "VALIDATED")
    /\ Goto(r, "route")
    /\ UNCHANGED <<ledgerVars, input, reply, tableVars>>

\* Mutant: an interbank transfer credits its destination, not CLEARING.
TransferEntry_NoClearing(r) ==
    [operation |-> "INTERBANK_TRANSFER_INITIATED", transfer |-> r,
     debit |-> input[r].source, credit |-> input[r].dest,
     amount |-> input[r].amount, cause |-> input[r].key]

TransferEntry(r) ==
    [operation |-> IF input[r].dest = External THEN "INTERBANK_TRANSFER_INITIATED"
                   ELSE "INTERNAL_TRANSFER",
     transfer |-> r, debit |-> input[r].source,
     credit |-> IF input[r].dest = External THEN Clearing ELSE input[r].dest,
     amount |-> input[r].amount, cause |-> input[r].key]

\* Mutant: a transfer from an account to itself is let through.
DestinationAccepted_Self(r) ==
    /\ input[r].dest \in Accounts
    /\ Account[input[r].dest].currency = input[r].currency

\* The checks on an internal destination, whose status is not looked at, and
\* the validation of the entry.
DestinationAccepted(r) ==
    /\ input[r].dest \in Accounts
    /\ Account[input[r].dest].currency = input[r].currency
    /\ Postable(TransferEntry(r))

\* Check the destination of an internal transfer, open the journal entry.
RouteInternal(r) ==
    /\ pc[r] = "route"
    /\ input[r].dest # External
    /\ \/ /\ ~ DestinationAccepted(r)
          /\ Throw(r, "destination_refused")
       \/ /\ DestinationAccepted(r)
          /\ OpenEntry(r, TransferEntry(r))
          /\ Update(r, "PENDING_LEDGER")
          /\ Goto(r, "post")
          /\ UNCHANGED <<held, input, reply, tableVars>>

RouteExternal(r) ==
    /\ pc[r] = "route"
    /\ input[r].dest = External
    /\ OpenEntry(r, TransferEntry(r))
    /\ Update(r, "PENDING_EXTERNAL")
    /\ Goto(r, "post")
    /\ UNCHANGED <<held, input, reply, tableVars>>

\* A statement of postJournalEntry.
Post(r) ==
    /\ pc[r] = "post"
    /\ ReadProjection(r) \/ UpsertProjection(r)
    /\ UNCHANGED <<requestVars, tableVars>>

Settle(r) ==
    /\ pc[r] = "post"
    /\ Posted(r)
    /\ row[r] = "PENDING_LEDGER"
    /\ Update(r, "SETTLED")
    /\ UNCHANGED <<ledgerVars, pc, input, reply, tableVars>>

\* Mutant: the stored response says SETTLED for an interbank transfer too.
Succeeded_Settled(r) == [hash |-> Payload(input[r]), status |-> "SUCCEEDED",
                         response |-> "SETTLED", transfer |-> r]

Succeeded(r) == [hash |-> Payload(input[r]), status |-> "SUCCEEDED",
                 response |-> row[r], transfer |-> r]

\* IdempotencyService.complete
Complete(r) == record' = [record EXCEPT ![input[r].key] = Succeeded(r)]

\* externalTransferEvent.create for an interbank transfer.
SubmittedEvent(r) == [id |-> <<r, "submitted">>, transfer |-> r, type |-> "SUBMITTED"]

\* Mutant: the answer to an interbank transfer does not wait for its job.
Commit_NoPublish(r) ==
    /\ pc[r] = "post"
    /\ row[r] \in {"SETTLED", "PENDING_EXTERNAL"}
    /\ CommitEntry(r)
    /\ events' = IF row[r] = "SETTLED" THEN events ELSE events \cup {SubmittedEvent(r)}
    /\ status' = [status EXCEPT ![r] = row[r]]
    /\ Complete(r)
    /\ audit' = audit \cup {<<"transfer.created", r>>}
    /\ Goto(r, "answer")
    /\ UNCHANGED <<input, row, reply, jobs>>

\* complete, recordInTransaction and COMMIT.
Commit(r) ==
    /\ pc[r] = "post"
    /\ row[r] \in {"SETTLED", "PENDING_EXTERNAL"}
    /\ CommitEntry(r)
    /\ events' = IF row[r] = "SETTLED" THEN events ELSE events \cup {SubmittedEvent(r)}
    /\ status' = [status EXCEPT ![r] = row[r]]
    /\ Complete(r)
    /\ audit' = audit \cup {<<"transfer.created", r>>}
    /\ Goto(r, IF row[r] = "PENDING_EXTERNAL" THEN "enqueue" ELSE "answer")
    /\ UNCHANGED <<input, row, reply, jobs>>

\* enqueueTransferSubmission, outside the transaction.
Enqueue(r) ==
    /\ pc[r] = "enqueue"
    /\ jobs' = jobs \cup {r}
    /\ Goto(r, "answer")
    /\ UNCHANGED <<ledgerVars, input, row, reply, status, record, events, audit>>

Respond(r) ==
    /\ pc[r] = "answer"
    /\ Answer(r, [kind |-> "created", transfer |-> r, status |-> row[r]])
    /\ UNCHANGED <<ledgerVars, input, row, tableVars>>

InTransaction(r) == pc[r] \in {"insertRecord", "readSource", "validate", "route", "post"}

\* The process dies, the connection is lost, the interactive transaction times
\* out, publishing throws: an open transaction is rolled back, a committed one
\* stays, and the caller gets an error or nothing.
Fail(r) ==
    \/ /\ InTransaction(r)
       /\ Throw(r, "error")
    \/ /\ pc[r] \in {"enqueue", "answer"}
       /\ Answer(r, Refused("error"))
       /\ UNCHANGED <<ledgerVars, input, row, tableVars>>

\* The shared row the next statement of a request writes, if it writes one.
Wanted == [p \in Sessions |->
    IF p \notin Requests THEN {}
    ELSE IF pc[p] = "insertRecord" THEN {CauseRow(input[p].key)}
    ELSE IF pc[p] = "post" /\ balanceRead[p] # None THEN {ProjectionRow(NextAccount(p))}
    ELSE {}]

\* PostgreSQL rolls back a transaction of a cycle of waiting ones.
DeadlockVictim(r) == Deadlocked(r, Wanted) /\ Throw(r, "deadlock")

Step(r) ==
    \/ InsertRecord(r) \/ ReadSource(r) \/ Validate(r)
    \/ RouteInternal(r) \/ RouteExternal(r)
    \/ Post(r) \/ Settle(r) \/ Commit(r)
    \/ Enqueue(r) \/ Respond(r) \/ DeadlockVictim(r)

Next == \E r \in Requests : Begin(r) \/ Step(r) \/ Fail(r)

Spec == Init /\ [][Next]_vars

\* A request being served is not abandoned by the event loop or the database;
\* nobody has to send one, and nothing has to fail.
FairSpec == Spec /\ \A r \in Requests : WF_vars(Step(r))

-----------------------------------------------------------------------------
Status == {"absent", "RECEIVED", "VALIDATED", "PENDING_LEDGER", "PENDING_EXTERNAL", "SETTLED"}
Record == [hash : {Payload(i) : i \in Inputs}, status : {"IN_PROGRESS", "SUCCEEDED"},
           response : Status, transfer : Requests]
ASSUME RecordAssumption == None \notin Record
Reply == [kind : {"none", "created", "replayed", "conflict", "in_progress", "error",
                  "unsupported_currency", "unique_violation", "source_refused",
                  "insufficient_funds", "destination_refused", "deadlock"},
          transfer : Requests \cup {None}, status : Status]

TypeOK ==
    /\ LedgerTypeOK
    /\ pc \in [Requests -> {"idle", "insertRecord", "readSource", "validate", "route",
                             "post", "enqueue", "answer", "done"}]
    /\ input \in [Requests -> Inputs \cup {None}]
    /\ row \in [Requests -> Status]
    /\ status \in [TransferIds -> Status]
    /\ record \in [Causes -> Record \cup {None}]
    /\ reply \in [Requests -> Reply]
    /\ events \subseteq [id : Requests \X {"submitted"}, transfer : Requests,
                           type : {"SUBMITTED"}]
    /\ jobs \subseteq Requests
    /\ audit \subseteq {"transfer.created"} \X Requests

\* BR-009: however requests with one idempotency key interleave, fail and are
\* retried, the key creates at most one transfer.
OneTransferPerKey ==
    \A r, s \in Requests :
        /\ status[r] # "absent"
        /\ status[s] # "absent"
        /\ input[r].key = input[s].key
        => r = s

Accepted(r) == reply[r].kind \in {"created", "replayed"}
PostedBy(r) == {i \in DOMAIN journal : journal[i].transfer = r}
Receiver(i) == IF i.dest = External THEN Clearing ELSE i.dest

\* What a caller is told is what the ledger holds.  A request that is told its
\* transfer was accepted -- by the request that made it or by a replay -- finds
\* exactly one entry for it, moving what this caller asked for from the account
\* it named to the one it named, or to CLEARING if that is at another bank; one
\* that was refused, or answered by a replay, has itself moved nothing.
AnswersAreTruthful ==
    \A r \in Requests :
        /\ Accepted(r) =>
             /\ status[reply[r].transfer] = reply[r].status
             /\ \E i \in DOMAIN journal :
                   /\ PostedBy(reply[r].transfer) = {i}
                   /\ journal[i].cause = input[r].key
                   /\ journal[i].debit = input[r].source
                   /\ journal[i].credit = Receiver(input[r])
                   /\ journal[i].amount = input[r].amount
        /\ /\ pc[r] = "done"
           /\ reply[r].kind # "error"
           /\ reply[r].transfer # r
           => PostedBy(r) = {}

\* Requests that were told the same key was accepted were told of the same
\* transfer in the same status: a replay repeats the original outcome.
RepliesAgree ==
    \A r, s \in Requests :
        Accepted(r) /\ Accepted(s) /\ input[r].key = input[s].key =>
            /\ reply[r].transfer = reply[s].transfer
            /\ reply[r].status = reply[s].status

\* "Duplicate requests with the same key must replay the original accepted
\* outcome": a request that repeats the key and the payload of an accepted one
\* is not turned away on account of its key.
DuplicatesReplay ==
    \A r, s \in Requests :
        Accepted(s) /\ input[r] = input[s] =>
            reply[r].kind \notin {"unique_violation", "in_progress", "conflict"}

\* The check "source account does not have sufficient balance" keeps a customer
\* account from going below zero.
NoOverdraft == \A a \in Accounts : OpeningBalance[a] >= 0 => projection[a] >= 0

\* A request being served is answered: no transaction waits forever for a key
\* or a projection, and nothing but a deadlock broken by the database, or the
\* end of the other transaction, is needed for that.
EveryRequestAnswered == \A r \in Requests : (pc[r] # "idle") ~> (pc[r] = "done")
=============================================================================
