------------------------------ MODULE Payments ------------------------------
(***************************************************************************)
(* From a client's request to the provider's outcome: TransfersService and *)
(* ExternalRailService over one ledger.  The two share the transfers, the  *)
(* events, the audit records and the queue: a request that has committed   *)
(* an interbank transfer publishes its job after the commit, a worker      *)
(* takes it from there.  Nothing is added to what the two modules say but  *)
(* where they meet.                                                        *)
(*                                                                         *)
(* Operators redrive; reconciling is left out, because what it does to a   *)
(* transfer whose job is running is a question of ExternalRail by itself.  *)
(***************************************************************************)
EXTENDS Ledger, SequencesExt

CONSTANTS Requests, Inputs, Account, SupportedCurrencies, Clearing, External,
          Workers, Operators, Callbacks, Detail, Inbound, RetryLimit, MaxJobs

VARIABLES
    status, events, audit,                  \* written by both
    job,                                    \* published by requests and operators
    reqPc, input, reqRow, record, reply,    \* of the requests
    pc, inbox, target, seen, row, serving   \* of the rail's sessions

sharedVars  == <<ledgerVars, status, events, audit>>
requestOnly == <<reqPc, input, reqRow, record, reply>>
railOnly    == <<pc, inbox, target, seen, row, serving>>
vars == <<sharedVars, job, requestOnly, railOnly>>

\* The transfers somebody has published a job for.
Published == {job[j].transfer : j \in DOMAIN job}

T == INSTANCE Transfers WITH pc <- reqPc, row <- reqRow, jobs <- Published
X == INSTANCE ExternalRail WITH Pending <- Requests, Queued <- <<>>, Late <- {}

\* The transfers are those of the requests; a request is not one of the rail's
\* sessions; the id of the event that records a submission is made from that of
\* the transfer, and providers do not use such ids.
ASSUME PaymentsAssumption ==
    /\ T!TransfersAssumption /\ T!RecordAssumption /\ X!RailAssumption /\ X!EventAssumption
    /\ TransferIds = Requests
    /\ Requests \cap X!Users = {}
    /\ \A r \in Requests : <<r, "submitted">> \notin Causes

Init ==
    /\ job = <<>>
    /\ T!Init
    /\ pc = [p \in X!Users |-> "idle"]
    /\ inbox = [p \in X!Users |-> <<>>]
    /\ target = [p \in X!Users |-> None]
    /\ seen = [p \in X!Users |-> None]
    /\ row = [p \in X!Users |-> None]
    /\ serving = [p \in X!Users |-> 0]

-----------------------------------------------------------------------------
\* A request up to its commit, its answer, or its end.
RequestStep(r) ==
    /\ reqPc[r] # "enqueue"
    /\ UNCHANGED <<job, railOnly>>
    /\ T!Step(r)

\* The rail knows the source and the amount of a transfer from its row, so that
\* Detail[r] is what r asks for, unless it is refused.
Described(r) ==
    input[r].dest = External /\ T!SourceAccepted(input[r]) =>
        input[r].source = Detail[r].source /\ input[r].amount = Detail[r].amount

RequestBegins(r) == UNCHANGED <<job, railOnly>> /\ T!Begin(r) /\ Described(r)'
RequestFails(r) == UNCHANGED <<job, railOnly>> /\ T!Fail(r)

\* enqueueTransferSubmission publishes the job that the workers take.
Enqueue(r) ==
    /\ job' = Append(job, X!NewJob(r))
    /\ T!Enqueue(r)
    /\ UNCHANGED railOnly

RailStep(p)      == X!Step(p) /\ UNCHANGED requestOnly
RailFails(p)     == X!Fail(p) /\ UNCHANGED requestOnly
FetchJob(w, j)   == X!FetchJob(w, j) /\ UNCHANGED requestOnly
ExpireJob(j)     == X!Expire(j) /\ UNCHANGED requestOnly
Redrive(o, t)    == X!Redrive(o, t) /\ UNCHANGED requestOnly

\* A provider calls back about transfers it has been given.
Callback(c, e) ==
    /\ \E a \in events : a.transfer = e.transfer /\ a.type = "ACKNOWLEDGED"
    /\ X!Callback(c, e)
    /\ UNCHANGED requestOnly

Next ==
    \/ \E r \in Requests : RequestBegins(r) \/ RequestStep(r) \/ Enqueue(r) \/ RequestFails(r)
    \/ \E p \in X!Users : RailStep(p) \/ RailFails(p)
    \/ \E w \in Workers, j \in DOMAIN job : FetchJob(w, j)
    \/ \E j \in DOMAIN job : ExpireJob(j)
    \/ \E o \in Operators, t \in Requests : Redrive(o, t)
    \/ \E c \in Callbacks, e \in Inbound : Callback(c, e)

Spec == Init /\ [][Next]_vars

\* What the two modules assume of their schedulers.
FairSpec ==
    /\ Spec
    /\ \A r \in Requests : WF_vars(RequestStep(r) \/ Enqueue(r))
    /\ \A p \in X!Users : WF_vars(RailStep(p))
    /\ \A w \in Workers : WF_vars(\E j \in DOMAIN job : FetchJob(w, j))
    /\ WF_vars(\E j \in DOMAIN job : ExpireJob(j))

-----------------------------------------------------------------------------
\* What journal entries have taken from the source of a transfer, as asked for by
\* i, and not given back.
TakenBy(entries, t, i) ==
    FoldLeft(LAMBDA sum, e : IF e.transfer = t THEN sum - Effect(e, i.source) ELSE sum, 0, entries)
Taken(t) == TakenBy(journal, t, input[t])

O == INSTANCE TransferOutcomes WITH
        TransferIds <- Requests,
        Amounts <- {i.amount : i \in Inputs} \ {0},
        taken <- [t \in Requests |-> Taken(t)]

\* Requests, retries, jobs delivered more than once, callbacks and redrives come
\* to no more than this: a transfer takes its amount once, then settles or gives
\* all of it back, once, and that is its end.
ImplementsOutcomes == O!OutcomesSpec

\* An interbank transfer is not forgotten by the server: if it is pending and
\* was never published, its request is about to publish it, or died between the
\* commit and the publication and told its client of an error.
PendingIsPublished ==
    \A t \in Requests :
        status[t] = "PENDING_EXTERNAL" /\ t \notin Published =>
            \/ reqPc[t] = "enqueue"
            \/ reply[t].kind = "error"

\* A client who was told that his interbank transfer was created gets an
\* outcome, unless the retries of its jobs run out.
CreatedIsResolved ==
    \A t \in Requests :
        reply[t].kind = "created" ~>
            \/ status[t] # "PENDING_EXTERNAL"
            \/ \E j \in DOMAIN job : job[j].transfer = t /\ job[j].state = "failed"
=============================================================================
