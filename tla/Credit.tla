------------------------------- MODULE Credit -------------------------------
(***************************************************************************)
(* CreditService: createAssessment scores a customer under an idempotency  *)
(* key, in one transaction that reads the balances and counts the          *)
(* transfers by statements of their own; reviewAssessment lets an analyst  *)
(* decide.  Both run while transfers settle and are compensated, which is  *)
(* TransferOutcomes.  A request creates at most one assessment, whose id   *)
(* is the request's name.                                                  *)
(***************************************************************************)
EXTENDS ReadCommitted, TransferOutcomes, FiniteSetsExt

CONSTANTS Requests,        \* createAssessment calls
          Reviewers,       \* reviewAssessment calls
          Keys,            \* idempotency keys
          Inputs,          \* what createAssessment may be asked
          Customers,
          AccountsOf,      \* AccountsOf[c]: the accounts of a customer
          Source,          \* Source[t]: the account a transfer is drawn on
          OpeningBalance,  \* balances before the transfers
          Earlier,         \* Earlier[c]: transfers counted before these
          None

\* credit_assessment.status while the transaction of createAssessment is open, and
\* what an analyst makes of it.
Drafts == {"REQUESTED", "DATA_COLLECTED", "SCORED", "UNDER_REVIEW"}
Decisions == {"APPROVED", "REJECTED"}

\* What a transaction reads, and the rows it keeps.
Counts == [settled : Nat, failed : Nat]
Readings == [average : Int, settled : Nat, failed : Nat]
Profiles == [points : Nat, average : Int, frequency : Nat]
Assessment == [status : {"UNDER_REVIEW"} \cup Decisions, customer : Customers,
               profile : Profiles, score : 300 .. 850, counts : Counts,
               reviewedBy : Reviewers \cup {None}]
Payload(i) == [customer |-> i.customer, requestedBy |-> i.requestedBy]
KeyRecord == [hash : {Payload(i) : i \in Inputs}, assessment : Requests]
ReviewOf == [assessment : Requests, decision : Decisions]

ASSUME CreditAssumption ==
    /\ Sessions = Requests \cup Reviewers
    /\ Requests \cap Reviewers = {}
    /\ \A i \in Inputs : i.key \in Keys
    /\ \A c \in Customers :
          /\ IsFiniteSet(AccountsOf[c])
          /\ \A a \in AccountsOf[c] : OpeningBalance[a] \in Int
          /\ Earlier[c] \in Counts
    /\ IsFiniteSet(TransferIds)
    /\ None \notin Requests \cup Reviewers
    /\ None \notin Drafts
    /\ None \notin Inputs
    /\ None \notin Assessment \cup KeyRecord \cup ReviewOf

VARIABLES
    record,      \* record[k]: the committed idempotency record of a key, or None
    assessment,  \* assessment[r]: the committed row with its snapshot, or None
    pc,          \* pc[p]: the statement a call is at
    input,       \* input[r]: what createAssessment was asked
    reading,     \* reading[r]: what its transaction has read
    draft,       \* draft[r]: status of its uncommitted row, or None
    review,      \* review[p]: the assessment and the decision of a reviewer
    reply,       \* reply[p]: what the caller got
    audit,       \* committed audit events
    began,       \* history: the counts when the first statement of r ran
    lateReviews  \* history: reviews that began when somebody had been told of a decision

tableVars == <<record, assessment, audit>>
requestVars == <<input, reading, draft, began>>
reviewVars == <<review, lateReviews>>
creditVars == <<held, pc, reply, tableVars, requestVars, reviewVars>>
vars == <<outcomeVars, creditVars>>

NoReply == [kind |-> "none", assessment |-> None]
NothingRead == [average |-> 0, settled |-> 0, failed |-> 0]

Init ==
    /\ OutcomesInit
    /\ held = NoLocks
    /\ record = [k \in Keys |-> None]
    /\ assessment = [r \in Requests |-> None]
    /\ pc = [p \in Sessions |-> "idle"]
    /\ input = [r \in Requests |-> None]
    /\ reading = [r \in Requests |-> NothingRead]
    /\ draft = [r \in Requests |-> None]
    /\ review = [p \in Reviewers |-> None]
    /\ reply = [p \in Sessions |-> NoReply]
    /\ audit = {}
    /\ began = [r \in Requests |-> NothingRead]
    /\ lateReviews = {}

-----------------------------------------------------------------------------
(* What the transaction reads.                                             *)

TransfersOf(c, statuses) ==
    {t \in TransferIds : Source[t] \in AccountsOf[c] /\ status[t] \in statuses}

SettledTransferCount(c) == Earlier[c].settled + Cardinality(TransfersOf(c, {"SETTLED"}))

FailedTransferCount(c) ==
    Earlier[c].failed + Cardinality(TransfersOf(c, {"FAILED", "COMPENSATED"}))

Balance(a) ==
    OpeningBalance[a] - SumFunctionOnSet(taken, {t \in TransferIds : Source[t] = a})

\* BigInt division truncates toward zero.
Quotient(n, d) == IF n < 0 THEN -((-n) \div d) ELSE n \div d

AverageBalance(c) ==
    IF AccountsOf[c] = {} THEN 0
    ELSE Quotient(SumFunction([a \in AccountsOf[c] |-> Balance(a)]), Cardinality(AccountsOf[c]))

-----------------------------------------------------------------------------
(* computeCreditDecision                                                   *)

Between(low, high, n) == Max({low, Min({high, n})})

\* Mutant: the two counts are swapped.
Profile_Swapped(rd) ==
    [points |-> Max({0, 120 + rd.failed * 12 - rd.settled * 20}),
     average |-> rd.average, frequency |-> rd.settled]

\* Mutant: the points may fall below zero.
Profile_NoFloor(rd) ==
    [points |-> 120 + rd.settled * 12 - rd.failed * 20,
     average |-> rd.average, frequency |-> rd.settled]

\* The snapshot made of what was read.
Profile(rd) ==
    [points |-> Max({0, 120 + rd.settled * 12 - rd.failed * 20}),
     average |-> rd.average, frequency |-> rd.settled]

\* The rationale keeps the three components, the score is their sum.
Components(profile) ==
    <<Between(0, 220, profile.points),
      Between(0, 180, Quotient(profile.average, 5000)),
      Between(0, 150, profile.frequency * 5)>>

Score(profile) ==
    LET parts == Components(profile) IN
    Between(300, 850, 300 + parts[1] + parts[2] + parts[3])

-----------------------------------------------------------------------------
(* createAssessment                                                        *)

KeyRow(k) == <<"idempotency_record", k>>

Goto(p, label) == pc' = [pc EXCEPT ![p] = label]
Refused(kind) == [kind |-> kind, assessment |-> None]

Answer(p, answer) ==
    /\ reply' = [reply EXCEPT ![p] = answer]
    /\ Goto(p, "done")

\* An exception in the transaction rolls everything back.
Throw(r, kind) ==
    /\ Release(r)
    /\ draft' = [draft EXCEPT ![r] = None]
    /\ reading' = [reading EXCEPT ![r] = NothingRead]
    /\ began' = [began EXCEPT ![r] = NothingRead]
    /\ Answer(r, Refused(kind))
    /\ UNCHANGED <<outcomeVars, tableVars, input, reviewVars>>

\* Mutant: the hash of the payload is not compared.
Recorded_AnyPayload(rec, i) == [kind |-> "replayed", assessment |-> rec.assessment]

Recorded(rec, i) ==
    IF rec.hash = Payload(i) THEN [kind |-> "replayed", assessment |-> rec.assessment]
    ELSE Refused("conflict")

\* idempotencyRecord.findUnique
Begin(r) == \E i \in Inputs :
    /\ pc[r] = "idle"
    /\ input' = [input EXCEPT ![r] = i]
    /\ \/ record[i.key] # None /\ Answer(r, Recorded(record[i.key], i))
       \/ record[i.key] = None /\ Goto(r, "insertRecord") /\ UNCHANGED reply
    /\ UNCHANGED <<outcomeVars, held, tableVars, reading, draft, reviewVars, began>>

\* Mutant: idempotency_record without its unique index.
InsertRecord_NoIndex(r) ==
    /\ pc[r] = "insertRecord"
    /\ Goto(r, "readCustomer")
    /\ UNCHANGED <<outcomeVars, held, tableVars, requestVars, reviewVars, reply>>

\* idempotencyRecord.create waits for an open insert of the key, and violates
\* the unique index once that has committed.
InsertRecord(r) ==
    /\ pc[r] = "insertRecord"
    /\ Free(r, KeyRow(input[r].key))
    /\ \/ record[input[r].key] # None /\ Throw(r, "unique_violation")
       \/ /\ record[input[r].key] = None
          /\ Acquire(r, KeyRow(input[r].key))
          /\ Goto(r, "readCustomer")
          /\ UNCHANGED <<outcomeVars, tableVars, requestVars, reviewVars, reply>>

\* assertCustomerOwnsResource: only customers are held to what is theirs.
MayAssess(i) == i.caller \in Customers => i.caller = i.customer

\* customer.findUnique with the accounts and their balances.
ReadCustomer(r) ==
    LET c == input[r].customer IN
    /\ pc[r] = "readCustomer"
    /\ \/ c \notin Customers /\ Throw(r, "customer_not_found")
       \/ c \in Customers /\ ~ MayAssess(input[r]) /\ Throw(r, "forbidden")
       \/ /\ c \in Customers
          /\ MayAssess(input[r])
          /\ reading' = [reading EXCEPT ![r].average = AverageBalance(c)]
          /\ began' = [began EXCEPT ![r].settled = SettledTransferCount(c),
                                    ![r].failed = FailedTransferCount(c)]
          /\ Goto(r, "countSettled")
          /\ UNCHANGED <<outcomeVars, held, tableVars, input, draft, reviewVars, reply>>

Read(r, from, rd, to) ==
    /\ pc[r] = from
    /\ reading' = [reading EXCEPT ![r] = rd]
    /\ Goto(r, to)
    /\ UNCHANGED <<outcomeVars, held, tableVars, input, draft, reviewVars, reply, began>>

\* Mutant: transfers that are still with their provider count as settled.
CountSettled_Pending(r) ==
    Read(r, "countSettled",
         [reading[r] EXCEPT !.settled = Earlier[input[r].customer].settled +
             Cardinality(TransfersOf(input[r].customer, {"SETTLED", "PENDING_EXTERNAL"}))],
         "countFailed")

CountSettled(r) ==
    Read(r, "countSettled",
         [reading[r] EXCEPT !.settled = SettledTransferCount(input[r].customer)], "countFailed")

CountFailed(r) ==
    Read(r, "countFailed",
         [reading[r] EXCEPT !.failed = FailedTransferCount(input[r].customer)], "create")

\* creditProfileSnapshot.create and creditAssessment.create
CreateAssessment(r) ==
    /\ pc[r] = "create"
    /\ draft' = [draft EXCEPT ![r] = "REQUESTED"]
    /\ Goto(r, "advance")
    /\ UNCHANGED <<outcomeVars, held, tableVars, input, reading, reviewVars, reply,
                   began>>

Following == [REQUESTED |-> "DATA_COLLECTED", DATA_COLLECTED |-> "SCORED",
              SCORED |-> "UNDER_REVIEW"]

\* creditAssessment.update, three times; nobody else can see the row.
Advance(r) ==
    /\ pc[r] = "advance"
    /\ draft[r] # "UNDER_REVIEW"
    /\ draft' = [draft EXCEPT ![r] = Following[draft[r]]]
    /\ UNCHANGED <<outcomeVars, held, tableVars, pc, input, reading, reviewVars, reply,
                   began>>

\* The assessment as its transaction leaves it.
Assessed(r) ==
    [status |-> draft[r], customer |-> input[r].customer, profile |-> Profile(reading[r]),
     score |-> Score(Profile(reading[r])),
     counts |-> [settled |-> reading[r].settled, failed |-> reading[r].failed],
     reviewedBy |-> None]

\* complete, recordInTransaction and COMMIT, whose acknowledgement may be lost.
Commit(r) ==
    /\ pc[r] = "advance"
    /\ draft[r] = "UNDER_REVIEW"
    /\ assessment' = [assessment EXCEPT ![r] = Assessed(r)]
    /\ record' = [record EXCEPT ![input[r].key] = [hash |-> Payload(input[r]), assessment |-> r]]
    /\ audit' = audit \cup {<<"created", r, r>>}
    /\ Release(r)
    /\ draft' = [draft EXCEPT ![r] = None]
    /\ reading' = [reading EXCEPT ![r] = NothingRead]
    /\ \/ Answer(r, [kind |-> "created", assessment |-> r])
       \/ Answer(r, Refused("error"))
    /\ UNCHANGED <<outcomeVars, input, reviewVars, began>>

-----------------------------------------------------------------------------
(* reviewAssessment                                                        *)

Decided(a) == assessment[a].status \in Decisions

Reviewable(a) == assessment[a].status = "UNDER_REVIEW"

\* Somebody has been answered that his review decided it.
Told(a) == \E p \in Reviewers : reply[p] = [kind |-> "decided", assessment |-> a]

\* creditAssessment.findUnique and the checks.
Load(p) == \E a \in Requests, d \in Decisions :
    /\ pc[p] = "idle"
    /\ lateReviews' = lateReviews \cup {q \in {p} : Told(a)}
    /\ \/ /\ assessment[a] = None
          /\ Answer(p, Refused("not_found"))
          /\ UNCHANGED review
       \/ /\ assessment[a] # None
          /\ ~ Reviewable(a)
          /\ Answer(p, Refused("not_reviewable"))
          /\ UNCHANGED review
       \/ /\ assessment[a] # None
          /\ Reviewable(a)
          /\ review' = [review EXCEPT ![p] = [assessment |-> a, decision |-> d]]
          /\ Goto(p, "decide")
          /\ UNCHANGED reply
    /\ UNCHANGED <<outcomeVars, held, tableVars, requestVars>>

\* Mutant: the update keeps the reviewer and forgets the status.
Decide_StatusKept(p) ==
    LET a == review[p].assessment IN
    /\ pc[p] = "decide"
    /\ assessment' = [assessment EXCEPT ![a].reviewedBy = p]
    /\ Goto(p, "audit")
    /\ UNCHANGED <<outcomeVars, held, record, audit, requestVars, reviewVars, reply>>

\* creditAssessment.update by id alone, whatever the status is by now.
Decide(p) ==
    LET a == review[p].assessment IN
    /\ pc[p] = "decide"
    /\ assessment' = [assessment EXCEPT ![a].status = review[p].decision,
                                        ![a].reviewedBy = p]
    /\ Goto(p, "audit")
    /\ UNCHANGED <<outcomeVars, held, record, audit, requestVars, reviewVars, reply>>

AuditReview(p) ==
    /\ pc[p] = "audit"
    /\ audit' = audit \cup {<<review[p].decision, review[p].assessment, p>>}
    /\ Answer(p, [kind |-> "decided", assessment |-> review[p].assessment])
    /\ UNCHANGED <<outcomeVars, held, record, assessment, requestVars, reviewVars>>

-----------------------------------------------------------------------------
\* A statement fails or the process dies: an open transaction is rolled back, a
\* decision that is written stays.
Fail(p) ==
    \/ /\ p \in Requests
       /\ pc[p] \notin {"idle", "done"}
       /\ Throw(p, "error")
    \/ /\ p \in Reviewers
       /\ pc[p] \in {"decide", "audit"}
       /\ Answer(p, Refused("error"))
       /\ UNCHANGED <<outcomeVars, held, tableVars, requestVars, reviewVars>>

Create(r) ==
    \/ Begin(r) \/ InsertRecord(r) \/ ReadCustomer(r) \/ CountSettled(r) \/ CountFailed(r)
    \/ CreateAssessment(r) \/ Advance(r) \/ Commit(r)

Review(p) == Load(p) \/ Decide(p) \/ AuditReview(p)

Next ==
    \/ OutcomesNext /\ UNCHANGED creditVars
    \/ \E r \in Requests : Create(r)
    \/ \E p \in Reviewers : Review(p)
    \/ \E p \in Sessions : Fail(p)

Spec == Init /\ [][Next]_vars

-----------------------------------------------------------------------------
TypeOK ==
    /\ held \in [Sessions -> SUBSET {KeyRow(k) : k \in Keys}]
    /\ record \in [Keys -> KeyRecord \cup {None}]
    /\ assessment \in [Requests -> Assessment \cup {None}]
    /\ pc \in [Sessions -> {"idle", "insertRecord", "readCustomer", "countSettled", "countFailed",
                            "create", "advance", "decide", "audit", "done"}]
    /\ input \in [Requests -> Inputs \cup {None}]
    /\ reading \in [Requests -> Readings]
    /\ draft \in [Requests -> Drafts \cup {None}]
    /\ review \in [Reviewers -> ReviewOf \cup {None}]
    /\ reply \in [Sessions ->
          [kind : {"none", "created", "replayed", "decided", "conflict", "unique_violation",
                   "customer_not_found", "forbidden", "not_found", "not_reviewable", "error"},
           assessment : Requests \cup {None}]]
    /\ lateReviews \subseteq Reviewers

\* BR-013, "credit assessment creation requires an idempotency key": however
\* requests with one key overlap, fail and are sent again, they make one
\* assessment, and each that is accepted is told of the one that was made for
\* the customer it asked about.
OneAssessmentPerKey ==
    \A r, s \in Requests :
        /\ assessment[r] # None /\ assessment[s] # None /\ input[r].key = input[s].key => r = s
        /\ reply[r].kind \in {"created", "replayed"} /\ reply[r].assessment = s =>
              /\ assessment[s] # None
              /\ assessment[s].customer = input[r].customer
              /\ input[s].key = input[r].key

\* A customer with as much money, as many settled transfers and no more failed
\* ones scores no less, across the caps of the components and the rounding of
\* the average.
BetterRecordScoresNoLess ==
    \A r, s \in Requests :
        LET a == assessment[r]
            b == assessment[s]
        IN  /\ a # None /\ b # None
            /\ a.profile.average >= b.profile.average
            /\ a.counts.settled >= b.counts.settled
            /\ a.counts.failed <= b.counts.failed
            => a.score >= b.score

\* The counts are read one after the other while transfers settle and are
\* compensated, and are still counts of the time of the request: what was
\* settled or had failed when it began is counted, and nothing is that never
\* was.
CountsAreOfTheirTime ==
    \A r \in Requests : assessment[r] # None =>
        LET c == assessment[r].customer
            counted == assessment[r].counts
        IN  /\ began[r].settled <= counted.settled
            /\ counted.settled <= SettledTransferCount(c)
            /\ began[r].failed <= counted.failed
            /\ counted.failed <= FailedTransferCount(c)

\* Once somebody has been told that his review decided an assessment, the matter
\* is closed to whoever begins after that: a later review is not told that it
\* decided, and is not the one on record.  Only a review that overlapped with
\* the first may have taken its place.
ToldDecisionStands ==
    /\ \A p \in lateReviews : reply[p].kind # "decided"
    /\ \A r \in Requests : assessment[r] # None => assessment[r].reviewedBy \notin lateReviews

\* "Point-in-time credit input": the customer's transfers can have had, all at
\* one moment, outcomes and takings that give the average and the counts of the
\* snapshot.
SnapshotOfOneMoment ==
    \A r \in Requests : assessment[r] # None =>
        LET a == assessment[r]
            owned == AccountsOf[a.customer]
            drawn == {t \in TransferIds : Source[t] \in owned}
        IN  owned # {} =>
            \E outcome \in [drawn -> {"absent", "PENDING_EXTERNAL", "SETTLED", "COMPENSATED"}],
               cost \in [drawn -> Amounts \cup {0}] :
                /\ \A t \in drawn :
                      cost[t] # 0 <=> outcome[t] \in {"PENDING_EXTERNAL", "SETTLED"}
                /\ a.counts.settled = Earlier[a.customer].settled +
                      Cardinality({t \in drawn : outcome[t] = "SETTLED"})
                /\ a.counts.failed = Earlier[a.customer].failed +
                      Cardinality({t \in drawn : outcome[t] = "COMPENSATED"})
                /\ a.profile.average =
                      Quotient(SumFunctionOnSet(OpeningBalance, owned) -
                                   SumFunctionOnSet(cost, drawn),
                               Cardinality(owned))

\* "APPROVED: Terminal", "REJECTED: Terminal": a decision is not changed by
\* another one.
DecisionIsTerminal ==
    [][\A r \in Requests : assessment[r] # None /\ Decided(r) =>
          assessment'[r].status = assessment[r].status]_vars
=============================================================================
