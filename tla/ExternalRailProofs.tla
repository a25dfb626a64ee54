------------------------- MODULE ExternalRailProofs -------------------------
(***************************************************************************)
(* What ExternalRail guarantees for every set of transfers, sessions, jobs *)
(* and provider events.  The argument is one inductive invariant, IInv: a  *)
(* session that is past the insert of its event owns the event (the        *)
(* unique-index entry is locked and no such event is committed), so that   *)
(* an event, the status it leads to and the entry that compensates for it  *)
(* appear together and once.                                               *)
(*                                                                         *)
(* What the status of a transfer says about its outcome also needs         *)
(* providers that do not contradict themselves before it has ended; it is  *)
(* a hypothesis of the theorems that use it.  What they report later may   *)
(* say anything: LateInv tells why that is not applied.                    *)
(***************************************************************************)
EXTENDS ExternalRail, LedgerProofs, FiniteSetTheorems

\* applyNormalizedEvent, and what follows its two lookups.
Busy == {"read", "insert", "update", "post", "commit", "audit"}
Applying == Busy \ {"read"}

\* Where a session stands: its event, the transfer it matched, and what it has
\* written so far.
Control(p) ==
    /\ pc[p] \in Busy => inbox[p] # <<>>
    /\ pc[p] \in Applying =>
          /\ target[p] \in Matches(Head(inbox[p]))
          /\ seen[p] \in Status \ {"FAILED"}
    /\ pc[p] \in {"publish", "auditRedriven"} => target[p] \in Pending
    /\ p \in Workers /\ pc[p] # "idle" => serving[p] \in DOMAIN job
    /\ pc[p] \notin {"post", "commit", "audit"} => row[p] = None
    /\ pc[p] \in {"update", "post"} \/ row[p] # None => seen[p] = "PENDING_EXTERNAL"
    /\ pc[p] = "post" => row[p] = "FAILED" /\ Head(inbox[p]).type = "FAILED"
    /\ pc[p] = "commit" =>
          \/ /\ row[p] = None
             /\ Head(inbox[p]).type = "ACKNOWLEDGED" \/ seen[p] # "PENDING_EXTERNAL"
          \/ row[p] = "SETTLED" /\ Head(inbox[p]).type = "SETTLED"
          \/ row[p] = "COMPENSATED" /\ Head(inbox[p]).type = "FAILED"
    /\ entry[p] =
          IF pc[p] = "post" \/ (pc[p] = "commit" /\ row[p] = "COMPENSATED")
          THEN CompensationEntry(target[p], Head(inbox[p]).id) ELSE None

\* An open transaction owns its event, and what it has seen of its transfer is
\* not undone.
Owner(p) ==
    /\ pc[p] \in {"update", "post", "commit"} =>
          /\ CauseRow(Head(inbox[p]).id) \in held[p]
          /\ ~ Recorded(Head(inbox[p]).id)
    /\ pc[p] \in Applying /\ seen[p] # "PENDING_EXTERNAL" => status[target[p]] # "PENDING_EXTERNAL"

\* An event on record was reported of its transfer, or records a compensation.
Reported(e) ==
    /\ e.transfer \in Pending
    /\ \/ /\ e.id \in Causes
          /\ \E n \in Normalized : e.id = n.id /\ e.type = n.type /\ e.transfer \in Matches(n)
       \/ /\ e.type = "COMPENSATED"
          /\ \E c \in Causes : e.id = <<c, "compensated">> /\ Recorded(c)

\* An entry compensates for a failure on record.
Compensates(i) ==
    /\ journal[i].operation = "INTERBANK_TRANSFER_COMPENSATION"
    /\ \E e \in events :
          e.type = "FAILED" /\ e.transfer = journal[i].transfer /\ e.id = journal[i].cause

\* The status of a transfer came with what is on record and in the journal.
Told(t) ==
    /\ status[t] = "PENDING_EXTERNAL" <=> EventsOf(t, "SETTLED") \cup EventsOf(t, "FAILED") = {}
    /\ status[t] = "SETTLED" => EventsOf(t, "SETTLED") # {}
    /\ status[t] = "COMPENSATED" => Compensations(t) # {}
    /\ Cardinality(Compensations(t)) = Cardinality(EventsOf(t, "COMPENSATED"))

PC == {"idle", "read", "insert", "update", "post", "commit", "audit",
       "complete", "publish", "auditReconciled", "auditRedriven", "done"}

\* TypeOK without the ledger's part of it.
RailTypeOK ==
    /\ status \in [Pending -> Status \ {"FAILED"}]
    /\ IsFiniteSet(events)
    /\ job \in Seq(Job)
    /\ pc \in [Users -> PC]
    /\ inbox \in [Users -> Seq(Normalized)]
    /\ target \in [Users -> Pending \cup {None}]
    /\ seen \in [Users -> (Status \ {"FAILED"}) \cup {None}]
    /\ row \in [Users -> (Status \ {"PENDING_EXTERNAL"}) \cup {None}]
    /\ serving \in [Users -> 0 .. Len(job)]

IInv ==
    /\ LedgerInv
    /\ RailTypeOK
    /\ \A p \in Users : Control(p) /\ Owner(p)
    /\ \A e \in events : Reported(e)
    /\ \A i \in DOMAIN journal : Compensates(i)
    /\ OneEntryPerCause
    /\ \A t \in Pending : Told(t)

-----------------------------------------------------------------------------
LEMMA TypesOfIInv == IInv => TypeOK
<1> SUFFICES ASSUME IInv PROVE TypeOK
  OBVIOUS
<1>1. ASSUME NEW e \in events
      PROVE  e.transfer \in Pending /\ e.type \in {"ACKNOWLEDGED", "SETTLED", "FAILED", "COMPENSATED"}
  <2>1. \A n \in Normalized : n.type \in {"ACKNOWLEDGED", "SETTLED", "FAILED"}
    BY EventAssumption DEF EventAssumption
  <2> QED BY <2>1 DEF IInv, Reported
<1> QED BY <1>1 DEF IInv, LedgerInv, LedgerInvOf, RailTypeOK, TypeOK, PC

LEMMA UsersAreSessions == Users \subseteq Sessions /\ Workers \subseteq Users /\ Operators \subseteq Users
                          /\ Callbacks \subseteq Users
  BY RailAssumption DEF RailAssumption, Users

LEMMA EventsTyped ==
    ASSUME NEW n \in Normalized
    PROVE  n.id \in Causes /\ n.type \in {"ACKNOWLEDGED", "SETTLED", "FAILED"}
  BY EventAssumption DEF EventAssumption

\* What a session is applying.
LEMMA HeadTyped ==
    ASSUME RailTypeOK, NEW p \in Users, Control(p), pc[p] \in Busy
    PROVE  /\ inbox[p] \in Seq(Normalized)
           /\ Len(inbox[p]) \in Nat \ {0}
           /\ Head(inbox[p]) \in Normalized
           /\ Head(inbox[p]).id \in Causes
           /\ Head(inbox[p]).type \in {"ACKNOWLEDGED", "SETTLED", "FAILED"}
           /\ Tail(inbox[p]) \in Seq(Normalized)
<1>1. inbox[p] \in Seq(Normalized) /\ inbox[p] # <<>>
  BY DEF RailTypeOK, Control
<1>2. Head(inbox[p]) \in Normalized
  BY <1>1
<1> QED BY <1>1, <1>2, EventsTyped

LEMMA MoreToApply == ASSUME NEW S, NEW s \in Seq(S), Len(s) > 1 PROVE Tail(s) # <<>>
<1>1. DOMAIN Tail(s) = 1 .. (Len(s) - 1)
  OBVIOUS
<1>2. 1 \in DOMAIN Tail(s)
  BY <1>1
<1>3. 1 \notin DOMAIN <<>>
  OBVIOUS
<1> QED BY <1>2, <1>3

LEMMA AppendKeeps ==
    ASSUME NEW S, NEW s \in Seq(S), NEW x \in S
    PROVE  /\ Len(s) + 1 \in Nat \ DOMAIN s
           /\ DOMAIN Append(s, x) = DOMAIN s \cup {Len(s) + 1}
           /\ \A i \in DOMAIN s : Append(s, x)[i] = s[i]
           /\ Append(s, x)[Len(s) + 1] = x
  OBVIOUS

LEMMA TargetTyped ==
    ASSUME RailTypeOK, NEW p \in Users, Control(p), pc[p] \in Applying
    PROVE  target[p] \in Pending
  BY DEF Control, Matches

\* What a compensation posts is a journal entry with two sides.
LEMMA CompensationTyped ==
    ASSUME NEW t \in Pending, NEW c \in Causes
    PROVE  /\ CompensationEntry(t, c) \in Entry
           /\ CompensationEntry(t, c) # None
           /\ Postable(CompensationEntry(t, c))
           /\ CompensationEntry(t, c).transfer = t
           /\ CompensationEntry(t, c).cause = c
           /\ CompensationEntry(t, c).operation = "INTERBANK_TRANSFER_COMPENSATION"
<1>1. /\ t \in TransferIds /\ Detail[t].source \in Accounts /\ Detail[t].clearing \in SystemAccounts
      /\ Detail[t].amount \in Nat \ {0}
  BY RailAssumption DEF RailAssumption
<1>2. CompensationEntry(t, c) \in Entry
  BY <1>1 DEF CompensationEntry, Entry, Operation
<1>3. Postable(CompensationEntry(t, c))
  BY <1>1, LedgerAssumption DEF CompensationEntry, Postable, LedgerAssumption
<1> QED BY <1>2, <1>3, LedgerAssumption DEF CompensationEntry, LedgerAssumption

\* A retried job keeps its place in the queue.
LEMMA RetryTyped ==
    ASSUME job \in Seq(Job), NEW j \in DOMAIN job, Retry(j)
    PROVE  job' \in Seq(Job) /\ Len(job') = Len(job)
<1> DEFINE r == job[j]
<1>0. r \in Job
  OBVIOUS
<1> HIDE DEF r
<1>1. r \in Job /\ r.tries \in 0 .. RetryLimit /\ RetryLimit \in Nat
  BY <1>0, RailAssumption DEF Job, RailAssumption
<1>2. Retried(r) \in Job
  <2>1. CASE r.state = "active" /\ r.tries < RetryLimit
    <3>1. r.tries + 1 \in 0 .. RetryLimit
      BY <1>1, <2>1
    <3>2. [r EXCEPT !.state = "created", !.tries = r.tries + 1] \in Job
      BY <1>1, <3>1 DEF Job
    <3> QED BY <2>1, <3>2 DEF Retried
  <2>2. CASE r.state = "active" /\ ~ (r.tries < RetryLimit)
    <3>1. [r EXCEPT !.state = "failed"] \in Job
      BY <1>1 DEF Job
    <3> QED BY <2>2, <3>1 DEF Retried
  <2>3. CASE r.state # "active"
    BY <1>1, <2>3 DEF Retried
  <2> QED BY <2>1, <2>2, <2>3
<1> QED BY <1>2 DEF Retry, r

LEMMA JobStateTyped ==
    ASSUME job \in Seq(Job), NEW j \in DOMAIN job,
           NEW s \in {"created", "active", "completed", "failed"}, JobState(j, s)
    PROVE  job' \in Seq(Job) /\ Len(job') = Len(job)
<1>1. PICK r : r = job[j]
  OBVIOUS
<1>2. r \in Job
  BY <1>1
<1>3. [r EXCEPT !.state = s] \in Job
  BY <1>2 DEF Job
<1>4. job' = [job EXCEPT ![j] = [r EXCEPT !.state = s]]
  BY <1>1 DEF JobState
<1> QED BY <1>3, <1>4

-----------------------------------------------------------------------------
(* Steps that commit nothing.                                              *)

\* The sessions that are not p stay where they are.
Unmoved(p) ==
    \A q \in Users \ {p} :
        /\ pc'[q] = pc[q] /\ inbox'[q] = inbox[q] /\ target'[q] = target[q]
        /\ seen'[q] = seen[q] /\ row'[q] = row[q] /\ serving'[q] = serving[q]

\* A session that does not move keeps its part of IInv as long as no transfer
\* becomes pending again and nobody else records its event.
LEMMA OthersKeep ==
    ASSUME IInv, NEW p, NEW q \in Users \ {p}, Unmoved(p),
           entry'[q] = entry[q], held'[q] = held[q],
           DOMAIN job \subseteq DOMAIN job',
           \A t \in Pending : status[t] # "PENDING_EXTERNAL" => status'[t] # "PENDING_EXTERNAL",
           pc[q] \in {"update", "post", "commit"} => \A e \in events' : e.id # Head(inbox[q]).id
    PROVE  Control(q)' /\ Owner(q)'
<1> /\ pc'[q] = pc[q] /\ inbox'[q] = inbox[q] /\ target'[q] = target[q]
    /\ seen'[q] = seen[q] /\ row'[q] = row[q] /\ serving'[q] = serving[q]
  BY DEF Unmoved
<1> Control(q) /\ Owner(q) /\ RailTypeOK
  BY DEF IInv
<1>1. Control(q)'
  BY DEF Control, Matches, CompensationEntry
<1>2. Owner(q)'
  BY TargetTyped DEF Owner, Recorded, CauseRow, Applying, Busy
<1> QED BY <1>1, <1>2

LEMMA TablesKeep ==
    ASSUME IInv, UNCHANGED <<status, events, journal>>
    PROVE  /\ \A e \in events' : Reported(e)'
           /\ \A i \in DOMAIN journal' : Compensates(i)'
           /\ OneEntryPerCause'
           /\ \A t \in Pending : Told(t)'
<1>1. \A e \in events' : Reported(e)'
  BY DEF IInv, Reported, Recorded
<1>2. \A i \in DOMAIN journal' : Compensates(i)'
  BY DEF IInv, Compensates
<1>3. OneEntryPerCause'
  BY DEF IInv, OneEntryPerCause
<1>4. \A t \in Pending : Told(t)'
  BY DEF IInv, Told, EventsOf, Compensations
<1> QED BY <1>1, <1>2, <1>3, <1>4

LEMMA QuietStep ==
    ASSUME IInv, NEW p \in Users,
           LedgerStep(p) \/ UNCHANGED ledgerVars,
           UNCHANGED <<status, events, journal>>,
           Unmoved(p), DOMAIN job \subseteq DOMAIN job',
           RailTypeOK', Control(p)', Owner(p)'
    PROVE  IInv'
<1>1. LedgerInv'
  BY UsersAreSessions, LedgerStepInv, LedgerStutterInv DEF LedgerInv, IInv
<1>2. ASSUME NEW q \in Users \ {p} PROVE Control(q)' /\ Owner(q)'
  <2>1. entry'[q] = entry[q] /\ held'[q] = held[q]
    BY UsersAreSessions, LedgerStepFrame DEF LedgerInv, IInv, ledgerVars, sessionVars
  <2>2. pc[q] \in {"update", "post", "commit"} => \A e \in events' : e.id # Head(inbox[q]).id
    BY DEF IInv, Owner, Recorded
  <2> QED BY <2>1, <2>2, OthersKeep
<1> QED BY <1>1, <1>2, TablesKeep DEF IInv

\* A handler that fails, whatever becomes of its job.
LEMMA AbandonInv ==
    ASSUME IInv, NEW p \in Users, Abandon(p),
           job' \in Seq(Job), Len(job') = Len(job)
    PROVE  IInv'
<1> RailTypeOK /\ LedgerTypeOK
  BY DEF IInv, LedgerInv, LedgerInvOf
<1>1. /\ RollbackEntry(p)
      /\ pc' = [pc EXCEPT ![p] = IF p \in Workers THEN "idle" ELSE "done"]
      /\ inbox' = [inbox EXCEPT ![p] = <<>>]
      /\ target' = [target EXCEPT ![p] = None]
      /\ seen' = [seen EXCEPT ![p] = None]
      /\ row' = [row EXCEPT ![p] = None]
      /\ serving' = [serving EXCEPT ![p] = 0]
      /\ UNCHANGED <<status, events, audit>>
  BY DEF Abandon, Goto
<1>2. RailTypeOK' /\ Unmoved(p) /\ DOMAIN job' = DOMAIN job
  BY <1>1 DEF RailTypeOK, PC, Unmoved
<1>3. entry'[p] = None /\ journal' = journal
  BY <1>1, UsersAreSessions DEF RollbackEntry, EndTransaction, LedgerTypeOK
<1>4. Control(p)' /\ Owner(p)'
  BY <1>1, <1>3, UsersAreSessions DEF RailTypeOK, Control, Owner, Busy, Applying
<1> QED BY <1>1, <1>2, <1>3, <1>4, QuietStep DEF LedgerStep

LEMMA ThrowInv ==
    ASSUME IInv, NEW p \in Users, pc[p] # "idle", Throw(p)
    PROVE  IInv'
<1>1. p \in Workers => job' \in Seq(Job) /\ Len(job') = Len(job)
  BY RetryTyped DEF Throw, IInv, Control, RailTypeOK
<1>2. p \notin Workers => job' \in Seq(Job) /\ Len(job') = Len(job)
  BY DEF Throw, IInv, RailTypeOK
<1> QED BY <1>1, <1>2, AbandonInv DEF Throw

LEMMA FailInv == ASSUME IInv, NEW p \in Users, Fail(p) PROVE IInv'
<1>1. CASE Throw(p)
  BY <1>1, ThrowInv DEF Fail
<1>2. CASE Abandon(p) /\ UNCHANGED job
  BY <1>2, AbandonInv DEF IInv, RailTypeOK
<1> QED BY <1>1, <1>2 DEF Fail

\* The queue gives up on a run; the run may go on.
LEMMA ExpireInv == ASSUME IInv, NEW j \in DOMAIN job, Expire(j) PROVE IInv'
<1> RailTypeOK
  BY DEF IInv
<1>1. /\ job' \in Seq(Job) /\ Len(job') = Len(job)
      /\ UNCHANGED <<ledgerVars, status, events, journal, pc, inbox, target, seen, row, serving>>
      /\ UNCHANGED <<held, entry>>
  BY RetryTyped DEF Expire, RailTypeOK, sessionState, ledgerVars, sessionVars
<1>2. RailTypeOK'
  BY <1>1 DEF RailTypeOK
<1>3. ASSUME NEW q \in Users PROVE Control(q)' /\ Owner(q)'
  BY <1>1 DEF IInv, Control, Owner, Matches, CompensationEntry, Recorded, CauseRow
<1>4. LedgerInv'
  BY <1>1, LedgerStutterInv DEF LedgerInv, IInv
<1> QED BY <1>1, <1>2, <1>3, <1>4, TablesKeep DEF IInv

-----------------------------------------------------------------------------
(* Where sessions get their work from.                                     *)

LEMMA FetchJobInv ==
    ASSUME IInv, NEW w \in Workers, NEW j \in DOMAIN job, FetchJob(w, j)
    PROVE  IInv'
<1> RailTypeOK /\ Control(w) /\ w \in Users
  BY UsersAreSessions DEF IInv
<1> DEFINE t == job[j].transfer
<1>1. pc[w] = "idle" /\ UNCHANGED <<ledgerVars, status, events, journal, held, entry, target, seen, row>>
  BY DEF FetchJob, ledgerVars, sessionVars
<1>2. job' \in Seq(Job) /\ Len(job') = Len(job)
  BY JobStateTyped DEF FetchJob, RailTypeOK
<1>3. CASE UNCHANGED <<pc, inbox, serving>>
  <2>1. RailTypeOK' /\ Unmoved(w)
    BY <1>1, <1>2, <1>3 DEF RailTypeOK, Unmoved
  <2>2. Control(w)' /\ Owner(w)'
    BY <1>1, <1>2, <1>3 DEF IInv, Control, Owner, Busy, Applying
  <2> QED BY <1>1, <1>2, <2>1, <2>2, QuietStep
<1>4. CASE /\ inbox' = [inbox EXCEPT ![w] = SubmitTransfer(t)]
           /\ serving' = [serving EXCEPT ![w] = j]
           /\ pc' = [pc EXCEPT ![w] = "read"]
  <2>1. t \in Pending
    <3>1. job[j] \in Job
      BY DEF RailTypeOK
    <3> QED BY <3>1 DEF Job
  <2>2. SubmitTransfer(t) \in Seq(Normalized) /\ SubmitTransfer(t) # <<>>
    BY <2>1 DEF SubmitTransfer, Normalized, Adapted
  <2>3. RailTypeOK' /\ Unmoved(w)
    BY <1>1, <1>2, <1>4, <2>2 DEF RailTypeOK, Unmoved, PC
  <2>4. Control(w)' /\ Owner(w)'
    BY <1>1, <1>2, <1>4, <2>2 DEF RailTypeOK, Control, Owner, Busy, Applying
  <2> QED BY <1>1, <1>2, <2>3, <2>4, QuietStep
<1> QED BY <1>3, <1>4 DEF FetchJob, Goto

\* An operator or a provider hands over one event.
LEMMA EventGiven ==
    ASSUME IInv, NEW p \in Users \ Workers, NEW n \in Normalized, pc[p] = "idle",
           inbox' = [inbox EXCEPT ![p] = <<n>>], Goto(p, "read"),
           UNCHANGED <<ledgerVars, status, events, audit, job, target, seen, row, serving>>
    PROVE  IInv'
<1> RailTypeOK /\ Control(p)
  BY DEF IInv
<1>1. UNCHANGED <<held, entry, journal>>
  BY DEF ledgerVars, sessionVars
<1>2. RailTypeOK' /\ Unmoved(p)
  BY DEF RailTypeOK, Unmoved, PC, Goto
<1>3. Control(p)' /\ Owner(p)'
  BY <1>1 DEF RailTypeOK, Control, Owner, Busy, Applying, Goto
<1> QED BY <1>1, <1>2, <1>3, QuietStep

LEMMA ReconcileInv ==
    ASSUME IInv, NEW o \in Operators, NEW t \in Pending, Reconcile(o, t)
    PROVE  IInv'
<1>1. TerminalEvent(t, "reconcile") \in Normalized /\ o \in Users \ Workers
  BY RailAssumption DEF Normalized, Adapted, Users, RailAssumption
<1> QED BY <1>1, EventGiven DEF Reconcile, ReconcileEvents

LEMMA CallbackInv ==
    ASSUME IInv, NEW c \in Callbacks, NEW e \in Inbound, Callback(c, e)
    PROVE  IInv'
<1>1. e \in Normalized /\ c \in Users \ Workers
  BY RailAssumption DEF Normalized, Users, RailAssumption
<1> QED BY <1>1, EventGiven DEF Callback

LEMMA RedriveInv ==
    ASSUME IInv, NEW o \in Operators, NEW t \in Pending, Redrive(o, t)
    PROVE  IInv'
<1> RailTypeOK /\ Control(o) /\ o \in Users \ Workers
  BY UsersAreSessions, RailAssumption DEF IInv, RailAssumption
<1>1. /\ pc[o] = "idle"
      /\ target' = [target EXCEPT ![o] = t]
      /\ pc' = [pc EXCEPT ![o] = IF status[t] = "PENDING_EXTERNAL" THEN "publish" ELSE "done"]
      /\ UNCHANGED <<ledgerVars, status, events, job, inbox, seen, row, serving, held, entry, journal>>
  BY DEF Redrive, Goto, ledgerVars, sessionVars
<1>2. RailTypeOK' /\ Unmoved(o)
  BY <1>1 DEF RailTypeOK, Unmoved, PC
<1>3. Control(o)' /\ Owner(o)'
  BY <1>1 DEF RailTypeOK, Control, Owner, Busy, Applying
<1> QED BY <1>1, <1>2, <1>3, QuietStep

LEMMA PublishInv == ASSUME IInv, NEW o \in Operators, Publish(o) PROVE IInv'
<1> RailTypeOK /\ Control(o) /\ o \in Users \ Workers
  BY UsersAreSessions, RailAssumption DEF IInv, RailAssumption
<1>1. /\ pc[o] = "publish"
      /\ job' = Append(job, NewJob(target[o]))
      /\ pc' = [pc EXCEPT ![o] = "auditRedriven"]
      /\ UNCHANGED <<ledgerVars, status, events, inbox, target, seen, row, serving, held, entry, journal>>
  BY DEF Publish, Goto, ledgerVars, sessionVars
<1>2. NewJob(target[o]) \in Job
  BY <1>1, RailAssumption DEF Control, NewJob, Job, RailAssumption
<1>3. job' \in Seq(Job) /\ Len(job') = Len(job) + 1 /\ DOMAIN job \subseteq DOMAIN job'
  BY <1>1, <1>2 DEF RailTypeOK
<1>4. RailTypeOK' /\ Unmoved(o)
  BY <1>1, <1>3 DEF RailTypeOK, Unmoved, PC
<1>5. Control(o)' /\ Owner(o)'
  BY <1>1 DEF RailTypeOK, Control, Owner, Busy, Applying
<1> QED BY <1>1, <1>3, <1>4, <1>5, QuietStep

\* After the last event: the job completes, the operator's action is recorded.
LEMMA CompleteJobInv == ASSUME IInv, NEW w \in Workers, CompleteJob(w) PROVE IInv'
<1> RailTypeOK /\ Control(w) /\ w \in Users
  BY UsersAreSessions DEF IInv
<1>1. /\ pc[w] = "complete"
      /\ pc' = [pc EXCEPT ![w] = "idle"]
      /\ target' = [target EXCEPT ![w] = None]
      /\ serving' = [serving EXCEPT ![w] = 0]
      /\ UNCHANGED <<ledgerVars, status, events, inbox, seen, row, held, entry, journal>>
  BY DEF CompleteJob, Goto, ledgerVars, sessionVars
<1>2. job' \in Seq(Job) /\ Len(job') = Len(job)
  <2>1. PICK j \in DOMAIN job : j = serving[w]
    BY <1>1 DEF Control
  <2>2. PICK s : s = IF job[j].state = "active" THEN "completed" ELSE job[j].state
    OBVIOUS
  <2>3. job[j] \in Job
    BY DEF RailTypeOK
  <2>4. s \in {"created", "active", "completed", "failed"}
    BY <2>2, <2>3 DEF Job
  <2>5. JobState(j, s)
    BY <2>1, <2>2 DEF CompleteJob, JobState
  <2> QED BY <2>4, <2>5, JobStateTyped DEF RailTypeOK
<1>3. RailTypeOK' /\ Unmoved(w)
  BY <1>1, <1>2 DEF RailTypeOK, Unmoved, PC
<1>4. Control(w)' /\ Owner(w)'
  BY <1>1, <1>2 DEF RailTypeOK, Control, Owner, Busy, Applying
<1> QED BY <1>1, <1>2, <1>3, <1>4, QuietStep

LEMMA AuditOperatorInv == ASSUME IInv, NEW o \in Operators, AuditOperator(o) PROVE IInv'
<1> RailTypeOK /\ Control(o) /\ o \in Users \ Workers
  BY UsersAreSessions, RailAssumption DEF IInv, RailAssumption
<1>1. /\ pc[o] \in {"auditReconciled", "auditRedriven"}
      /\ pc' = [pc EXCEPT ![o] = "done"]
      /\ UNCHANGED <<ledgerVars, status, events, job, inbox, target, seen, row, serving, held, entry, journal>>
  BY DEF AuditOperator, Goto, ledgerVars, sessionVars
<1>2. RailTypeOK' /\ Unmoved(o)
  BY <1>1 DEF RailTypeOK, Unmoved, PC
<1>3. Control(o)' /\ Owner(o)'
  BY <1>1 DEF RailTypeOK, Control, Owner, Busy, Applying
<1> QED BY <1>1, <1>2, <1>3, QuietStep

-----------------------------------------------------------------------------
(* applyNormalizedEvent up to its commit, and the audit record after it.   *)

LEMMA ReadStateInv == ASSUME IInv, NEW p \in Users, ReadState(p) PROVE IInv'
<1> RailTypeOK /\ Control(p)
  BY DEF IInv
<1> PICK t \in Matches(Head(inbox[p])) :
      target' = [target EXCEPT ![p] = t] /\ seen' = [seen EXCEPT ![p] = status[t]]
  BY DEF ReadState
<1>1. /\ pc[p] = "read"
      /\ \E l \in {"audit", "insert"} : pc' = [pc EXCEPT ![p] = l]
      /\ UNCHANGED <<ledgerVars, status, events, job, inbox, row, serving, held, entry, journal>>
  BY DEF ReadState, Goto, ledgerVars, sessionVars
<1>2. t \in Pending /\ status[t] \in Status \ {"FAILED"}
  BY DEF Matches, RailTypeOK
<1>3. RailTypeOK' /\ Unmoved(p)
  BY <1>1, <1>2 DEF RailTypeOK, Unmoved, PC
<1>4. t \in Matches(Head(inbox[p]))' /\ Matches(Head(inbox[p]))' = Matches(Head(inbox'[p]))
  BY <1>1 DEF Matches
<1>5. Control(p)' /\ Owner(p)'
  BY <1>1, <1>2, <1>4 DEF RailTypeOK, Control, Owner, Busy, Applying, Matches
<1> QED BY <1>1, <1>3, <1>5, QuietStep

LEMMA InsertEventInv == ASSUME IInv, NEW p \in Users, InsertEvent(p) PROVE IInv'
<1> RailTypeOK /\ Control(p) /\ Owner(p) /\ LedgerTypeOK /\ p \in Sessions
  BY UsersAreSessions DEF IInv, LedgerInv, LedgerInvOf
<1> DEFINE e == Head(inbox[p])
<1>1. pc[p] = "insert"
  BY DEF InsertEvent
<1>2. CASE Throw(p)
  BY <1>1, <1>2, ThrowInv
<1>3. CASE ~ Throw(p)
  <2>1. /\ ~ Recorded(e.id)
        /\ Acquire(p, CauseRow(e.id))
        /\ pc' = [pc EXCEPT ![p] = IF e.type = "ACKNOWLEDGED" \/ seen[p] # "PENDING_EXTERNAL"
                                   THEN "commit" ELSE "update"]
        /\ UNCHANGED <<projection, journal, overwritten, sessionVars, entry, status, events,
                       job, inbox, target, seen, row, serving>>
    BY <1>3 DEF InsertEvent, Goto, sessionVars
  <2>2. e.id \in Causes /\ e.type \in {"ACKNOWLEDGED", "SETTLED", "FAILED"}
    BY <1>1, HeadTyped DEF Busy
  <2>3. LedgerStep(p)
    <3>1. CauseRow(e.id) \in Row
      BY <2>2 DEF CauseRow, Row
    <3> QED BY <2>1, <3>1 DEF LedgerStep, CallerLocks
  <2>4. CauseRow(e.id) \in held'[p]
    BY <2>1 DEF Acquire, LedgerTypeOK
  <2>5. RailTypeOK' /\ Unmoved(p)
    BY <2>1 DEF RailTypeOK, Unmoved, PC
  <2>6. Control(p)'
    <3>1. CASE e.type = "ACKNOWLEDGED" \/ seen[p] # "PENDING_EXTERNAL"
      <4>1. pc'[p] = "commit"
        BY <2>1, <3>1 DEF RailTypeOK
      <4> QED BY <1>1, <2>1, <3>1, <4>1, RailAssumption
              DEF Control, Busy, Applying, Matches, Status, RailAssumption
    <3>2. CASE ~ (e.type = "ACKNOWLEDGED" \/ seen[p] # "PENDING_EXTERNAL")
      <4>1. pc'[p] = "update"
        BY <2>1, <3>2 DEF RailTypeOK
      <4> QED BY <1>1, <2>1, <3>2, <4>1 DEF Control, Busy, Applying, Matches
    <3> QED BY <3>1, <3>2
  <2>7. Owner(p)'
    BY <1>1, <2>1, <2>4 DEF RailTypeOK, Owner, Busy, Applying, Recorded, CauseRow
  <2> QED BY <2>1, <2>3, <2>5, <2>6, <2>7, QuietStep
<1> QED BY <1>2, <1>3

LEMMA MarkSettledInv == ASSUME IInv, NEW p \in Users, MarkSettled(p) PROVE IInv'
<1> RailTypeOK /\ Control(p) /\ Owner(p) /\ LedgerTypeOK /\ p \in Sessions
  BY UsersAreSessions DEF IInv, LedgerInv, LedgerInvOf
<1>1. /\ pc[p] = "update" /\ Head(inbox[p]).type = "SETTLED"
      /\ Acquire(p, TransferRow(target[p]))
      /\ row' = [row EXCEPT ![p] = "SETTLED"]
      /\ pc' = [pc EXCEPT ![p] = "commit"]
      /\ UNCHANGED <<projection, journal, overwritten, sessionVars, entry, status, events,
                     job, inbox, target, seen, serving>>
  BY DEF MarkSettled, Goto, sessionVars
<1>2. LedgerStep(p)
  <2>1. TransferRow(target[p]) \in Row
    BY <1>1, TargetTyped, RailAssumption DEF TransferRow, Row, RailAssumption, Applying, Busy
  <2> QED BY <1>1, <2>1 DEF LedgerStep, CallerLocks
<1>3. held[p] \subseteq held'[p]
  BY <1>1 DEF Acquire, LedgerTypeOK
<1>4. RailTypeOK' /\ Unmoved(p)
  BY <1>1 DEF RailTypeOK, Unmoved, PC, Status
<1>5. Control(p)'
  BY <1>1, RailAssumption
     DEF RailTypeOK, Control, Busy, Applying, Matches, Status, RailAssumption
<1>6. Owner(p)'
  BY <1>1, <1>3 DEF RailTypeOK, Owner, Busy, Applying, Recorded, CauseRow
<1> QED BY <1>1, <1>2, <1>4, <1>5, <1>6, QuietStep

LEMMA MarkFailedInv == ASSUME IInv, NEW p \in Users, MarkFailed(p) PROVE IInv'
<1> RailTypeOK /\ Control(p) /\ Owner(p) /\ LedgerTypeOK /\ p \in Sessions
  BY UsersAreSessions DEF IInv, LedgerInv, LedgerInvOf
<1> DEFINE e == CompensationEntry(target[p], Head(inbox[p]).id)
<1>1. /\ pc[p] = "update" /\ Head(inbox[p]).type = "FAILED"
      /\ Acquire(p, TransferRow(target[p]))
      /\ OpenEntry(p, e)
      /\ row' = [row EXCEPT ![p] = "FAILED"]
      /\ pc' = [pc EXCEPT ![p] = "post"]
      /\ UNCHANGED <<journal, status, events, job, inbox, target, seen, serving>>
  BY DEF MarkFailed, Goto, OpenEntry
<1>2. target[p] \in Pending /\ Head(inbox[p]).id \in Causes /\ entry[p] = None
  BY <1>1, TargetTyped, HeadTyped DEF Applying, Busy, Control
<1>3. e \in Entry /\ Postable(e)
  BY <1>2, CompensationTyped
<1>4. entry'[p] = e
  BY <1>1, <1>3 DEF OpenEntry, LedgerTypeOK
<1>5. LedgerStep(p)
  <2>1. TransferRow(target[p]) \in Row
    BY <1>2, RailAssumption DEF TransferRow, Row, RailAssumption
  <2> QED BY <1>1, <1>2, <1>3, <1>4, <2>1 DEF LedgerStep, CallerLocks
<1>6. held[p] \subseteq held'[p]
  BY <1>1 DEF Acquire, LedgerTypeOK
<1>7. RailTypeOK' /\ Unmoved(p)
  BY <1>1 DEF RailTypeOK, Unmoved, PC, Status
<1>8. Control(p)'
  <2>1. CompensationEntry(target[p], Head(inbox[p]).id)' = e
    BY <1>1 DEF CompensationEntry
  <2> QED BY <1>1, <1>4, <2>1 DEF RailTypeOK, Control, Busy, Applying, Matches
<1>9. Owner(p)'
  BY <1>1, <1>6 DEF RailTypeOK, Owner, Busy, Applying, Recorded, CauseRow
<1> QED BY <1>1, <1>5, <1>7, <1>8, <1>9, QuietStep

LEMMA PostInv == ASSUME IInv, NEW p \in Users, Post(p) PROVE IInv'
<1> RailTypeOK /\ Control(p) /\ Owner(p) /\ LedgerTypeOK /\ p \in Sessions
  BY UsersAreSessions DEF IInv, LedgerInv, LedgerInvOf
<1>1. /\ pc[p] = "post"
      /\ ReadProjection(p) \/ UpsertProjection(p)
      /\ UNCHANGED <<status, events, job, pc, inbox, target, seen, row, serving>>
  BY DEF Post, railVars, sessionState
<1>2. LedgerStep(p) /\ UNCHANGED <<journal, entry>>
  BY <1>1 DEF LedgerStep, ReadProjection, UpsertProjection
<1>3. held[p] \subseteq held'[p]
  BY <1>1 DEF ReadProjection, UpsertProjection, Acquire, LedgerTypeOK
<1>4. RailTypeOK' /\ Unmoved(p)
  BY <1>1 DEF RailTypeOK, Unmoved
<1>5. Control(p)' /\ Owner(p)'
  BY <1>1, <1>2, <1>3 DEF Control, Owner, Matches, CompensationEntry, Recorded, CauseRow
<1> QED BY <1>1, <1>2, <1>4, <1>5, QuietStep

LEMMA MarkCompensatedInv == ASSUME IInv, NEW p \in Users, MarkCompensated(p) PROVE IInv'
<1> RailTypeOK /\ Control(p) /\ Owner(p)
  BY DEF IInv
<1>1. /\ pc[p] = "post"
      /\ row' = [row EXCEPT ![p] = "COMPENSATED"]
      /\ pc' = [pc EXCEPT ![p] = "commit"]
      /\ UNCHANGED <<ledgerVars, held, entry, journal, status, events, job, inbox, target, seen, serving>>
  BY DEF MarkCompensated, Goto, ledgerVars, sessionVars
<1>2. RailTypeOK' /\ Unmoved(p)
  BY <1>1 DEF RailTypeOK, Unmoved, PC, Status
<1>3. Control(p)'
  BY <1>1 DEF RailTypeOK, Control, Busy, Applying, Matches, CompensationEntry
<1>4. Owner(p)'
  BY <1>1 DEF RailTypeOK, Owner, Busy, Applying, Recorded, CauseRow
<1> QED BY <1>1, <1>2, <1>3, <1>4, QuietStep

LEMMA AuditInv == ASSUME IInv, NEW p \in Users, Audit(p) PROVE IInv'
<1> RailTypeOK /\ Control(p)
  BY DEF IInv
<1>1. /\ pc[p] = "audit"
      /\ inbox' = [inbox EXCEPT ![p] = Tail(@)]
      /\ row' = [row EXCEPT ![p] = None]
      /\ seen' = [seen EXCEPT ![p] = None]
      /\ pc' = [pc EXCEPT ![p] = IF Len(inbox[p]) > 1 THEN "read"
                                 ELSE IF p \in Workers THEN "complete"
                                 ELSE IF p \in Operators THEN "auditReconciled" ELSE "done"]
      /\ UNCHANGED <<ledgerVars, held, entry, journal, status, events, job, target, serving>>
  BY DEF Audit, Goto, ledgerVars, sessionVars
<1>2. /\ Tail(inbox[p]) \in Seq(Normalized)
      /\ Len(inbox[p]) > 1 => Tail(inbox[p]) # <<>>
  BY <1>1, HeadTyped, MoreToApply DEF Busy
<1>3. RailTypeOK' /\ Unmoved(p)
  BY <1>1, <1>2 DEF RailTypeOK, Unmoved, PC
<1>4. Control(p)' /\ Owner(p)'
  BY <1>1, <1>2 DEF RailTypeOK, Control, Owner, Busy, Applying
<1> QED BY <1>1, <1>3, <1>4, QuietStep

-----------------------------------------------------------------------------
(* The commit.                                                             *)

\* What a session is about to put on record is new.
LEMMA NewEventsAre ==
    ASSUME IInv, NEW p \in Users, pc[p] = "commit"
    PROVE  \E e, c :
              /\ NewEvents(p) = IF row[p] = "COMPENSATED" THEN {e, c} ELSE {e}
              /\ e.id = Head(inbox[p]).id /\ e.type = Head(inbox[p]).type /\ e.transfer = target[p]
              /\ c.id = <<Head(inbox[p]).id, "compensated">> /\ c.type = "COMPENSATED"
              /\ c.transfer = target[p]
              /\ e \notin events /\ c \notin events /\ e # c
<1> RailTypeOK /\ Control(p) /\ Owner(p)
  BY DEF IInv
<1> DEFINE h == Head(inbox[p])
           t == target[p]
           e == [h EXCEPT !.transfer = t]
           c == [e EXCEPT !.id = <<e.id, "compensated">>, !.type = "COMPENSATED"]
<1>1. h \in Normalized /\ h.id \in Causes /\ t \in Pending /\ ~ Recorded(h.id)
  BY HeadTyped, TargetTyped DEF Busy, Applying, Owner
<1>2. PICK X, Y : Normalized \subseteq [id : Causes, transfer : X, ref : Y,
                                        type : {"ACKNOWLEDGED", "SETTLED", "FAILED"}]
  BY EventAssumption DEF EventAssumption
<1>3. e \in [id : Causes, transfer : Pending, ref : Y, type : {"ACKNOWLEDGED", "SETTLED", "FAILED"}]
      /\ e.id = h.id /\ e.type = h.type /\ e.transfer = t
  BY <1>1, <1>2
<1>4. c.id = <<h.id, "compensated">> /\ c.type = "COMPENSATED" /\ c.transfer = t
  <2>1. PICK r : r = e
    OBVIOUS
  <2>2. r \in [id : Causes, transfer : Pending, ref : Y, type : {"ACKNOWLEDGED", "SETTLED", "FAILED"}]
        /\ r.id = h.id /\ r.transfer = t
    BY <1>3, <2>1
  <2>3. /\ [r EXCEPT !.id = <<r.id, "compensated">>, !.type = "COMPENSATED"].id = <<h.id, "compensated">>
        /\ [r EXCEPT !.id = <<r.id, "compensated">>, !.type = "COMPENSATED"].type = "COMPENSATED"
        /\ [r EXCEPT !.id = <<r.id, "compensated">>, !.type = "COMPENSATED"].transfer = t
    BY <2>2
  <2> QED BY <2>1, <2>3
<1>5. NewEvents(p) = {e} \cup {c : x \in {row[p]} \cap {"COMPENSATED"}}
  BY DEF NewEvents
<1> HIDE DEF e, c
<1>6. NewEvents(p) = IF row[p] = "COMPENSATED" THEN {e, c} ELSE {e}
  BY <1>5
<1>7. e \notin events
  BY <1>1, <1>3 DEF Recorded
<1>8. c \notin events
  <2> SUFFICES ASSUME c \in events PROVE FALSE
    OBVIOUS
  <2>1. <<h.id, "compensated">> \notin Causes
    BY <1>1, EventAssumption DEF EventAssumption
  <2>2. PICK d \in Causes : c.id = <<d, "compensated">> /\ Recorded(d)
    BY <1>4, <2>1 DEF IInv, Reported
  <2>3. d = h.id
    BY <1>4, <2>2
  <2> QED BY <1>1, <2>2, <2>3
<1>9. e # c
  BY <1>3, <1>4
<1> QED BY <1>3, <1>4, <1>6, <1>7, <1>8, <1>9

LEMMA CommitInv == ASSUME IInv, NEW p \in Users, Commit(p) PROVE IInv'
<1> RailTypeOK /\ Control(p) /\ Owner(p) /\ LedgerInv /\ LedgerTypeOK /\ p \in Sessions
  BY UsersAreSessions DEF IInv, LedgerInv, LedgerInvOf
<1> DEFINE h == Head(inbox[p])
           t == target[p]
           failed == row[p] = "COMPENSATED"
<1>1. /\ pc[p] = "commit" /\ CommitEntry(p)
      /\ status' = [status EXCEPT ![t] = IF row[p] = None THEN @ ELSE row[p]]
      /\ events' = events \cup NewEvents(p)
      /\ pc' = [pc EXCEPT ![p] = "audit"]
      /\ UNCHANGED <<job, inbox, target, seen, row, serving>>
  BY DEF Commit, Goto
<1>2. /\ h \in Normalized /\ h.id \in Causes /\ t \in Pending /\ t \in Matches(h)
      /\ CauseRow(h.id) \in held[p] /\ ~ Recorded(h.id)
      /\ seen[p] # "PENDING_EXTERNAL" => status[t] # "PENDING_EXTERNAL"
  BY <1>1, HeadTyped, TargetTyped DEF Busy, Applying, Owner, Control
<1>3. /\ \/ /\ row[p] = None
            /\ h.type = "ACKNOWLEDGED" \/ seen[p] # "PENDING_EXTERNAL"
         \/ row[p] = "SETTLED" /\ h.type = "SETTLED"
         \/ failed /\ h.type = "FAILED"
      /\ entry[p] = IF failed THEN CompensationEntry(t, h.id) ELSE None
      /\ None \notin Status
  BY <1>1, RailAssumption DEF Control, RailAssumption
<1>4. PICK e, c :
        /\ NewEvents(p) = IF failed THEN {e, c} ELSE {e}
        /\ e.id = h.id /\ e.type = h.type /\ e.transfer = t
        /\ c.id = <<h.id, "compensated">> /\ c.type = "COMPENSATED" /\ c.transfer = t
        /\ e \notin events /\ c \notin events /\ e # c
  BY <1>1, NewEventsAre
<1>5. /\ \A x \in events' : x \in events \/ x = e \/ (failed /\ x = c)
      /\ events \subseteq events' /\ e \in events' /\ (failed => c \in events')
  BY <1>1, <1>4
<1>6. /\ \A u \in Pending \ {t} : status'[u] = status[u]
      /\ status'[t] = IF row[p] = None THEN status[t] ELSE row[p]
      /\ \A u \in Pending : status[u] # "PENDING_EXTERNAL" => status'[u] # "PENDING_EXTERNAL"
      /\ status' \in [Pending -> Status \ {"FAILED"}]
  <2>1. /\ status \in [Pending -> Status \ {"FAILED"}]
        /\ row[p] = None \/ row[p] \in {"SETTLED", "COMPENSATED"}
    BY <1>3 DEF RailTypeOK
  <2>2. PICK v : v = IF row[p] = None THEN status[t] ELSE row[p]
    OBVIOUS
  <2>3. /\ v \in Status \ {"FAILED"} /\ (status[t] # "PENDING_EXTERNAL" => v # "PENDING_EXTERNAL")
        /\ status' = [status EXCEPT ![t] = v]
    BY <1>1, <1>2, <2>1, <2>2 DEF Status
  <2> QED BY <1>2, <2>1, <2>2, <2>3
<1>7. LedgerStep(p) /\ LedgerInv' /\ entry'[p] = None
  BY <1>1, LedgerStepInv DEF LedgerInv, LedgerStep, CommitEntry, EndTransaction, LedgerTypeOK
<1>8. Unmoved(p) /\ RailTypeOK'
  <2>1. IsFiniteSet(events')
    <3>1. IsFiniteSet(events \cup {e})
      BY FS_AddElement DEF RailTypeOK
    <3>2. IsFiniteSet((events \cup {e}) \cup {c})
      BY <3>1, FS_AddElement
    <3>3. events' \subseteq (events \cup {e}) \cup {c}
      BY <1>5
    <3> QED BY <3>2, <3>3, FS_Subset
  <2> QED BY <1>1, <1>6, <2>1 DEF RailTypeOK, Unmoved, PC
<1>9. ASSUME NEW q \in Users \ {p} PROVE Control(q)' /\ Owner(q)'
  <2>1. entry'[q] = entry[q] /\ held'[q] = held[q]
    BY <1>7, UsersAreSessions, LedgerStepFrame DEF LedgerInv
  <2>2. ASSUME pc[q] \in {"update", "post", "commit"}, NEW x \in events'
        PROVE  x.id # Head(inbox[q]).id
    <3>1. /\ Head(inbox[q]).id \in Causes /\ ~ Recorded(Head(inbox[q]).id)
          /\ CauseRow(Head(inbox[q]).id) \in held[q]
      BY <2>2, HeadTyped DEF Busy, Applying, IInv, Owner
    <3>2. CASE x \in events
      BY <3>1, <3>2 DEF Recorded
    <3>3. CASE x = e
      <4>1. CauseRow(h.id) \notin held[q]
        BY <1>2, UsersAreSessions DEF LedgerInv, LedgerInvOf, LocksExclusive
      <4> QED BY <1>4, <3>1, <3>3, <4>1
    <3>4. CASE x = c
      BY <1>2, <1>4, <3>1, <3>4, EventAssumption DEF EventAssumption
    <3> QED BY <1>5, <3>2, <3>3, <3>4
  <2> QED BY <1>1, <1>6, <1>8, <2>1, <2>2, OthersKeep
<1>10. Control(p)' /\ Owner(p)'
  BY <1>1, <1>6, <1>7, TargetTyped DEF RailTypeOK, Control, Owner, Busy, Applying, Matches
<1>11. ASSUME NEW x \in events' PROVE Reported(x)'
  <2>1. \A d : Recorded(d) => Recorded(d)'
    BY <1>5 DEF Recorded
  <2>2. CASE x \in events
    BY <2>1, <2>2 DEF IInv, Reported
  <2>3. CASE x = e
    BY <1>2, <1>4, <2>3 DEF Reported
  <2>4. CASE failed /\ x = c
    <3>1. Recorded(h.id)'
      BY <1>1, <1>4, <1>5 DEF Recorded
    <3>2. x.transfer \in Pending /\ x.type = "COMPENSATED" /\ x.id = <<h.id, "compensated">>
      BY <1>2, <1>4, <2>4
    <3>3. Recorded(h.id)' <=> \E y \in events' : y.id = h.id
      BY <1>1 DEF Recorded
    <3>4. \E d \in Causes : x.id = <<d, "compensated">> /\ Recorded(d)'
      BY <1>2, <3>1, <3>2, <3>3 DEF Recorded
    <3> QED BY <3>2, <3>4 DEF Reported
  <2> QED BY <1>5, <2>2, <2>3, <2>4
<1>12. PICK k :
         /\ k \in Entry /\ k.transfer = t /\ k.cause = h.id
         /\ k.operation = "INTERBANK_TRANSFER_COMPENSATION"
         /\ journal' = IF failed THEN Append(journal, k) ELSE journal
  BY <1>1, <1>2, <1>3, CompensationTyped DEF CommitEntry
<1> DEFINE n == Len(journal) + 1
<1>13. /\ journal \in Seq(Entry) /\ n \in Nat /\ n \notin DOMAIN journal
       /\ DOMAIN journal' = IF failed THEN DOMAIN journal \cup {n} ELSE DOMAIN journal
       /\ \A i \in DOMAIN journal : journal'[i] = journal[i]
       /\ failed => journal'[n] = k
  <2>1. /\ n \in Nat \ DOMAIN journal
        /\ DOMAIN Append(journal, k) = DOMAIN journal \cup {n}
        /\ \A i \in DOMAIN journal : Append(journal, k)[i] = journal[i]
        /\ Append(journal, k)[n] = k
    BY <1>12, AppendKeeps DEF LedgerTypeOK
  <2> QED BY <1>12, <2>1 DEF LedgerTypeOK
<1> HIDE DEF n
<1>14. ASSUME NEW i \in DOMAIN journal' PROVE Compensates(i)'
  <2>1. CASE i \in DOMAIN journal
    BY <1>5, <1>13, <2>1 DEF IInv, Compensates
  <2>2. CASE failed /\ i = n
    <3>1. h.type = "FAILED" /\ journal'[i] = k /\ e \in events'
      BY <1>3, <1>5, <1>13, <2>2 DEF Status
    <3> QED BY <1>4, <1>12, <3>1 DEF Compensates
  <2> QED BY <1>13, <2>1, <2>2
<1>15. OneEntryPerCause'
  <2>1. \A i \in DOMAIN journal : journal[i].cause # h.id
    BY <1>2 DEF IInv, Compensates, Recorded
  <2> QED BY <1>12, <1>13, <2>1 DEF IInv, OneEntryPerCause
<1>16. ASSUME NEW u \in Pending, u # t PROVE Told(u)'
  <2>1. \A type : EventsOf(u, type)' = EventsOf(u, type)
    BY <1>4, <1>5, <1>16 DEF EventsOf
  <2>2. Compensations(u)' = Compensations(u)
    BY <1>12, <1>13, <1>16 DEF Compensations
  <2>3. status'[u] = status[u]
    BY <1>6, <1>16
  <2>4. EventsOf(u, "SETTLED")' = EventsOf(u, "SETTLED") /\ EventsOf(u, "FAILED")' = EventsOf(u, "FAILED")
        /\ EventsOf(u, "COMPENSATED")' = EventsOf(u, "COMPENSATED")
    BY <2>1
  <2> QED BY <2>2, <2>3, <2>4 DEF IInv, Told
<1>17. ASSUME NEW u \in Pending, u = t PROVE Told(u)'
  <2>1. Told(u) /\ h.type \in {"ACKNOWLEDGED", "SETTLED", "FAILED"}
    BY <1>2, EventsTyped DEF IInv
  <2>3. /\ EventsOf(u, "SETTLED") \subseteq EventsOf(u, "SETTLED")'
        /\ EventsOf(u, "FAILED") \subseteq EventsOf(u, "FAILED")'
        /\ h.type = "SETTLED" => e \in EventsOf(u, "SETTLED")'
        /\ h.type = "FAILED" => e \in EventsOf(u, "FAILED")'
    BY <1>4, <1>5, <1>17 DEF EventsOf
  <2>4. h.type = "ACKNOWLEDGED" => /\ EventsOf(u, "SETTLED")' = EventsOf(u, "SETTLED")
                                   /\ EventsOf(u, "FAILED")' = EventsOf(u, "FAILED")
    BY <1>3, <1>4, <1>5 DEF EventsOf
  <2>5. EventsOf(u, "COMPENSATED")'
          = IF failed THEN EventsOf(u, "COMPENSATED") \cup {c} ELSE EventsOf(u, "COMPENSATED")
    BY <1>4, <1>5, <1>17, <2>1 DEF EventsOf
  <2>6. Compensations(u)' = IF failed THEN Compensations(u) \cup {n} ELSE Compensations(u)
    BY <1>12, <1>13, <1>17 DEF Compensations
  <2>7. status'[u] = IF row[p] = None THEN status[u] ELSE row[p]
    BY <1>6, <1>17
  <2>8. CASE row[p] = None
    <3>1. /\ ~ failed /\ status'[u] = status[u]
          /\ h.type = "ACKNOWLEDGED" \/ status[u] # "PENDING_EXTERNAL"
      BY <1>2, <1>3, <1>17, <2>7, <2>8, RailAssumption DEF Status, RailAssumption
    <3>2. /\ Compensations(u)' = Compensations(u)
          /\ EventsOf(u, "COMPENSATED")' = EventsOf(u, "COMPENSATED")
      BY <2>5, <2>6, <3>1
    <3>3. status[u] # "PENDING_EXTERNAL" =>
             EventsOf(u, "SETTLED")' \cup EventsOf(u, "FAILED")' # {}
      BY <2>1, <2>3 DEF Told
    <3>4. status[u] = "SETTLED" => EventsOf(u, "SETTLED")' # {}
      BY <2>1, <2>3 DEF Told
    <3> QED BY <2>1, <2>4, <3>1, <3>2, <3>3, <3>4 DEF Told
  <2>9. CASE row[p] = "SETTLED"
    <3>1. ~ failed /\ status'[u] = "SETTLED" /\ e \in EventsOf(u, "SETTLED")'
      BY <1>3, <2>3, <2>7, <2>9, RailAssumption DEF Status, RailAssumption
    <3>2. /\ Compensations(u)' = Compensations(u)
          /\ EventsOf(u, "COMPENSATED")' = EventsOf(u, "COMPENSATED")
      BY <2>5, <2>6, <3>1
    <3> QED BY <2>1, <3>1, <3>2 DEF Told
  <2>10. CASE failed
    <3>1. IsFiniteSet(EventsOf(u, "COMPENSATED")) /\ c \notin EventsOf(u, "COMPENSATED")
      <4>1. EventsOf(u, "COMPENSATED") \subseteq events
        BY DEF EventsOf
      <4> QED BY <1>4, <4>1, FS_Subset DEF RailTypeOK
    <3>2. IsFiniteSet(Compensations(u)) /\ n \notin Compensations(u)
      <4>1. IsFiniteSet(1 .. Len(journal))
        BY <1>13, FS_Interval
      <4>2. Compensations(u) \subseteq 1 .. Len(journal)
        BY <1>13 DEF Compensations
      <4> QED BY <1>13, <4>1, <4>2, FS_Subset DEF Compensations
    <3>3. Cardinality(EventsOf(u, "COMPENSATED")') = Cardinality(EventsOf(u, "COMPENSATED")) + 1
      BY <2>5, <2>10, <3>1, FS_AddElement
    <3>4. Cardinality(Compensations(u)') = Cardinality(Compensations(u)) + 1
      BY <2>6, <2>10, <3>2, FS_AddElement
    <3>5. Cardinality(Compensations(u)') = Cardinality(EventsOf(u, "COMPENSATED")')
      BY <2>1, <3>3, <3>4 DEF Told
    <3>6. status'[u] = "COMPENSATED" /\ EventsOf(u, "FAILED")' # {} /\ Compensations(u)' # {}
      BY <1>3, <2>3, <2>6, <2>7, <2>10, RailAssumption DEF Status, RailAssumption
    <3> QED BY <3>5, <3>6 DEF Told
  <2> QED BY <1>3, <2>8, <2>9, <2>10
<1> QED BY <1>7, <1>8, <1>9, <1>10, <1>11, <1>14, <1>15, <1>16, <1>17 DEF IInv

-----------------------------------------------------------------------------
LEMMA InitInv == ASSUME Init PROVE IInv
<1>1. LedgerInv /\ journal = <<>> /\ entry = [p \in Sessions |-> None]
  BY LedgerInitInv DEF Init, LedgerInit
<1>2. job \in Seq(Job)
  <2>1. PICK n \in Nat : DOMAIN Queued = 1 .. n /\ \A j \in 1 .. n : Queued[j] \in Pending
    BY RailAssumption DEF RailAssumption
  <2>2. \A j \in 1 .. n : NewJob(Queued[j]) \in Job
    BY <2>1, RailAssumption DEF NewJob, Job, RailAssumption
  <2>3. job = [j \in 1 .. n |-> NewJob(Queued[j])]
    BY <2>1 DEF Init
  <2> QED BY <2>2, <2>3
<1>3. RailTypeOK
  <2>1. IsFiniteSet(events)
    BY FS_EmptySet DEF Init
  <2>2. 0 \in 0 .. Len(job)
    BY <1>2
  <2> QED BY <1>2, <2>1, <2>2 DEF Init, RailTypeOK, PC, Status
<1>4. ASSUME NEW p \in Users PROVE Control(p) /\ Owner(p)
  BY <1>1, UsersAreSessions DEF Init, Control, Owner, Busy, Applying
<1>5. ASSUME NEW t \in Pending PROVE Told(t)
  <2>1. \A type : EventsOf(t, type) = {}
    BY DEF Init, EventsOf
  <2>2. Compensations(t) = {}
    BY <1>1 DEF Compensations
  <2> QED BY <2>1, <2>2 DEF Init, Told
<1> QED BY <1>1, <1>3, <1>4, <1>5 DEF IInv, OneEntryPerCause, Init

LEMMA StutterInv == ASSUME IInv, UNCHANGED vars PROVE IInv'
<1>1. UNCHANGED <<ledgerVars, status, events, journal, held, entry,
                  job, pc, inbox, target, seen, row, serving>>
  BY DEF vars, railVars, sessionState, ledgerVars, sessionVars
<1>2. RailTypeOK'
  BY <1>1 DEF IInv, RailTypeOK
<1>3. ASSUME NEW q \in Users PROVE Control(q)' /\ Owner(q)'
  BY <1>1 DEF IInv, Control, Owner, Matches, CompensationEntry, Recorded, CauseRow
<1>4. LedgerInv'
  BY <1>1, LedgerStutterInv DEF LedgerInv, IInv
<1> QED BY <1>1, <1>2, <1>3, <1>4, TablesKeep DEF IInv

LEMMA NextInv == ASSUME IInv, [Next]_vars PROVE IInv'
<1>1. ASSUME NEW p \in Users, Step(p) PROVE IInv'
  BY <1>1, ReadStateInv, InsertEventInv, MarkSettledInv, MarkFailedInv, PostInv,
     MarkCompensatedInv, CommitInv, AuditInv, CompleteJobInv, PublishInv, AuditOperatorInv
     DEF Step, Apply
<1>2. ASSUME NEW p \in Users, Fail(p) PROVE IInv'
  BY <1>2, FailInv
<1>3. ASSUME NEW w \in Workers, NEW j \in DOMAIN job, FetchJob(w, j) PROVE IInv'
  BY <1>3, FetchJobInv
<1>4. ASSUME NEW j \in DOMAIN job, Expire(j) PROVE IInv'
  BY <1>4, ExpireInv
<1>5. ASSUME NEW o \in Operators, NEW t \in Pending, Reconcile(o, t) \/ Redrive(o, t) PROVE IInv'
  BY <1>5, ReconcileInv, RedriveInv
<1>6. ASSUME NEW c \in Callbacks, NEW e \in Inbound, Callback(c, e) PROVE IInv'
  BY <1>6, CallbackInv
<1>7. CASE UNCHANGED vars
  BY <1>7, StutterInv
<1> QED BY <1>1, <1>2, <1>3, <1>4, <1>5, <1>6, <1>7 DEF Next

\* The induction: IInv holds in every reachable state.
THEOREM Invariance == Spec => []IInv
<1>1. Init => IInv
  BY InitInv
<1>2. IInv /\ [Next]_vars => IInv'
  BY NextInv
<1> QED BY <1>1, <1>2, PTL DEF Spec

\* Every variable keeps to its type: a worker never loses the place of its job,
\* and no committed status is the FAILED of an open transaction.
THEOREM TypeCorrect == Spec => []TypeOK
  BY Invariance, TypesOfIInv, PTL

\* One provider event compensates one transfer once: however often it is
\* delivered, retried or reconciled, its entry is in the journal at most once.
THEOREM EntryPerCause == Spec => []OneEntryPerCause
<1>1. IInv => OneEntryPerCause
  BY DEF IInv
<1> QED BY <1>1, Invariance, PTL

-----------------------------------------------------------------------------
(* The rail and the ledger it posts to.                                    *)

LEMMA StepOfLedger ==
    ASSUME IInv, [Next]_vars
    PROVE  [\E p \in Sessions : LedgerStep(p)]_ledgerVars
<1> DEFINE Goal == [\E p \in Sessions : LedgerStep(p)]_ledgerVars
<1>1. ASSUME NEW p \in Users, LedgerStep(p) \/ UNCHANGED ledgerVars PROVE Goal
  BY <1>1, UsersAreSessions
<1> RailTypeOK
  BY DEF IInv
<1>2. ASSUME NEW p \in Users, InsertEvent(p), Acquire(p, CauseRow(Head(inbox[p]).id)),
             UNCHANGED <<projection, journal, overwritten, sessionVars>>
      PROVE  LedgerStep(p)
  <2>1. entry' = entry /\ CauseRow(Head(inbox[p]).id) \in Row
    BY <1>2, HeadTyped DEF InsertEvent, IInv, Busy, CauseRow, Row, sessionVars
  <2> QED BY <1>2, <2>1 DEF LedgerStep, CallerLocks
<1>3. ASSUME NEW p \in Users, MarkSettled(p) PROVE LedgerStep(p)
  <2>1. TransferRow(target[p]) \in Row
    BY <1>3, TargetTyped, RailAssumption
       DEF MarkSettled, IInv, TransferRow, Row, RailAssumption, Applying, Busy
  <2> QED BY <1>3, <2>1 DEF MarkSettled, LedgerStep, CallerLocks
<1>4. ASSUME NEW p \in Users, MarkFailed(p) PROVE LedgerStep(p)
  <2>1. pc[p] = "update" /\ Control(p) /\ p \in Sessions /\ LedgerTypeOK
    BY <1>4, UsersAreSessions DEF MarkFailed, IInv, LedgerInv, LedgerInvOf
  <2>2. target[p] \in Pending /\ Head(inbox[p]).id \in Causes /\ entry[p] = None
    BY <2>1, TargetTyped, HeadTyped DEF Applying, Busy, Control
  <2>3. PICK k \in Entry : /\ k = CompensationEntry(target[p], Head(inbox[p]).id)
                           /\ Postable(k)
    BY <2>2, CompensationTyped
  <2>4. OpenEntry(p, k) /\ entry'[p] = k
    BY <1>4, <2>1, <2>3 DEF MarkFailed, OpenEntry, LedgerTypeOK
  <2>5. CallerLocks(p)
    <3>1. TransferRow(target[p]) \in Row
      BY <2>2, RailAssumption DEF TransferRow, Row, RailAssumption
    <3> QED BY <1>4, <3>1 DEF MarkFailed, CallerLocks
  <2> QED BY <2>2, <2>3, <2>4, <2>5 DEF LedgerStep
<1>5. ASSUME NEW p \in Users, Step(p) PROVE LedgerStep(p) \/ UNCHANGED ledgerVars
  <2>1. CASE InsertEvent(p)
    BY <1>2, <2>1 DEF InsertEvent, Throw, Abandon, LedgerStep
  <2>2. CASE Post(p) \/ Commit(p)
    BY <2>2 DEF Post, Commit, LedgerStep
  <2> QED BY <1>3, <1>4, <1>5, <2>1, <2>2
          DEF Step, Apply, ReadState, MarkCompensated, Audit, CompleteJob, Publish, AuditOperator
<1>6. ASSUME NEW p \in Users, Fail(p) PROVE LedgerStep(p)
  BY <1>6 DEF Fail, Throw, Abandon, LedgerStep
<1> QED BY <1>1, <1>5, <1>6 DEF Next, vars, FetchJob, Expire, Reconcile, Redrive, Callback

\* The rail uses the ledger through the operations of LedgerSpec alone.
THEOREM ImplementsLedger == Spec => LedgerSpec
<1>1. Init => LedgerInit
  BY DEF Init
<1> QED BY <1>1, StepOfLedger, Invariance, PTL DEF Spec, LedgerSpec

\* Every compensation moves the balances as its entry says, of the accounts of
\* which no upsert has lost a balance.
THEOREM BalancesFollowJournal == Spec => ProjectionFollowsJournal
  BY ImplementsLedger, LedgerProjection

-----------------------------------------------------------------------------
(* What providers make of it that agree until a transfer has ended.        *)

\* Whoever reports a final result of a transfer that may still be pending, and
\* however it is matched to the transfer, reports the one its destination
\* decides.  What comes late may say anything.  The update of a transfer is by id
\* alone: where two reports differ, applied by transactions that both read a
\* pending transfer, the later one overwrites the earlier (run rail_terminal).
ProvidersAgree ==
    \A n \in OnTime : \A t \in Matches(n) : n.type \in {"ACKNOWLEDGED", Detail[t].outcome}

\* A session has a late event only of transfers that have ended, and applies it
\* having read that.
Tardy(p) ==
    /\ \A i \in DOMAIN inbox[p] : inbox[p][i].id \in LateIds =>
          \A t \in Matches(inbox[p][i]) : status[t] # "PENDING_EXTERNAL"
    /\ pc[p] \in Applying /\ Head(inbox[p]).id \in LateIds => seen[p] # "PENDING_EXTERNAL"

\* A transfer that has ended did so as its destination decides, and an event that
\* was not late says so.
Decided(t) ==
    status[t] # "PENDING_EXTERNAL" =>
        /\ status[t] = IF Detail[t].outcome = "SETTLED" THEN "SETTLED" ELSE "COMPENSATED"
        /\ Timely(t, "SETTLED") \cup Timely(t, "FAILED") # {}

LateInv ==
    /\ \A p \in Users : Tardy(p)
    /\ \A i \in DOMAIN journal : journal[i].cause \notin LateIds
    /\ \A t \in Pending : Decided(t)

LEMMA NotLate == ASSUME NEW n \in Normalized, n.id \notin LateIds PROVE n \in OnTime
  BY DEF Normalized, OnTime, LateIds

\* Nothing is taken off the record, so a transfer that has ended is not pending
\* again.
LEMMA EventsStay == ASSUME [Next]_vars PROVE events \subseteq events'
  BY DEF Next, Step, Apply, ReadState, InsertEvent, MarkSettled, MarkFailed, Post, MarkCompensated,
         Commit, Audit, CompleteJob, Publish, AuditOperator, Fail, Throw, Abandon, FetchJob, Expire,
         Reconcile, Redrive, Callback, vars, railVars

LEMMA EndedStays ==
    ASSUME IInv, IInv', [Next]_vars, NEW t \in Pending, status[t] # "PENDING_EXTERNAL"
    PROVE  status'[t] # "PENDING_EXTERNAL"
<1>1. PICK type \in {"SETTLED", "FAILED"} : EventsOf(t, type) # {}
  BY DEF IInv, Told
<1>2. EventsOf(t, type)' # {}
  BY <1>1, EventsStay DEF EventsOf
<1> QED BY <1>2 DEF IInv, Told

\* The events of a session, and what it has read, when it is given none.
Kept(p) ==
    /\ inbox'[p] \in {inbox[p], Tail(inbox[p]), <<>>}
    /\ pc'[p] \in Applying => pc[p] \in Applying /\ inbox'[p] = inbox[p] /\ seen'[p] = seen[p]

LEMMA TardyKept ==
    ASSUME IInv, IInv', [Next]_vars, NEW p \in Users, Tardy(p), Kept(p)
    PROVE  Tardy(p)'
<1>1. inbox[p] \in Seq(Normalized)
  BY DEF IInv, RailTypeOK
<1>2. \A i \in DOMAIN inbox'[p] : \E j \in DOMAIN inbox[p] : inbox'[p][i] = inbox[p][j]
  <2>1. CASE inbox'[p] = inbox[p]
    BY <2>1
  <2>2. CASE inbox'[p] = <<>>
    BY <2>2
  <2>3. CASE inbox'[p] = Tail(inbox[p]) /\ inbox[p] # <<>>
    <3>1. \A i \in DOMAIN Tail(inbox[p]) :
             i + 1 \in DOMAIN inbox[p] /\ Tail(inbox[p])[i] = inbox[p][i + 1]
      BY <1>1, <2>3
    <3> QED BY <2>3, <3>1
  <2>4. CASE inbox'[p] = Tail(inbox[p]) /\ inbox[p] = <<>>
    BY <1>1, <2>4
  <2> QED BY <2>1, <2>2, <2>3, <2>4 DEF Kept
<1>3. ASSUME NEW i \in DOMAIN inbox'[p], inbox'[p][i].id \in LateIds,
             NEW t \in Matches(inbox'[p][i])
      PROVE  status'[t] # "PENDING_EXTERNAL"
  BY <1>2, <1>3, EndedStays DEF Tardy, Matches
<1>4. pc'[p] \in Applying /\ Head(inbox'[p]).id \in LateIds => seen'[p] # "PENDING_EXTERNAL"
  BY DEF Kept, Tardy
<1> QED BY <1>3, <1>4 DEF Tardy, Matches

\* An event from an adapter is not late.
LEMMA AdaptedInTime == \A e \in Adapted : e \in Normalized /\ e.id \notin LateIds
  BY EventAssumption DEF EventAssumption, OnTime, Normalized

LEMMA SessionSteps ==
    ASSUME IInv, NEW p \in Users, NEW q \in Users,
           \/ Step(p) /\ ~ (ReadState(p) /\ q = p)
           \/ Fail(p)
    PROVE  Kept(q)
<1> RailTypeOK
  BY DEF IInv
<1>1. CASE ReadState(p) /\ q # p
  BY <1>1 DEF ReadState, Goto, RailTypeOK, Kept
<1>2. CASE InsertEvent(p)
  <2>1. CASE Throw(p)
    BY <2>1 DEF Throw, Abandon, Goto, RailTypeOK, Kept, Applying, Busy
  <2>2. CASE pc[p] = "insert" /\ UNCHANGED <<inbox, seen>>
             /\ \E label \in {"commit", "update"} : Goto(p, label)
    BY <2>2 DEF Goto, RailTypeOK, Kept, Applying, Busy
  <2> QED BY <1>2, <2>1, <2>2 DEF InsertEvent
<1>3. CASE MarkSettled(p) \/ MarkFailed(p) \/ Post(p) \/ MarkCompensated(p) \/ Commit(p)
  BY <1>3 DEF MarkSettled, MarkFailed, Post, MarkCompensated, Commit, Goto, RailTypeOK, railVars,
              sessionState, Kept, Applying, Busy
<1>4. CASE Audit(p)
  BY <1>4 DEF Audit, Goto, RailTypeOK, Kept, Applying, Busy
<1>5. CASE CompleteJob(p) \/ Publish(p) \/ AuditOperator(p)
  BY <1>5 DEF CompleteJob, Publish, AuditOperator, Goto, RailTypeOK, Kept, Applying, Busy
<1>6. CASE Fail(p)
  BY <1>6 DEF Fail, Throw, Abandon, Goto, RailTypeOK, Kept, Applying, Busy
<1> QED BY <1>1, <1>2, <1>3, <1>4, <1>5, <1>6 DEF Step, Apply

\* Late events come, and are read, after the end of their transfers.
LEMMA TardyStep ==
    ASSUME IInv, IInv', [Next]_vars, \A p \in Users : Tardy(p), NEW q \in Users
    PROVE  Tardy(q)'
<1> RailTypeOK
  BY DEF IInv
<1>1. ASSUME NEW p \in Users, Step(p) PROVE Tardy(q)'
  <2>1. CASE ~ (ReadState(p) /\ q = p)
    BY <1>1, <2>1, SessionSteps, TardyKept
  <2>2. CASE ReadState(q)
    <3>1. PICK t \in Matches(Head(inbox[q])) : seen' = [seen EXCEPT ![q] = status[t]]
      BY <2>2 DEF ReadState
    <3>2. inbox' = inbox /\ status' = status /\ seen'[q] = status[t] /\ pc[q] = "read"
      BY <2>2, <3>1 DEF ReadState, RailTypeOK
    <3>3. inbox[q] \in Seq(Normalized) /\ inbox[q] # <<>>
      BY <3>2 DEF IInv, RailTypeOK, Control, Busy
    <3>4. 1 \in DOMAIN inbox[q] /\ Head(inbox[q]) = inbox[q][1]
      BY <3>3
    <3> QED BY <3>1, <3>2, <3>4 DEF Tardy, Matches
  <2> QED BY <1>1, <2>1, <2>2
<1>2. ASSUME NEW p \in Users, Fail(p) PROVE Tardy(q)'
  BY <1>2, SessionSteps, TardyKept
<1>3. ASSUME NEW w \in Workers, NEW j \in DOMAIN job, FetchJob(w, j) PROVE Tardy(q)'
  <2> DEFINE t == job[j].transfer
  <2>1. t \in Pending
    <3>1. job[j] \in Job
      BY DEF RailTypeOK
    <3> QED BY <3>1 DEF Job
  <2>2. CASE q = w /\ inbox' = [inbox EXCEPT ![w] = SubmitTransfer(t)] /\ Goto(w, "read")
    <3>1. inbox'[q] = SubmitTransfer(t) /\ pc'[q] = "read"
      BY <2>2 DEF RailTypeOK, Goto
    <3>2. \A i \in DOMAIN SubmitTransfer(t) : SubmitTransfer(t)[i] \in Adapted
      BY <2>1 DEF SubmitTransfer, Adapted
    <3>3. \A i \in DOMAIN SubmitTransfer(t) : SubmitTransfer(t)[i].id \notin LateIds
      BY <3>2, AdaptedInTime
    <3> HIDE DEF t
    <3> QED BY <3>1, <3>3 DEF Tardy, Applying, Busy
  <2>3. CASE q # w \/ UNCHANGED <<pc, inbox, serving>>
    <3>1. Kept(q)
      BY <1>3, <2>3 DEF FetchJob, Goto, RailTypeOK, Kept
    <3> QED BY <3>1, TardyKept
  <2> QED BY <1>3, <2>2, <2>3 DEF FetchJob
<1>4. ASSUME NEW j \in DOMAIN job, Expire(j) PROVE Tardy(q)'
  BY <1>4, TardyKept DEF Expire, sessionState, Kept
<1>5. ASSUME NEW o \in Operators, NEW t \in Pending, Reconcile(o, t) PROVE Tardy(q)'
  <2>1. CASE q = o
    <3>1. inbox'[q] = <<TerminalEvent(t, "reconcile")>> /\ pc'[q] = "read"
      BY <1>5, <2>1 DEF Reconcile, ReconcileEvents, Goto, RailTypeOK
    <3>2. TerminalEvent(t, "reconcile").id \notin LateIds
      BY AdaptedInTime DEF Adapted
    <3> QED BY <3>1, <3>2 DEF Tardy, Applying, Busy
  <2>2. CASE q # o
    <3>1. Kept(q)
      BY <1>5, <2>2 DEF Reconcile, Goto, RailTypeOK, Kept
    <3> QED BY <3>1, TardyKept
  <2> QED BY <2>1, <2>2
<1>6. ASSUME NEW o \in Operators, NEW t \in Pending, Redrive(o, t) PROVE Tardy(q)'
  <2>1. Kept(q)
    BY <1>6 DEF Redrive, Goto, RailTypeOK, Kept, Applying, Busy
  <2> QED BY <2>1, TardyKept
<1>7. ASSUME NEW c \in Callbacks, NEW e \in Inbound, MayArrive(e), Callback(c, e) PROVE Tardy(q)'
  <2>1. CASE q = c
    <3>1. inbox'[q] = <<e>> /\ pc'[q] = "read" /\ status' = status
      BY <1>7, <2>1 DEF Callback, Goto, RailTypeOK
    <3>2. e.id \in LateIds => e \in Late
      BY EventAssumption DEF EventAssumption, OnTime
    <3> QED BY <1>7, <3>1, <3>2 DEF Tardy, MayArrive, Matches, Applying, Busy
  <2>2. CASE q # c
    <3>1. Kept(q)
      BY <1>7, <2>2 DEF Callback, Goto, RailTypeOK, Kept
    <3> QED BY <3>1, TardyKept
  <2> QED BY <2>1, <2>2
<1>8. CASE UNCHANGED vars
  BY <1>8, TardyKept DEF vars, railVars, sessionState, Kept
<1> QED BY <1>1, <1>2, <1>3, <1>4, <1>5, <1>6, <1>7, <1>8 DEF Next

\* Only a commit decides anything.
LEMMA QuietSteps ==
    ASSUME [Next]_vars, \A p \in Users : ~ Commit(p)
    PROVE  UNCHANGED <<status, events, journal>>
  BY DEF Next, Step, Apply, ReadState, InsertEvent, MarkSettled, MarkFailed, Post, MarkCompensated,
         Audit, CompleteJob, Publish, AuditOperator, Fail, Throw, Abandon, FetchJob, Expire,
         Reconcile, Redrive, Callback, vars, railVars, ledgerVars, sessionVars, OpenEntry,
         ReadProjection, UpsertProjection, RollbackEntry

\* An event that was not late, and is on record, is of the outcome of its transfer.
LEMMA TimelyOutcome ==
    ASSUME ProvidersAgree, IInv, NEW e \in events, e.id \notin LateIds,
           e.type \in {"SETTLED", "FAILED"}
    PROVE  e.transfer \in Pending /\ e.type = Detail[e.transfer].outcome
<1>1. PICK n \in Normalized : e.id = n.id /\ e.type = n.type /\ e.transfer \in Matches(n)
  BY DEF IInv, Reported
<1>2. n \in OnTime
  BY <1>1, NotLate
<1> QED BY <1>1, <1>2 DEF ProvidersAgree, IInv, Reported

\* A commit ends a transfer only for an event that was not late.
LEMMA CommitDecides ==
    ASSUME ProvidersAgree, IInv, LateInv, NEW p \in Users, Commit(p)
    PROVE  /\ \A i \in DOMAIN journal' : journal'[i].cause \notin LateIds
           /\ \A t \in Pending : Decided(t)'
<1> RailTypeOK /\ Control(p) /\ LedgerTypeOK /\ p \in Sessions /\ Tardy(p)
  BY UsersAreSessions DEF IInv, LedgerInv, LedgerInvOf, LateInv
<1> DEFINE h == Head(inbox[p])
           u == target[p]
<1>1. /\ pc[p] = "commit" /\ CommitEntry(p)
      /\ status' = [status EXCEPT ![u] = IF row[p] = None THEN @ ELSE row[p]]
      /\ events' = events \cup NewEvents(p)
  BY DEF Commit
<1>2. h \in Normalized /\ u \in Pending /\ u \in Matches(h)
  BY <1>1, HeadTyped, TargetTyped DEF Busy, Applying, Control
<1>3. row[p] # None =>
         /\ row[p] \in {"SETTLED", "COMPENSATED"}
         /\ h.type = IF row[p] = "SETTLED" THEN "SETTLED" ELSE "FAILED"
         /\ h.id \notin LateIds /\ h.type = Detail[u].outcome
  <2> SUFFICES ASSUME row[p] # None
               PROVE  /\ row[p] \in {"SETTLED", "COMPENSATED"}
                      /\ h.type = IF row[p] = "SETTLED" THEN "SETTLED" ELSE "FAILED"
                      /\ h.id \notin LateIds /\ h.type = Detail[u].outcome
    OBVIOUS
  <2>1. /\ row[p] \in {"SETTLED", "COMPENSATED"}
        /\ h.type = IF row[p] = "SETTLED" THEN "SETTLED" ELSE "FAILED"
        /\ seen[p] = "PENDING_EXTERNAL"
    BY <1>1 DEF Control
  <2>2. h.id \notin LateIds
    BY <1>1, <2>1 DEF Tardy, Applying, Busy
  <2>3. h \in OnTime
    BY <1>2, <2>2, NotLate
  <2> QED BY <1>2, <2>1, <2>2, <2>3 DEF ProvidersAgree
<1>4. ASSUME NEW i \in DOMAIN journal' PROVE journal'[i].cause \notin LateIds
  <2>1. CASE entry[p] = None
    BY <1>1, <2>1 DEF CommitEntry, LateInv
  <2>2. CASE entry[p] # None
    <3>1. row[p] = "COMPENSATED" /\ entry[p] = CompensationEntry(u, h.id)
      BY <1>1, <2>2 DEF Control
    <3>2. row[p] # None
      BY <3>1, RailAssumption DEF RailAssumption, Status
    <3>3. journal' = Append(journal, entry[p]) /\ entry[p].cause = h.id
      BY <1>1, <2>2, <3>1 DEF CommitEntry, CompensationEntry
    <3>4. journal \in Seq(Entry) /\ entry[p] \in Entry
      BY <2>2 DEF LedgerTypeOK
    <3>5. \/ i \in DOMAIN journal /\ journal'[i] = journal[i]
          \/ journal'[i] = entry[p]
      BY <3>3, <3>4, AppendKeeps
    <3> QED BY <1>3, <3>2, <3>3, <3>5 DEF LateInv
  <2> QED BY <2>1, <2>2
<1>5. ASSUME NEW t \in Pending PROVE Decided(t)'
  <2>1. CASE t = u /\ row[p] # None
    <3>1. status'[t] = row[p]
      BY <1>1, <1>2, <2>1 DEF RailTypeOK
    <3>2. PICK e \in events' : e.id = h.id /\ e.type = h.type /\ e.transfer = u
      BY <1>1, NewEventsAre
    <3>3. e \in Timely(t, e.type)'
      BY <1>3, <2>1, <3>2 DEF Timely, EventsOf
    <3>4. h.type \in {"SETTLED", "FAILED"}
      BY <1>3, <2>1
    <3> QED BY <1>3, <2>1, <3>1, <3>2, <3>3, <3>4 DEF Decided
  <2>2. CASE ~ (t = u /\ row[p] # None)
    <3>1. status'[t] = status[t] /\ events \subseteq events' /\ Decided(t)
      BY <1>1, <2>2 DEF RailTypeOK, LateInv
    <3> QED BY <3>1 DEF Decided, Timely, EventsOf
  <2> QED BY <2>1, <2>2
<1> QED BY <1>4, <1>5

LEMMA LateInvariance == ASSUME ProvidersAgree PROVE Spec => []LateInv
<1>1. ASSUME Init PROVE LateInv
  BY <1>1 DEF Init, LedgerInit, LateInv, Tardy, Applying, Busy, Decided
<1>2. ASSUME IInv, IInv', LateInv, [Next]_vars PROVE LateInv'
  <2>1. \A p \in Users : Tardy(p)'
    BY <1>2, TardyStep DEF LateInv
  <2>2. CASE \E p \in Users : Commit(p)
    BY <1>2, <2>1, <2>2, CommitDecides DEF LateInv
  <2>3. CASE \A p \in Users : ~ Commit(p)
    BY <1>2, <2>1, <2>3, QuietSteps DEF LateInv, Decided, Timely, EventsOf
  <2> QED BY <2>2, <2>3
<1> QED BY <1>1, <1>2, Invariance, PTL DEF Spec

\* The status of a transfer, the events on record and the ledger tell one
\* story, in whatever order deliveries, retries and reconciliations came in and
\* whatever is reported late.
THEOREM StatusTells == ASSUME ProvidersAgree PROVE Spec => []StatusTellsOutcome
<1>1. IInv /\ LateInv => StatusTellsOutcome
  <2> SUFFICES ASSUME IInv, LateInv, NEW t \in Pending
               PROVE  /\ status[t] = "PENDING_EXTERNAL"
                           <=> Timely(t, "SETTLED") \cup Timely(t, "FAILED") = {}
                      /\ status[t] = "SETTLED" <=> Timely(t, "SETTLED") # {}
                      /\ status[t] = "COMPENSATED" <=> Compensations(t) # {}
                      /\ Cardinality(Compensations(t)) = Cardinality(EventsOf(t, "COMPENSATED"))
    BY DEF StatusTellsOutcome
  <2>1. Told(t) /\ Decided(t) /\ status[t] \in {"PENDING_EXTERNAL", "SETTLED", "COMPENSATED"}
    BY DEF IInv, LateInv, RailTypeOK, Status
  <2>2. \A type \in {"SETTLED", "FAILED"} : Timely(t, type) # {} =>
           status[t] # "PENDING_EXTERNAL" /\ Detail[t].outcome = type
    BY <2>1, TimelyOutcome DEF Told, Timely, EventsOf
  <2>3. Compensations(t) # {} => Timely(t, "FAILED") # {}
    BY DEF IInv, LateInv, Compensates, Compensations, Timely, EventsOf
  <2>4. status[t] # "PENDING_EXTERNAL" => Timely(t, Detail[t].outcome) # {}
    BY <2>1, <2>2 DEF Decided
  <2>5. status[t] = "SETTLED" <=> Timely(t, "SETTLED") # {}
    BY <2>1, <2>2, <2>4 DEF Decided
  <2>6. status[t] = "COMPENSATED" <=> Compensations(t) # {}
    BY <2>1, <2>2, <2>3 DEF Decided, Told
  <2> QED BY <2>1, <2>2, <2>5, <2>6 DEF Decided, Told
<1> QED BY <1>1, Invariance, LateInvariance, PTL

\* A failure that one provider event reports in time is compensated exactly once,
\* however often that event is delivered and whatever follows under other ids.
THEOREM OneCompensation == ASSUME ProvidersAgree PROVE Spec => []CompensatedOncePerFailure
<1>1. IInv /\ LateInv => CompensatedOncePerFailure
  <2> SUFFICES ASSUME IInv, LateInv, NEW t \in Pending, Cardinality(Timely(t, "FAILED")) = 1
               PROVE  Cardinality(Compensations(t)) = 1
    BY DEF CompensatedOncePerFailure
  <2>1. PICK e : Timely(t, "FAILED") = {e}
    <3>1. Timely(t, "FAILED") \subseteq events /\ IsFiniteSet(events)
      BY DEF Timely, EventsOf, IInv, RailTypeOK
    <3> QED BY <3>1, FS_Subset, FS_Singleton
  <2>2. e \in events /\ e.transfer = t /\ e.type = "FAILED" /\ e.id \notin LateIds
    BY <2>1 DEF Timely, EventsOf
  <2>3. Told(t) /\ Decided(t) /\ Detail[t].outcome = "FAILED"
    BY <2>2, TimelyOutcome DEF IInv, LateInv
  <2>4. Compensations(t) # {}
    BY <2>2, <2>3 DEF Told, Decided, EventsOf
  <2>5. \A i \in Compensations(t) : i \in DOMAIN journal /\ journal[i].cause = e.id
    BY <2>1 DEF IInv, LateInv, Compensates, Compensations, Timely, EventsOf
  <2>6. PICK i : Compensations(t) = {i}
    BY <2>4, <2>5 DEF IInv, OneEntryPerCause
  <2> QED BY <2>6, FS_Singleton
<1> QED BY <1>1, Invariance, LateInvariance, PTL

\* A settled or compensated transfer stays so: no late report of a provider,
\* whatever it says, no redriven job and no reconciliation takes it back.
THEOREM TerminalIsFinal == ASSUME ProvidersAgree PROVE Spec => TerminalStays
<1>1. ASSUME IInv, IInv', LateInv, LateInv', [Next]_vars
      PROVE  [\A t \in Pending : status[t] # "PENDING_EXTERNAL" => status'[t] = status[t]]_vars
  <2> SUFFICES ASSUME NEW t \in Pending, status[t] # "PENDING_EXTERNAL"
               PROVE  status'[t] = status[t]
    OBVIOUS
  <2>1. status'[t] # "PENDING_EXTERNAL"
    BY <1>1, EndedStays
  <2>2. Decided(t) /\ Decided(t)'
    BY <1>1 DEF LateInv
  <2> QED BY <2>1, <2>2 DEF Decided
<1> QED BY <1>1, Invariance, LateInvariance, PTL DEF Spec, TerminalStays
=============================================================================
