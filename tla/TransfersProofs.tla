--------------------------- MODULE TransfersProofs ---------------------------
(***************************************************************************)
(* What Transfers guarantees for every set of requests, accounts, keys and *)
(* inputs.  The argument is one inductive invariant, IInv: a request that  *)
(* is past its idempotency insert owns its key (the unique-index entry is  *)
(* locked and no record is committed), so that a record, the transfer it   *)
(* names and that transfer's journal entry appear together and once.       *)
(***************************************************************************)
EXTENDS Transfers, LedgerProofs

\* Where a request stands in its transaction, and what it has checked by then.
Control(r) ==
    /\ pc[r] # "idle" => input[r] \in Inputs
    /\ pc[r] \in {"validate", "route", "post", "enqueue", "answer"} => SourceAccepted(input[r])
    /\ pc[r] # "post" => entry[r] = None
    /\ pc[r] = "post" => entry[r] = TransferEntry(r) /\ entry[r] # None

\* An open request owns its key; a committed one has it on record.
Keyed(r) ==
    /\ pc[r] = "idle" \/ InTransaction(r) => status[r] = "absent"
    /\ InTransaction(r) /\ pc[r] # "insertRecord" =>
          /\ record[input[r].key] = None
          /\ CauseRow(input[r].key) \in held[r]
    /\ status[r] # "absent" =>
          /\ record[input[r].key] # None
          /\ record[input[r].key].transfer = r
    /\ pc[r] \in {"enqueue", "answer"} => status[r] = row[r] /\ status[r] # "absent"

\* What a caller was told is what is on record for its key.
Answered(r) ==
    /\ pc[r] # "done" => reply[r] = NoReply
    /\ Accepted(r) =>
          /\ record[input[r].key] # None
          /\ record[input[r].key].hash = Payload(input[r])
          /\ reply[r].transfer = record[input[r].key].transfer
          /\ reply[r].status = record[input[r].key].response
    /\ pc[r] = "done" /\ reply[r].kind # "error" /\ reply[r].transfer # r => status[r] = "absent"

\* A record names a committed transfer of its key.
Stored(k) ==
    record[k] # None =>
        LET t == record[k].transfer IN
        /\ t \in Requests
        /\ status[t] # "absent"
        /\ input[t].key = k
        /\ record[k].hash = Payload(input[t])
        /\ record[k].response = status[t]

\* The journal holds one entry for each committed transfer and no other.
Journalled ==
    /\ \A i \in DOMAIN journal :
          LET t == journal[i].transfer IN
          /\ t \in Requests
          /\ status[t] # "absent"
          /\ journal[i].cause = input[t].key
          /\ journal[i].debit = input[t].source
          /\ journal[i].credit = Receiver(input[t])
          /\ journal[i].amount = input[t].amount
    /\ \A i, j \in DOMAIN journal : journal[i].transfer = journal[j].transfer => i = j
    /\ \A r \in Requests : status[r] # "absent" =>
          \E i \in DOMAIN journal : journal[i].transfer = r

PC == {"idle", "insertRecord", "readSource", "validate", "route", "post", "enqueue", "answer",
       "done"}

\* TypeOK without the ledger's part of it.
RequestTypeOK ==
    /\ pc \in [Requests -> PC]
    /\ input \in [Requests -> Inputs \cup {None}]
    /\ row \in [Requests -> Status]
    /\ status \in [TransferIds -> Status]
    /\ record \in [Causes -> Record \cup {None}]
    /\ reply \in [Requests -> Reply]
    /\ events \subseteq [id : Requests \X {"submitted"}, transfer : Requests,
                         type : {"SUBMITTED"}]
    /\ jobs \subseteq Requests
    /\ audit \subseteq {"transfer.created"} \X Requests

IInv ==
    /\ LedgerInv
    /\ RequestTypeOK
    /\ \A r \in Requests : Control(r) /\ Keyed(r) /\ Answered(r)
    /\ \A k \in Causes : Stored(k)
    /\ Journalled

-----------------------------------------------------------------------------
LEMMA TypesOfIInv == IInv => TypeOK
  BY DEF IInv, LedgerInv, LedgerInvOf, RequestTypeOK, TypeOK, PC

LEMMA InputTyped ==
    ASSUME RequestTypeOK, NEW r \in Requests, Control(r), pc[r] # "idle"
    PROVE  /\ r \in Sessions
           /\ r \in TransferIds
           /\ input[r] \in Inputs
           /\ input[r].key \in Causes
           /\ input[r].amount \in Int
  BY TransfersAssumption DEF Control, TransfersAssumption

\* What a request posts is a journal entry with two sides.
LEMMA TransferEntryTyped ==
    ASSUME NEW r \in Requests, input[r] \in Inputs, SourceAccepted(input[r]),
           input[r].dest # External => DestinationAccepted(r)
    PROVE  TransferEntry(r) \in Entry /\ Postable(TransferEntry(r))
<1> DEFINE destination == IF input[r].dest = External THEN Clearing ELSE input[r].dest
<1>1. r \in TransferIds /\ input[r].key \in Causes /\ input[r].amount \in Nat \ {0}
  BY TransfersAssumption DEF TransfersAssumption, SourceAccepted
<1>2. destination \in Accounts \cup SystemAccounts /\ input[r].source \in Accounts
  BY TransfersAssumption DEF TransfersAssumption, SourceAccepted, DestinationAccepted
<1>3. input[r].source # destination
  <2>1. CASE input[r].dest = External
    BY <1>2, <2>1, LedgerAssumption, TransfersAssumption
       DEF LedgerAssumption, TransfersAssumption
  <2>2. CASE input[r].dest # External
    BY <2>2 DEF DestinationAccepted, Postable, TransferEntry
  <2> QED BY <2>1, <2>2
<1> QED BY <1>1, <1>2, <1>3 DEF TransferEntry, Entry, Operation, Postable

-----------------------------------------------------------------------------
(* Steps that commit nothing.                                              *)

\* The other requests do not notice such a step of r.
LEMMA OthersUnmoved ==
    ASSUME IInv, NEW q \in Requests, UNCHANGED <<record, status>>,
           pc'[q] = pc[q], input'[q] = input[q], row'[q] = row[q], reply'[q] = reply[q],
           entry'[q] = entry[q], held'[q] = held[q]
    PROVE  Control(q)' /\ Keyed(q)' /\ Answered(q)'
<1> Control(q) /\ Keyed(q) /\ Answered(q)
  BY DEF IInv
<1>1. Control(q)'
  BY DEF Control, SourceAccepted, TransferEntry
<1>2. Keyed(q)'
  BY DEF Keyed, InTransaction, CauseRow
<1>3. Answered(q)'
  BY DEF Answered, Accepted, Payload
<1> QED BY <1>1, <1>2, <1>3

\* It keeps what is on record and in the journal.
LEMMA TablesUnmoved ==
    ASSUME IInv, UNCHANGED <<record, status, journal>>,
           \A q \in Requests : pc[q] # "idle" => input'[q] = input[q]
    PROVE  (\A k \in Causes : Stored(k)') /\ Journalled'
<1>1. \A t \in Requests : status[t] # "absent" => input'[t] = input[t]
  BY DEF IInv, Keyed
<1>2. \A k \in Causes : Stored(k)'
  BY <1>1 DEF IInv, Stored, Payload
<1>3. Journalled'
  BY <1>1 DEF IInv, Journalled
<1> QED BY <1>2, <1>3

\* So that it keeps IInv if it does for r.
LEMMA UncommittedStep ==
    ASSUME IInv, NEW r \in Requests,
           LedgerStep(r) \/ UNCHANGED ledgerVars,
           UNCHANGED <<record, status, journal>>,
           \A q \in Requests \ {r} :
               /\ pc'[q] = pc[q] /\ input'[q] = input[q]
               /\ row'[q] = row[q] /\ reply'[q] = reply[q],
           pc[r] = "idle" \/ input'[r] = input[r],
           RequestTypeOK', Control(r)', Keyed(r)', Answered(r)'
    PROVE  IInv'
<1> r \in Sessions /\ Requests \subseteq Sessions
  BY TransfersAssumption DEF TransfersAssumption
<1>1. LedgerInv'
  BY LedgerStepInv, LedgerStutterInv DEF LedgerInv, IInv
<1>2. ASSUME NEW q \in Requests \ {r} PROVE Control(q)' /\ Keyed(q)' /\ Answered(q)'
  <2>1. entry'[q] = entry[q] /\ held'[q] = held[q]
    BY LedgerStepFrame DEF LedgerInv, IInv, ledgerVars, sessionVars
  <2> QED BY <2>1, OthersUnmoved
<1>3. (\A k \in Causes : Stored(k)') /\ Journalled'
  BY TablesUnmoved
<1> QED BY <1>1, <1>2, <1>3 DEF IInv

LEMMA ThrowInv ==
    ASSUME IInv, NEW r \in Requests, InTransaction(r), NEW kind, Refused(kind) \in Reply,
           kind \notin {"created", "replayed"}, Throw(r, kind)
    PROVE  IInv'
<1> RequestTypeOK /\ Control(r) /\ Keyed(r) /\ LedgerTypeOK
  BY DEF IInv, LedgerInv, LedgerInvOf
<1> r \in Sessions /\ pc[r] # "idle" /\ input[r] \in Inputs
  BY InputTyped DEF InTransaction
<1> /\ pc' = [pc EXCEPT ![r] = "done"] /\ row' = [row EXCEPT ![r] = "absent"]
    /\ reply' = [reply EXCEPT ![r] = Refused(kind)] /\ UNCHANGED <<input, tableVars>>
    /\ entry'[r] = None /\ journal' = journal
  BY DEF Throw, Answer, Goto, Update, RollbackEntry, EndTransaction, LedgerTypeOK
<1>1. LedgerStep(r)
  BY DEF Throw, LedgerStep
<1>2. RequestTypeOK'
  BY DEF RequestTypeOK, PC, Status, tableVars
<1>3. Control(r)'
  BY DEF Control, RequestTypeOK
<1>4. Keyed(r)' /\ Answered(r)'
  BY DEF Keyed, Answered, Accepted, InTransaction, Refused, RequestTypeOK, tableVars
<1> QED BY <1>1, <1>2, <1>3, <1>4, UncommittedStep DEF RequestTypeOK, tableVars

LEMMA BeginInv == ASSUME IInv, NEW r \in Requests, Begin(r) PROVE IInv'
<1> RequestTypeOK /\ Control(r) /\ Keyed(r) /\ Answered(r)
  BY DEF IInv
<1> PICK i \in Inputs :
       /\ pc[r] = "idle"
       /\ input' = [input EXCEPT ![r] = i]
       /\ \/ /\ i.currency \notin SupportedCurrencies
             /\ Answer(r, Refused("unsupported_currency"))
          \/ /\ i.currency \in SupportedCurrencies
             /\ record[i.key] # None
             /\ Answer(r, Recorded(record[i.key], i))
          \/ /\ i.currency \in SupportedCurrencies
             /\ record[i.key] = None
             /\ Goto(r, "insertRecord")
             /\ UNCHANGED reply
       /\ UNCHANGED <<ledgerVars, row, tableVars>>
  BY DEF Begin
<1> input'[r] = i /\ i.key \in Causes /\ entry' = entry /\ status[r] = "absent"
  BY TransfersAssumption DEF RequestTypeOK, TransfersAssumption, ledgerVars, sessionVars, Keyed
<1> UNCHANGED <<ledgerVars, row, status, record, events, jobs, audit, journal>>
  BY DEF tableVars, ledgerVars
<1>1. CASE Answer(r, Refused("unsupported_currency"))
  <2>1. Refused("unsupported_currency") \in Reply
    BY DEF Refused, Reply, Status
  <2>2. /\ pc' = [pc EXCEPT ![r] = "done"]
        /\ reply' = [reply EXCEPT ![r] = Refused("unsupported_currency")]
    BY <1>1 DEF Answer, Goto
  <2>3. RequestTypeOK'
    BY <2>1, <2>2 DEF RequestTypeOK, PC
  <2>4. Control(r)' /\ Keyed(r)' /\ Answered(r)'
    BY <2>2 DEF Control, Keyed, Answered, Accepted, InTransaction, Refused, RequestTypeOK
  <2> QED BY <2>2, <2>3, <2>4, UncommittedStep DEF RequestTypeOK
<1>2. CASE record[i.key] # None /\ Answer(r, Recorded(record[i.key], i))
  <2> DEFINE answer == Recorded(record[i.key], i)
  <2>1. record[i.key] \in Record
    BY <1>2 DEF RequestTypeOK
  <2>2. answer \in Reply
    BY <2>1 DEF Recorded, Record, Refused, Reply, Status
  <2>3. /\ answer.kind = "replayed" => /\ record[i.key].hash = Payload(i)
                                       /\ answer.transfer = record[i.key].transfer
                                       /\ answer.status = record[i.key].response
        /\ answer.kind # "created"
    BY DEF Recorded, Refused
  <2> HIDE DEF answer
  <2>4. pc' = [pc EXCEPT ![r] = "done"] /\ reply' = [reply EXCEPT ![r] = answer]
    BY <1>2 DEF Answer, Goto, answer
  <2>5. RequestTypeOK'
    BY <2>2, <2>4 DEF RequestTypeOK, PC
  <2>6. Control(r)' /\ Keyed(r)'
    BY <2>4 DEF Control, Keyed, InTransaction, RequestTypeOK
  <2>7. Answered(r)'
    BY <1>2, <2>3, <2>4 DEF Answered, Accepted, RequestTypeOK, Payload
  <2> QED BY <2>4, <2>5, <2>6, <2>7, UncommittedStep DEF RequestTypeOK
<1>3. CASE Goto(r, "insertRecord") /\ UNCHANGED reply
  <2>1. pc' = [pc EXCEPT ![r] = "insertRecord"]
    BY <1>3 DEF Goto
  <2>2. RequestTypeOK'
    BY <1>3, <2>1 DEF RequestTypeOK, PC
  <2>3. Control(r)' /\ Keyed(r)' /\ Answered(r)'
    BY <1>3, <2>1 DEF Control, Keyed, Answered, Accepted, InTransaction, NoReply, RequestTypeOK
  <2> QED BY <1>3, <2>1, <2>2, <2>3, UncommittedStep DEF RequestTypeOK
<1> QED BY <1>1, <1>2, <1>3

\* The steps of an open transaction that do not throw: they touch no table, and
\* the pc, the row and the ledger as the action says.
LEMMA OpenStepInv ==
    ASSUME IInv, NEW r \in Requests, InTransaction(r), LedgerStep(r) \/ UNCHANGED ledgerVars,
           NEW label, label \in {"readSource", "validate", "route", "post"},
           pc' = [pc EXCEPT ![r] = label], row' \in [Requests -> Status],
           \A q \in Requests \ {r} : row'[q] = row[q],
           UNCHANGED <<input, reply, tableVars, journal>>,
           Control(r)', record[input[r].key] = None, CauseRow(input[r].key) \in held'[r]
    PROVE  IInv'
<1> RequestTypeOK /\ Control(r) /\ Keyed(r) /\ Answered(r)
  BY DEF IInv
<1>1. RequestTypeOK'
  BY DEF RequestTypeOK, PC, tableVars
<1>2. Keyed(r)' /\ Answered(r)'
  BY DEF Keyed, Answered, Accepted, InTransaction, NoReply, RequestTypeOK, tableVars, CauseRow
<1> QED BY <1>1, <1>2, UncommittedStep DEF RequestTypeOK, tableVars

LEMMA InsertRecordInv == ASSUME IInv, NEW r \in Requests, InsertRecord(r) PROVE IInv'
<1> RequestTypeOK /\ Control(r) /\ pc[r] = "insertRecord" /\ LedgerTypeOK
  BY DEF IInv, LedgerInv, LedgerInvOf, InsertRecord
<1> r \in Sessions /\ input[r] \in Inputs /\ input[r].key \in Causes
  BY InputTyped
<1>1. CASE Throw(r, "unique_violation")
  <2>1. Refused("unique_violation") \in Reply
    BY DEF Refused, Reply, Status
  <2> QED BY <1>1, <2>1, ThrowInv DEF InTransaction
<1>2. CASE /\ record[input[r].key] = None
           /\ Acquire(r, CauseRow(input[r].key))
           /\ Goto(r, "readSource")
           /\ UNCHANGED <<input, row, reply, tableVars, projection, journal,
                          overwritten, sessionVars>>
  <2>1. CauseRow(input[r].key) \in Row
    BY DEF CauseRow, Row
  <2>2. LedgerStep(r) /\ CauseRow(input[r].key) \in held'[r]
    BY <1>2, <2>1 DEF LedgerStep, CallerLocks, Acquire, LedgerTypeOK
  <2>3. Control(r)'
    BY <1>2 DEF Control, Goto, RequestTypeOK, sessionVars
  <2> QED BY <1>2, <2>2, <2>3, OpenStepInv DEF InTransaction, Goto, RequestTypeOK
<1> QED BY <1>1, <1>2 DEF InsertRecord

LEMMA ReadSourceInv == ASSUME IInv, NEW r \in Requests, ReadSource(r) PROVE IInv'
<1> RequestTypeOK /\ Control(r) /\ Keyed(r) /\ pc[r] = "readSource"
  BY DEF IInv, ReadSource
<1>1. CASE \E kind \in {"source_refused", "insufficient_funds"} : Throw(r, kind)
  <2>1. \A kind \in {"source_refused", "insufficient_funds"} : Refused(kind) \in Reply
    BY DEF Refused, Reply, Status
  <2> QED BY <1>1, <2>1, ThrowInv DEF InTransaction
<1>2. CASE /\ SourceAccepted(input[r])
           /\ Update(r, "RECEIVED")
           /\ Goto(r, "validate")
           /\ UNCHANGED <<ledgerVars, input, reply, tableVars>>
  <2>1. Control(r)'
    BY <1>2 DEF Control, Goto, RequestTypeOK, ledgerVars, sessionVars, SourceAccepted
  <2>2. row' \in [Requests -> Status] /\ \A q \in Requests \ {r} : row'[q] = row[q]
    BY <1>2 DEF Update, RequestTypeOK, Status
  <2> QED BY <1>2, <2>1, <2>2, OpenStepInv DEF InTransaction, Goto, Keyed, ledgerVars
<1> QED BY <1>1, <1>2 DEF ReadSource

LEMMA ValidateInv == ASSUME IInv, NEW r \in Requests, Validate(r) PROVE IInv'
<1> RequestTypeOK /\ Control(r) /\ Keyed(r) /\ pc[r] = "validate"
  BY DEF IInv, Validate
<1>1. Control(r)'
  BY DEF Validate, Control, Goto, RequestTypeOK, ledgerVars, sessionVars, SourceAccepted
<1>2. row' \in [Requests -> Status] /\ \A q \in Requests \ {r} : row'[q] = row[q]
  BY DEF Validate, Update, RequestTypeOK, Status
<1> QED BY <1>1, <1>2, OpenStepInv DEF Validate, InTransaction, Goto, Keyed, ledgerVars

\* The statement that opens the entry, for either kind of destination.
LEMMA RouteInv ==
    ASSUME IInv, NEW r \in Requests, pc[r] = "route", NEW s \in Status,
           input[r].dest # External => DestinationAccepted(r),
           OpenEntry(r, TransferEntry(r)), Update(r, s), Goto(r, "post"),
           UNCHANGED <<held, input, reply, tableVars>>
    PROVE  IInv'
<1> RequestTypeOK /\ Control(r) /\ Keyed(r) /\ LedgerTypeOK
  BY DEF IInv, LedgerInv, LedgerInvOf
<1> r \in Sessions /\ input[r] \in Inputs
  BY InputTyped
<1>1. TransferEntry(r) \in Entry /\ Postable(TransferEntry(r))
  BY TransferEntryTyped DEF Control
<1>2. entry'[r] = TransferEntry(r) /\ entry'[r] # None /\ journal' = journal
  BY <1>1, LedgerAssumption DEF OpenEntry, LedgerTypeOK, LedgerAssumption
<1>3. LedgerStep(r)
  BY <1>1, <1>2 DEF LedgerStep, CallerLocks, Control
<1>4. Control(r)'
  BY <1>2 DEF Control, Goto, RequestTypeOK, SourceAccepted, TransferEntry
<1>5. row' \in [Requests -> Status] /\ \A q \in Requests \ {r} : row'[q] = row[q]
  BY DEF Update, RequestTypeOK
<1> QED BY <1>2, <1>3, <1>4, <1>5, OpenStepInv DEF InTransaction, Goto, Keyed

LEMMA RouteInternalInv == ASSUME IInv, NEW r \in Requests, RouteInternal(r) PROVE IInv'
<1>1. CASE Throw(r, "destination_refused")
  <2>1. Refused("destination_refused") \in Reply
    BY DEF Refused, Reply, Status
  <2> QED BY <1>1, <2>1, ThrowInv DEF InTransaction, RouteInternal
<1>2. CASE ~ Throw(r, "destination_refused")
  BY <1>2, RouteInv DEF RouteInternal, Status
<1> QED BY <1>1, <1>2

LEMMA RouteExternalInv == ASSUME IInv, NEW r \in Requests, RouteExternal(r) PROVE IInv'
  BY RouteInv DEF RouteExternal, Status

LEMMA PostInv == ASSUME IInv, NEW r \in Requests, Post(r) PROVE IInv'
<1> RequestTypeOK /\ Control(r) /\ Keyed(r) /\ LedgerTypeOK /\ pc[r] = "post"
  BY DEF IInv, LedgerInv, LedgerInvOf, Post
<1> r \in Sessions
  BY InputTyped
<1>1. LedgerStep(r) /\ entry' = entry /\ journal' = journal
  BY DEF Post, LedgerStep, ReadProjection, UpsertProjection
<1>2. held[r] \subseteq held'[r]
  BY DEF Post, ReadProjection, UpsertProjection, Acquire, LedgerTypeOK
<1>3. Control(r)'
  BY <1>1 DEF Post, requestVars, Control, SourceAccepted, TransferEntry
<1> QED BY <1>1, <1>2, <1>3, OpenStepInv DEF Post, requestVars, InTransaction, Keyed, RequestTypeOK

LEMMA SettleInv == ASSUME IInv, NEW r \in Requests, Settle(r) PROVE IInv'
<1> RequestTypeOK /\ Control(r) /\ Keyed(r) /\ pc[r] = "post"
  BY DEF IInv, Settle
<1>1. Control(r)'
  BY DEF Settle, Control, ledgerVars, sessionVars, SourceAccepted, TransferEntry
<1>2. row' \in [Requests -> Status] /\ \A q \in Requests \ {r} : row'[q] = row[q]
  BY DEF Settle, Update, RequestTypeOK, Status
<1> QED BY <1>1, <1>2, OpenStepInv DEF Settle, InTransaction, Keyed, ledgerVars, RequestTypeOK

LEMMA LateStepInv ==
    ASSUME IInv, NEW r \in Requests, Enqueue(r) \/ Respond(r) PROVE IInv'
<1> RequestTypeOK /\ Control(r) /\ Keyed(r) /\ Answered(r) /\ Stored(input[r].key)
  BY InputTyped DEF IInv, Enqueue, Respond
<1> UNCHANGED <<ledgerVars, input, row, status, record, events, audit, journal, entry, held>>
  BY DEF Enqueue, Respond, ledgerVars, sessionVars, tableVars
<1>1. CASE Enqueue(r)
  <2>1. pc' = [pc EXCEPT ![r] = "answer"] /\ reply' = reply /\ pc[r] = "enqueue"
    BY <1>1 DEF Enqueue, Goto
  <2>2. RequestTypeOK'
    BY <1>1, <2>1 DEF Enqueue, RequestTypeOK, PC
  <2>3. Control(r)' /\ Keyed(r)' /\ Answered(r)'
    BY <2>1 DEF Control, Keyed, Answered, Accepted, NoReply, InTransaction, RequestTypeOK,
                SourceAccepted
  <2> QED BY <2>1, <2>2, <2>3, UncommittedStep DEF RequestTypeOK
<1>2. CASE Respond(r)
  <2> DEFINE answer == [kind |-> "created", transfer |-> r, status |-> row[r]]
  <2>1. /\ pc' = [pc EXCEPT ![r] = "done"] /\ reply' = [reply EXCEPT ![r] = answer]
        /\ UNCHANGED jobs /\ pc[r] = "answer"
    BY <1>2 DEF Respond, Answer, Goto, tableVars
  <2>2. answer \in Reply
    BY DEF Reply, RequestTypeOK
  <2>3. RequestTypeOK'
    BY <2>1, <2>2 DEF RequestTypeOK, PC
  <2>4. Control(r)' /\ Keyed(r)'
    BY <2>1 DEF Control, Keyed, InTransaction, RequestTypeOK, SourceAccepted
  <2>5. Answered(r)'
    BY <2>1 DEF Keyed, Stored, Answered, Accepted, RequestTypeOK, Payload
  <2> QED BY <2>1, <2>3, <2>4, <2>5, UncommittedStep DEF RequestTypeOK
<1> QED BY <1>1, <1>2

LEMMA FailInv == ASSUME IInv, NEW r \in Requests, Fail(r) PROVE IInv'
<1>1. Refused("error") \in Reply
  BY DEF Refused, Reply, Status
<1>2. CASE InTransaction(r) /\ Throw(r, "error")
  BY <1>1, <1>2, ThrowInv
<1>3. CASE /\ pc[r] \in {"enqueue", "answer"}
           /\ Answer(r, Refused("error"))
           /\ UNCHANGED <<ledgerVars, input, row, tableVars>>
  <2> RequestTypeOK /\ Control(r) /\ Keyed(r)
    BY DEF IInv
  <2>1. /\ pc' = [pc EXCEPT ![r] = "done"] /\ reply' = [reply EXCEPT ![r] = Refused("error")]
        /\ UNCHANGED <<status, record, journal, entry>>
    BY <1>3 DEF Answer, Goto, tableVars, ledgerVars, sessionVars
  <2>2. RequestTypeOK'
    BY <1>1, <1>3, <2>1 DEF RequestTypeOK, PC, tableVars
  <2>3. Control(r)' /\ Keyed(r)' /\ Answered(r)'
    BY <1>3, <2>1 DEF Control, Keyed, Answered, Accepted, Refused, InTransaction, RequestTypeOK,
                      SourceAccepted
  <2> QED BY <1>3, <2>1, <2>2, <2>3, UncommittedStep DEF RequestTypeOK
<1> QED BY <1>2, <1>3 DEF Fail

LEMMA DeadlockVictimInv == ASSUME IInv, NEW r \in Requests, DeadlockVictim(r) PROVE IInv'
<1>1. Refused("deadlock") \in Reply
  BY DEF Refused, Reply, Status
<1>2. InTransaction(r)
  BY TransfersAssumption DEF DeadlockVictim, Deadlocked, Wanted, InTransaction, TransfersAssumption
<1> QED BY <1>1, <1>2, ThrowInv DEF DeadlockVictim

-----------------------------------------------------------------------------
(* The step that commits.                                                  *)

\* The key of the request that commits has no record, no journal entry and no
\* other request at it; what it writes is the first of each.
LEMMA CommitInv == ASSUME IInv, NEW r \in Requests, Commit(r) PROVE IInv'
<1> DEFINE k == input[r].key
<1> RequestTypeOK /\ LedgerTypeOK /\ Control(r) /\ Keyed(r) /\ Answered(r)
  BY DEF IInv, LedgerInv, LedgerInvOf
<1> /\ r \in Sessions /\ r \in TransferIds /\ k \in Causes /\ input[r] \in Inputs
    /\ Requests \subseteq Sessions /\ Requests \subseteq TransferIds
  BY InputTyped, TransfersAssumption DEF Commit, TransfersAssumption
<1>1. /\ pc[r] = "post" /\ row[r] \in {"SETTLED", "PENDING_EXTERNAL"}
      /\ entry[r] = TransferEntry(r) /\ entry[r] # None
      /\ status[r] = "absent" /\ record[k] = None /\ CauseRow(k) \in held[r]
  <2>1. pc[r] = "post" /\ row[r] \in {"SETTLED", "PENDING_EXTERNAL"}
    BY DEF Commit
  <2>2. entry[r] = TransferEntry(r) /\ entry[r] # None
    BY <2>1 DEF Control
  <2> QED BY <2>1, <2>2 DEF Keyed, InTransaction
<1>2. /\ pc' = [pc EXCEPT ![r] = IF row[r] = "PENDING_EXTERNAL" THEN "enqueue" ELSE "answer"]
      /\ status' = [status EXCEPT ![r] = row[r]]
      /\ record' = [record EXCEPT ![k] = Succeeded(r)]
      /\ journal' = Append(journal, TransferEntry(r))
      /\ entry'[r] = None
      /\ UNCHANGED <<input, row, reply, jobs>>
  BY <1>1 DEF Commit, Goto, Complete, CommitEntry, EndTransaction, LedgerTypeOK
<1>3. LedgerStep(r)
  BY DEF Commit, LedgerStep
<1>4. Succeeded(r) \in Record
  BY DEF Succeeded, Record, RequestTypeOK
<1>5. RequestTypeOK'
  BY <1>1, <1>2, <1>4 DEF Commit, RequestTypeOK, PC, Status, SubmittedEvent
<1>6. ASSUME NEW q \in Requests \ {r}, pc[q] # "idle", pc[q] # "insertRecord", InTransaction(q)
      PROVE  input[q].key # k
  <2>1. CauseRow(input[q].key) \in held[q]
    BY <1>6 DEF IInv, Keyed
  <2>2. held[q] \cap held[r] = {}
    BY DEF IInv, LedgerInv, LedgerInvOf, LocksExclusive
  <2> QED BY <1>1, <2>1, <2>2
<1>7. ASSUME NEW q \in Requests, status[q] # "absent"
      PROVE  input[q].key # k /\ q # r /\ pc[q] # "idle" /\ input[q].key \in Causes
  BY <1>1, <1>7, InputTyped DEF IInv, Keyed
<1>8. ASSUME NEW q \in Requests \ {r} PROVE Control(q)' /\ Keyed(q)' /\ Answered(q)'
  <2> Control(q) /\ Keyed(q) /\ Answered(q)
    BY DEF IInv
  <2>1. /\ entry'[q] = entry[q] /\ held'[q] = held[q] /\ pc'[q] = pc[q]
        /\ status'[q] = status[q]
    BY <1>2, <1>3, LedgerStepFrame DEF LedgerInv, IInv, RequestTypeOK
  <2>2. pc[q] # "idle" => input[q].key \in Causes
    BY InputTyped
  <2>3. \A c \in Causes \ {k} : record'[c] = record[c]
    BY <1>2 DEF RequestTypeOK
  <2>4. Control(q)'
    BY <1>2, <2>1 DEF Control, SourceAccepted, TransferEntry
  <2>5. Keyed(q)'
    BY <1>2, <1>6, <1>7, <2>1, <2>2, <2>3 DEF Keyed, InTransaction, CauseRow
  <2>6. Accepted(q) => input[q].key # k /\ input[q].key \in Causes
    BY <1>1, <2>2 DEF Answered, Accepted, NoReply
  <2>7. Answered(q)'
    BY <1>2, <2>1, <2>3, <2>6 DEF Answered, Accepted, Payload
  <2> QED BY <2>4, <2>5, <2>7
<1>9. Control(r)' /\ Keyed(r)' /\ Answered(r)'
  <2>1. Control(r)'
    BY <1>1, <1>2 DEF Control, RequestTypeOK, SourceAccepted
  <2>2. Keyed(r)'
    <3>1. record'[k] = Succeeded(r) /\ Succeeded(r) # None /\ Succeeded(r).transfer = r
      BY <1>2, <1>4, RecordAssumption DEF RequestTypeOK, RecordAssumption, Succeeded
    <3>2. status'[r] = row[r] /\ pc'[r] \in {"enqueue", "answer"} /\ UNCHANGED <<input, row>>
      BY <1>2 DEF RequestTypeOK
    <3> QED BY <1>1, <3>1, <3>2 DEF Keyed, InTransaction
  <2>3. Answered(r)'
    BY <1>1, <1>2 DEF Answered, Accepted, NoReply, RequestTypeOK
  <2> QED BY <2>1, <2>2, <2>3
<1>10. ASSUME NEW c \in Causes PROVE Stored(c)'
  <2>1. CASE c = k
    <3>1. record'[c] = Succeeded(r) /\ status'[r] = row[r]
      BY <1>2, <2>1 DEF RequestTypeOK
    <3>2. /\ record'[c].transfer = r /\ record'[c].hash = Payload(input[r])
          /\ record'[c].response = status'[r] /\ status'[r] # "absent"
      BY <1>1, <3>1 DEF Succeeded
    <3>3. input' = input /\ input[r].key = c
      BY <1>2, <2>1
    <3> QED BY <3>2, <3>3 DEF Stored, Payload
  <2>2. CASE c # k
    <3>1. record'[c] = record[c] /\ Stored(c)
      BY <1>2, <2>2 DEF RequestTypeOK, IInv
    <3>2. \A t \in Requests : status[t] # "absent" => status'[t] = status[t]
      BY <1>1, <1>2 DEF RequestTypeOK
    <3> QED BY <1>2, <3>1, <3>2 DEF Stored, Payload
  <2> QED BY <2>1, <2>2
<1>11. Journalled'
  <2> DEFINE n == Len(journal)
  <2>1. /\ n \in Nat /\ DOMAIN journal = 1 .. n /\ DOMAIN journal' = 1 .. (n + 1)
        /\ \A i \in 1 .. n : journal'[i] = journal[i]
        /\ journal'[n + 1] = TransferEntry(r)
    BY <1>1, <1>2 DEF LedgerTypeOK
  <2>2. /\ TransferEntry(r).transfer = r /\ TransferEntry(r).cause = k
        /\ TransferEntry(r).debit = input[r].source /\ TransferEntry(r).amount = input[r].amount
        /\ TransferEntry(r).credit = Receiver(input[r])
    BY DEF TransferEntry, Receiver
  <2>3. /\ \A t \in Requests : status[t] # "absent" => status'[t] = status[t] /\ t # r
        /\ \A t \in Requests : status'[t] # "absent" => status[t] # "absent" \/ t = r
        /\ status'[r] # "absent"
    BY <1>1, <1>2 DEF RequestTypeOK
  <2>4. Journalled
    BY DEF IInv
  <2> HIDE DEF n
  <2>5. \A i \in DOMAIN journal' :
           /\ journal'[i].transfer \in Requests
           /\ status'[journal'[i].transfer] # "absent"
           /\ journal'[i].cause = input[journal'[i].transfer].key
           /\ journal'[i].debit = input[journal'[i].transfer].source
           /\ journal'[i].credit = Receiver(input[journal'[i].transfer])
           /\ journal'[i].amount = input[journal'[i].transfer].amount
    <3> SUFFICES ASSUME NEW i \in 1 .. (n + 1)
                 PROVE  /\ journal'[i].transfer \in Requests
                        /\ status'[journal'[i].transfer] # "absent"
                        /\ journal'[i].cause = input[journal'[i].transfer].key
                        /\ journal'[i].debit = input[journal'[i].transfer].source
                        /\ journal'[i].credit = Receiver(input[journal'[i].transfer])
                        /\ journal'[i].amount = input[journal'[i].transfer].amount
      BY <2>1
    <3>1. CASE i \in 1 .. n
      BY <2>1, <2>3, <2>4, <3>1 DEF Journalled
    <3>2. CASE i = n + 1
      BY <2>1, <2>2, <2>3, <3>2
    <3> QED BY <2>1, <3>1, <3>2
  <2>6. \A i \in 1 .. n : journal'[i].transfer # r
    BY <2>1, <2>3, <2>4 DEF Journalled
  <2>7. \A i, j \in DOMAIN journal' : journal'[i].transfer = journal'[j].transfer => i = j
    <3> SUFFICES ASSUME NEW i \in 1 .. (n + 1), NEW j \in 1 .. (n + 1),
                        journal'[i].transfer = journal'[j].transfer
                 PROVE  i = j
      BY <2>1
    <3>1. CASE i \in 1 .. n /\ j \in 1 .. n
      BY <2>1, <2>4, <3>1 DEF Journalled
    <3>2. CASE ~ (i \in 1 .. n /\ j \in 1 .. n)
      BY <2>1, <2>2, <2>6, <3>2
    <3> QED BY <3>1, <3>2
  <2>8. ASSUME NEW t \in Requests, status'[t] # "absent"
        PROVE  \E i \in DOMAIN journal' : journal'[i].transfer = t
    <3>1. CASE t = r
      BY <2>1, <2>2, <3>1
    <3>2. CASE t # r
      <4>1. PICK i \in DOMAIN journal : journal[i].transfer = t
        BY <2>3, <2>4, <2>8, <3>2 DEF Journalled
      <4> QED BY <2>1, <4>1
    <3> QED BY <3>1, <3>2
  <2> QED BY <1>2, <2>5, <2>7, <2>8 DEF Journalled
<1>12. LedgerInv'
  BY <1>3, LedgerStepInv DEF LedgerInv, IInv
<1> QED BY <1>5, <1>8, <1>9, <1>10, <1>11, <1>12 DEF IInv

-----------------------------------------------------------------------------
LEMMA InitInv == Init => IInv
<1> SUFFICES ASSUME Init PROVE IInv
  OBVIOUS
<1>1. LedgerInv
  BY LedgerInitInv DEF Init
<1>2. RequestTypeOK
  BY DEF Init, RequestTypeOK, PC, Status, NoReply, Reply
<1>3. \A r \in Requests : Control(r) /\ Keyed(r) /\ Answered(r)
  BY TransfersAssumption
     DEF Init, LedgerInit, Control, Keyed, Answered, Accepted, InTransaction, NoReply,
         TransfersAssumption
<1>4. (\A k \in Causes : Stored(k)) /\ Journalled
  BY TransfersAssumption DEF Init, LedgerInit, Stored, Journalled, TransfersAssumption
<1> QED BY <1>1, <1>2, <1>3, <1>4 DEF IInv

LEMMA StutterInv == IInv /\ UNCHANGED vars => IInv'
<1> SUFFICES ASSUME IInv, UNCHANGED vars PROVE IInv'
  OBVIOUS
<1>0. UNCHANGED <<ledgerVars, requestVars, tableVars, journal, entry, held>>
  BY DEF vars, ledgerVars, sessionVars
<1>1. LedgerInv'
  BY <1>0, LedgerStutterInv DEF LedgerInv, IInv
<1>2. RequestTypeOK'
  BY <1>0 DEF IInv, RequestTypeOK, requestVars, tableVars
<1>3. \A r \in Requests : Control(r)' /\ Keyed(r)' /\ Answered(r)'
  BY <1>0, OthersUnmoved DEF requestVars, tableVars
<1>4. (\A k \in Causes : Stored(k)') /\ Journalled'
  BY <1>0, TablesUnmoved DEF requestVars, tableVars
<1> QED BY <1>1, <1>2, <1>3, <1>4 DEF IInv

LEMMA NextInv == IInv /\ [Next]_vars => IInv'
<1> SUFFICES ASSUME IInv, [Next]_vars PROVE IInv'
  OBVIOUS
<1>1. ASSUME NEW r \in Requests, Step(r) PROVE IInv'
  BY <1>1, InsertRecordInv, ReadSourceInv, ValidateInv, RouteInternalInv, RouteExternalInv,
     PostInv, SettleInv, CommitInv, LateStepInv, DeadlockVictimInv DEF Step
<1> QED BY <1>1, BeginInv, FailInv, StutterInv DEF Next

\* Every reachable state satisfies the inductive invariant.
THEOREM Invariance == Spec => []IInv
  BY InitInv, NextInv, PTL DEF Spec

\* The variables keep their types.
THEOREM TypeCorrect == Spec => []TypeOK
  BY Invariance, TypesOfIInv, PTL

\* BR-009: one idempotency key creates at most one transfer, for any number of
\* requests, however their statements interleave and wherever they fail.
THEOREM TransferPerKey == Spec => []OneTransferPerKey
<1>1. IInv => OneTransferPerKey
  BY DEF IInv, Keyed, OneTransferPerKey
<1> QED BY <1>1, Invariance, PTL

\* One idempotency key is posted for at most once.
THEOREM EntryPerCause == Spec => []OneEntryPerCause
<1>1. IInv => OneEntryPerCause
  <2> SUFFICES ASSUME IInv, NEW i \in DOMAIN journal, NEW j \in DOMAIN journal,
                      journal[i].cause = journal[j].cause
               PROVE  i = j
    BY DEF OneEntryPerCause
  <2>1. journal[i].transfer = journal[j].transfer
    BY DEF IInv, Journalled, Keyed
  <2> QED BY <2>1 DEF IInv, Journalled
<1> QED BY <1>1, Invariance, PTL

\* Whatever a caller is told of a key, every caller with that key is told.
THEOREM RepliesConsistent == Spec => []RepliesAgree
<1>1. IInv => RepliesAgree
  BY DEF IInv, Answered, RepliesAgree
<1> QED BY <1>1, Invariance, PTL

\* A caller that is told its transfer was accepted finds exactly the entry it
\* asked for, and one that was refused or answered by a replay moved nothing.
THEOREM AnswersTruthful == Spec => []AnswersAreTruthful
<1>1. IInv => AnswersAreTruthful
  <2> SUFFICES ASSUME IInv, NEW r \in Requests
               PROVE  /\ Accepted(r) =>
                            /\ status[reply[r].transfer] = reply[r].status
                            /\ \E i \in DOMAIN journal :
                                  /\ PostedBy(reply[r].transfer) = {i}
                                  /\ journal[i].cause = input[r].key
                                  /\ journal[i].debit = input[r].source
                                  /\ journal[i].credit = Receiver(input[r])
                                  /\ journal[i].amount = input[r].amount
                      /\ /\ pc[r] = "done"
                         /\ reply[r].kind # "error"
                         /\ reply[r].transfer # r
                         => PostedBy(r) = {}
    BY DEF AnswersAreTruthful
  <2>1. ASSUME Accepted(r)
        PROVE  /\ status[reply[r].transfer] = reply[r].status
               /\ \E i \in DOMAIN journal :
                     /\ PostedBy(reply[r].transfer) = {i}
                     /\ journal[i].cause = input[r].key
                     /\ journal[i].debit = input[r].source
                     /\ journal[i].credit = Receiver(input[r])
                     /\ journal[i].amount = input[r].amount
    <3> DEFINE t == reply[r].transfer
               k == input[r].key
    <3>1. pc[r] # "idle" /\ Answered(r) /\ RequestTypeOK /\ Control(r)
      BY <2>1 DEF IInv, Answered, Accepted, NoReply
    <3>2. k \in Causes
      BY <3>1, InputTyped
    <3>3. Stored(k) /\ record[k] # None /\ t = record[k].transfer
      BY <2>1, <3>1, <3>2 DEF IInv, Answered
    <3>4. /\ t \in Requests /\ status[t] # "absent" /\ input[t].key = k
          /\ Payload(input[t]) = Payload(input[r]) /\ status[t] = reply[r].status
      BY <2>1, <3>1, <3>3 DEF Stored, Answered
    <3>5. /\ input[t].source = input[r].source /\ input[t].amount = input[r].amount
          /\ Receiver(input[t]) = Receiver(input[r])
      BY <3>4 DEF Payload, Receiver
    <3>6. PICK i \in DOMAIN journal : journal[i].transfer = t
      BY <3>4 DEF IInv, Journalled
    <3>7. PostedBy(t) = {i}
      BY <3>6 DEF IInv, Journalled, PostedBy
    <3>8. /\ journal[i].cause = input[t].key /\ journal[i].debit = input[t].source
          /\ journal[i].credit = Receiver(input[t])
          /\ journal[i].amount = input[t].amount
      BY <3>6 DEF IInv, Journalled
    <3> QED BY <3>4, <3>5, <3>7, <3>8
  <2>2. ASSUME pc[r] = "done", reply[r].kind # "error", reply[r].transfer # r
        PROVE  PostedBy(r) = {}
    BY <2>2 DEF IInv, Answered, Journalled, PostedBy
  <2> QED BY <2>1, <2>2
<1> QED BY <1>1, Invariance, PTL

-----------------------------------------------------------------------------
\* Every step of a request is a step of the ledger or does not touch it.
LEMMA StepOfLedger ==
    ASSUME IInv, [Next]_vars
    PROVE  [\E p \in Sessions : LedgerStep(p)]_ledgerVars
<1>1. CASE UNCHANGED ledgerVars
  BY <1>1
<1>2. ASSUME NEW r \in Requests, Begin(r) \/ Step(r) \/ Fail(r)
      PROVE  LedgerStep(r) \/ UNCHANGED ledgerVars
  <2>1. ASSUME NEW kind, Throw(r, kind) PROVE LedgerStep(r)
    BY <2>1 DEF Throw, LedgerStep
  <2>2. CASE Begin(r) \/ Fail(r) \/ DeadlockVictim(r) \/ Enqueue(r) \/ Respond(r)
    BY <2>1, <2>2 DEF Begin, Fail, DeadlockVictim, Enqueue, Respond
  <2>3. CASE InsertRecord(r)
    <3>1. CauseRow(input[r].key) \in Row
      BY <2>3, InputTyped DEF IInv, InsertRecord, CauseRow, Row
    <3> QED BY <2>1, <2>3, <3>1 DEF InsertRecord, LedgerStep, CallerLocks
  <2>4. CASE ReadSource(r) \/ Validate(r) \/ Settle(r)
    BY <2>1, <2>4 DEF ReadSource, Validate, Settle
  <2>5. CASE RouteInternal(r) \/ RouteExternal(r)
    <3>1. CASE Throw(r, "destination_refused")
      BY <2>1, <3>1
    <3>2. CASE ~ Throw(r, "destination_refused")
      <4>1. /\ pc[r] = "route" /\ OpenEntry(r, TransferEntry(r)) /\ UNCHANGED held
            /\ input[r].dest # External => DestinationAccepted(r)
        BY <2>5, <3>2 DEF RouteInternal, RouteExternal
      <4>2. RequestTypeOK /\ Control(r) /\ LedgerTypeOK
        BY DEF IInv, LedgerInv, LedgerInvOf
      <4>3. TransferEntry(r) \in Entry /\ Postable(TransferEntry(r)) /\ r \in Sessions
        BY <4>1, <4>2, TransferEntryTyped, InputTyped DEF Control
      <4>4. entry'[r] = TransferEntry(r) /\ entry[r] = None
        BY <4>1, <4>2, <4>3 DEF OpenEntry, LedgerTypeOK, Control
      <4> QED BY <4>1, <4>3, <4>4 DEF LedgerStep, CallerLocks
    <3> QED BY <3>1, <3>2
  <2>6. CASE Post(r) \/ Commit(r)
    BY <2>6 DEF Post, Commit, LedgerStep
  <2> QED BY <1>2, <2>2, <2>3, <2>4, <2>5, <2>6 DEF Step
<1> QED BY <1>1, <1>2, TransfersAssumption DEF Next, vars, TransfersAssumption

\* Transfers uses the ledger through the operations of LedgerSpec alone.
THEOREM ImplementsLedger == Spec => LedgerSpec
<1>1. Init => LedgerInit
  BY DEF Init
<1> QED BY <1>1, StepOfLedger, Invariance, PTL DEF Spec, LedgerSpec

\* Every commit of a transfer moves the balances as its entry says, of the
\* accounts of which no upsert has lost a balance.
THEOREM BalancesFollowJournal == Spec => ProjectionFollowsJournal
  BY ImplementsLedger, LedgerProjection
=============================================================================
