------------------------------- MODULE Ledger -------------------------------
(***************************************************************************)
(* LedgerService.postJournalEntry: the double-entry posting that every     *)
(* money movement goes through.  It always runs inside a transaction its   *)
(* caller opened, so it is modelled as the steps a session takes between   *)
(* its caller's statements: the entry is opened, each posting on a         *)
(* customer account reads the balance projection and then writes back a    *)
(* balance computed from what it read, and the caller's commit publishes   *)
(* all of it.                                                              *)
(*                                                                         *)
(* Every caller under src/ passes one DEBIT and one CREDIT of one amount   *)
(* in one currency, so an entry is a record of its two accounts and its    *)
(* amount; the checks on the number, the balance and the currency of the   *)
(* postings (lines 30-48) can then only pass, and what is left of the      *)
(* validation is that the two accounts differ.  Customer accounts are      *)
(* credit-normal (prisma/seed-data.ts); a posting on a system account (CLEARING)*)
(* writes no projection.                                                   *)
(***************************************************************************)
EXTENDS ReadCommitted, Integers, Sequences

CONSTANTS Accounts,        \* customer accounts
          SystemAccounts,  \* ledger accounts without a customer, e.g. CLEARING
          OpeningBalance,  \* the projection an account was provisioned with
          TransferIds,     \* ids of transfer requests
          Causes,          \* what an entry is posted for, see cause below
          None             \* an absent value

Operation == {"INTERNAL_TRANSFER", "INTERBANK_TRANSFER_INITIATED",
              "INTERBANK_TRANSFER_COMPENSATION", "END_OF_DAY_INTEREST"}

\* cause is what makes the entry due: the idempotency key of the request that
\* initiates a transfer, the provider event that compensates one, the item of a
\* batch run that accrues interest.
Entry == [operation : Operation, transfer : TransferIds \cup {None},
          debit : Accounts \cup SystemAccounts,
          credit : Accounts \cup SystemAccounts,
          amount : Nat \ {0}, cause : Causes]

ASSUME LedgerAssumption ==
    /\ Accounts \cap SystemAccounts = {}
    /\ OpeningBalance \in [Accounts -> Int]
    /\ None \notin Int
    /\ None \notin Entry

VARIABLES
    projection,   \* balance_projection.currentMinor, committed
    journal,      \* committed journal entries, in commit order
    entry,        \* entry[p]: the entry the transaction of p is posting, or None
    todo,         \* todo[p]: the directions it has still to post on a projection
    balanceRead,  \* balanceRead[p]: existingProjection.currentMinor, or None
    newBalance,   \* newBalance[p][a]: the balance p wrote for a, or None
    overwritten   \* history: accounts with a balance written over one not read

sessionVars == <<entry, todo, balanceRead, newBalance>>
ledgerVars  == <<held, projection, journal, overwritten, sessionVars>>

NothingWritten == [a \in Accounts |-> None]

LedgerInit ==
    /\ held = NoLocks
    /\ projection = OpeningBalance
    /\ journal = <<>>
    /\ overwritten = {}
    /\ entry = [p \in Sessions |-> None]
    /\ todo = [p \in Sessions |-> {}]
    /\ balanceRead = [p \in Sessions |-> None]
    /\ newBalance = [p \in Sessions |-> NothingWritten]

-----------------------------------------------------------------------------
ProjectionRow(a) == <<"balance_projection", a>>

\* The unique-index entry that makes a cause happen once: (operationType, key)
\* of idempotency_record, (provider, providerEventId) of external_transfer_event,
\* (batchRunId, resourceType, resourceId) of batch_run_item.
CauseRow(c) == <<"cause", c>>
TransferRow(t) == <<"transfer_request", t>>

Row == ({"balance_projection"} \X Accounts) \cup ({"cause"} \X Causes)
          \cup ({"transfer_request"} \X TransferIds)

PostingAccount(e, direction) ==
    IF direction = "DEBIT" THEN e.debit ELSE e.credit

\* Mutant: the signs of a debit-normal account.
ComputeBalanceEffect_Reversed(direction, amount) ==
    IF direction = "DEBIT" THEN amount ELSE -amount

\* What a posting adds to a credit-normal account.
ComputeBalanceEffect(direction, amount) ==
    IF direction = "CREDIT" THEN amount ELSE -amount

\* ledgerAccount.findMany returns one row per distinct account, and as many
\* rows as postings are required.
Postable(e) == e.debit # e.credit

\* The posting loop takes the DEBIT, then the CREDIT.
NextDirection(p) == IF "DEBIT" \in todo[p] THEN "DEBIT" ELSE "CREDIT"
NextAccount(p)   == PostingAccount(entry[p], NextDirection(p))

\* journalEntry.create; the postings on system accounts touch nothing shared.
\* The caller says what else its statement locks.
OpenEntry(p, e) ==
    /\ entry' = [entry EXCEPT ![p] = e]
    /\ todo' = [todo EXCEPT ![p] =
                   {d \in {"DEBIT", "CREDIT"} : PostingAccount(e, d) \in Accounts}]
    /\ UNCHANGED <<projection, journal, overwritten, balanceRead, newBalance>>

\* balanceProjection.findUnique: an unlocked read of the committed balance.
ReadProjection(p) ==
    /\ todo[p] # {}
    /\ balanceRead[p] = None
    /\ balanceRead' = [balanceRead EXCEPT ![p] = projection[NextAccount(p)]]
    /\ UNCHANGED <<held, projection, journal, overwritten, entry, todo, newBalance>>

\* balanceProjection.upsert with the balance computed from that read, and the
\* statement line that records the same running balance.  The row is written
\* whatever another transaction has committed to it since the read.
UpsertProjection(p) ==
    /\ todo[p] # {}
    /\ balanceRead[p] # None
    /\ Acquire(p, ProjectionRow(NextAccount(p)))
    /\ newBalance' =
         [newBalance EXCEPT ![p][NextAccount(p)] =
             balanceRead[p] + ComputeBalanceEffect(NextDirection(p), entry[p].amount)]
    /\ overwritten' = overwritten \cup
         {a \in {NextAccount(p)} : projection[a] # balanceRead[p]}
    /\ todo' = [todo EXCEPT ![p] = @ \ {NextDirection(p)}]
    /\ balanceRead' = [balanceRead EXCEPT ![p] = None]
    /\ UNCHANGED <<projection, journal, entry>>

Posted(p) == todo[p] = {}

\* The transaction is over and its session keeps nothing of it.
EndTransaction(p) ==
    /\ Release(p)
    /\ entry' = [entry EXCEPT ![p] = None]
    /\ todo' = [todo EXCEPT ![p] = {}]
    /\ balanceRead' = [balanceRead EXCEPT ![p] = None]
    /\ newBalance' = [newBalance EXCEPT ![p] = NothingWritten]

\* COMMIT publishes the entry, its postings and the balances together.
CommitEntry(p) ==
    /\ Posted(p)
    /\ projection' = [a \in Accounts |->
                        IF newBalance[p][a] = None THEN projection[a] ELSE newBalance[p][a]]
    /\ journal' = IF entry[p] = None THEN journal ELSE Append(journal, entry[p])
    /\ EndTransaction(p)
    /\ UNCHANGED overwritten

RollbackEntry(p) ==
    /\ EndTransaction(p)
    /\ UNCHANGED <<projection, journal, overwritten>>

-----------------------------------------------------------------------------
(* The ledger on its own: whatever its callers do, this is all that can     *)
(* happen to it.  The components that post are shown to implement it.       *)

\* A statement of the caller that writes one of its own rows, or none.
CallerLocks(p) == UNCHANGED held \/ \E r \in Row : Acquire(p, r)

LedgerStep(p) ==
    \/ /\ CallerLocks(p)
       /\ UNCHANGED <<projection, journal, overwritten, sessionVars>>
    \/ /\ entry[p] = None
       /\ entry'[p] \in Entry
       /\ Postable(entry'[p])
       /\ OpenEntry(p, entry'[p])
       /\ CallerLocks(p)
    \/ ReadProjection(p)
    \/ UpsertProjection(p)
    \/ CommitEntry(p)
    \/ RollbackEntry(p)

LedgerSpec == LedgerInit /\ [][\E p \in Sessions : LedgerStep(p)]_ledgerVars

-----------------------------------------------------------------------------
\* What an entry means for the balance of a customer account.
Effect(e, a) ==
    IF e.credit = a THEN e.amount ELSE IF e.debit = a THEN -e.amount ELSE 0

LedgerTypeOK ==
    /\ held \in [Sessions -> SUBSET Row]
    /\ projection \in [Accounts -> Int]
    /\ journal \in Seq(Entry)
    /\ entry \in [Sessions -> Entry \cup {None}]
    /\ todo \in [Sessions -> SUBSET {"DEBIT", "CREDIT"}]
    /\ balanceRead \in [Sessions -> Int \cup {None}]
    /\ newBalance \in [Sessions -> [Accounts -> Int \cup {None}]]
    /\ overwritten \subseteq Accounts

\* No cause is posted for twice: what one idempotency key, or one provider
\* event, makes due is on the ledger at most once.
OneEntryPerCause ==
    \A i, j \in DOMAIN journal : journal[i].cause = journal[j].cause => i = j

\* The projection is derived from the ledger, one commit at a time: a step
\* that appends no entry moves no balance, and one that appends an entry moves
\* each account by what the entry says -- as long as no upsert of the account
\* has replaced a balance its transaction had not read.
ProjectionFollowsJournal ==
    [][\A a \in Accounts \ overwritten :
          projection'[a] = projection[a] +
             (IF journal' = journal THEN 0 ELSE Effect(journal'[Len(journal')], a))]_ledgerVars
=============================================================================
