---------------------------- MODULE LedgerProofs ----------------------------
(***************************************************************************)
(* What the ledger guarantees whatever its callers do, proved once for     *)
(* LedgerStep.  The components that post entries are shown to take only    *)
(* such steps, and inherit the results.                                    *)
(***************************************************************************)
EXTENDS Ledger, TLAPS

\* A session that has no entry open has nothing of one.
Quiet(p) ==
    entry[p] = None =>
        /\ todo[p] = {}
        /\ balanceRead[p] = None
        /\ newBalance[p] = NothingWritten

\* The open entry of a session has two sides, and what is left of it to post
\* is on customer accounts.
WellOpened(p) ==
    entry[p] # None =>
        /\ Postable(entry[p])
        /\ \A d \in todo[p] : PostingAccount(entry[p], d) \in Accounts

\* A balance a session has written but not committed is, unless an upsert of the
\* account has lost a balance, what the entry makes of the committed one.  A
\* balance it has not written is no business of the entry, or is still to be
\* written.
Written(p, a) ==
    /\ newBalance[p][a] # None /\ a \notin overwritten =>
          newBalance[p][a] = projection[a] + Effect(entry[p], a)
    /\ newBalance[p][a] = None /\ entry[p] # None =>
          /\ entry[p].debit = a => "DEBIT" \in todo[p]
          /\ entry[p].credit = a => "CREDIT" \in todo[p]

Locked(p, a) == newBalance[p][a] # None => ProjectionRow(a) \in held[p]

\* The sessions of S post through LedgerService.  Another one may write balances
\* of its own making, but locks them, too.
LedgerInvOf(S) ==
    /\ LedgerTypeOK
    /\ LocksExclusive
    /\ \A p \in S : Quiet(p) /\ WellOpened(p)
    /\ \A p \in S, a \in Accounts : Written(p, a)
    /\ \A p \in Sessions, a \in Accounts : Locked(p, a)

LedgerInv == LedgerInvOf(Sessions)

-----------------------------------------------------------------------------
\* What is posted next is on a customer account, for a session of LedgerInvOf.
LEMMA NextPosting ==
    ASSUME NEW S \in SUBSET Sessions, LedgerInvOf(S), NEW p \in S, todo[p] # {}
    PROVE  /\ entry[p] \in Entry
           /\ NextDirection(p) \in todo[p]
           /\ NextDirection(p) \in {"DEBIT", "CREDIT"}
           /\ NextAccount(p) \in Accounts
<1>1. entry[p] \in Entry
  BY DEF LedgerInvOf, LedgerTypeOK, Quiet
<1>2. NextDirection(p) \in todo[p] /\ NextDirection(p) \in {"DEBIT", "CREDIT"}
  BY DEF LedgerInvOf, LedgerTypeOK, NextDirection
<1>3. NextAccount(p) \in Accounts
  BY <1>1, <1>2, LedgerAssumption DEF LedgerInvOf, WellOpened, NextAccount, LedgerAssumption
<1> QED BY <1>1, <1>2, <1>3

\* A caller that takes a lock takes a free one.
LEMMA CallerLocksExclusive ==
    ASSUME NEW S \in SUBSET Sessions, LedgerInvOf(S), NEW p \in S, CallerLocks(p)
    PROVE  /\ held' \in [Sessions -> SUBSET Row]
           /\ LocksExclusive'
           /\ \A q \in Sessions : held[q] \subseteq held'[q]
<1>1. CASE UNCHANGED held
  BY <1>1 DEF LedgerInvOf, LedgerTypeOK, LocksExclusive
<1>2. ASSUME NEW r \in Row, Acquire(p, r)
      PROVE  /\ held' \in [Sessions -> SUBSET Row]
             /\ LocksExclusive'
             /\ \A q \in Sessions : held[q] \subseteq held'[q]
  <2>1. held' \in [Sessions -> SUBSET Row] /\ \A q \in Sessions : held[q] \subseteq held'[q]
    BY <1>2 DEF LedgerInvOf, LedgerTypeOK, Acquire
  <2>2. LocksExclusive'
    BY <1>2 DEF LedgerInvOf, LedgerTypeOK, Acquire, Free, LocksExclusive
  <2> QED BY <2>1, <2>2
<1> QED BY <1>1, <1>2 DEF CallerLocks

\* The locks a session gives up leave the others exclusive.
LEMMA ReleaseExclusive ==
    ASSUME NEW S \in SUBSET Sessions, LedgerInvOf(S), NEW p \in Sessions, Release(p)
    PROVE  /\ held' \in [Sessions -> SUBSET Row]
           /\ LocksExclusive'
           /\ \A q \in Sessions \ {p} : held'[q] = held[q]
  BY DEF LedgerInvOf, LedgerTypeOK, Release, LocksExclusive

LEMMA CallerStepInv ==
    ASSUME NEW S \in SUBSET Sessions, LedgerInvOf(S), NEW p \in S, CallerLocks(p),
           UNCHANGED <<projection, journal, overwritten, sessionVars>>
    PROVE  LedgerInvOf(S)'
<1>1. LedgerTypeOK' /\ LocksExclusive'
  BY CallerLocksExclusive DEF LedgerInvOf, LedgerTypeOK, sessionVars
<1>2. \A q \in S : Quiet(q)' /\ WellOpened(q)'
  BY DEF LedgerInvOf, sessionVars, Quiet, WellOpened, Postable, PostingAccount
<1>3. \A q \in S, a \in Accounts : Written(q, a)'
  BY CallerLocksExclusive DEF LedgerInvOf, sessionVars, Written, Effect
<1>4. \A q \in Sessions, a \in Accounts : Locked(q, a)'
  BY CallerLocksExclusive DEF LedgerInvOf, sessionVars, Locked, ProjectionRow
<1> QED BY <1>1, <1>2, <1>3, <1>4 DEF LedgerInvOf

LEMMA OpenEntryInv ==
    ASSUME NEW S \in SUBSET Sessions, LedgerInvOf(S), NEW p \in S, NEW e \in Entry, entry[p] = None,
           Postable(e), OpenEntry(p, e), CallerLocks(p)
    PROVE  LedgerInvOf(S)'
<1>1. LedgerTypeOK' /\ LocksExclusive'
  BY CallerLocksExclusive DEF LedgerInvOf, LedgerTypeOK, OpenEntry
<1>2. \A q \in S : Quiet(q)' /\ WellOpened(q)'
  BY LedgerAssumption
     DEF LedgerInvOf, LedgerTypeOK, OpenEntry, Quiet, WellOpened, Postable, PostingAccount,
         LedgerAssumption
<1>3. ASSUME NEW q \in S, NEW a \in Accounts PROVE Written(q, a)'
  <2>1. CASE q = p
    BY <2>1 DEF LedgerInvOf, LedgerTypeOK, OpenEntry, Quiet, Written, NothingWritten,
                PostingAccount
  <2>2. CASE q # p
    <3>1. entry'[q] = entry[q] /\ todo'[q] = todo[q] /\ newBalance'[q] = newBalance[q]
      BY <2>2 DEF LedgerInvOf, LedgerTypeOK, OpenEntry
    <3> QED BY <3>1, CallerLocksExclusive DEF LedgerInvOf, OpenEntry, Written, Effect
  <2> QED BY <2>1, <2>2
<1>4. \A q \in Sessions, a \in Accounts : Locked(q, a)'
  BY CallerLocksExclusive DEF LedgerInvOf, OpenEntry, Locked, ProjectionRow
<1> QED BY <1>1, <1>2, <1>3, <1>4 DEF LedgerInvOf

LEMMA ReadProjectionInv ==
    ASSUME NEW S \in SUBSET Sessions, LedgerInvOf(S), NEW p \in S, ReadProjection(p)
    PROVE  LedgerInvOf(S)'
<1>1. LedgerTypeOK' /\ LocksExclusive'
  BY NextPosting DEF LedgerInvOf, LedgerTypeOK, ReadProjection, LocksExclusive
<1>2. \A q \in S : Quiet(q)' /\ WellOpened(q)'
  BY LedgerAssumption, NextPosting
     DEF LedgerInvOf, LedgerTypeOK, ReadProjection, Quiet, WellOpened, Postable, PostingAccount,
         LedgerAssumption
<1>3. \A q \in S, a \in Accounts : Written(q, a)'
  BY DEF LedgerInvOf, ReadProjection, Written, Effect
<1>4. \A q \in Sessions, a \in Accounts : Locked(q, a)'
  BY DEF LedgerInvOf, ReadProjection, Locked, ProjectionRow
<1> QED BY <1>1, <1>2, <1>3, <1>4 DEF LedgerInvOf

LEMMA UpsertProjectionInv ==
    ASSUME NEW S \in SUBSET Sessions, LedgerInvOf(S), NEW p \in S, UpsertProjection(p)
    PROVE  LedgerInvOf(S)'
<1> DEFINE d == NextDirection(p)
           b == NextAccount(p)
           balance == balanceRead[p] + ComputeBalanceEffect(d, entry[p].amount)
<1>1. /\ entry[p] \in Entry /\ entry[p] # None
      /\ d \in todo[p] /\ d \in {"DEBIT", "CREDIT"}
      /\ b \in Accounts /\ b = PostingAccount(entry[p], d)
  BY NextPosting, LedgerAssumption DEF UpsertProjection, NextAccount, LedgerAssumption
<1>2. balance \in Int /\ balance # None
  BY <1>1, LedgerAssumption
     DEF LedgerInvOf, LedgerTypeOK, UpsertProjection, ComputeBalanceEffect, Entry, LedgerAssumption
<1>3. /\ held' = [held EXCEPT ![p] = @ \cup {ProjectionRow(b)}]
      /\ newBalance' = [newBalance EXCEPT ![p][b] = balance]
      /\ overwritten' = overwritten \cup {a \in {b} : projection[a] # balanceRead[p]}
      /\ todo' = [todo EXCEPT ![p] = @ \ {d}]
      /\ balanceRead' = [balanceRead EXCEPT ![p] = None]
      /\ UNCHANGED <<projection, journal, entry>>
  BY DEF UpsertProjection, Acquire
<1> HIDE DEF d, b, balance
<1>4. ProjectionRow(b) \in Row
  BY <1>1 DEF ProjectionRow, Row
<1>5. CallerLocks(p)
  BY <1>4 DEF UpsertProjection, CallerLocks, b
<1>6. LedgerTypeOK' /\ LocksExclusive'
  BY <1>1, <1>2, <1>3, <1>5, CallerLocksExclusive DEF LedgerInvOf, LedgerTypeOK
<1>7. \A q \in S : Quiet(q)' /\ WellOpened(q)'
  BY <1>1, <1>3 DEF LedgerInvOf, LedgerTypeOK, Quiet, WellOpened, Postable, PostingAccount
<1>8. ASSUME NEW q \in S, NEW a \in Accounts PROVE Written(q, a)'
  <2>1. CASE q = p /\ a = b
    <3>1. newBalance'[q][a] = balance
      BY <1>3, <2>1 DEF LedgerInvOf, LedgerTypeOK
    <3>3. ComputeBalanceEffect(d, entry[p].amount) = Effect(entry[p], b)
      BY <1>1 DEF LedgerInvOf, WellOpened, Postable, PostingAccount, ComputeBalanceEffect, Effect
    <3>4. a \notin overwritten' => balanceRead[p] = projection[a]
      BY <1>3, <2>1
    <3>5. a \notin overwritten' => balance = projection'[a] + Effect(entry'[q], a)
      BY <1>3, <2>1, <3>3, <3>4 DEF balance
    <3>7. Effect(entry[q], a)' = Effect(entry'[q], a)
      BY DEF Effect
    <3> QED BY <1>2, <3>1, <3>5, <3>7 DEF Written
  <2>2. CASE ~ (q = p /\ a = b)
    <3>1. newBalance'[q][a] = newBalance[q][a] /\ entry' = entry /\ projection' = projection
      BY <1>3, <2>2 DEF LedgerInvOf, LedgerTypeOK
    <3>2. overwritten \subseteq overwritten'
      BY <1>3 DEF LedgerInvOf, LedgerTypeOK
    <3>3. /\ "DEBIT" \in todo[q] /\ entry[q] # None /\ entry[q].debit = a => "DEBIT" \in todo'[q]
          /\ "CREDIT" \in todo[q] /\ entry[q] # None /\ entry[q].credit = a => "CREDIT" \in todo'[q]
      BY <1>1, <1>3, <2>2 DEF LedgerInvOf, LedgerTypeOK, PostingAccount
    <3>4. Written(q, a)
      BY DEF LedgerInvOf
    <3> QED BY <3>1, <3>2, <3>3, <3>4 DEF Written, Effect
  <2> QED BY <2>1, <2>2
<1>9. ASSUME NEW q \in Sessions, NEW a \in Accounts PROVE Locked(q, a)'
  <2>1. CASE q = p /\ a = b
    <3>1. ProjectionRow(a) \in held'[q]
      BY <1>3, <2>1 DEF LedgerInvOf, LedgerTypeOK
    <3> QED BY <3>1 DEF Locked, ProjectionRow
  <2>2. CASE ~ (q = p /\ a = b)
    <3>1. newBalance'[q][a] = newBalance[q][a] /\ held[q] \subseteq held'[q]
      BY <1>3, <2>2 DEF LedgerInvOf, LedgerTypeOK
    <3> QED BY <3>1 DEF LedgerInvOf, Locked, ProjectionRow
  <2> QED BY <2>1, <2>2
<1> QED BY <1>6, <1>7, <1>8, <1>9 DEF LedgerInvOf

\* What a session keeps of a transaction that has ended.
LEMMA EndTransactionInv ==
    ASSUME NEW S \in SUBSET Sessions, LedgerInvOf(S), NEW p \in Sessions, EndTransaction(p),
           projection' \in [Accounts -> Int], journal' \in Seq(Entry), overwritten' = overwritten,
           \A q \in S \ {p}, a \in Accounts :
               newBalance[q][a] # None => projection'[a] = projection[a]
    PROVE  LedgerInvOf(S)'
<1>1. LedgerTypeOK' /\ LocksExclusive'
  BY ReleaseExclusive DEF LedgerInvOf, LedgerTypeOK, EndTransaction, NothingWritten
<1>2. \A q \in S : Quiet(q)' /\ WellOpened(q)'
  BY DEF LedgerInvOf, LedgerTypeOK, EndTransaction, Quiet, WellOpened, Postable, PostingAccount,
         NothingWritten
<1>3. ASSUME NEW q \in S, NEW a \in Accounts PROVE Written(q, a)'
  <2>1. CASE q = p
    BY <2>1 DEF LedgerInvOf, LedgerTypeOK, EndTransaction, Written, NothingWritten
  <2>2. CASE q # p
    <3>1. /\ entry'[q] = entry[q] /\ todo'[q] = todo[q] /\ newBalance'[q] = newBalance[q]
          /\ held'[q] = held[q]
      BY <2>2 DEF LedgerInvOf, LedgerTypeOK, EndTransaction, Release
    <3> QED BY <2>2, <3>1 DEF LedgerInvOf, Written, Effect
  <2> QED BY <2>1, <2>2
<1>4. ASSUME NEW q \in Sessions, NEW a \in Accounts PROVE Locked(q, a)'
  BY DEF LedgerInvOf, LedgerTypeOK, EndTransaction, Release, Locked, NothingWritten, ProjectionRow
<1> QED BY <1>1, <1>2, <1>3, <1>4 DEF LedgerInvOf

\* The balances a commit publishes are locked by it, so that no other session
\* has written one of them.
LEMMA CommitMovesOwn ==
    ASSUME NEW S \in SUBSET Sessions, LedgerInvOf(S), NEW p \in Sessions,
           projection' = [a \in Accounts |->
                             IF newBalance[p][a] = None THEN projection[a] ELSE newBalance[p][a]]
    PROVE  /\ projection' \in [Accounts -> Int]
           /\ \A q \in Sessions \ {p}, a \in Accounts :
                 newBalance[q][a] # None => projection'[a] = projection[a]
<1>1. projection' \in [Accounts -> Int]
  BY DEF LedgerInvOf, LedgerTypeOK
<1>2. ASSUME NEW q \in Sessions \ {p}, NEW a \in Accounts, newBalance[q][a] # None
      PROVE  projection'[a] = projection[a]
  <2>1. ProjectionRow(a) \in held[q]
    BY <1>2 DEF LedgerInvOf, Locked
  <2>2. ProjectionRow(a) \notin held[p]
    BY <2>1 DEF LedgerInvOf, LocksExclusive
  <2>3. newBalance[p][a] = None
    BY <2>2 DEF LedgerInvOf, Locked
  <2> QED BY <2>3
<1> QED BY <1>1, <1>2

LEMMA CommitEntryInv ==
    ASSUME NEW S \in SUBSET Sessions, LedgerInvOf(S), NEW p \in S, CommitEntry(p)
    PROVE  LedgerInvOf(S)'
<1>1. journal' \in Seq(Entry)
  BY DEF LedgerInvOf, LedgerTypeOK, CommitEntry
<1>2. /\ projection' \in [Accounts -> Int]
      /\ \A q \in S \ {p}, a \in Accounts :
            newBalance[q][a] # None => projection'[a] = projection[a]
  BY CommitMovesOwn DEF CommitEntry
<1> QED BY <1>1, <1>2, EndTransactionInv DEF CommitEntry

LEMMA RollbackEntryInv ==
    ASSUME NEW S \in SUBSET Sessions, LedgerInvOf(S), NEW p \in Sessions, RollbackEntry(p)
    PROVE  LedgerInvOf(S)'
  BY EndTransactionInv DEF RollbackEntry, LedgerInvOf, LedgerTypeOK

LEMMA LedgerInitInv == ASSUME LedgerInit PROVE LedgerInv
  BY LedgerAssumption
     DEF LedgerInit, LedgerInv, LedgerInvOf, Locked, LedgerTypeOK, LocksExclusive, NoLocks, Quiet, WellOpened,
         Written, NothingWritten, LedgerAssumption

\* Every step of the ledger keeps its invariant.
LEMMA LedgerStepInv ==
    ASSUME NEW S \in SUBSET Sessions, LedgerInvOf(S), NEW p \in S, LedgerStep(p)
    PROVE  LedgerInvOf(S)'
  BY CallerStepInv, OpenEntryInv, ReadProjectionInv, UpsertProjectionInv, CommitEntryInv,
     RollbackEntryInv DEF LedgerStep

\* A step of the ledger leaves the other sessions' transactions alone.
LEMMA LedgerStepFrame ==
    ASSUME NEW S \in SUBSET Sessions, LedgerInvOf(S), NEW p \in Sessions,
           NEW q \in Sessions \ {p}, LedgerStep(p)
    PROVE  entry'[q] = entry[q] /\ held'[q] = held[q]
<1>1. CallerLocks(p) => held'[q] = held[q]
  BY DEF LedgerInvOf, LedgerTypeOK, CallerLocks, Acquire
<1>2. UpsertProjection(p) => held'[q] = held[q]
  BY DEF LedgerInvOf, LedgerTypeOK, UpsertProjection, Acquire
<1>3. EndTransaction(p) => entry'[q] = entry[q] /\ held'[q] = held[q]
  BY DEF LedgerInvOf, LedgerTypeOK, EndTransaction, Release
<1>4. ASSUME NEW e, OpenEntry(p, e) PROVE entry'[q] = entry[q]
  BY <1>4 DEF LedgerInvOf, LedgerTypeOK, OpenEntry
<1> QED BY <1>1, <1>2, <1>3, <1>4
     DEF LedgerStep, ReadProjection, UpsertProjection, CommitEntry, RollbackEntry, sessionVars

LEMMA LedgerStutterInv ==
    ASSUME NEW S \in SUBSET Sessions, LedgerInvOf(S), UNCHANGED ledgerVars
    PROVE  LedgerInvOf(S)'
  BY DEF LedgerInvOf, Locked, ledgerVars, sessionVars, LedgerTypeOK, LocksExclusive, Quiet,
         WellOpened, Written, Postable, PostingAccount, ProjectionRow, Effect

-----------------------------------------------------------------------------
\* The action of ProjectionFollowsJournal.
BalancesFollow ==
    \A a \in Accounts \ overwritten :
        projection'[a] = projection[a] +
            (IF journal' = journal THEN 0 ELSE Effect(journal'[Len(journal')], a))

\* A commit moves every balance that was not overwritten by what it appends.
LEMMA CommitFollows ==
    ASSUME NEW S \in SUBSET Sessions, LedgerInvOf(S), NEW p \in S, CommitEntry(p)
    PROVE  BalancesFollow
<1> SUFFICES ASSUME NEW a \in Accounts \ overwritten
             PROVE  projection'[a] = projection[a] +
                       (IF journal' = journal THEN 0 ELSE Effect(journal'[Len(journal')], a))
  BY DEF BalancesFollow
<1>0. projection[a] \in Int /\ Written(p, a)
  BY DEF LedgerInvOf, LedgerTypeOK
<1>1. CASE entry[p] = None
  <2>1. newBalance[p][a] = None
    BY <1>1 DEF LedgerInvOf, Quiet, NothingWritten
  <2> QED BY <1>0, <1>1, <2>1 DEF CommitEntry
<1>2. CASE entry[p] # None
  <2>1. journal \in Seq(Entry) /\ entry[p] \in Entry
    BY <1>2 DEF LedgerInvOf, LedgerTypeOK
  <2>2. journal' # journal /\ journal'[Len(journal')] = entry[p]
    BY <1>2, <2>1 DEF CommitEntry
  <2>3. projection'[a] = projection[a] + Effect(entry[p], a)
    <3>1. CASE newBalance[p][a] = None
      <4>1. entry[p].debit # a /\ entry[p].credit # a
        BY <1>0, <1>2, <3>1 DEF Written, CommitEntry, Posted
      <4> QED BY <1>0, <3>1, <4>1 DEF CommitEntry, Effect
    <3>2. CASE newBalance[p][a] # None
      BY <1>0, <3>2 DEF CommitEntry, Written
    <3> QED BY <3>1, <3>2
  <2> QED BY <2>2, <2>3
<1> QED BY <1>1, <1>2

LEMMA LedgerStepFollows ==
    ASSUME NEW S \in SUBSET Sessions, LedgerInvOf(S), NEW p \in S, LedgerStep(p)
    PROVE  BalancesFollow
<1>1. CASE UNCHANGED <<projection, journal>>
  BY <1>1 DEF BalancesFollow, LedgerInvOf, LedgerTypeOK
<1>2. CASE CommitEntry(p)
  BY <1>2, CommitFollows
<1> QED BY <1>1, <1>2 DEF LedgerStep, OpenEntry, ReadProjection, UpsertProjection, RollbackEntry

\* Whoever uses the ledger through its operations, its variables keep their
\* types, no row is written by two transactions, and the balances no upsert has
\* overwritten follow the journal.
THEOREM LedgerInvariant == LedgerSpec => []LedgerInv
<1>1. LedgerInit => LedgerInv
  BY LedgerInitInv
<1>2. LedgerInv /\ [\E p \in Sessions : LedgerStep(p)]_ledgerVars => LedgerInv'
  BY LedgerStepInv, LedgerStutterInv DEF LedgerInv
<1> QED BY <1>1, <1>2, PTL DEF LedgerSpec

\* A commit of an entry moves the balances of its accounts by its amount, and
\* nothing else moves a balance, as long as no upsert has lost one.
THEOREM LedgerProjection == LedgerSpec => ProjectionFollowsJournal
<1>1. LedgerInv /\ [\E p \in Sessions : LedgerStep(p)]_ledgerVars => [BalancesFollow]_ledgerVars
  BY LedgerStepFollows DEF LedgerInv
<1> QED BY <1>1, LedgerInvariant, PTL DEF LedgerSpec, ProjectionFollowsJournal, BalancesFollow
=============================================================================
