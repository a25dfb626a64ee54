---------------------------- MODULE LedgerTruth ----------------------------
(***************************************************************************)
(* What the journal says the balances are, for the instances to compare    *)
(* the projections with.                                                   *)
(***************************************************************************)
EXTENDS Ledger, SequencesExt

\* The balance the ledger says an account has.
LedgerBalance(a) ==
    OpeningBalance[a] + FoldLeft(LAMBDA sum, e : sum + Effect(e, a), 0, journal)

\* BR-007, "balance projections are derived from posted ledger activity": the
\* projection of an account is its opening balance and its postings.
ProjectionIsLedgerBalance == \A a \in Accounts : projection[a] = LedgerBalance(a)
=============================================================================
