------------------------------ MODULE MCBatch ------------------------------
(***************************************************************************)
(* Instances of Batch: two accounts that earn interest, one of which no    *)
(* longer does after the transfer that goes on meanwhile, and an account   *)
(* without a ledger account.  Amounts are cents, the rate is 250 basis     *)
(* points.                                                                 *)
(***************************************************************************)
EXTENDS Batch, LedgerTruth

CONSTANTS checking, savings, orphan, rent, r1, r2, o1, o2, w1, w2, w3, p1

\* A day's interest is 2 cents on 30000, 1 cent on 15000, nothing on 14000.
MCOpening == [a \in Accounts |-> IF a = checking THEN 30000 ELSE IF a = savings THEN 15000 ELSE 0]

MCById == <<checking, savings, orphan>>

\* The orphan may be one, or an account like the others.
MCLinkings == {{checking, savings}, {checking, savings, orphan}}

MCCauses == Item \cup {rent}

\* It moves what savings needs for its cent to checking.
MCPayments ==
    {[operation |-> "INTERNAL_TRANSFER", transfer |-> p1, debit |-> savings,
      credit |-> checking, amount |-> 1000, cause |-> rent]}

\* One worker for the run and one for each operator.
MCCaller == [w \in Pool |-> IF w = w2 THEN o1 ELSE IF w = w3 THEN o2 ELSE r1]
=============================================================================
