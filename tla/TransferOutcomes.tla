-------------------------- MODULE TransferOutcomes --------------------------
(***************************************************************************)
(* What a transfer is to everyone who does not process it: a status and    *)
(* the money it has taken from its source account.  Each step is a commit, *)
(* which is all a reader at READ COMMITTED can see of one.  The requests,  *)
(* jobs, workers and provider events behind the steps are in Transfers and *)
(* ExternalRail, whose composition Payments is shown to implement this;    *)
(* components that only read transfers are checked over it.                *)
(***************************************************************************)
EXTENDS Integers

CONSTANTS TransferIds, Amounts

ASSUME OutcomesAssumption == Amounts \subseteq Nat \ {0}

VARIABLES
    status,   \* status[t]: committed status of a transfer, or "absent"
    taken     \* taken[t]: what the ledger has moved out of its source account

outcomeVars == <<status, taken>>

OutcomesInit ==
    /\ status = [t \in TransferIds |-> "absent"]
    /\ taken = [t \in TransferIds |-> 0]

\* A transfer goes from one status to another, and what it has taken becomes n.
Turns(t, from, to, n) ==
    /\ status[t] = from
    /\ status' = [status EXCEPT ![t] = to]
    /\ taken' = [taken EXCEPT ![t] = n]

\* A transfer inside the bank is settled, one to another bank pending, by the
\* commit that takes the money.
Created(t) == \E n \in Amounts :
    Turns(t, "absent", "SETTLED", n) \/ Turns(t, "absent", "PENDING_EXTERNAL", n)

\* The provider of a pending transfer accepts it.
ProviderSettles(t) == Turns(t, "PENDING_EXTERNAL", "SETTLED", taken[t])

\* It rejects it, and the compensating entry gives the money back.
Compensated(t) == Turns(t, "PENDING_EXTERNAL", "COMPENSATED", 0)

OutcomesNext == \E t \in TransferIds : Created(t) \/ ProviderSettles(t) \/ Compensated(t)

OutcomesSpec == OutcomesInit /\ [][OutcomesNext]_outcomeVars
=============================================================================
