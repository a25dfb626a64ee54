----------------------------- MODULE MCPayments -----------------------------
(***************************************************************************)
(* An instance of Payments: a client pays another bank and asks again with *)
(* the same key.  The provider rejects what the first request sends and    *)
(* accepts what the second sends.                                          *)
(***************************************************************************)
EXTENDS Payments

CONSTANTS checking, alice, k1, r1, r2

MCOpening == [a \in Accounts |-> 3]

MCAccount == [a \in Accounts |-> [owner |-> alice, status |-> "ACTIVE", currency |-> "USD"]]

MCInputs ==
    {[key |-> k1, caller |-> alice, source |-> checking, dest |-> External,
      currency |-> "USD", amount |-> 2]}

MCDetail ==
    [r \in Requests |->
        [source |-> checking, clearing |-> Clearing, amount |-> 2,
         outcome |-> IF r = r1 THEN "FAILED" ELSE "SETTLED", ref |-> r]]

MCCauses == {k1} \cup (Requests \X {"submit", "reconcile"} \X {"ACKNOWLEDGED", "SETTLED", "FAILED"})

\* The outcome the submission of the first transfer reports as well.
MCInbound ==
    {[id |-> <<r1, "submit", "FAILED">>, transfer |-> r1, ref |-> r1, type |-> "FAILED"]}
=============================================================================
