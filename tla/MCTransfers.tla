---------------------------- MODULE MCTransfers ----------------------------
(***************************************************************************)
(* Instances of Transfers.  Two active accounts of one owner that pay each *)
(* other and the outside, a closed account that can only receive, and      *)
(* inputs that repeat a key with the same and with another payload and     *)
(* exercise each refusal.                                                  *)
(***************************************************************************)
EXTENDS Transfers, LedgerTruth

CONSTANTS checking, savings, closed, alice, bob, k1, k2, k3

MCOpening == [a \in Accounts |-> IF a = checking THEN 3 ELSE IF a = savings THEN 1 ELSE 0]

MCAccount ==
    [a \in Accounts |->
        [owner |-> alice, status |-> IF a = closed THEN "CLOSED" ELSE "ACTIVE",
         currency |-> "USD"]]

Ask(k, from, to, n) ==
    [key |-> k, caller |-> alice, source |-> from, dest |-> to,
     currency |-> "USD", amount |-> n]

\* A payment, its repetition with another amount, a payment the other way and
\* one to another bank.
Payments == {Ask(k1, checking, savings, 2), Ask(k1, checking, savings, 1),
             Ask(k2, savings, checking, 1), Ask(k3, checking, External, 2)}

\* One input for each way to be refused.
Refusals == {Ask(k3, closed, savings, 1), Ask(k2, checking, checking, 1),
             [Ask(k1, checking, savings, 2) EXCEPT !.caller = bob],
             [Ask(k1, checking, savings, 2) EXCEPT !.currency = "EUR"]}

AllInputs == Payments \cup Refusals

\* Few enough to check liveness with three requests and no symmetry: a key that
\* is repeated with its own payload, with another destination and with another
\* amount, payments that cross each other, one to another bank, and one refusal
\* of each kind.
MixedInputs ==
    {Ask(k1, checking, savings, 2), Ask(k1, checking, External, 2),
     Ask(k1, checking, checking, 1), Ask(k2, savings, checking, 1),
     Ask(k2, closed, savings, 1), [Ask(k2, savings, checking, 1) EXCEPT !.currency = "EUR"]}

Symmetry == Permutations(Requests)

=============================================================================
