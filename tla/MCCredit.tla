------------------------------ MODULE MCCredit ------------------------------
(***************************************************************************)
(* Instances of Credit: a customer at the caps of every component, and one *)
(* who has paid and failed little and whose average balance is negative or *)
(* positive as a transfer is created or compensated.  What they own counts *)
(* in minor units, as in the code.                                         *)
(***************************************************************************)
EXTENDS Credit, TLC

CONSTANTS rich, poor, analyst, k1, k2, t1

MCAccountsOf == [c \in Customers |-> IF c = rich THEN {"savings"} ELSE {"checking", "joint"}]

MCSource == [t \in TransferIds |-> "checking"]

MCOpening == [savings |-> 2000000, checking |-> 4999, joint |-> 5000]

MCEarlier ==
    [c \in Customers |-> IF c = rich THEN [settled |-> 40, failed |-> 1]
                         ELSE [settled |-> 0, failed |-> 6]]

Ask(k, by, c) == [key |-> k, caller |-> by, customer |-> c, requestedBy |-> by]

\* Two payloads for one key, the second customer under another key, somebody
\* else's assessment and a customer nobody knows.
MCInputs ==
    {Ask(k1, poor, poor), Ask(k1, analyst, rich), Ask(k2, analyst, poor),
     Ask(k2, poor, rich), Ask(k2, analyst, "nobody")}

\* Neither requests nor reviewers are told apart, and no property is temporal.
Symmetry ==
    Permutations(Requests) \cup Permutations(Reviewers)
=============================================================================
