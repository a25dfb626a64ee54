--------------------------- MODULE MCExternalRail ---------------------------
(***************************************************************************)
(* Instances of ExternalRail: rejected and accepted transfers drawn on one *)
(* account, jobs that are retried, and a provider that calls back with the *)
(* event the submission produces as well, or contradicts itself.           *)
(***************************************************************************)
EXTENDS ExternalRail

CONSTANTS rejected, accepted, checking

MCDetail ==
    [t \in Pending |->
        [source |-> checking, clearing |-> "CLEARING", amount |-> IF t = rejected THEN 2 ELSE 1,
         outcome |-> IF t = accepted THEN "SETTLED" ELSE "FAILED", ref |-> t]]

MCOpening == [a \in Accounts |-> 5]

MCCauses == Pending \X {"submit", "reconcile", "late"} \X {"ACKNOWLEDGED", "SETTLED", "FAILED"}

\* The accepted transfer's job is lost: an operator has to see to it.
OneJob == <<rejected>>

\* The provider calls back with the outcome the submission already reported.
CallbackEvents == {TerminalEvent(rejected, "submit")}

\* What it may say of a transfer that has ended: the opposite of what it said
\* before, or the same once more under another id.
Said(t, type) == Event(t, <<t, "late", type>>, type)
LateEvents == {Said(rejected, "SETTLED"), Said(rejected, "FAILED"), Said(accepted, "FAILED")}
RailEvents == CallbackEvents \cup LateEvents

\* The opposite of what the submission reports, at any time.
Contradiction == {Said(rejected, "SETTLED")}
=============================================================================
