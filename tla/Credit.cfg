\* Two requests and three reviewers while a transfer of a customer is created,
\* settles or is compensated.  Everything ends, so the system may stop.
SPECIFICATION Spec
CONSTANTS
    r1 = r1
    r2 = r2
    a1 = a1
    a2 = a2
    a3 = a3
    t1 = t1
    k1 = k1
    k2 = k2
    rich = rich
    poor = poor
    analyst = analyst
    None = None
    Requests = {r1, r2}
    Reviewers = {a1, a2, a3}
    Sessions = {r1, r2, a1, a2, a3}
    Keys = {k1, k2}
    Customers = {rich, poor}
    TransferIds = {t1}
    Amounts = {12000}
    Inputs <- MCInputs
    AccountsOf <- MCAccountsOf
    Source <- MCSource
    OpeningBalance <- MCOpening
    Earlier <- MCEarlier
INVARIANTS
    TypeOK
    OneAssessmentPerKey
    BetterRecordScoresNoLess
    ToldDecisionStands
    CountsAreOfTheirTime
SYMMETRY Symmetry
CHECK_DEADLOCK FALSE
