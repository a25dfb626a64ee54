\* One assessment while a transfer of its customer is created and settles.
SPECIFICATION Spec
CONSTANTS
    r1 = r1
    a1 = a1
    t1 = t1
    k1 = k1
    k2 = k2
    rich = rich
    poor = poor
    analyst = analyst
    None = None
    Requests = {r1}
    Reviewers = {a1}
    Sessions = {r1, a1}
    Keys = {k1, k2}
    Customers = {rich, poor}
    TransferIds = {t1}
    Amounts = {12000}
    Inputs <- MCInputs
    AccountsOf <- MCAccountsOf
    Source <- MCSource
    OpeningBalance <- MCOpening
    Earlier <- MCEarlier
CHECK_DEADLOCK FALSE
INVARIANT SnapshotOfOneMoment
