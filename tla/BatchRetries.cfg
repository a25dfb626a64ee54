\* Two operators retry the failed items of a run at the same time.
SPECIFICATION Spec
CONSTANTS
    r1 = r1
    r2 = r2
    o1 = o1
    o2 = o2
    w1 = w1
    w2 = w2
    w3 = w3
    p1 = p1
    Runs = {r1}
    Operators = {o1, o2}
    Pool = {w1, w2, w3}
    Payers = {}
    Sessions = {r1, o1, o2, w1, w2, w3}
    MaxRetries = 1
    MaxFaults = 2
    Caller <- MCCaller
    TransferIds = {p1}
    checking = checking
    savings = savings
    orphan = orphan
    rent = rent
    Accounts = {checking, savings, orphan}
    Linkings <- MCLinkings
    ById <- MCById
    InterestRevenue = "INTEREST_REVENUE"
    SystemAccounts = {"INTEREST_REVENUE"}
    None = None
    Causes <- MCCauses
    OpeningBalance <- MCOpening
    Payments <- MCPayments
    InterestRateBps = 250
    BatchShardSize = 2
INVARIANT InterestPostedOnce
CHECK_DEADLOCK FALSE
