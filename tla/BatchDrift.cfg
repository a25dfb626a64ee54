\* A transfer between two accounts while a run posts their interest; nothing fails.
SPECIFICATION Spec
CONSTANTS
    r1 = r1
    r2 = r2
    o1 = o1
    o2 = o2
    w1 = w1
    w2 = w2
    w3 = w3
    p1 = p1
    Runs = {r1}
    Operators = {}
    Pool = {w1}
    Payers = {p1}
    Sessions = {r1, w1, p1}
    MaxRetries = 1
    MaxFaults = 0
    Caller <- MCCaller
    TransferIds = {p1}
    checking = checking
    savings = savings
    orphan = orphan
    rent = rent
    Accounts = {checking, savings, orphan}
    Linkings <- MCLinkings
    ById <- MCById
    InterestRevenue = "INTEREST_REVENUE"
    SystemAccounts = {"INTEREST_REVENUE"}
    None = None
    Causes <- MCCauses
    OpeningBalance <- MCOpening
    Payments <- MCPayments
    InterestRateBps = 250
    BatchShardSize = 2
INVARIANT ProjectionIsLedgerBalance
CHECK_DEADLOCK FALSE
