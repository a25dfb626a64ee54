\* Two requests with one key, a worker, an operator who redrives and a provider
\* that calls back.  All of it ends, so the system may stop.
SPECIFICATION FairSpec
CONSTANTS
    r1 = r1
    r2 = r2
    w1 = w1
    o1 = o1
    c1 = c1
    k1 = k1
    checking = checking
    alice = alice
    Clearing = Clearing
    External = External
    None = None
    Requests = {r1, r2}
    TransferIds = {r1, r2}
    Workers = {w1}
    Operators = {o1}
    Callbacks = {c1}
    Sessions = {r1, r2, w1, o1, c1}
    Accounts = {checking}
    SystemAccounts = {Clearing}
    SupportedCurrencies = {"USD"}
    RetryLimit = 0
    MaxJobs = 2
    Causes <- MCCauses
    OpeningBalance <- MCOpening
    Account <- MCAccount
    Inputs <- MCInputs
    Detail <- MCDetail
    Inbound <- MCInbound
INVARIANTS
    PendingIsPublished
PROPERTIES
    ImplementsOutcomes
    CreatedIsResolved
CHECK_DEADLOCK FALSE
