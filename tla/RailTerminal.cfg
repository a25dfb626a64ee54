\* A provider contradicts what it answered to a submission that is still being
\* applied.
SPECIFICATION FairSpec
CONSTANTS
    w1 = w1
    c1 = c1
    Workers = {w1}
    Operators = {}
    Callbacks = {c1}
    Sessions = {w1, c1}
    rejected = rejected
    accepted = accepted
    Pending = {rejected}
    TransferIds = {rejected}
    checking = checking
    Accounts = {checking}
    SystemAccounts = {"CLEARING"}
    None = None
    Causes <- MCCauses
    OpeningBalance <- MCOpening
    Detail <- MCDetail
    Queued <- OneJob
    Inbound <- Contradiction
    Late = {}
    RetryLimit = 1
    MaxJobs = 2
PROPERTY TerminalStays
CHECK_DEADLOCK FALSE
