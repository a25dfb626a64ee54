\* An operator reconciles a transfer while its job is running.
SPECIFICATION Spec
CONSTANTS
    w1 = w1
    o1 = o1
    Workers = {w1}
    Operators = {o1}
    Callbacks = {}
    Sessions = {w1, o1}
    rejected = rejected
    accepted = accepted
    Pending = {rejected}
    TransferIds = {rejected}
    checking = checking
    Accounts = {checking}
    SystemAccounts = {"CLEARING"}
    None = None
    Causes <- MCCauses
    OpeningBalance <- MCOpening
    Detail <- MCDetail
    Queued <- OneJob
    Inbound <- CallbackEvents
    Late = {}
    RetryLimit = 1
    MaxJobs = 2
INVARIANT CompensatedAtMostOnce
CHECK_DEADLOCK FALSE
