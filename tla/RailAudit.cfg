\* The process dies between the commit and the audit record.
SPECIFICATION FairSpec
CONSTANTS
    w1 = w1
    Workers = {w1}
    Operators = {}
    Callbacks = {}
    Sessions = {w1}
    rejected = rejected
    accepted = accepted
    Pending = {rejected}
    TransferIds = {rejected}
    checking = checking
    Accounts = {checking}
    SystemAccounts = {"CLEARING"}
    None = None
    Causes <- MCCauses
    OpeningBalance <- MCOpening
    Detail <- MCDetail
    Queued <- OneJob
    Inbound <- CallbackEvents
    Late = {}
    RetryLimit = 1
    MaxJobs = 2
PROPERTY OutcomeIsAudited
CHECK_DEADLOCK FALSE
