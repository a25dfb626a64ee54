\* A rejected transfer with its job and an accepted one without, a redriven job,
\* an operator, a callback that repeats the outcome of the submission or comes
\* late with another.  Jobs run out, so the system may stop.
SPECIFICATION FairSpec
CONSTANTS
    w1 = w1
    o1 = o1
    c1 = c1
    Workers = {w1}
    Operators = {o1}
    Callbacks = {c1}
    Sessions = {w1, o1, c1}
    rejected = rejected
    accepted = accepted
    Pending = {rejected, accepted}
    TransferIds = {rejected, accepted}
    checking = checking
    Accounts = {checking}
    SystemAccounts = {"CLEARING"}
    None = None
    Causes <- MCCauses
    OpeningBalance <- MCOpening
    Detail <- MCDetail
    Queued <- OneJob
    Inbound <- RailEvents
    Late <- LateEvents
    RetryLimit = 1
    MaxJobs = 2
INVARIANTS
    TypeOK
    StatusTellsOutcome
    CompensatedOncePerFailure
PROPERTIES
    LedgerSpec
    TerminalStays
    JobsResolve
CHECK_DEADLOCK FALSE
