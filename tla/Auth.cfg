\* Four calls: a login and three more on its tokens, or two logins.  Calls end, so
\* the system may stop.
SPECIFICATION FairSpec
CONSTANTS
    Sessions = {1, 2, 3, 4}
    None = None
    MaxFaults = 2
INVARIANTS
    TypeOK
    AnswersEndSession
    NoTokensAfterEnd
    ActiveSessionHasToken
    RevokedForAReason
PROPERTIES
    EndIsFinal
    EveryCallAnswered
CHECK_DEADLOCK FALSE
