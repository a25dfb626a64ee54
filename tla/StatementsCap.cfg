\* Three lines asked for two at a time, where the cap is one.
SPECIFICATION Spec
CONSTANTS
    reader = reader
    w1 = w1
    w2 = w2
    w3 = w3
    None = None
    Readers = {reader}
    Viewers = {}
    Posters = {w1, w2, w3}
    LineIds = {1, 2, 3}
    LastDate = 1
    Limits = {2}
    ContractLimits = {1, 2}
    PageCap = 1
    MaxLost = 1
INVARIANT EveryLineShown
CHECK_DEADLOCK FALSE
