\* Two transfers of one account pass the balance check.
SPECIFICATION Spec
SYMMETRY Symmetry
CONSTANTS
    Sessions = {r1, r2, r3}
    Requests = {r1, r2, r3}
    TransferIds = {r1, r2, r3}
    checking = checking
    savings = savings
    closed = closed
    alice = alice
    bob = bob
    k1 = k1
    k2 = k2
    k3 = k3
    Causes = {k1, k2, k3}
    Accounts = {checking, savings, closed}
    Clearing = Clearing
    SystemAccounts = {Clearing}
    External = External
    None = None
    SupportedCurrencies = {"USD"}
    OpeningBalance <- MCOpening
    Account <- MCAccount
    Inputs <- AllInputs
INVARIANT NoOverdraft
CHECK_DEADLOCK FALSE
