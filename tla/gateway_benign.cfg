\* One process; no crash, no late error, no premature verdict.
SPECIFICATION Spec
CONSTANTS
    k1 = k1  k2 = k2  k3 = k3
    w1 = w1  w2 = w2  j1 = j1
    r1 = r1  r2 = r2  r3 = r3  r4 = r4
    Ops = {o1, o2, o3}
    Requests = {r1, r2, r3, r4}
    Keys = {k1, k2, k3}
    Wallets = {w1, w2}
    Jobs = {j1}
    KeyOf <- MCKeyOf
    WalletOf <- MCWalletOf
    JobOf <- MCJobOf
    NoOp = NoOp  NoRequest = NoRequest  NoWallet = NoWallet  NoJob = NoJob
    Procs = {p1}
    NoProc = NoProc
    RefusedByPolicy = {r1}
    SetBudget = {}
    LateErrors = FALSE
    CacheCap = 1
    MaxLooks = 2
    MaxCrashes = 0
SYMMETRY OpsSymmetry
INVARIANTS FailedIsSafe NoDoubleExecution
CHECK_DEADLOCK FALSE
