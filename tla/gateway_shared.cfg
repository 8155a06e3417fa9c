\* Two processes on one journal, each starts at its own time and none dies.
SPECIFICATION Spec
CONSTANTS
    k1 = k1  k2 = k2  k3 = k3
    w1 = w1  w2 = w2  j1 = j1
    r1 = r1  r2 = r2  r3 = r3  r4 = r4
    Ops = {o1, o2, o3}
    Requests = {r1, r3}
    Keys = {k1, k2, k3}
    Wallets = {w1, w2}
    Jobs = {j1}
    KeyOf <- TwoKeyOf
    WalletOf <- TwoWalletOf
    JobOf <- TwoJobOf
    NoOp = NoOp  NoRequest = NoRequest  NoWallet = NoWallet  NoJob = NoJob
    Procs = {p1, p2}
    NoProc = NoProc
    RefusedByPolicy = {}
    SetBudget = {r3}
    LateErrors = TRUE
    CacheCap = 1
    MaxLooks = 1
    MaxCrashes = 0
SYMMETRY OpsSymmetry
INVARIANTS KeysConsistent NoLeakedLock
CHECK_DEADLOCK FALSE
