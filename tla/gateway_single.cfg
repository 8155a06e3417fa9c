\* One process that crashes and restarts; every kind of request.
SPECIFICATION Spec
CONSTANTS
    k1 = k1  k2 = k2  k3 = k3
    w1 = w1  w2 = w2  j1 = j1
    r1 = r1  r2 = r2  r3 = r3  r4 = r4
    Ops = {o1, o2, o3}
    Requests = {r1, r2, r3, r4}
    Keys = {k1, k2, k3}
    Wallets = {w1, w2}
    Jobs = {j1}
    KeyOf <- MCKeyOf
    WalletOf <- MCWalletOf
    JobOf <- MCJobOf
    NoOp = NoOp  NoRequest = NoRequest  NoWallet = NoWallet  NoJob = NoJob
    Procs = {p1}
    NoProc = NoProc
    RefusedByPolicy = {r1}
    SetBudget = {r3}
    LateErrors = TRUE
    CacheCap = 1
    MaxLooks = 2
    MaxCrashes = 2
SYMMETRY OpsSymmetry
INVARIANTS TypeOK ActiveHoldsLocks OneWriteInFlight MemoryAgrees
PROPERTIES ConfirmedIsFinal UnresolvedBlocksSend ImplementsWriteLocks
CHECK_DEADLOCK FALSE
