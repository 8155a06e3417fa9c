\* Two processes, three approvals, three calls, one crash; and a small
\* instance of each of the other components.
SPECIFICATION MCSpec
CONSTANTS
    g = g  a1 = a1  a2 = a2
    c1 = c1  c2 = c2  c3 = c3
    p1 = p1  p2 = p2
    s1 = s1
    Approvals = {g, a1, a2}
    Calls = {c1, c2, c3}
    Procs = {p1, p2}
    ProcOf <- MCProcOf
    CreatorOf <- MCCreatorOf
    Signatures = {s1}
    SignatureOf <- MCSignatureOf
    NoApproval = NoApproval
    NoSignature = NoSignature
    MaxCrashes = 1
    Ensures = {x1, x2}
    Tokens = {t1, t2}
    NoToken = NoToken
    NoEnsure = NoEnsure
    Metas = {"m"}
    MetaOf <- MCMetaOf
    SecondMint = {x2}
    Selected = t1
    Older = {}
    MaxSlips = 2
    j1 = j1  i1 = i1  i2 = i2
    SpendJobs = {j1}
    NoSpendJob = NoSpendJob
    Amounts = {1}
    RequestIds = {i1, i2}
    NoRequestId = NoRequestId
    SpendRole = "client"
    Asked <- MCAsked
    Scale = 2
    PerTxLimit = 2
    DailyUsdc = 2
    MonthlyUsdc = 3
    MaxJobBudget = 2
    ApprovalAbove = 2
    LastDay = 2
    MaxRestarts = 1
    m1 = m1  m2 = m2  m3 = m3
    u1 = u1  u2 = u2
    e1 = e1
    Messages = {m1, m2, m3}
    Tasks = {u1, u2}
    TaskOf <- MCTaskOf
    RouteOf <- MCRouteOf
    TaskJobs = {e1}
    JobOfTask <- MCJobOfTask
    Deliveries = {d1, d2}
    NoMessage = NoMessage
    NoOutput = NoOutput
    Outputs = {o1, o2}
    Trusted = TRUE
    Skew = 1
    NonceTtl = 1
    Ahead = 0
    LastTick = 2
    MaxRunnerCrashes = 1
    k1 = k1  k2 = k2  k3 = k3  k4 = k4  k5 = k5  k6 = k6
    ToolCalls = {k1, k2, k3, k4, k5, k6}
    CostOf <- MCCostOf
    Proxied = {k3, k4}
    Malformed = {k5}
    NotOfTheRole = {k6}
    LargeOutputs = {k2}
    MaxCalls = 3
    MaxTotal = 1
    Gigs = {gig1, gig2}
    Bots = {bot1, bot2}
    NoGig = NoGig
    PhasesUsed = {"runtime_started", "runtime_failed"}
VIEW View
ACTION_CONSTRAINT Bound
INVARIANTS RunnerTypeOK SingleUse BlockedIsNeverSent  
PROPERTIES SettledIsFinal SyncedBlocksDuplicate
CHECK_DEADLOCK FALSE
