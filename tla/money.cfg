\* The payments: three calls on one key; appends may fail, payments may go
\* through although payService throws, one crash.  Then a small instance of
\* each of the other components.
SPECIFICATION MCSpec
CONSTANTS
    NoCall = NoCall
    k1 = k1
    Calls = {c1, c2, c3}
    Keys = {k1}
    KeyOf <- MCKeyOf
    AmountOf <- MCAmountOf
    DailyLimit = 2
    LateErrors = TRUE
    BookkeepingFails = {c1, c2, c3}
    MaxCrashes = 1
    Proofs = {pr1, pr2}
    Settlers = {s1, s2}
    Hands = {h1, h2}
    NoProof = NoProof
    NoHand = NoHand
    MaxSettleCrashes = 1
    Tabs = {x1, x2}
    Pairings = {g1, g2}
    NoPairing = NoPairing
    ToolsUsed = {"fund_job", "complete_job"}
    Pages = {x1, x2}
    UserOps = {u1, u2}
    NoUserOp = NoUserOp
    w1 = w1
    Payloads = {d1, d2}
    Purses = {w1}
    PaymentOf <- MCPaymentOf
    Proofs402 = {f1, f2}
    Buys = {y1, y2}
    Prices = {1}
    Keyed = FALSE
    NoPayload = NoPayload
    NoProof402 = NoProof402
    MaxSaves = 1
    MaxGateTroubles = 1
    i1 = i1  i2 = i2  i3 = i3
    Invocations = {i1, i2, i3}
    Asked <- MCAsked
    NoKey = NoKey
    NoInput = NoInput
    Role = "x402-agent"
    OptedIn = {}
    AllowedTools = {}
    DeniedTools = {}
    RequireKey = FALSE
    SdkHosts = {"h1", "h2"}
    RunnerHosts = {"h1", "h2"}
    SdkLimit = 1
    PerTxLimit = 1
    MinBudget = 1
    MaxBudget = 2
    HardCap = 2
    MaxLostMessages = 1
    Nonces = {n1, n2}
    SignIns = {v1, v2}
    Logins = {l1, l2}
    Consents = {e1, e2}
    Codes = {q1, q2}
    Exchanges = {z1, z2}
    Pairs = {p1, p2, p3}
    ApiKeys = {m1, m2}
    SessionKeys = {m2}
    Callers = {r1}
    NoNonce = NoNonce
    NoLogin = NoLogin
    NoGrant = NoGrant
    NoPair = NoPair
    NoBearer = NoBearer
    MaxConnections = 2
    MaxCredentialTroubles = 1
    o1 = o1  o2 = o2
    b1 = b1  b2 = b2
    a1 = a1  a2 = a2
    t1 = t1  t2 = t2
    Owners = {o1, o2}
    Accounts = {b1, b2}
    Agents = {a1, a2}
    Screens = {t1, t2}
    WalletOf <- MCWalletOf
    WalletRequests = {r1, r2}
    Binders = {j1, j2}
    PayerRows = {w3, w4}
    MintedTo <- MCMintedTo
    NoAccount = NoAccount
    NoOwner = NoOwner
    NoAgent = NoAgent
    NoScreen = NoScreen
    NoRowOfPayer = NoRowOfPayer
    AutoBind = TRUE
    MaxWalletTroubles = 1
    Forms = {fm1, fm2}
    Intents = {in1}
    Drafts = {dr1, dr2}
    Identities = {id1, id2}
    ByAccount = {fm1}
    NoIntent = NoIntent
    NoDraft = NoDraft
    NoIdentity = NoIdentity
    OwnUri = OwnUri
    MaxOnboardingTroubles = 1
VIEW View
CONSTRAINT Bound
INVARIANTS
    MoneyTypeOK
    PaidIsOnRecord
    NoLostWakeup
    EntriesAreDropped
    
    AccessIsEarned

    
CHECK_DEADLOCK FALSE
