\* One small instance of each component of the Console; one is at work at a time.
SPECIFICATION Spec
CONSTANTS
    w1 = w1
    w2 = w2
    u1 = u1
    u2 = u2
    u3 = u3
    theme1 = theme1
    theme2 = theme2
    Requests = {c1, c2}
    Workers = {k1}
    NoWorker = NoWorker
    Deliverables = {1}
    Reasons = {1}
    Repeated = {"approve"}
    MaxRejects = 2
    MaxMirrorCrashes = 1
    Preparations = {q1}
    Rows = {l1, l2}
    CreateTxs = {t1, t2, t3}
    t3 = t3
    TxNames <- MCTxNames
    Controllers = {w1, w2}
    FirstController <- MCFirst
    NoController = NoController
    Movable = {"provider"}
    Posts = {p1, p2}
    NoPreparation = NoPreparation
    NoCreateTx = NoCreateTx
    NoRow = NoRow
    MaxCreationCrashes = 1
    Peers = {a, b}
    NoPeer = NoPeer
    Handlers = {r1, r2}
    MaxPatches = 3
    Deliveries = {d1, d2}
    MaxRetries = 3
    Validators = {v1, v2}
    Sends = {s1, s2, s3}
    NoSend = NoSend
    Verdicts = {1, 2}
    MaxLateErrors = 1
    Jobs = {j1}
    Agents = {a1}
    Wallets = {w1, w2}
    ClientOf <- MCClient
    ControllerOf <- MCController
    EnvListed = {w1}
    MaxRange = 2
    MaxBlock = 3
    MaxFeedback = 1
    MaxTroubles = 1
    Escrows = {e1}
    ClientTabs = {x1}
    ProviderTabs = {x2}
    Advisees = {m1}
    MaxBudget = 1
    WorkForms = {"uri"}
    MaxHires = 2
    MaxFetches = 2
    ChainJobs = {j1}
    ChainAgents = {a1}
    Holders = {w1, w2}
    ClientIs <- MCClient
    MintedFor <- MCMintedFor
    Branded = {a1}
    EnvWallets = {}
    Readers = {y1}
    Asks = {"jobs"}
    PageSize = 1
    StartBlock = 0
    HasFallback = TRUE
    NotShown = NotShown
    MaxLogs = 3
    MaxReadTroubles = 1
    Entities = {u1, u2, u3}
    Signers = {w1, w2}
    NoSigner = NoSigner
    HiddenEntities = {u3}
    UriKind <- MCUriKind
    ClaimedId <- MCClaimedId
    Publications = {o1, o2}
    Filings = {h1, h2}
    Lists = {z1}
    AutoApprove = TRUE
    Deals = {1, 2, 3, 4}
    MaxListed = 2
    MaxDirectoryTroubles = 1
    Beings = {u1, u2}
    Themes = {theme1, theme2}
    OfTheme <- MCOfTheme
    NoBeing = NoBeing
    Beats = {o1, o2}
    FreshFor = 1
    OnlineFor = 2
    MaxClock = 2
    MaxPresenceTroubles = 1
VIEW View
ACTION_CONSTRAINT Bound
INVARIANTS
    TypeOK
    RecordsAreTrue
    
    GuidanceIsTrue
PROPERTIES
    NothingIsUndone
CHECK_DEADLOCK FALSE
