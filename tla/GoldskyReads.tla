---------------------------- MODULE GoldskyReads ----------------------------
(***************************************************************************)
(* The Console's second indexer: a hosted pipeline copies the logs of the  *)
(* escrow and of the identity registry into two Supabase tables, and every *)
(* request of /api/indexer reads the tables whole, page by page, and       *)
(* projects what it read (lib/goldsky-supabase-indexer.ts).  When a read   *)
(* fails the route may pass the request on to the SQLite indexer.          *)
(*                                                                         *)
(* The pipeline, its tables and the SQLite indexer are external: rows come *)
(* in the order of the chain, one at a time, and a page shows what has     *)
(* come.  A request is several reads, and the tables grow between them.    *)
(* A row is told from others by the place of its log among the logs.       *)
(***************************************************************************)
EXTENDS Naturals, Sequences, FiniteSets

CONSTANTS
    ChainJobs, ChainAgents, Holders,
    ClientIs,      \* the wallet a job was created by
    MintedFor,     \* the wallet an agent was minted to
    Branded,       \* agents whose metadata URI has a prefix of the filter
    EnvWallets,    \* ARC_REFERENCE_WALLET_FILTER
    Readers,       \* browsers, each with one request at a time
    Asks,          \* the paths they ask for
    PageSize,      \* PAGE_SIZE
    StartBlock,    \* GOLDSKY_START_BLOCK
    HasFallback,   \* whether INDEXER_FALLBACK_URL is set
    NotShown,      \* what a job or an agent is where it is not listed
    MaxLogs, MaxReadTroubles   \* bounds

ASSUME GoldskyAssumption ==
    /\ ClientIs \in [ChainJobs -> Holders] /\ MintedFor \in [ChainAgents -> Holders]
    /\ Branded \subseteq ChainAgents /\ EnvWallets \subseteq Holders
    /\ PageSize \in Nat \ {0} /\ HasFallback \in BOOLEAN
    /\ {StartBlock, MaxLogs, MaxReadTroubles} \subseteq Nat

VARIABLES
    logs,      \* the logs of the chain, in order
    sunk,      \* the log up to which the pipeline has filled each table
    known,     \* the log up to which the SQLite indexer has them
    manifests, \* wallets agent_manifests and a2a_jobs name
    request,   \* the request of each reader
    answers,   \* the last answer labelled goldsky each reader had
    readTroubles

goldskyVars == <<logs, sunk, known, manifests, request, answers, readTroubles>>

Tables == {"erc8183", "identity"}
TableOf(e) == IF e.of \in ChainJobs THEN "erc8183" ELSE "identity"

\* The rows of a table that are of the first n logs.
RowsOf(t, n) == {i \in 1 .. n : TableOf(logs[i]) = t}

\* The logs that rows are of.
Items(R) == {logs[i] : i \in R}
------------------------------------------------------------------------------
\* What logs project to (sdk/src/indexer/projections.ts).
Occurred(E, x, name) == \E e \in E : e.of = x /\ e.name = name

\* The status of a job, the terminal events first.
ProjectedStatus(E, j) ==
    IF Occurred(E, j, "JobCompleted") THEN "Completed"
    ELSE IF Occurred(E, j, "JobRejected") THEN "Rejected"
    ELSE IF Occurred(E, j, "JobExpired") THEN "Expired"
    ELSE IF Occurred(E, j, "JobSubmitted") THEN "Submitted"
    ELSE IF Occurred(E, j, "JobFunded") THEN "Funded"
    ELSE "Open"

\* buildJobFilter: a job without its JobCreated belongs to nobody.
JobKept(E, wallets, j) == Occurred(E, j, "JobCreated") /\ ClientIs[j] \in wallets

\* projectJobFromEvents: what a job is, and whether it shows money.
JobsShown(E, wallets) ==
    [j \in ChainJobs |->
        IF JobKept(E, wallets, j)
        THEN [status |-> ProjectedStatus(E, j), funded |-> Occurred(E, j, "JobFunded")]
        ELSE NotShown]

\* collectJobWallets, of the jobs that are kept.
JobWallets(E, wallets) == {ClientIs[j] : j \in {i \in ChainJobs : JobKept(E, wallets, i)}}

\* dedupeAgentEvents: the last event wins, its controller and its URI.
LastOf(R, a) == logs[CHOOSE i \in R : logs[i].of = a /\ \A k \in R : logs[k].of = a => k <= i]

\* buildAgentFilter: a Transfer carries no metadata URI.
AgentKept(e, wallets, jobWallets) ==
    \/ e.holder \in wallets \cup jobWallets
    \/ e.name = "Registered" /\ e.of \in Branded

AgentsShown(R, wallets, jobWallets) ==
    [a \in ChainAgents |->
        IF (\E i \in R : logs[i].of = a) /\ AgentKept(LastOf(R, a), wallets, jobWallets)
        THEN LastOf(R, a).holder ELSE NotShown]

\* What the rows of the two tables show under an allowlist.
Projection(R, wallets) ==
    LET E == Items(R["erc8183"]) IN
    [jobs |-> JobsShown(E, wallets),
     agents |-> AgentsShown(R["identity"], wallets, JobWallets(E, wallets))]
------------------------------------------------------------------------------
\* The chain, the pipeline, the SQLite indexer and the allowlists.
Block == IF logs = <<>> THEN 1 ELSE logs[Len(logs)].block

NextOf(x) ==
    LET seen == {logs[i].name : i \in {k \in DOMAIN logs : logs[k].of = x}} IN
    IF x \in ChainAgents THEN IF seen = {} THEN {"Registered"} ELSE {"Transfer"}
    ELSE IF seen = {} THEN {"JobCreated"}
    ELSE IF seen = {"JobCreated"} THEN {"JobFunded", "JobExpired"}
    ELSE IF seen = {"JobCreated", "JobFunded"} THEN {"JobSubmitted", "JobRejected", "JobExpired"}
    ELSE IF seen = {"JobCreated", "JobFunded", "JobSubmitted"} THEN {"JobCompleted", "JobRejected"}
    ELSE {}

LogMined ==
    /\ Len(logs) < MaxLogs
    /\ \E x \in ChainJobs \cup ChainAgents, b \in {Block, Block + 1}, w \in Holders :
          \E name \in NextOf(x) :
            /\ x \in ChainJobs => w = ClientIs[x]
            /\ name = "Registered" => w = MintedFor[x]
            /\ name = "Transfer" => \A i \in DOMAIN logs : logs[i].of = x => logs[i].holder # w
            /\ logs' = Append(logs, [of |-> x, name |-> name, holder |-> w, block |-> b])
    /\ UNCHANGED <<sunk, known, manifests, request, answers, readTroubles>>

RowArrives(t) ==
    /\ \E i \in RowsOf(t, Len(logs)) :
          /\ i > sunk[t] /\ \A k \in RowsOf(t, i - 1) : k <= sunk[t]
          /\ sunk' = [sunk EXCEPT ![t] = i]
    /\ UNCHANGED <<logs, known, manifests, request, answers, readTroubles>>

SqliteSyncs ==
    /\ known < Len(logs)
    /\ known' = Len(logs)
    /\ UNCHANGED <<logs, sunk, manifests, request, answers, readTroubles>>

WalletIsListed(w) ==
    /\ w \notin manifests \cup EnvWallets
    /\ manifests' = manifests \cup {w}
    /\ UNCHANGED <<logs, sunk, known, request, answers, readTroubles>>
------------------------------------------------------------------------------
NoRows == [t \in Tables |-> {}]
Waiting == [ask |-> "", stage |-> "idle", wallets |-> {}, rows |-> NoRows, open |-> {}]

OfTheReads == <<logs, sunk, known, manifests, readTroubles>>

ReadTrouble == readTroubles < MaxReadTroubles /\ readTroubles' = readTroubles + 1

\* The jobs, one job, and the agents load the allowlists first; the overview
\* fetches first.
Ask(r, ask) ==
    /\ request[r].stage = "idle"
    /\ request' = [request EXCEPT ![r].ask = ask,
                     ![r].stage = IF ask = "overview" THEN "fetch" ELSE "lists",
                     ![r].open = IF ask = "detail" THEN {"erc8183"} ELSE Tables]
    /\ UNCHANGED <<OfTheReads, answers>>

\* A list that cannot be read leaves the wallets of the environment.
LoadDynamicAllowlists(r) ==
    /\ request[r].stage = "lists"
    /\ \/ request' = [request EXCEPT ![r].wallets = EnvWallets \cup manifests,
                        ![r].stage = IF request[r].ask = "overview" THEN "answer" ELSE "fetch"]
          /\ UNCHANGED readTroubles
       \/ /\ ReadTrouble
          /\ request' = [request EXCEPT ![r].wallets = EnvWallets,
                           ![r].stage = IF request[r].ask = "overview" THEN "answer" ELSE "fetch"]
    /\ UNCHANGED <<logs, sunk, known, manifests, answers>>

\* readGoldskyJobs and readGoldskyAgents pass ignoreEnvStartBlock.
FromBlock(ask) == IF ask \in {"jobs", "agents"} THEN 0 ELSE StartBlock

AfterBlock(i, last) == logs[i].block > logs[last].block   \* a mutant

\* The cursor: later blocks, and later logs of the last block.
AfterCursor(i, last) == i > last

\* The rows of a table that a page may hold: from the start block on the first
\* page, after the last row that was got, and so after all of them, on the others.
Eligible(r, t) ==
    LET got == request[r].rows[t] IN
    {i \in RowsOf(t, sunk[t]) :
        IF got = {} THEN logs[i].block >= FromBlock(request[r].ask) ELSE \A last \in got : AfterCursor(i, last)}

\* The first rows of a page, in the order of block_number and log_index.
FirstRows(rows) == {i \in rows : Cardinality({k \in rows : k < i}) < PageSize}

FetchPage(r, t) ==
    LET rows == Eligible(r, t)
        page == FirstRows(rows)
        open == IF Cardinality(rows) < PageSize THEN request[r].open \ {t} ELSE request[r].open
    IN
    /\ request[r].stage = "fetch" /\ t \in request[r].open
    /\ request' = [request EXCEPT
            ![r].rows[t] = @ \cup page,
            ![r].open = open,
            ![r].stage = IF open # {} THEN @ ELSE IF request[r].ask = "overview" THEN "lists" ELSE "answer"]
    /\ UNCHANGED <<OfTheReads, answers>>

\* buildMeta: the answer says which provider it is of.
Answered(r, provider, shown) ==
    /\ answers' = IF provider = "goldsky"
                  THEN [answers EXCEPT ![r] = [asked |-> request[r].ask, wallets |-> request[r].wallets,
                                               jobs |-> shown.jobs, agents |-> shown.agents]]
                  ELSE answers
    /\ request' = [request EXCEPT ![r] = Waiting]

Answer(r) ==
    /\ request[r].stage = "answer"
    /\ Answered(r, "goldsky", Projection(request[r].rows, request[r].wallets))
    /\ UNCHANGED OfTheReads

FallbackUnmarked == "goldsky"     \* a mutant
FallbackProvider == "custom-fallback"

\* An error of a page: the fallback, or 502.  The SQLite indexer filters with
\* lists of its own.
FetchFails(r) ==
    /\ request[r].stage = "fetch" /\ ReadTrouble
    /\ IF HasFallback
       THEN Answered(r, FallbackProvider,
                     Projection([t \in Tables |-> RowsOf(t, known)], EnvWallets \cup manifests))
       ELSE request' = [request EXCEPT ![r] = Waiting] /\ UNCHANGED answers
    /\ UNCHANGED <<logs, sunk, known, manifests>>
------------------------------------------------------------------------------
NoAnswer == [asked |-> "", wallets |-> {}, jobs |-> [j \in ChainJobs |-> NotShown],
             agents |-> [a \in ChainAgents |-> NotShown]]

GoldskyInit ==
    /\ logs = <<>> /\ sunk = [t \in Tables |-> 0] /\ known = 0 /\ manifests = {}
    /\ request = [r \in Readers |-> Waiting]
    /\ answers = [r \in Readers |-> NoAnswer]
    /\ readTroubles = 0

GoldskyNext ==
    \/ LogMined \/ SqliteSyncs
    \/ \E t \in Tables : RowArrives(t)
    \/ \E w \in Holders : WalletIsListed(w)
    \/ \E r \in Readers :
          \/ \E ask \in Asks : Ask(r, ask)
          \/ LoadDynamicAllowlists(r)
          \/ \E t \in Tables : FetchPage(r, t)
          \/ Answer(r)
          \/ FetchFails(r)

GoldskySpec == GoldskyInit /\ [][GoldskyNext]_goldskyVars
------------------------------------------------------------------------------
Rank(shown) == IF shown = NotShown THEN 0 ELSE IF shown.status = "Open" THEN 1
               ELSE IF shown.status = "Funded" THEN 2 ELSE IF shown.status = "Submitted" THEN 3 ELSE 4

GoldskyTypeOK ==
    /\ \A i \in DOMAIN logs : logs[i].of \in ChainJobs \cup ChainAgents /\ logs[i].block \in Nat
    /\ sunk \in [Tables -> 0 .. Len(logs)] /\ known \in 0 .. Len(logs) /\ manifests \subseteq Holders
    /\ \A r \in Readers :
          /\ request[r].stage \in {"idle", "lists", "fetch", "answer"}
          /\ \A t \in Tables : request[r].rows[t] \subseteq RowsOf(t, sunk[t])
          /\ request[r].open \subseteq Tables /\ request[r].wallets \subseteq Holders
          /\ request[r].stage = "answer" => request[r].open = {}

\* An answer is a state the chain was in: the jobs and the agents it shows are
\* those of the logs up to one log of each table, none missing in the middle,
\* however many pages the request took and whatever arrived between them
\* (fetchAllRawLogs, its cursor).
AnswersAreOfOnePast ==
    \A r \in Readers :
        LET a == answers[r] IN
        a.asked \in {"jobs", "agents"} =>
            \E i \in 0 .. sunk["erc8183"], k \in 0 .. sunk["identity"] :
                LET p == Projection([t \in Tables |-> RowsOf(t, IF t = "erc8183" THEN i ELSE k)],
                                    a.wallets) IN
                a.jobs = p.jobs /\ a.agents = p.agents

\* A browser that asks again is never shown an earlier status of a job by the
\* Goldsky reader: an answer of the slower SQLite indexer is labelled as such
\* (buildMeta).  The lists may have failed to load, and then the job is absent.
JobsNeverGoBack ==
    [][\A r \in Readers, j \in ChainJobs :
         LET old == answers[r]  new == answers'[r] IN
         \/ new.jobs[j] = NotShown
         \/ old.asked # new.asked
         \/ Rank(old.jobs[j]) <= Rank(new.jobs[j])]_goldskyVars

\* fetchAllDecoded "Fetches full history by default": the overview is of all
\* the rows that had come when the reader had its last list of jobs.
OverviewIsFullHistory ==
    [][\A r \in Readers, j \in ChainJobs :
         LET old == answers[r]  new == answers'[r] IN
         (old.asked = "jobs" /\ new.asked = "overview" /\ old.wallets \subseteq new.wallets)
            => Rank(old.jobs[j]) <= Rank(new.jobs[j])]_goldskyVars
==============================================================================
