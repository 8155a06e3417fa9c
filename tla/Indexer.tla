------------------------------- MODULE Indexer -------------------------------
(***************************************************************************)
(* The indexer: a single process that follows the chain in cycles          *)
(* (indexer/src/server.ts, runSyncCycle), keeps the events and what they   *)
(* project to in SQLite (db.ts), and patches the Console's a2a_jobs rows   *)
(* in Supabase (a2a-lifecycle-sync.ts).  Three cursors in the meta table   *)
(* say how far the jobs, the agents and the feedback are known.            *)
(*                                                                         *)
(* A block of the chain is a sequence of events; the events of a block are *)
(* those of one transaction, told apart by their log index.                *)
(***************************************************************************)
EXTENDS Naturals, Sequences, FiniteSets

CONSTANTS
    Jobs, Agents, Wallets,
    ClientOf,       \* the wallet a job was created by
    ControllerOf,   \* the wallet an agent was minted to
    EnvListed,      \* wallets listed by ARC_REFERENCE_WALLET_FILTER
    MaxRange,       \* MAX_BLOCK_RANGE
    MaxBlock,       \* bound: blocks of the chain
    MaxFeedback,    \* bound: feedback of an agent
    MaxTroubles     \* bound: failed calls and crashes of the indexer

ASSUME IndexerAssumption ==
    /\ Jobs \cap Agents = {}
    /\ ClientOf \in [Jobs -> Wallets] /\ ControllerOf \in [Agents -> Wallets]
    /\ EnvListed \subseteq Wallets
    /\ MaxRange \in Nat \ {0} /\ {MaxBlock, MaxFeedback, MaxTroubles} \subseteq Nat

VARIABLES
    chain,       \* the blocks, each with its events
    registered,  \* wallets the tables of the Console name
    attached,    \* jobs whose onchain_job_id an a2a_jobs row has
    filter,      \* the wallets of the reference filter, in memory
    cycle,       \* the cycle under way
    cursor,      \* last_synced_block, _agent_block, _reputation_block
    events,      \* job_events, agent_events, reputation_events
    jobRow, agentIndexed, aggregate,   \* the projections
    mirrored,    \* settlement_status of the a2a_jobs row
    agentsThere, \* the agents in erc8004_agents
    lastSyncError,
    troubles

chainVars   == <<chain, registered, attached>>
storedVars  == <<cursor, events, jobRow, agentIndexed, aggregate>>
supabaseVars == <<mirrored, agentsThere, lastSyncError>>
indexerVars == <<chainVars, filter, cycle, storedVars, supabaseVars, troubles>>

Streams  == {"job", "agent", "reputation"}
JobNames == {"JobCreated", "JobFunded", "JobSubmitted", "JobCompleted", "JobRejected", "JobExpired"}

\* The events of the blocks a .. b.
Located(a, b) == UNION {{chain[n][i] : i \in DOMAIN chain[n]} : n \in a .. b}

Before(d, e) == d.block < e.block \/ (d.block = e.block /\ d.log < e.log)
NamesOf(E, x) == {e.name : e \in {d \in E : d.of = x}}

KeyByTx(e) == <<e.stream, e.block>>     \* a mutant

\* serializeEventKey: the transaction and the log index.
KeyOf(e) == <<e.stream, e.block, e.log>>

\* INSERT ... ON CONFLICT(event_key) DO UPDATE for each event of a batch.
Upserted(E, batch) == {e \in E : ~\E d \in batch : KeyOf(d) = KeyOf(e)} \cup
                      {d \in batch : \A e \in batch : KeyOf(e) = KeyOf(d) => e = d \/ Before(e, d)}
------------------------------------------------------------------------------
\* The chain, and the Console's tables.
Follows(seen) ==
    IF seen = {} THEN {"JobCreated"}
    ELSE IF seen = {"JobCreated"} THEN {"JobFunded", "JobExpired"}
    ELSE IF seen = {"JobCreated", "JobFunded"} THEN {"JobSubmitted", "JobRejected", "JobExpired"}
    ELSE IF seen = {"JobCreated", "JobFunded", "JobSubmitted"} THEN {"JobCompleted", "JobRejected"}
    ELSE {}

Event(s, x, n, b, i) == [stream |-> s, of |-> x, name |-> n, block |-> b, log |-> i]

\* The events that may be the i-th of block b, after those of E.
MovesOfJobs(E, b, i) ==
    UNION {{Event("job", j, n, b, i) : n \in Follows(NamesOf(E, j))} : j \in Jobs}

Mints(E, b, i) == {Event("agent", a, "Transfer", b, i) : a \in {x \in Agents : NamesOf(E, x) = {}}}

Opinions(E, b, i) ==
    {Event("reputation", a, "NewFeedback", b, i) :
        a \in {x \in Agents : NamesOf(E, x) # {} /\ Cardinality({e \in E : e.of = x}) <= MaxFeedback}}

PossibleAfter(E, b, i) == MovesOfJobs(E, b, i) \cup Mints(E, b, i) \cup Opinions(E, b, i)

Mined ==
    LET n == Len(chain) + 1  E == Located(1, Len(chain)) IN
    /\ Len(chain) < MaxBlock
    /\ \/ chain' = Append(chain, <<>>)
       \/ \E e \in PossibleAfter(E, n, 1) :
             \/ chain' = Append(chain, <<e>>)
             \/ \E f \in PossibleAfter(E \cup {e}, n, 2) : chain' = Append(chain, <<e, f>>)
    /\ UNCHANGED <<registered, attached, filter, cycle, storedVars, supabaseVars, troubles>>

\* A manifest or a job row of the Console names the wallet.
WalletIsRegistered(w) ==
    /\ w \notin registered \cup EnvListed
    /\ registered' = registered \cup {w}
    /\ UNCHANGED <<chain, attached, filter, cycle, storedVars, supabaseVars, troubles>>

\* The Console stores the id of a job it has seen created.
JobIsAttached(j) ==
    /\ j \notin attached
    /\ "JobCreated" \in NamesOf(Located(1, Len(chain)), j)
    /\ ClientOf[j] \in registered \cup EnvListed
    /\ attached' = attached \cup {j}
    /\ UNCHANGED <<chain, registered, filter, cycle, storedVars, supabaseVars, troubles>>
------------------------------------------------------------------------------
Resting == [stage |-> "idle", upTo |-> [s \in Streams |-> 0], todo |-> <<>>]

Stuck == troubles < MaxTroubles /\ troubles' = troubles + 1

\* refreshReferenceFiltersFromSupabase: what it has when a read fails replaces
\* the filter all the same.
Refresh ==
    /\ cycle.stage = "idle"
    /\ \/ filter' = EnvListed \cup registered /\ UNCHANGED troubles
       \/ Stuck /\ filter' = EnvListed
    /\ cycle' = [cycle EXCEPT !.stage = "fetch"]
    /\ UNCHANGED <<chainVars, storedVars, supabaseVars>>

FirstBlock(s) == cursor[s] + 1

\* The agents' cursor of an older indexer is that of the jobs; here all start at 0.
CalculateToBlock(from) == IF from + MaxRange - 1 < Len(chain) THEN from + MaxRange - 1 ELSE Len(chain)

\* The latest block and the events of the three ranges; any failure ends the cycle.
Fetch ==
    /\ cycle.stage = "fetch"
    /\ \/ /\ cycle' = [cycle EXCEPT !.stage = "store",
                          !.upTo = [s \in Streams |-> CalculateToBlock(FirstBlock(s))]]
          /\ UNCHANGED <<lastSyncError, troubles>>
       \/ Stuck /\ cycle' = Resting /\ lastSyncError' = "error"
    /\ UNCHANGED <<chainVars, filter, storedVars, mirrored, agentsThere>>

Batch(s) == {e \in Located(FirstBlock(s), cycle.upTo[s]) : e.stream = s}

StatusOf(names) ==
    IF "JobCompleted" \in names THEN "JobCompleted"
    ELSE IF "JobRejected" \in names THEN "JobRejected"
    ELSE IF "JobExpired" \in names THEN "JobExpired"
    ELSE IF "JobSubmitted" \in names THEN "JobSubmitted"
    ELSE IF "JobFunded" \in names THEN "JobFunded" ELSE "JobCreated"

\* matchesReferenceWallet: an empty filter lets everything pass.
Matches(w) == filter = {} \/ w \in filter

\* A mutant: the batch is added to the count.
Added(a, stored, batch) ==
    aggregate[a] + Cardinality({e \in batch : e.of = a /\ e.stream = "reputation"})

\* recomputeReputationAggregate: from all the stored feedback of the agent.
Recomputed(a, stored, batch) == Cardinality({e \in stored : e.of = a /\ e.stream = "reputation"})

Sorted(S) == CHOOSE q \in [1 .. Cardinality(S) -> S] :
                \A i, k \in 1 .. Cardinality(S) : i < k => Before(q[i], q[k])

OfTheBatch(batch, stored) == batch     \* a mutant

\* A job is projected from all its stored events; without its JobCreated no
\* wallet of it is known.
Projected(batch, stored) == stored

Synced(name) == name \in {"JobCreated", "JobFunded", "JobSubmitted", "JobCompleted"}

\* syncProjectionStore, one transaction: the events, the jobs and agents they
\* touch and the filter lets pass, and the aggregates.
Store ==
    LET batch == UNION {Batch(s) : s \in Streams}
        stored == Upserted(events, batch)
        touched(s) == {e.of : e \in Batch(s)}
        rows == [j \in Jobs |->
                    LET names == NamesOf(Projected(batch, stored), j) IN
                    IF "JobCreated" \in names /\ j \in touched("job") /\ Matches(ClientOf[j])
                    THEN StatusOf(names) ELSE jobRow[j]]
        known == {ClientOf[j] : j \in {i \in Jobs : rows[i] # "none"}}
    IN
    /\ cycle.stage = "store"
    /\ events' = stored
    /\ jobRow' = rows
    /\ \E prefixed \in SUBSET touched("agent") :
          agentIndexed' = [a \in Agents |->
              agentIndexed[a] \/ (a \in touched("agent") /\
                  (Matches(ControllerOf[a]) \/ ControllerOf[a] \in known \/ a \in prefixed))]
    /\ aggregate' = [a \in Agents |-> IF a \in touched("reputation")
                                      THEN Recomputed(a, stored, batch)
                                      ELSE aggregate[a]]
    /\ cycle' = [cycle EXCEPT !.stage = "mirror",
                    !.todo = Sorted({e \in Batch("job") : Synced(e.name)})]
    /\ UNCHANGED <<chainVars, filter, cursor, supabaseVars, troubles>>

\* syncA2AJobsFromERC8183Events: one PATCH per event, in their order; the first
\* that fails is recorded and the rest is dropped.
Patch ==
    /\ cycle.stage = "mirror" /\ cycle.todo # <<>>
    /\ \/ LET e == Head(cycle.todo) IN
          /\ mirrored' = [mirrored EXCEPT ![e.of] = IF e.of \in attached THEN e.name ELSE @]
          /\ cycle' = [cycle EXCEPT !.todo = Tail(@)]
          /\ UNCHANGED <<lastSyncError, troubles>>
       \/ /\ Stuck /\ lastSyncError' = "error"
          /\ cycle' = [cycle EXCEPT !.stage = "job", !.todo = <<>>]
          /\ UNCHANGED mirrored
    /\ UNCHANGED <<chainVars, filter, storedVars, agentsThere>>

\* The agents' turn: affectedAgentIds belongs to the block of the transaction
\* and is not defined here, so that the reference throws and is recorded.
AgentsToSupabase ==
    /\ cycle.stage = "mirror" /\ cycle.todo = <<>>
    /\ lastSyncError' = "undefined"
    /\ cycle' = [cycle EXCEPT !.stage = "job"]
    /\ UNCHANGED <<chainVars, filter, storedVars, mirrored, agentsThere, troubles>>

LatestBlock(s) == Len(chain)     \* a mutant

Reached(s) == cycle.upTo[s]

\* The cursors are written one after the other.
WriteCursor(s) ==
    /\ cycle.stage = s
    /\ cursor' = [cursor EXCEPT ![s] = IF cycle.upTo[s] >= FirstBlock(s) THEN Reached(s) ELSE @]
    /\ cycle' = IF s = "reputation" THEN Resting
                ELSE [cycle EXCEPT !.stage = IF s = "job" THEN "agent" ELSE "reputation"]
    /\ UNCHANGED <<chainVars, filter, events, jobRow, agentIndexed, aggregate,
                   supabaseVars, troubles>>

\* The process dies and starts again.
IndexerCrash ==
    /\ cycle.stage # "idle"
    /\ Stuck
    /\ cycle' = Resting
    /\ filter' = EnvListed
    /\ lastSyncError' = "none"
    /\ UNCHANGED <<chainVars, storedVars, mirrored, agentsThere>>

IndexerInit ==
    /\ chain = <<>> /\ registered = {} /\ attached = {} /\ filter = EnvListed
    /\ cycle = Resting
    /\ cursor = [s \in Streams |-> 0]
    /\ events = {} /\ jobRow = [j \in Jobs |-> "none"]
    /\ agentIndexed = [a \in Agents |-> FALSE] /\ aggregate = [a \in Agents |-> 0]
    /\ mirrored = [j \in Jobs |-> "none"] /\ agentsThere = {}
    /\ lastSyncError = "none" /\ troubles = 0

IndexerNext ==
    \/ Mined
    \/ \E w \in Wallets : WalletIsRegistered(w)
    \/ \E j \in Jobs : JobIsAttached(j)
    \/ Refresh \/ Fetch \/ Store \/ Patch \/ AgentsToSupabase \/ IndexerCrash
    \/ \E s \in Streams : WriteCursor(s)

IndexerSpec == IndexerInit /\ [][IndexerNext]_indexerVars

IndexerTypeOK ==
    LET statuses == JobNames \cup {"none"} IN
    /\ chain \in Seq(Seq([stream : Streams, of : Jobs \cup Agents, block : 1 .. MaxBlock,
                          name : JobNames \cup {"Transfer", "NewFeedback"}, log : 1 .. 2]))
    /\ registered \subseteq Wallets /\ attached \subseteq Jobs /\ filter \subseteq Wallets
    /\ cycle.stage \in {"idle", "fetch", "store", "mirror"} \cup Streams
    /\ cycle.upTo \in [Streams -> 0 .. MaxBlock] /\ cursor \in [Streams -> 0 .. MaxBlock]
    /\ jobRow \in [Jobs -> statuses] /\ agentIndexed \in [Agents -> BOOLEAN]
    /\ aggregate \in [Agents -> 0 .. MaxFeedback]
    /\ mirrored \in [Jobs -> statuses] /\ agentsThere \subseteq Agents
    /\ lastSyncError \in {"none", "error", "undefined"} /\ troubles \in 0 .. MaxTroubles
------------------------------------------------------------------------------
(***************************************************************************)
(* A failed call or a crash never makes the indexer skip an event: what a  *)
(* cursor has passed is stored, event by event, although the cursors are   *)
(* written after the transaction and one by one (server.ts:138).           *)
(***************************************************************************)
NothingSkipped ==
    \A s \in Streams : {e \in Located(1, cursor[s]) : e.stream = s} \subseteq events

(***************************************************************************)
(* Feedback is counted once however often a cycle is repeated, and the row *)
(* of a job that the deployment lists is the projection of all its events  *)
(* (db.ts, recomputeReputationAggregate and syncProjectionStore).          *)
(***************************************************************************)
ProjectionsAreExact ==
    /\ \A a \in Agents :
          aggregate[a] = Cardinality({e \in events : e.of = a /\ e.stream = "reputation"})
    /\ \A j \in Jobs : ClientOf[j] \in EnvListed /\ NamesOf(events, j) # {}
          => jobRow[j] = StatusOf(NamesOf(events, j))

(***************************************************************************)
(* "Sync affected ERC-8004 agents to Supabase" (db.ts:519): once a cycle   *)
(* in which nothing failed has passed an agent's mint, erc8004_agents has  *)
(* the agent.                                                              *)
(***************************************************************************)
MintsReachSupabase ==
    troubles = 0 /\ cycle.stage = "idle" => {a \in Agents : agentIndexed[a]} \subseteq agentsThere

\* "must NOT label them all as ArcLayer activity" (projections.ts:33): a job
\* whose wallets ArcLayer does not know has no row.
ForeignJobsStayOut ==
    \A j \in Jobs : jobRow[j] # "none" => ClientOf[j] \in EnvListed \cup registered
==============================================================================
