--------------------------- MODULE AgentDirectory ---------------------------
(***************************************************************************)
(* Who is listed: the manifests wallets publish for agents, the registry   *)
(* file of external agents, the lists the Console answers from both and    *)
(* from the indexer, and the standing a provider gets from its jobs.       *)
(*                                                                         *)
(* A manifest is stored under the agent's id, whoever wrote it before.  A  *)
(* registry entry is an agent, its address and a status; the file is read  *)
(* whole and written whole, and nothing is held in between.                *)
(***************************************************************************)
EXTENDS Naturals, FiniteSets

CONSTANTS Entities, Signers,        \* agents and wallets
          NoSigner,
          HiddenEntities,           \* hidden-agents.ts
          UriKind,                  \* "pointer", "profile", "hosted" or "foreign", of each agent
          ClaimedId,                \* the agentId in an agent's own metadata file
          Publications, Filings, Lists,
          AutoApprove,              \* A2A_AUTO_APPROVE_EXTERNAL_AGENTS
          Deals,                    \* jobs of one provider, by id, for its standing
          MaxListed,                \* the 500 rows of a list
          MaxDirectoryTroubles      \* failed reads and lookups

ASSUME DirectoryAssumption ==
    /\ NoSigner \notin Signers
    /\ HiddenEntities \subseteq Entities
    /\ UriKind \in [Entities -> {"pointer", "profile", "hosted", "foreign"}]
    /\ ClaimedId \in [Entities -> Entities]
    /\ Deals \subseteq Nat /\ IsFiniteSet(Deals) /\ Cardinality(Deals) \in 1 .. 4
    /\ MaxListed \in Nat \ {0}

VARIABLES
    tokenOwner,   \* ownerOf, NoSigner before the mint
    everOwned,    \* history: who owned the agent at some time
    seenOwner,    \* the indexer's row: the owner it saw, or NoSigner
    described,    \* agent_manifests
    publication,  \* POST /api/a2a/manifest and /api/a2a/avatar/commit under way
    file,         \* the registry file: a set of entries
    filing,       \* register, approve and block requests under way
    approvals,    \* history: entries an admin, or a verified signature, approved
    list,         \* list requests under way and answered
    rosterCache,  \* local-indexer-roster.ts: {} or one remembered answer
    deal,         \* agent_jobs rows of one provider
    directoryTroubles

manifestVars  == <<tokenOwner, everOwned, seenOwner, described, publication>>
registryVars  == <<file, filing, approvals>>
listVars      == <<list, rosterCache>>
directoryVars == <<manifestVars, registryVars, listVars, deal, directoryTroubles>>

NoManifest == [controller |-> NoSigner, signer |-> NoSigner, afterMint |-> FALSE]
NoRequest  == [stage |-> "idle"]
NoList     == [ask |-> "", stage |-> "idle"]
NoDeal     == [status |-> "none", chain |-> "none", submitTx |-> FALSE, completeTx |-> FALSE,
               rejectTx |-> FALSE, recent |-> FALSE]

ManifestsOf(m) == {a \in Entities : m[a] # NoManifest}

DirectoryInit ==
    /\ tokenOwner = [a \in Entities |-> NoSigner]
    /\ everOwned = [a \in Entities |-> {}]
    /\ seenOwner = [a \in Entities |-> NoSigner]
    /\ described = [a \in Entities |-> NoManifest]
    /\ publication = [p \in Publications |-> NoRequest]
    /\ file = {} /\ filing = [f \in Filings |-> NoRequest] /\ approvals = {}
    /\ list = [r \in Lists |-> NoList] /\ rosterCache = {}
    /\ deal = [d \in Deals |-> NoDeal]
    /\ directoryTroubles = 0

Trouble == directoryTroubles < MaxDirectoryTroubles /\ directoryTroubles' = directoryTroubles + 1

------------------------------------------------------------------------------
\* The chain: an agent is minted and changes hands; the indexer follows.
Owned(a, w) ==
    /\ tokenOwner[a] # w /\ tokenOwner' = [tokenOwner EXCEPT ![a] = w]
    /\ everOwned' = [everOwned EXCEPT ![a] = @ \cup {w}]
    /\ UNCHANGED <<seenOwner, described, publication, registryVars, listVars, deal, directoryTroubles>>

IndexedNow(a) ==
    /\ tokenOwner[a] # seenOwner[a] /\ seenOwner' = [seenOwner EXCEPT ![a] = tokenOwner[a]]
    /\ UNCHANGED <<tokenOwner, everOwned, described, publication, registryVars, listVars, deal,
                   directoryTroubles>>

\* What parseManifest lets through: a manifest that names an agent, in the one
\* schema; a request with anything else is answered 400 and changes nothing.
Parsed(a) == a \in Entities

\* A signed manifest arrives, recent enough and with a signature that recovers;
\* through the avatar route the token names the agent and the picture as well.
Published(p, a, w, how) ==
    /\ publication[p].stage = "idle" /\ Parsed(a)
    /\ publication' = [publication EXCEPT ![p] =
           [stage |-> "signed", agent |-> a, signer |-> w, how |-> how, controller |-> NoSigner,
            afterMint |-> tokenOwner[a] # NoSigner]]
    /\ UNCHANGED <<tokenOwner, everOwned, seenOwner, described, registryVars, listVars, deal,
                   directoryTroubles>>

\* getOnchainController: a lookup that throws says what an agent not minted says.
LookedUp(p, a, answer) ==
    \/ answer = tokenOwner[a] /\ UNCHANGED directoryTroubles
    \/ tokenOwner[a] # NoSigner /\ answer = NoSigner /\ Trouble

\* Mutant: a manifest is taken from whoever signed it.
MayWriteSigned(signer, controller, how) == signer = controller \/ how = "manifest"

\* An agent with an owner is its owner's to describe, one without is anybody's;
\* the avatar route wants an owner.
MayWrite(signer, controller, how) ==
    \/ signer = controller
    \/ controller = NoSigner /\ how = "manifest"

Judged(p) ==
    LET q == publication[p] IN
    /\ q.stage = "signed"
    /\ \E answer \in {tokenOwner[q.agent], NoSigner} :
         /\ LookedUp(p, q.agent, answer)
         /\ publication' = [publication EXCEPT ![p] =
                IF MayWrite(q.signer, answer, q.how)
                THEN [q EXCEPT !.stage = "allowed",
                               !.controller = IF answer = NoSigner THEN q.signer ELSE answer]
                ELSE NoRequest]
    /\ UNCHANGED <<tokenOwner, everOwned, seenOwner, described, registryVars, listVars, deal>>

\* upsertManifest: on conflict of the agent's id the row is replaced.
ManifestStored(p) ==
    LET q == publication[p] IN
    /\ q.stage = "allowed"
    /\ \/ /\ described' = [described EXCEPT ![q.agent] =
                 [controller |-> q.controller, signer |-> q.signer, afterMint |-> q.afterMint]]
          /\ UNCHANGED directoryTroubles
       \/ Trouble /\ UNCHANGED described
    /\ publication' = [publication EXCEPT ![p] = NoRequest]
    /\ UNCHANGED <<tokenOwner, everOwned, seenOwner, registryVars, listVars, deal>>

ManifestNext ==
    \/ \E a \in Entities, w \in Signers : Owned(a, w)
    \/ \E a \in Entities : IndexedNow(a)
    \/ \E p \in Publications, a \in Entities, w \in Signers, how \in {"manifest", "avatar"} :
          Published(p, a, w, how)
    \/ \E p \in Publications : Judged(p) \/ ManifestStored(p)

------------------------------------------------------------------------------
\* The registry file.  verifyExternalRegistrationAuth: without a signature a
\* registration passes only where unsigned ones are allowed, and counts as unverified.
EntriesOf(entries, a) == {e \in entries : e.agent = a}

\* Mutant: approval does not ask for a verified signature.
StatusForAny(verified) == IF AutoApprove THEN "approved" ELSE "pending"

StatusFor(verified) == IF AutoApprove /\ verified THEN "approved" ELSE "pending"

Registered(entries, a, w, verified) ==
    {e \in entries : e.agent # a \/ e.address # w}
        \cup {[agent |-> a, address |-> w, status |-> StatusFor(verified)]}

\* Mutant: a known id is registered under another address too.
MayRegisterAgain(entries, a, w) == w \in Signers

\* Another address under a known id is refused: duplicate_agent_id.
MayRegister(entries, a, w) == \A e \in EntriesOf(entries, a) : e.address = w

WithStatus(entries, a, status) ==
    {IF e.agent = a THEN [e EXCEPT !.status = status] ELSE e : e \in entries}

\* registerExternalAgent up to its write: the file is read and the next one made.
ReadForRegister(f, a, w, verified) ==
    /\ filing[f].stage = "idle" /\ MayRegister(file, a, w)
    /\ filing' = [filing EXCEPT ![f] =
           [stage |-> "read", next |-> Registered(file, a, w, verified),
            approves |-> IF AutoApprove /\ verified THEN {<<a, w>>} ELSE {}]]
    /\ UNCHANGED <<manifestVars, file, approvals, listVars, deal, directoryTroubles>>

\* setExternalAgentStatus, for an administrator: 404 without an entry.
ReadForStatus(f, a, status) ==
    /\ filing[f].stage = "idle" /\ EntriesOf(file, a) # {}
    /\ filing' = [filing EXCEPT ![f] =
           [stage |-> "read", next |-> WithStatus(file, a, status),
            approves |-> IF status = "approved"
                         THEN {<<a, e.address>> : e \in EntriesOf(file, a)} ELSE {}]]
    /\ UNCHANGED <<manifestVars, file, approvals, listVars, deal, directoryTroubles>>

\* writeRegistry: the new file is renamed over the old one, whatever that is by now.
Renamed(f) ==
    /\ filing[f].stage = "read" /\ file' = filing[f].next
    /\ approvals' = approvals \cup filing[f].approves
    /\ filing' = [filing EXCEPT ![f] = NoRequest]
    /\ UNCHANGED <<manifestVars, listVars, deal, directoryTroubles>>

RegistryNext ==
    \/ \E f \in Filings, a \in Entities, w \in Signers, verified \in BOOLEAN :
          ReadForRegister(f, a, w, verified)
    \/ \E f \in Filings, a \in Entities, status \in {"approved", "blocked"} : ReadForStatus(f, a, status)
    \/ \E f \in Filings : Renamed(f)

------------------------------------------------------------------------------
\* Lists.  normalizeAgentIdentity gives a row the token's id, or the agent's.
ListRow(a, controller, onchain, named, source) ==
    [agent |-> a, controller |-> controller, onchain |-> onchain, named |-> named, source |-> source]

\* fetchMetadata: a pointer is resolved in the manifest table, a profile of
\* this site is fetched, any other URI says nothing.
MetadataOf(a, m, fetched) ==
    \/ UriKind[a] = "pointer" /\ m[a] # NoManifest
    \/ UriKind[a] = "profile" /\ fetched

\* inferCanonicalSource, isArcLayerPlatformAgent: discovery shows the agents
\* with a URI of this site, or a manifest.
OfPlatform(row) == row.source = "manifest" \/ UriKind[row.agent] \in {"pointer", "profile"}

Exposed(rows) == {x \in rows : OfPlatform(x)}

KnownTo(i) == {a \in Entities : i[a] # NoSigner}

IndexerRows(i, m, fetched) ==
    {ListRow(a, i[a], TRUE, MetadataOf(a, m, fetched), "indexer") : a \in KnownTo(i)}

\* Mutant: an agent the indexer has is not taken from its manifest.
MergedSkipping(m, i, fetched) ==
    IndexerRows(i, described, fetched)
        \cup {ListRow(a, m[a].controller, FALSE, TRUE, "manifest") : a \in ManifestsOf(m) \ KnownTo(i)}

\* A stored manifest gives its agent's row; what the chain knows is merged in.
Merged(m, i, fetched) ==
    {x \in IndexerRows(i, described, fetched) : m[x.agent] = NoManifest}
        \cup {ListRow(a, m[a].controller, i[a] # NoSigner, TRUE, "manifest") : a \in ManifestsOf(m)}

\* Mutant: hidden agents are left in the list.
NothingHidden(rows) == rows

NotHidden(rows) == {x \in rows : x.agent \notin HiddenEntities}

MergedAnswer(m, i, fetched) == Exposed(NotHidden(Merged(m, i, fetched)))
SupabaseAnswer == Exposed(NotHidden(IndexerRows(seenOwner, described, TRUE)))

\* Only approved entries are listed; nothing else is asked of them.
RegisteredAnswer ==
    {ListRow(e.agent, e.address, FALSE, TRUE, "external") : e \in {x \in file : x.status = "approved"}}

\* The local roster has the agents with metadata on the bots' host, by the id
\* that file claims; the table's manifests follow, those the roster has not.
LocalRows(i) ==
    {ListRow(ClaimedId[a], i[a], TRUE, TRUE, "local") : a \in {b \in KnownTo(i) : UriKind[b] = "hosted"}}

\* Mutant: the two sources are put together as they are.
CategoryRepeating(m, local) ==
    local \cup {ListRow(a, m[a].controller, FALSE, TRUE, "supabase") : a \in ManifestsOf(m)}

CategoryAnswer(m, local) ==
    local \cup {ListRow(a, m[a].controller, FALSE, TRUE, "supabase") :
                   a \in ManifestsOf(m) \ {x.agent : x \in local}}

NoManifests == [a \in Entities |-> NoManifest]

\* listStoredManifests, the first read of the two lists that merge: an error is
\* logged and answered with no manifests at all.
AskedList(r, ask) ==
    /\ list[r].stage = "idle"
    /\ IF ask \in {"registered", "supabase"}
       THEN /\ list' = [list EXCEPT ![r] =
                    [ask |-> ask, stage |-> "answered",
                     rows |-> IF ask = "registered" THEN RegisteredAnswer ELSE SupabaseAnswer,
                     known |-> {}]]
            /\ UNCHANGED directoryTroubles
       ELSE \E read \in {described, NoManifests} :
              /\ IF read = described THEN UNCHANGED directoryTroubles ELSE Trouble
              /\ list' = [list EXCEPT ![r] = [ask |-> ask, stage |-> "manifests", read |-> read,
                                              known |-> ManifestsOf(read)]]
    /\ UNCHANGED <<manifestVars, registryVars, rosterCache, deal>>

ListAnswered(r, rows) == list' = [list EXCEPT ![r] =
    [ask |-> list[r].ask, stage |-> "answered", rows |-> rows, known |-> list[r].known]]

\* The indexer is asked next, and profiles are fetched; when the indexer fails
\* the merged list is an error (502).
AskedIndexer(r) ==
    /\ list[r].stage = "manifests" /\ list[r].ask = "merged"
    /\ \/ ListAnswered(r, MergedAnswer(list[r].read, seenOwner, TRUE)) /\ UNCHANGED directoryTroubles
       \/ ListAnswered(r, MergedAnswer(list[r].read, seenOwner, FALSE)) /\ Trouble
       \/ list' = [list EXCEPT ![r] = NoList] /\ Trouble
    /\ UNCHANGED <<manifestVars, registryVars, rosterCache, deal>>

\* By category the local roster is asked, or its memory of half a minute; when
\* it fails the manifests alone are the answer.
AskedRoster(r) ==
    /\ list[r].stage = "manifests" /\ list[r].ask = "category"
    /\ \/ /\ rosterCache # {} /\ UNCHANGED <<rosterCache, directoryTroubles>>
          /\ \E rows \in rosterCache : ListAnswered(r, CategoryAnswer(list[r].read, rows))
       \/ /\ rosterCache = {} /\ rosterCache' = {LocalRows(seenOwner)} /\ UNCHANGED directoryTroubles
          /\ ListAnswered(r, CategoryAnswer(list[r].read, LocalRows(seenOwner)))
       \/ /\ rosterCache = {} /\ Trouble /\ UNCHANGED rosterCache
          /\ ListAnswered(r, CategoryAnswer(list[r].read, {}))
    /\ UNCHANGED <<manifestVars, registryVars, deal>>

RosterExpires ==
    /\ rosterCache # {} /\ rosterCache' = {}
    /\ UNCHANGED <<manifestVars, registryVars, list, deal, directoryTroubles>>

ReadList(r) ==
    /\ list[r].stage = "answered" /\ list' = [list EXCEPT ![r] = NoList]
    /\ UNCHANGED <<manifestVars, registryVars, rosterCache, deal, directoryTroubles>>

ListNext ==
    \/ \E r \in Lists, ask \in {"merged", "registered", "supabase", "category"} : AskedList(r, ask)
    \/ \E r \in Lists : AskedIndexer(r) \/ AskedRoster(r) \/ ReadList(r)
    \/ RosterExpires

------------------------------------------------------------------------------
\* A provider's standing (agent-reputation.ts), computed from its job rows.
Completed(x) == x.chain = "Completed" \/ x.status = "settled" \/ x.completeTx
Rejected(x)  == x.status = "rejected" \/ x.chain = "Rejected" \/ x.rejectTx
Failed(x)    == x.status = "failed"
Expired(x)   == x.status = "expired" \/ x.chain = "Expired"
Submitted(x) == /\ ~Completed(x) /\ ~Rejected(x) /\ ~Failed(x) /\ ~Expired(x)
                /\ x.status = "submitted" \/ x.chain = "Submitted" \/ x.submitTx
Ongoing(x)    == /\ ~Completed(x) /\ ~Submitted(x) /\ ~Rejected(x) /\ ~Failed(x) /\ ~Expired(x)
                /\ \/ x.status \in {"created", "claimed", "running", "settlement_pending"}
                   \/ x.chain \in {"Open", "Funded"}

\* Each row counts once, in this order.
KindOf(x) ==
    IF Completed(x) THEN "completed"
    ELSE IF Rejected(x) THEN "rejected"
    ELSE IF Failed(x) THEN "failed"
    ELSE IF Expired(x) THEN "expired"
    ELSE IF Submitted(x) THEN "submitted"
    ELSE IF Ongoing(x) THEN "active" ELSE "none"

CountOf(rows, kind) == Cardinality({d \in Deals : KindOf(rows[d]) = kind})

Least(m, n)   == IF m < n THEN m ELSE n
Rounded(n, d) == (2 * n + d) \div (2 * d)                       \* Math.round(n / d)
Experience(n) == <<0, 5, 7, 9, 11>>[n + 1]                       \* 20 log(1+n) / log 21
Volume(n)     == <<0, 2, 2, 3, 3>>[n + 1]                        \* 10 log(1+n) / log 101

Quality(completed, closed) == IF closed > 0 THEN Rounded(45 * (completed + 1), closed + 2) ELSE 0

\* Mutant: every closed job costs, not only those that ended badly.
PenaltyOfClosed(rows) ==
    8 * (CountOf(rows, "rejected") + CountOf(rows, "completed")) + 10 * CountOf(rows, "failed")
        + 4 * CountOf(rows, "expired")

Penalty(rows) ==
    8 * CountOf(rows, "rejected") + 10 * CountOf(rows, "failed") + 4 * CountOf(rows, "expired")

ClosedDeals(rows) ==
    CountOf(rows, "completed") + CountOf(rows, "rejected") + CountOf(rows, "failed")
        + CountOf(rows, "expired")

\* computeScore, for jobs of one USDC each: clamped to 0 .. 100.
ScoreOf(rows) ==
    LET completed == CountOf(rows, "completed")
        recent    == Cardinality({d \in Deals : KindOf(rows[d]) = "completed" /\ rows[d].recent})
        gained    == Quality(completed, ClosedDeals(rows)) + Experience(completed) + Volume(completed)
                     + Least(10, 2 * recent)
                     + Least(5, 2 * CountOf(rows, "submitted") + CountOf(rows, "active"))
    IN IF Penalty(rows) > gained THEN 0 ELSE Least(100, gained - Penalty(rows))

------------------------------------------------------------------------------
(***************************************************************************)
(* What the indexer answers of these jobs (indexer/src/db.ts, server.ts),  *)
(* from the status each has on chain.  Ids grow with the jobs.             *)
(***************************************************************************)
IndexedJobs(rows)      == {d \in Deals : rows[d].chain # "none"}
IndexedAs(rows, kinds) == {d \in IndexedJobs(rows) : rows[d].chain \in kinds}
Newest(S, n)           == {d \in S : Cardinality({x \in S : x > d}) < n}

\* Mutant: a status asked for does not override the default.
HidesExpired(asked, includeExpired) == ~includeExpired

\* The code leaves out the statuses 5 and 6; 5 is Expired, and no job has 6: a
\* rejected one (4) is listed.
LeavesOutExpired(asked, includeExpired) == ~includeExpired /\ "Expired" \notin asked

ReadJobsFiltered(rows, limit, asked, includeExpired) ==
    LET kinds == IF asked = {} THEN {"Open", "Funded", "Submitted", "Completed", "Rejected", "Expired"}
                 ELSE asked
        shown == IF LeavesOutExpired(asked, includeExpired) THEN kinds \ {"Expired"} ELSE kinds
    IN Newest(IndexedAs(rows, shown), Least(limit, MaxListed))

ReadJobs(rows) == ReadJobsFiltered(rows, MaxListed, {}, TRUE)

\* The row is looked up by its id, and answered from the list.
HasDetail(rows, d) == d \in IndexedJobs(rows) /\ d \in ReadJobs(rows)

Totals(rows, S) ==
    [jobs    |-> Cardinality(S),
     settled |-> Cardinality(S \cap IndexedAs(rows, {"Completed"})),
     funded  |-> Cardinality(S \ IndexedAs(rows, {"Open"}))]

ReadOverview(rows)        == Totals(rows, ReadJobs(rows))
ReadOverviewSummary(rows) == Totals(rows, IndexedJobs(rows))

IndexedPenalty(rows) ==
    8 * Cardinality(IndexedAs(rows, {"Rejected"})) + 4 * Cardinality(IndexedAs(rows, {"Expired"}))

\* computeErc8183ReputationFromJobs, for jobs of one USDC each.  No job is ever
\* recent: created_at is a block number and is compared as a time.
IndexedScore(rows) ==
    LET all       == Cardinality(IndexedJobs(rows))
        completed == Cardinality(IndexedAs(rows, {"Completed"}))
        gained    == (IF all > 0 THEN 10 + Rounded(25 * completed, all) ELSE 0)
                     + 12 * completed + 4 * Cardinality(IndexedAs(rows, {"Submitted"}))
                     + Cardinality(IndexedAs(rows, {"Open", "Funded"})) + Least(20, completed)
    IN IF IndexedPenalty(rows) > gained THEN 0 ELSE Least(100, gained - IndexedPenalty(rows))

\* The rows, as the job routes write them (module JobMirror).
DealGoes(d, from, to) ==
    /\ deal[d] = from /\ deal' = [deal EXCEPT ![d] = to]
    /\ UNCHANGED <<manifestVars, registryVars, listVars, directoryTroubles>>

Started   == [NoDeal EXCEPT !.status = "created", !.chain = "Open"]
Funded    == [NoDeal EXCEPT !.status = "claimed", !.chain = "Funded"]
Delivered == [NoDeal EXCEPT !.status = "submitted", !.chain = "Submitted", !.submitTx = TRUE]
Settled   == [Delivered EXCEPT !.status = "settled", !.chain = "Completed", !.completeTx = TRUE,
                               !.recent = TRUE]
GivenUp   == [Funded EXCEPT !.status = "failed"]
Lapsed    == [Funded EXCEPT !.status = "expired", !.chain = "Expired"]
Refused   == [Delivered EXCEPT !.status = "rejected", !.chain = "Rejected", !.rejectTx = TRUE]

DealNext ==
    \/ \E d \in Deals :
         \/ (\A x \in Deals : x < d => deal[x] # NoDeal) /\ DealGoes(d, NoDeal, Started)
         \/ DealGoes(d, Started, Funded)
         \/ DealGoes(d, Funded, Delivered) \/ DealGoes(d, Delivered, Settled)
         \/ DealGoes(d, Delivered, Refused)
         \/ DealGoes(d, Funded, GivenUp) \/ DealGoes(d, Funded, Lapsed)
         \/ DealGoes(d, Settled, [Settled EXCEPT !.recent = FALSE])

DirectoryNext == ManifestNext \/ RegistryNext \/ ListNext \/ DealNext

------------------------------------------------------------------------------
DirectoryTypeOK ==
    /\ \A a \in Entities : /\ tokenOwner[a] \in Signers \cup {NoSigner}
                           /\ seenOwner[a] \in everOwned[a] \cup {NoSigner}
                           /\ described[a].controller \in Signers \cup {NoSigner}
    /\ \A e \in file : e.agent \in Entities /\ e.address \in Signers
                       /\ e.status \in {"pending", "approved", "blocked"}
    /\ \A r \in Lists : list[r].stage \in {"idle", "manifests", "answered"}

(***************************************************************************)
(* An agent's description is its owner's: where no lookup failed, the      *)
(* manifest of an agent that was minted before the request arrived was     *)
(* signed by a wallet that has owned it, and names that wallet             *)
(* (manifest/route.ts:88-105, avatar/commit/route.ts:116-121).             *)
(***************************************************************************)
ManifestsAreOwners ==
    \A a \in ManifestsOf(described) :
        /\ described[a].controller = described[a].signer
        /\ directoryTroubles = 0 /\ described[a].afterMint => described[a].signer \in everOwned[a]

(***************************************************************************)
(* A merged list has every agent once, none that is hidden, the chain's    *)
(* mark only on agents that were minted, and, by its own name, every agent *)
(* whose manifest it had read, whatever URI the indexer has for it         *)
(* (agents/route.ts:467-590).  By category an agent of the local roster is *)
(* not repeated from the table (by-category/route.ts:70-75).               *)
(***************************************************************************)
ListsAreWhole ==
    \A r \in Lists : list[r].stage = "answered" =>
        LET rows == list[r].rows IN
        /\ list[r].ask # "category" => \A x, y \in rows : x.agent = y.agent => x = y
        /\ list[r].ask \in {"merged", "supabase"} => \A x \in rows : x.agent \notin HiddenEntities
        /\ \A x \in rows : x.onchain /\ list[r].ask # "category" => everOwned[x.agent] # {}
        /\ \A a \in list[r].known \ HiddenEntities : \E x \in rows : x.agent = a /\ x.named
        /\ \A x, y \in rows : x.source = "local" /\ y.source = "supabase" => x.agent # y.agent

(***************************************************************************)
(* However register, approve and block overtake one another, the file has  *)
(* an agent once, and an approved entry's agent was approved with its      *)
(* address, by an administrator or by a verified signature                 *)
(* (external-registry.ts:143-201, register/route.ts:28-40).                *)
(***************************************************************************)
RegistryIsSound ==
    /\ \A e, g \in file : e.agent = g.agent => e = g
    /\ \A e \in file : e.status = "approved" => <<e.agent, e.address>> \in approvals

(***************************************************************************)
(* Once a provider has a closed job, a rejection, a failure or an expiry   *)
(* of its next would not raise its score, and a completion would not lower *)
(* it (agent-reputation.ts:91-176).  So does the indexer's own formula     *)
(* (db.ts:977), which sees no failure and needs no closed job.             *)
(***************************************************************************)
StandingFollowsWork ==
    \A d \in Deals :
        LET score(end)   == ScoreOf([deal EXCEPT ![d] = end])
            indexed(end) == IndexedScore([deal EXCEPT ![d] = end])
        IN
        /\ ClosedDeals(deal) > 0 =>
              /\ deal[d] = Delivered => score(Refused) <= ScoreOf(deal) /\ ScoreOf(deal) <= score(Settled)
              /\ deal[d] = Funded => score(GivenUp) <= ScoreOf(deal) /\ score(Lapsed) <= ScoreOf(deal)
        /\ deal[d] = Delivered =>
              indexed(Refused) <= IndexedScore(deal) /\ IndexedScore(deal) <= indexed(Settled)
        /\ deal[d] = Funded => indexed(Lapsed) <= IndexedScore(deal)

(***************************************************************************)
(* The indexer's readers of jobs agree.  A job in a list of all has a      *)
(* page, and one that is asked for by its status is listed unless newer    *)
(* ones fill the list; while the table fits in a list, the overview and    *)
(* its summary, computed apart, say the same (db.ts:561-803).              *)
(***************************************************************************)
ReadersAgree ==
    /\ \A n \in 1 .. MaxListed + 1 : \A d \in ReadJobsFiltered(deal, n, {}, TRUE) : HasDetail(deal, d)
    /\ \A d \in IndexedJobs(deal) :
          LET found == ReadJobsFiltered(deal, MaxListed, {deal[d].chain}, FALSE)
          IN d \in found \/ Cardinality(found) = MaxListed
    /\ Cardinality(IndexedJobs(deal)) <= MaxListed => ReadOverview(deal) = ReadOverviewSummary(deal)
=============================================================================
