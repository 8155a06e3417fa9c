------------------------------ MODULE Onboarding ------------------------------
(***************************************************************************)
(* How an agent is registered from the Console.                            *)
(*                                                                         *)
(* An MCP client drafts an agent bundle: a metadata draft and an intent,   *)
(* good for a day (lib/mcp/onboarding-tools.ts, lib/agent-onboarding/      *)
(* registration-intents.ts).  The register page (app/register/erc8004),    *)
(* opened with the intent or without, mints the identity with the owner's  *)
(* wallet and tells the Console: it finalizes the intent, or patches its   *)
(* own draft with the write token, and binds the agent to the owner's      *)
(* Agent Wallet.  The minted agent reaches erc8004_agents by a sync        *)
(* (lib/erc8004/sync.ts), and the client then asks for a runtime key.      *)
(*                                                                         *)
(* The page keeps nothing of a mint that went wrong after it was sent, and *)
(* its button can be clicked again after an error and after a success.     *)
(* One owner; an identity is named by the transaction that mints it.       *)
(***************************************************************************)
EXTENDS Naturals, FiniteSets

CONSTANTS
    Forms, Intents, Drafts, Identities,
    ByAccount,          \* the forms whose controller mode is agent-account
    NoIntent, NoDraft, NoIdentity, OwnUri,
    MaxOnboardingTroubles

ASSUME OnboardingAssumption ==
    /\ ByAccount \subseteq Forms /\ NoIntent \notin Intents
    /\ NoDraft \notin Drafts /\ OwnUri \notin Drafts \cup {NoDraft}
    /\ NoIdentity \notin Identities /\ MaxOnboardingTroubles \in Nat

VARIABLES
    intent,     \* mcp_registration_intents
    draft,      \* agent_metadata_drafts
    form,       \* the register page of each tab
    mint,       \* the register transactions on chain
    agentRow,   \* identities in erc8004_agents
    manifest,   \* identities with a manifest
    bound,      \* identities bound to the Agent Wallet
    record,     \* the registered identity in localStorage, which all tabs share
    runtimeKey, \* identities an API key was made for
    onboardingTroubles

onboardingVars == <<intent, draft, form, mint, agentRow, manifest, bound, record, runtimeKey,
                    onboardingTroubles>>

Uris     == Drafts \cup {NoDraft, OwnUri}
NoDraftYet == [status |-> "none", draft |-> NoDraft, agent |-> NoIdentity, expired |-> FALSE]
Undrafted == [status |-> "none", agent |-> NoIdentity]
Blank    == [stage |-> "away", status |-> "idle", intent |-> NoIntent, draft |-> NoDraft,
             token |-> FALSE, uri |-> NoDraft, mint |-> NoIdentity, pending |-> NoIdentity]
Unminted == [state |-> "none", uri |-> NoDraft]
NoRecord == [agent |-> NoIdentity, binding |-> "none"]

FormStages == {"away", "draft", "sign", "wait", "check", "complete", "mark", "manifest", "patch",
               "bind", "retry"}

OnboardingTypeOK ==
    /\ intent \in [Intents -> [status : {"none", "draft", "completed"}, draft : Drafts \cup {NoDraft},
                               agent : Identities \cup {NoIdentity}, expired : BOOLEAN]]
    /\ draft \in [Drafts -> [status : {"none", "draft", "minted"},
                             agent : Identities \cup {NoIdentity}]]
    /\ form \in [Forms -> [stage : FormStages, status : {"idle", "pending", "error", "success"},
                           intent : Intents \cup {NoIntent}, draft : Drafts \cup {NoDraft},
                           token : BOOLEAN, uri : Uris, mint : Identities \cup {NoIdentity},
                           pending : Identities \cup {NoIdentity}]]
    /\ mint \in [Identities -> [state : {"none", "sent", "mined", "reverted"}, uri : Uris]]
    /\ agentRow \subseteq Identities /\ manifest \subseteq Identities /\ bound \subseteq Identities
    /\ record \in [agent : Identities \cup {NoIdentity},
                   binding : {"none", "created", "failed", "not_applicable"}]
    /\ runtimeKey \subseteq Identities /\ onboardingTroubles \in 0 .. MaxOnboardingTroubles

OnboardingInit ==
    /\ intent = [i \in Intents |-> NoDraftYet] /\ draft = [d \in Drafts |-> Undrafted]
    /\ form = [f \in Forms |-> Blank] /\ mint = [m \in Identities |-> Unminted]
    /\ agentRow = {} /\ manifest = {} /\ bound = {} /\ record = NoRecord
    /\ runtimeKey = {} /\ onboardingTroubles = 0

OfMcp     == <<intent, draft>>
OfAgents  == <<agentRow, manifest, runtimeKey>>
OfRecords == <<bound, record>>

Snag == onboardingTroubles < MaxOnboardingTroubles /\ onboardingTroubles' = onboardingTroubles + 1

FormIs(f, q)   == form' = [form EXCEPT ![f] = q]
Steps(f, s)    == FormIs(f, [form[f] EXCEPT !.stage = s])
Shown(f, s)    == FormIs(f, [form[f] EXCEPT !.stage = "away", !.status = s])
OnStage(f, s)  == form[f].stage = s
IntentOf(f)    == intent[form[f].intent]
IsActive(i)    == intent[i].status = "draft" /\ ~intent[i].expired

-----------------------------------------------------------------------------
(***************************************************************************)
(* The MCP client.                                                         *)
(***************************************************************************)
\* onboarding.start_agent_bundle: the draft, then the intent, whose insert
\* may fail; nobody gets the write token.
StartAgentBundle(i, d) ==
    /\ intent[i].status = "none" /\ draft[d].status = "none"
    /\ draft' = [draft EXCEPT ![d].status = "draft"]
    /\ \/ /\ intent' = [intent EXCEPT ![i] = [NoDraftYet EXCEPT !.status = "draft", !.draft = d]]
          /\ UNCHANGED onboardingTroubles
       \/ Snag /\ UNCHANGED intent
    /\ UNCHANGED <<form, mint, OfAgents, OfRecords>>

IntentExpires(i) ==
    /\ IsActive(i)
    /\ intent' = [intent EXCEPT ![i].expired = TRUE]
    /\ UNCHANGED <<draft, form, mint, OfAgents, OfRecords, onboardingTroubles>>

\* Mutant: the agent of an intent that is not completed yet.
KeyForAnyAgent(i, m) == intent[i].status # "none" /\ mint[m].state # "none"

\* onboarding.create_agent_runtime_key: of a completed bundle; the agent is
\* looked up in erc8004_agents, or else on chain.
KeyForAgent(i, m) == intent[i].status = "completed" /\ intent[i].agent = m

CreateAgentRuntimeKey(i, m) ==
    /\ KeyForAgent(i, m)
    /\ runtimeKey' = runtimeKey \cup {m}
    /\ UNCHANGED <<OfMcp, form, mint, agentRow, manifest, OfRecords, onboardingTroubles>>

-----------------------------------------------------------------------------
(***************************************************************************)
(* The register page.                                                      *)
(***************************************************************************)
\* The page hydrates its form from an intent that is still active.
LoadIntent(f, i) ==
    /\ form[f] = Blank /\ IsActive(i)
    /\ FormIs(f, [Blank EXCEPT !.intent = i, !.draft = intent[i].draft, !.uri = intent[i].draft])
    /\ UNCHANGED <<OfMcp, mint, OfAgents, OfRecords, onboardingTroubles>>

\* The field of the metadata URI can be edited.
EditUri(f) ==
    /\ OnStage(f, "away") /\ form[f].uri # OwnUri
    /\ FormIs(f, [form[f] EXCEPT !.uri = OwnUri])
    /\ UNCHANGED <<OfMcp, mint, OfAgents, OfRecords, onboardingTroubles>>

\* submitRegister, enabled unless a registration is pending.
SubmitRegister(f) ==
    /\ OnStage(f, "away") /\ form[f].status # "pending"
    /\ FormIs(f, [form[f] EXCEPT !.status = "pending", !.mint = NoIdentity,
                                 !.stage = IF form[f].uri = NoDraft THEN "draft" ELSE "sign"])
    /\ UNCHANGED <<OfMcp, mint, OfAgents, OfRecords, onboardingTroubles>>

CreateDraft(f, d) ==
    /\ OnStage(f, "draft") /\ draft[d].status = "none"
    /\ draft' = [draft EXCEPT ![d].status = "draft"]
    /\ FormIs(f, [form[f] EXCEPT !.stage = "sign", !.draft = d, !.token = TRUE, !.uri = d])
    /\ UNCHANGED <<intent, mint, OfAgents, OfRecords, onboardingTroubles>>

\* register(metadataURI), by the connected wallet or as a user operation.
SignRegister(f, m) ==
    /\ OnStage(f, "sign") /\ mint[m].state = "none"
    /\ mint' = [mint EXCEPT ![m] = [state |-> "sent", uri |-> form[f].uri]]
    /\ FormIs(f, [form[f] EXCEPT !.stage = "wait", !.mint = m])
    /\ UNCHANGED <<OfMcp, OfAgents, OfRecords, onboardingTroubles>>

RegisterIsMined(m) ==
    /\ mint[m].state = "sent"
    /\ \E s \in {"mined", "reverted"} : mint' = [mint EXCEPT ![m].state = s]
    /\ UNCHANGED <<OfMcp, form, OfAgents, OfRecords, onboardingTroubles>>

\* The receipt without a mint event is an error; with one, an intent is
\* finalized, or else a draft of the page's own is patched.
SeeReceipt(f) ==
    LET q == form[f] IN
    /\ q.stage = "wait" /\ mint[q.mint].state \in {"mined", "reverted"}
    /\ IF mint[q.mint].state = "reverted" THEN Shown(f, "error")
       ELSE Steps(f, IF q.intent # NoIntent THEN "check" ELSE IF q.token THEN "patch" ELSE "bind")
    /\ UNCHANGED <<OfMcp, mint, OfAgents, OfRecords, onboardingTroubles>>

\* PATCH draft: whoever has the write token may set the agent again.
PatchDraft(f) ==
    /\ OnStage(f, "patch")
    /\ draft' = [draft EXCEPT ![form[f].draft] = [status |-> "minted", agent |-> form[f].mint]]
    /\ Steps(f, "bind")
    /\ UNCHANGED <<intent, mint, OfAgents, OfRecords, onboardingTroubles>>

\* saveAgentWalletBinding and the record in localStorage; a failure is kept
\* for a retry, and the registration is a success all the same.
BindAgent(f) ==
    LET m == form[f].mint
        Done(b, p) ==
            /\ record' = [agent |-> m, binding |-> b]
            /\ FormIs(f, [form[f] EXCEPT !.stage = "away", !.status = "success", !.pending = p])
    IN
    /\ OnStage(f, "bind")
    /\ \/ /\ f \notin ByAccount /\ Done("not_applicable", NoIdentity)
          /\ UNCHANGED <<bound, onboardingTroubles>>
       \/ /\ f \in ByAccount /\ Done("created", NoIdentity)
          /\ bound' = bound \cup {m} /\ UNCHANGED onboardingTroubles
       \/ /\ f \in ByAccount /\ Done("failed", m)
          /\ Snag /\ UNCHANGED bound
    /\ UNCHANGED <<OfMcp, mint, OfAgents>>

\* retryAgentWalletBinding: the record is marked, whichever agent it is of.
RetryBinding(f) ==
    /\ OnStage(f, "away") /\ form[f].pending # NoIdentity /\ form[f].status = "success"
    /\ bound' = bound \cup {form[f].pending}
    /\ record' = [record EXCEPT !.binding = "created"]
    /\ FormIs(f, [form[f] EXCEPT !.pending = NoIdentity])
    /\ UNCHANGED <<OfMcp, mint, OfAgents, onboardingTroubles>>

\* RegisterApiKeyCard: the session's wallet must be the controller of the
\* agent's row.
CreateKeyOnPage(f) ==
    LET m == form[f].mint IN
    /\ OnStage(f, "away") /\ form[f].status = "success" /\ m \in agentRow
    /\ runtimeKey' = runtimeKey \cup {m}
    /\ UNCHANGED <<OfMcp, form, mint, agentRow, manifest, OfRecords, onboardingTroubles>>

\* The wallet refuses, waiting fails, a request fails before its write or its
\* answer is lost: the page shows an error and forgets the mint.
PageFails(f) ==
    /\ form[f].stage # "away" /\ Snag
    /\ Shown(f, "error")
    /\ UNCHANGED <<OfMcp, mint, OfAgents, OfRecords>>

-----------------------------------------------------------------------------
(***************************************************************************)
(* POST agent-onboarding/finalize, step by step, and the sync.             *)
(***************************************************************************)
\* The intent is the owner's, and active, or completed with this agent; the
\* receipt and ownerOf are read from the chain.
CheckIntent(f) ==
    LET i == form[f].intent
        fits == IF intent[i].status = "completed" THEN intent[i].agent = form[f].mint ELSE IsActive(i)
    IN
    /\ OnStage(f, "check")
    /\ IF fits /\ mint[form[f].mint].state = "mined" THEN Steps(f, "complete") ELSE Shown(f, "error")
    /\ UNCHANGED <<OfMcp, mint, OfAgents, OfRecords, onboardingTroubles>>

\* Mutant: the update does not ask for status 'draft'.
CompletableAgain(i) == intent[i].status # "none"

\* completeRegistrationIntent: UPDATE ... WHERE status = 'draft'.
Completable(i) == intent[i].status = "draft"

CompleteIntent(f) ==
    LET i == form[f].intent IN
    /\ OnStage(f, "complete")
    /\ IF Completable(i)
       THEN /\ intent' = [intent EXCEPT ![i] = [@ EXCEPT !.status = "completed",
                                                         !.agent = form[f].mint]]
            /\ Steps(f, "mark")
       ELSE /\ UNCHANGED intent
            /\ IF intent[i].agent = form[f].mint THEN Steps(f, "mark") ELSE Shown(f, "error")
    /\ UNCHANGED <<draft, mint, OfAgents, OfRecords, onboardingTroubles>>

MarkDraft(f) ==
    /\ OnStage(f, "mark")
    /\ draft' = [draft EXCEPT ![IntentOf(f).draft] = [status |-> "minted", agent |-> form[f].mint]]
    /\ Steps(f, "manifest")
    /\ UNCHANGED <<intent, mint, OfAgents, OfRecords, onboardingTroubles>>

UpsertManifest(f) ==
    /\ OnStage(f, "manifest")
    /\ manifest' = manifest \cup {form[f].mint}
    /\ Steps(f, "bind")
    /\ UNCHANGED <<OfMcp, mint, agentRow, runtimeKey, OfRecords, onboardingTroubles>>

\* Mutant: the receipt's status is not looked at.
AnyReceiptOfMint(m) == mint[m].state \in {"mined", "reverted"}

\* syncErc8004Identity: the receipt is a success and has the mint event.
MintIsSuccess(m) == mint[m].state = "mined"

\* POST identity/sync and register/sync, by whoever knows the transaction; with
\* a draft's write token the draft is patched too, and an error ignored.
SyncIdentity(m) ==
    /\ MintIsSuccess(m)
    /\ agentRow' = agentRow \cup {m}
    /\ \/ UNCHANGED draft
       \/ \E f \in Forms :
              /\ form[f].token
              /\ draft' = [draft EXCEPT ![form[f].draft] = [status |-> "minted", agent |-> m]]
    /\ UNCHANGED <<intent, form, mint, manifest, runtimeKey, OfRecords, onboardingTroubles>>

-----------------------------------------------------------------------------
OnboardingNext ==
    \/ \E i \in Intents :
           \/ IntentExpires(i) \/ \E d \in Drafts : StartAgentBundle(i, d)
           \/ \E m \in Identities : CreateAgentRuntimeKey(i, m)
           \/ \E f \in Forms : LoadIntent(f, i)
    \/ \E f \in Forms :
           \/ EditUri(f) \/ SubmitRegister(f) \/ SeeReceipt(f) \/ PatchDraft(f) \/ BindAgent(f)
           \/ RetryBinding(f) \/ CreateKeyOnPage(f) \/ PageFails(f)
           \/ CheckIntent(f) \/ CompleteIntent(f) \/ MarkDraft(f) \/ UpsertManifest(f)
           \/ \E d \in Drafts : CreateDraft(f, d)
           \/ \E m \in Identities : SignRegister(f, m)
    \/ \E m \in Identities : RegisterIsMined(m) \/ SyncIdentity(m)

OnboardingSpec == OnboardingInit /\ [][OnboardingNext]_onboardingVars

-----------------------------------------------------------------------------
\* However many tabs open one registration link, and however often each mints,
\* an intent's draft is marked with the agent that completed the intent and
\* with no other (finalize/route.ts, completeRegistrationIntent).
DraftFollowsIntent ==
    \A i \in Intents :
        LET d == intent[i].draft IN
        d # NoDraft /\ draft[d].status = "minted"
        => intent[i].status = "completed" /\ draft[d].agent = intent[i].agent

\* What the Console holds of an agent (a row, a manifest, a key, a draft
\* marked with it) is of an identity whose mint succeeded.
AgentsAreMinted ==
    /\ \A m \in agentRow \cup manifest \cup runtimeKey : mint[m].state = "mined"
    /\ \A d \in Drafts : draft[d].status = "minted" => mint[draft[d].agent].state = "mined"

\* Does not hold: after a mint whose draft or intent could not be updated the
\* page mints another identity.
OneIdentityPerDraft ==
    \A m, n \in Identities :
        mint[m].state = "mined" /\ mint[n].state = "mined" /\ mint[m].uri = mint[n].uri
        /\ mint[m].uri \in Drafts => m = n

\* Does not hold: a retry in one tab marks the record another tab wrote.
RecordIsTrue == record.binding = "created" => record.agent \in bound
=============================================================================
