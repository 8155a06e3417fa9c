----------------------------- MODULE MCConsole -----------------------------
(***************************************************************************)
(* Model checking the Console and the indexer.  The components below share *)
(* no variable: a behaviour is one of them at work (focus, chosen at the   *)
(* start) while the others rest, so that the run explores the sum of their *)
(* states and not the product.                                             *)
(***************************************************************************)
EXTENDS JobMirror, JobCreation, A2AJobs, Validations, Indexer, EscrowPages,
        GoldskyReads, AgentDirectory, AgentPresence, TLC

CONSTANTS w1, w2, t3, u1, u2, u3, theme1, theme2

MCClient     == [j \in Jobs |-> w1]
MCController == [a \in Agents |-> w2]
MCMintedFor  == [a \in ChainAgents |-> w1]
MCFirst      == [side \in Sides |-> IF side = "buyer" THEN w1 ELSE w2]
MCTxNames    == [t \in CreateTxs |-> IF t = t3 THEN [side \in Sides |-> w1] ELSE MCFirst]
MCUriKind    == [a \in Entities |-> CASE a = u1 -> "hosted" [] a = u2 -> "pointer" [] OTHER -> "profile"]
MCClaimedId  == [a \in Entities |-> IF a = u1 THEN u2 ELSE a]
MCOfTheme    == (theme1 :> {u1, u2}) @@ (theme2 :> {u2})

VARIABLE focus

vars == <<focus, mirrorVars, creationVars, a2aVars, validationVars, indexerVars,
          escrowVars, goldskyVars, directoryVars, presenceVars>>

Init ==
    /\ focus \in {"mirror", "creation", "peers", "validations", "indexer",
                  "jobs", "hire", "feed", "reads", "manifests", "registry", "lists",
                  "webhooks", "standing", "pill", "strip", "page"}
    /\ MirrorInit /\ CreationInit /\ A2AInit /\ ValidationInit /\ IndexerInit
    /\ EscrowInit /\ GoldskyInit /\ DirectoryInit /\ PresenceInit

OthersRest ==
    /\ UNCHANGED focus
    /\ IF focus = "mirror" THEN TRUE ELSE UNCHANGED mirrorVars
    /\ IF focus = "creation" THEN TRUE ELSE UNCHANGED creationVars
    /\ IF focus \in {"peers", "webhooks"} THEN TRUE ELSE UNCHANGED a2aVars
    /\ IF focus = "validations" THEN TRUE ELSE UNCHANGED validationVars
    /\ IF focus = "indexer" THEN TRUE ELSE UNCHANGED indexerVars
    /\ IF focus \in {"jobs", "hire", "feed"} THEN TRUE ELSE UNCHANGED escrowVars
    /\ IF focus = "reads" THEN TRUE ELSE UNCHANGED goldskyVars
    /\ IF focus \in {"manifests", "registry", "lists", "standing"} THEN TRUE ELSE UNCHANGED directoryVars
    /\ IF focus \in {"pill", "strip", "page"} THEN TRUE ELSE UNCHANGED presenceVars

MirrorAtWork      == focus = "mirror" /\ MirrorNext /\ OthersRest
CreationAtWork    == focus = "creation" /\ CreationNext /\ OthersRest
PeersAtWork       == focus \in {"peers", "webhooks"} /\ A2ANext /\ OthersRest
ValidationsAtWork == focus = "validations" /\ ValidationNext /\ OthersRest
IndexerAtWork     == focus = "indexer" /\ IndexerNext /\ OthersRest
JobPagesAtWork    == focus = "jobs" /\ JobNext /\ OthersRest
HirePageAtWork    == focus = "hire" /\ HireNext /\ OthersRest
FeedAtWork        == focus = "feed" /\ (FeedNext \/ JobNext) /\ OthersRest
ReadsAtWork       == focus = "reads" /\ GoldskyNext /\ OthersRest
ManifestsAtWork   == focus = "manifests" /\ ManifestNext /\ OthersRest
RegistryAtWork    == focus = "registry" /\ RegistryNext /\ OthersRest
ListsAtWork       == focus = "lists" /\ (ListNext \/ ManifestNext) /\ OthersRest
StandingAtWork    == focus = "standing" /\ DealNext /\ OthersRest
PillAtWork        == focus = "pill" /\ (PillNext \/ ServerNext) /\ OthersRest
StripAtWork       == focus = "strip" /\ (StripNext \/ ServerNext) /\ OthersRest
AgentPageAtWork   == focus = "page" /\ PageNext /\ OthersRest

Next ==
    \/ MirrorAtWork \/ CreationAtWork \/ PeersAtWork \/ ValidationsAtWork
    \/ IndexerAtWork \/ JobPagesAtWork \/ HirePageAtWork \/ FeedAtWork
    \/ ReadsAtWork \/ ManifestsAtWork \/ RegistryAtWork \/ ListsAtWork \/ StandingAtWork \/ PillAtWork
    \/ StripAtWork \/ AgentPageAtWork

Spec == Init /\ [][Next]_vars

------------------------------------------------------------------------------
\* Every component's variables have their types, while it is at work.
TypeOK ==
    CASE focus = "mirror"      -> MirrorTypeOK
      [] focus = "creation"    -> CreationTypeOK
      [] focus \in {"peers", "webhooks"} -> A2ATypeOK
      [] focus = "validations" -> ValidationTypeOK
      [] focus = "indexer"     -> IndexerTypeOK
      [] focus = "reads"       -> GoldskyTypeOK
      [] focus \in {"jobs", "hire", "feed"}  -> EscrowTypeOK
      [] focus \in {"pill", "strip", "page"} -> PresenceTypeOK
      [] OTHER                 -> DirectoryTypeOK

(***************************************************************************)
(* What is stored is true of the chain: no job row, detail page, peer job  *)
(* or page runs ahead of it; a job names who its agents were registered to *)
(* when it was prepared; what the indexer's readers are told was, or is,   *)
(* all of the chain up to some block; a manifest is its owner's, a list    *)
(* has every agent it should, a subscriber is told what has happened, and  *)
(* a presence row is of the agent whose key it was sent with.              *)
(***************************************************************************)
RecordsAreTrue ==
    CASE focus = "mirror"                  -> MirrorNeverLeads /\ DetailNeverLeads
      [] focus = "creation"                -> HiresNameTheRegistered
      [] focus = "peers"                   -> PeerJobNeverLeads
      [] focus = "webhooks"                -> HooksTellTheTruth
      [] focus = "standing"                -> ReadersAgree
      [] focus \in {"jobs", "hire", "feed"} -> PagesNeverLead
      [] focus = "indexer"                 -> NothingSkipped /\ ProjectionsAreExact
      [] focus = "reads"                   -> AnswersAreOfOnePast
      [] focus \in {"manifests", "lists"}  -> ManifestsAreOwners /\ ListsAreWhole
      [] focus \in {"pill", "strip"}       -> PresenceIsItsOwn
      [] OTHER                             -> TRUE

(***************************************************************************)
(* What two racing requests both want is done for one of them: one reject  *)
(* transaction at a time, feedback once and for a job that was completed,  *)
(* one local job of a preparation, one validation request and answer; the  *)
(* file of registered agents has one entry for each.                       *)
(***************************************************************************)
RacesHaveOneWinner ==
    CASE focus = "mirror"      -> RejectsAreSerial /\ FeedbackIsEarned
      [] focus = "creation"    -> PreparationBecomesOneJob
      [] focus = "validations" -> ValidatedOnce
      [] focus = "registry"    -> RegistryIsSound
      [] OTHER                 -> TRUE

(***************************************************************************)
(* A page shows what the chain has acknowledged and advises only what can  *)
(* be done, and a route accepts what the detail of a job offers; an       *)
(* agent's standing follows what became of its jobs, one shown alive was   *)
(* heard of, and a page shows the agent it is opened for.                  *)
(***************************************************************************)
GuidanceIsTrue ==
    CASE focus \in {"jobs", "hire", "feed"} -> AcknowledgedIsShown /\ AdviceIsPossible
      [] focus = "mirror"                   -> OfferedIsAccepted
      [] focus = "standing"                 -> StandingFollowsWork
      [] focus \in {"pill", "strip"}        -> AliveWasHeard
      [] focus = "page"                     -> PageShowsItsAgent
      [] OTHER                              -> TRUE

(***************************************************************************)
(* What is known of a job is not taken back: a transaction hash once       *)
(* attached to a stage of a local job is not replaced, and the Goldsky     *)
(* reader shows nobody an earlier status of a job than before.             *)
(***************************************************************************)
NothingIsUndone == HashesAreFinal /\ JobsNeverGoBack

------------------------------------------------------------------------------
(***************************************************************************)
(* What is left out of a state's fingerprint: the components at rest, who  *)
(* of two interchangeable callers is doing what (Both: of two, the set of  *)
(* what they do tells), and what no action looks at any more.              *)
(***************************************************************************)
Both(f) == {f[x] : x \in DOMAIN f}

MirrorView ==
    LET submitted == row.tx["submit"] # 0  completed == row.tx["complete"] # 0 IN
    <<[row EXCEPT !.worker = IF row.status = "claimed" THEN @ ELSE NoWorker,
                  !.deliverable = IF submitted THEN 0 ELSE @,
                  !.reason = IF completed THEN 0 ELSE @],
      [onchainJob EXCEPT !.deliverable = IF submitted THEN 0 ELSE @,
                         !.reason = IF completed THEN 0 ELSE @],
      mined, rejectTx, Both(call), feedback, mirrorCrashes>>

IndexerView ==
    <<chain, registered, IF cycle.stage \in {"fetch", "store"} THEN filter ELSE {},
      cycle.stage, cycle.upTo, Len(cycle.todo), storedVars, troubles>>

View ==
    CASE focus = "mirror"      -> <<focus, MirrorView>>
      [] focus = "creation"    -> <<focus, registeredTo, prep, job, createTx, Both(post), creationCrashes>>
      [] focus = "peers"       -> <<focus, peerJob, peerEscrow, Both(peerRequest), winners, patches>>
      [] focus = "webhooks"    -> <<focus, peerJob, Both(peerRequest), winners, hook, Both(delivery)>>
      [] focus = "validations" -> <<focus, vrow, registry, sent, Both(worker), lateErrors>>
      [] focus = "indexer"     -> <<focus, IndexerView>>
      [] focus = "reads"       -> <<focus, goldskyVars>>
      [] focus = "manifests"   -> <<focus, tokenOwner, everOwned, described, Both(publication), directoryTroubles>>
      [] focus = "lists"       -> <<focus, manifestVars, listVars, directoryTroubles>>
      [] focus = "registry"    -> <<focus, file, Both(filing), approvals>>
      [] focus = "standing"    -> <<focus, deal>>
      [] focus = "pill"        -> <<focus, clock, presence, told, Both(beat), pill, presenceTroubles>>
      [] focus = "strip"       -> <<focus, clock, presence, told, Both(beat), strip, presenceTroubles>>
      [] focus = "page"        -> <<focus, page, presenceTroubles>>
      [] OTHER                 -> <<focus, escrowVars>>

(***************************************************************************)
(* Bounds.  The wallet's first transactions are confirmed before the job   *)
(* is funded; the provider's tab rests while an agent acts on advice, and  *)
(* all tabs while a page polls; the Console has a manifest before the      *)
(* chain has a log, and both before the first read.  Manifests are         *)
(* published for one agent, and the file holds one; while lists are        *)
(* watched a manifest changes only as the seen owners are the true ones,   *)
(* one publication at a time is made, by one wallet, and goes through at   *)
(* once.  The beats tell of one agent that is neither idle nor offline,    *)
(* two answers are on their way to the strip, and an event says error or   *)
(* that it is a heartbeat.  Nobody subscribes but where the deliveries are *)
(* watched, of a job off the chain and one request at a time.              *)
(***************************************************************************)
First(S) == CHOOSE x \in S : TRUE

Bound ==
    CASE focus = "mirror" ->
             /\ <<"approve", 2>> \in mined' => onchainJob'.status = "Open"
             /\ onchainJob'.status # "Open" => 0 \notin {row'.tx["set_budget"], row'.tx["approve"]}
      [] focus = "jobs" ->
             \A a \in Advisees : bundle'[a].step # "none" => \A t \in ProviderTabs : tab'[t].flow = NoFlow
      [] focus = "peers" -> hook' = "none"
      [] focus = "webhooks" ->
             /\ ~peerJob'.onchain
             /\ Cardinality({r \in Handlers : peerRequest'[r] # Unhandled}) <= 1
      [] focus = "feed" -> \A t \in Tabs : tab'[t] = tab[t]
      [] focus = "reads" ->
             /\ w2 \notin manifests'
             /\ manifests = {} => logs' = <<>>
             /\ \A r \in Readers : request'[r].ask # "" /\ request[r].ask = "" => manifests # {}
      [] focus = "manifests" ->
             /\ \A a \in Entities \ {u1} : tokenOwner'[a] = NoSigner
             /\ \A p \in Publications : publication'[p].stage = "idle" \/ publication'[p].agent = u1
      [] focus = "registry" -> \A e \in file' : e.agent = u1
      [] focus = "lists" ->
             /\ \A a \in Entities : tokenOwner'[a] # w2
             /\ described'[u3] = NoManifest
             /\ described' # described => \A a \in Entities : tokenOwner[a] = seenOwner[a]
             /\ \A p \in Publications : publication[p].stage # "idle" => publication' # publication
             /\ \A p \in Publications : publication'[p].stage = "idle" \/
                    /\ p = First(Publications) /\ publication'[p].signer = w1
                    /\ publication'[p].how = "manifest"
      [] focus \in {"pill", "strip"} ->
             /\ \A b \in Beats : beat'[b].stage \in {"presence", "event"} =>
                    beat'[b].said.of = u1 /\ beat'[b].said.status \notin {"idle", "offline"}
             /\ Cardinality(strip'.flights) <= 2
             /\ \A b \in Beats : beat'[b].stage = "event" =>
                    beat'[b].said.status = IF beat'[b].said.by = NoBeing THEN "heartbeat" ELSE "error"
      [] OTHER -> TRUE
=============================================================================
