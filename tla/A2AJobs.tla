------------------------------- MODULE A2AJobs -------------------------------
(***************************************************************************)
(* A job between agents (lib/a2a/jobs.ts and the routes api/a2a/jobs): the *)
(* row of a2a_jobs, claimed, submitted and completed by requests of agents *)
(* with an API key.  Each request reads the row and later updates it by id *)
(* alone, whatever has happened to the row in between.                     *)
(*                                                                         *)
(* A job that lives in the ERC-8183 escrow is also patched by the indexer, *)
(* one lifecycle event after the other and some of them again (Indexer).   *)
(*                                                                         *)
(* What happens to the job is posted to a subscriber (lib/a2a/webhooks.ts) *)
(* by deliveries nobody waits for; the timers of their retries live in the *)
(* memory of the server.                                                   *)
(***************************************************************************)
EXTENDS Naturals, FiniteSets

CONSTANTS
    Peers,       \* agents with an API key
    NoPeer,
    Handlers,    \* requests under way at the same time
    Deliveries,  \* bound: events dispatched to a subscriber
    MaxRetries,  \* MAX_RETRIES
    MaxPatches   \* bound: patches of the indexer

ASSUME A2AAssumption ==
    NoPeer \notin Peers /\ MaxPatches \in Nat /\ MaxRetries \in Nat \ {0}

VARIABLES
    peerJob,     \* the row of a2a_jobs
    peerEscrow,      \* status of the job on chain
    peerRequest,     \* the requests, with what they have read
    winners,     \* agents a claim has been confirmed to
    patches,     \* how often the indexer has patched the row
    hook,        \* the subscription of an agent
    delivery     \* the posts of its events, and what a2a_webhook_deliveries says of each

hookVars == <<hook, delivery>>
a2aVars  == <<peerJob, peerEscrow, peerRequest, winners, patches, hookVars>>

PeerRank == [Open |-> 0, Funded |-> 1, Submitted |-> 2, Completed |-> 3, Rejected |-> 4, Expired |-> 5]

Unhandled == [stage |-> "away", peer |-> NoPeer, unclaimed |-> FALSE]

\* known: does this attempt know the id of the record?  taken: how often the
\* subscriber has answered ok.
Undispatched == [event |-> "none", stage |-> "none", attempt |-> 0, posts |-> 0, known |-> FALSE,
                 record |-> "none", taken |-> 0]

A2ATypeOK ==
    /\ peerJob \in [status : {"none", "open", "claimed", "submitted", "completed"},
                    claimedBy : Peers \cup {NoPeer}, onchain : BOOLEAN,
                    settlement : (0 .. 5) \cup {9}, submitTx : BOOLEAN]
    /\ peerEscrow \in DOMAIN PeerRank
    /\ peerRequest \in [Handlers -> [stage : {"away", "claim", "submit", "verify submit", "escrow submit",
                                          "verify complete", "complete"},
                                 peer : Peers \cup {NoPeer}, unclaimed : BOOLEAN]]
    /\ winners \subseteq Peers /\ patches \in 0 .. MaxPatches
    /\ hook \in {"none", "active", "deleted"}
    /\ delivery \in [Deliveries -> [event : {"none", "job.created", "job.claimed", "job.submitted"},
                                    stage : {"none", "record", "post", "timer", "over"},
                                    attempt : 0 .. MaxRetries, posts : 0 .. MaxRetries, known : BOOLEAN,
                                    record : {"none", "pending", "delivered", "failed", "retrying"},
                                    taken : 0 .. MaxRetries]]

A2AInit ==
    /\ peerJob = [status |-> "none", claimedBy |-> NoPeer, onchain |-> FALSE, settlement |-> 9,
                  submitTx |-> FALSE]
    /\ peerEscrow = "Open"
    /\ peerRequest = [r \in Handlers |-> Unhandled]
    /\ winners = {} /\ patches = 0
    /\ hook = "none" /\ delivery = [d \in Deliveries |-> Undispatched]

RowOnly     == UNCHANGED <<peerEscrow, winners, patches>>
HandlerOnly == UNCHANGED <<peerJob, peerEscrow, winners, patches, hookVars>>
Now(r, s)   == peerRequest' = [peerRequest EXCEPT ![r].stage = s]
Done(r)     == peerRequest' = [peerRequest EXCEPT ![r] = Unhandled]
Reads(r, p, s) ==
    peerRequest' = [peerRequest EXCEPT ![r] =
        [stage |-> s, peer |-> p, unclaimed |-> peerJob.claimedBy = NoPeer]]

\* dispatchWebhookEvent: a delivery to each active subscription of the event.
Dispatched(event) ==
    /\ IF hook = "active"
       THEN \E d \in Deliveries :
               /\ delivery[d] = Undispatched
               /\ delivery' = [delivery EXCEPT ![d] =
                     [@ EXCEPT !.event = event, !.stage = "record", !.attempt = 1]]
       ELSE UNCHANGED delivery
    /\ UNCHANGED hook

\* createA2AJob; a job of the escrow gets its on-chain id from outside this code.
CreateA2AJob(onchain) ==
    /\ peerJob.status = "none"
    /\ peerJob' = [peerJob EXCEPT !.status = "open", !.onchain = onchain]
    /\ Dispatched("job.created")
    /\ RowOnly /\ UNCHANGED peerRequest

\* claimA2AJob: only a job that is not open any more and belongs to another is refused.
PeerClaimable(p) == peerJob.status = "open" \/ peerJob.claimedBy = p

ReadForClaim(r, p) ==
    /\ peerRequest[r] = Unhandled /\ peerJob.status # "none"
    /\ PeerClaimable(p)
    /\ Reads(r, p, "claim") /\ HandlerOnly

WriteClaim(r) ==
    /\ peerRequest[r].stage = "claim"
    /\ peerJob' = [peerJob EXCEPT !.status = "claimed", !.claimedBy = peerRequest[r].peer]
    /\ winners' = winners \cup {peerRequest[r].peer}
    /\ Dispatched("job.claimed")
    /\ Done(r) /\ UNCHANGED <<peerEscrow, patches>>

MayDeliver(p) == peerJob.claimedBy \in {NoPeer, p}

\* POST /submit: a job of the escrow is verified on chain first.
ReadForSubmit(r, p) ==
    /\ peerRequest[r] = Unhandled /\ peerJob.status # "none"
    /\ MayDeliver(p)
    /\ Reads(r, p, IF peerJob.onchain THEN "verify submit" ELSE "submit") /\ HandlerOnly

Claims(r) == IF peerRequest[r].unclaimed THEN peerRequest[r].peer ELSE peerJob.claimedBy

\* submitA2AJob: the status is not looked at.
WriteSubmit(r) ==
    /\ peerRequest[r].stage = "submit"
    /\ peerJob' = [peerJob EXCEPT !.status = "submitted", !.claimedBy = Claims(r)]
    /\ Dispatched("job.submitted")
    /\ Done(r) /\ RowOnly

\* handleOnchainSubmit: the receipt has the JobSubmitted event of the job, and
\* the job is Submitted.
TrustsTheCaller  == TRUE     \* a mutant
SubmitIsProven   == peerEscrow = "Submitted"
CompleteIsProven == peerEscrow = "Completed"

VerifySubmit(r) ==
    /\ peerRequest[r].stage = "verify submit"
    /\ IF SubmitIsProven THEN Now(r, "escrow submit") ELSE Done(r)
    /\ HandlerOnly

WriteEscrowSubmit(r) ==
    /\ peerRequest[r].stage = "escrow submit"
    /\ peerJob' = [peerJob EXCEPT !.status = "submitted", !.claimedBy = Claims(r), !.submitTx = TRUE,
                                  !.settlement = PeerRank["Submitted"]]
    /\ Done(r) /\ RowOnly /\ UNCHANGED hookVars

\* isSubmittedOrLater
SubmittedOrLater == peerJob.submitTx \/ peerJob.settlement \in 2 .. 5

ReadForComplete(r, p) ==
    /\ peerRequest[r] = Unhandled /\ peerJob.status # "none"
    /\ peerJob.onchain /\ SubmittedOrLater
    /\ Reads(r, p, "verify complete") /\ HandlerOnly

VerifyComplete(r) ==
    /\ peerRequest[r].stage = "verify complete"
    /\ IF CompleteIsProven THEN Now(r, "complete") ELSE Done(r)
    /\ HandlerOnly

WriteComplete(r) ==
    /\ peerRequest[r].stage = "complete"
    /\ peerJob' = [peerJob EXCEPT !.status = "completed", !.settlement = PeerRank["Completed"]]
    /\ Done(r) /\ RowOnly /\ UNCHANGED hookVars

\* A database error or the end of the process leaves the row as it is.
Abandon(r) ==
    /\ peerRequest[r] # Unhandled
    /\ Done(r) /\ HandlerOnly

EscrowMoves ==
    /\ peerJob.onchain
    /\ peerEscrow' \in CASE peerEscrow = "Open" -> {"Funded", "Expired"}
                     [] peerEscrow = "Funded" -> {"Submitted", "Rejected", "Expired"}
                     [] peerEscrow = "Submitted" -> {"Completed", "Rejected"}
                     [] OTHER -> {}
    /\ UNCHANGED <<peerJob, peerRequest, winners, patches, hookVars>>

\* lifecycleUpdatePayload for an event the chain has had.
Patched(e) ==
    [peerJob EXCEPT !.settlement = PeerRank[e],
                    !.submitTx = @ \/ e = "Submitted",
                    !.status = IF e = "Submitted" THEN "submitted" ELSE @]

\* The synced events of a job; those that every rejected job has had.
Happened ==
    {"Open"} \cup (IF peerEscrow \in {"Open", "Expired"} THEN {} ELSE {"Funded"})
             \cup (IF peerEscrow \in {"Submitted", "Completed"} THEN {"Submitted"} ELSE {})
             \cup (IF peerEscrow = "Completed" THEN {"Completed"} ELSE {})

IndexerPatches(e) ==
    /\ peerJob.onchain /\ e \in Happened
    /\ patches < MaxPatches
    /\ patches' = patches + 1
    /\ peerJob' = Patched(e)
    /\ UNCHANGED <<peerEscrow, peerRequest, winners, hookVars>>

------------------------------------------------------------------------------
\* The subscription, and the deliveries.
HooksOnly == UNCHANGED <<peerJob, peerEscrow, peerRequest, winners, patches>>

\* createWebhook, for all three events of a job; once in a behaviour.
CreateWebhook ==
    /\ hook = "none" /\ hook' = "active"
    /\ UNCHANGED delivery /\ HooksOnly

\* deleteWebhook; a delivery has its own copy of the row and goes on.
DeleteWebhook ==
    /\ hook = "active" /\ hook' = "deleted"
    /\ UNCHANGED delivery /\ HooksOnly

DeliveryGoes(d, x) == delivery' = [delivery EXCEPT ![d] = x] /\ UNCHANGED hook /\ HooksOnly

\* The record of a first attempt; the insert may fail, or its answer be lost.
RecordDelivery(d) ==
    /\ delivery[d].stage = "record"
    /\ \E written \in {"none", "pending"}, known \in BOOLEAN :
          /\ known => written = "pending"
          /\ DeliveryGoes(d, [delivery[d] EXCEPT !.stage = "post", !.known = known, !.record = written])

\* The update of a record whose id this attempt knows; it may fail unseen.
Notes(x, status) == {x} \cup (IF x.known THEN {[x EXCEPT !.record = status]} ELSE {})

\* Mutant: whatever was answered.
TriesOnAnyAnswer(answer, attempt) == attempt < MaxRetries

\* A post that was answered is repeated on a 5xx.
TriesAgain(answer, attempt) == answer = "5xx" /\ attempt < MaxRetries

\* scheduleRetry: deliverWebhook again, without the id of the record.
Rescheduled(x, again) ==
    IF again THEN [x EXCEPT !.stage = "timer", !.attempt = @ + 1, !.known = FALSE]
    ELSE [x EXCEPT !.stage = "over"]

Posted(d) == [delivery[d] EXCEPT !.posts = @ + 1]

PostAnswered(d) ==
    /\ delivery[d].stage = "post"
    /\ \E answer \in {"ok", "4xx", "5xx"} :
         LET x == [Posted(d) EXCEPT !.taken = IF answer = "ok" THEN @ + 1 ELSE @] IN
         \E noted \in Notes(x, IF answer = "ok" THEN "delivered" ELSE "failed") :
            DeliveryGoes(d, Rescheduled(noted, TriesAgain(answer, x.attempt)))

\* No answer within ten seconds, or none at all.
PostThrows(d) ==
    /\ delivery[d].stage = "post"
    /\ LET x == Posted(d) IN
       \E noted \in Notes(x, IF x.attempt >= MaxRetries THEN "failed" ELSE "retrying") :
          DeliveryGoes(d, Rescheduled(noted, x.attempt < MaxRetries))

TimerFires(d) ==
    /\ delivery[d].stage = "timer"
    /\ DeliveryGoes(d, [delivery[d] EXCEPT !.stage = "post"])

\* The server ends, and with it what is under way and the timers.
ServerEnds ==
    /\ \E d \in Deliveries : delivery[d].stage \in {"record", "post", "timer"}
    /\ delivery' = [d \in Deliveries |->
          [delivery[d] EXCEPT !.stage = IF @ = "none" THEN "none" ELSE "over"]]
    /\ UNCHANGED hook /\ HooksOnly

HookNext ==
    \/ CreateWebhook \/ DeleteWebhook \/ ServerEnds
    \/ \E d \in Deliveries : RecordDelivery(d) \/ PostAnswered(d) \/ PostThrows(d) \/ TimerFires(d)

A2ANext ==
    \/ \E b \in BOOLEAN : CreateA2AJob(b)
    \/ EscrowMoves \/ HookNext
    \/ \E e \in DOMAIN PeerRank : IndexerPatches(e)
    \/ \E r \in Handlers :
          \/ WriteClaim(r) \/ WriteSubmit(r) \/ VerifySubmit(r) \/ WriteEscrowSubmit(r)
          \/ VerifyComplete(r) \/ WriteComplete(r) \/ Abandon(r)
          \/ \E p \in Peers : ReadForClaim(r, p) \/ ReadForSubmit(r, p) \/ ReadForComplete(r, p)

A2ASpec == A2AInit /\ [][A2ANext]_a2aVars

(***************************************************************************)
(* The row of an escrowed job is never ahead of the chain: it says         *)
(* submitted or completed only when the chain has said so, however the     *)
(* requests and the indexer's patches interleave.                          *)
(***************************************************************************)
PeerJobNeverLeads ==
    peerJob.onchain =>
        /\ peerJob.settlement = PeerRank["Submitted"] => peerEscrow \in {"Submitted", "Completed", "Rejected"}
        /\ peerJob.status = "completed" \/ peerJob.settlement = PeerRank["Completed"] => peerEscrow = "Completed"

(***************************************************************************)
(* A subscriber is told what happened, when it had happened, and no more   *)
(* of it once it has answered ok; a record says "delivered" only of a post *)
(* that was taken, though its update may fail and no retry knows its id    *)
(* (webhooks.ts:137-244).                                                  *)
(***************************************************************************)
HooksTellTheTruth ==
    \A d \in Deliveries :
        LET x == delivery[d] IN
        /\ x.taken <= 1 /\ (x.taken = 1 => x.stage = "over")
        /\ x.posts <= MaxRetries
        /\ x.record = "delivered" => x.taken = 1
        /\ x.event = "job.claimed" => winners # {}
        /\ x.event = "job.submitted" => peerJob.claimedBy # NoPeer

\* "claimA2AJob locks job to first agent and rejects others"
\* (lib/a2a/jobs.test.ts:151): a claim is confirmed to one agent only.
OneWinner == Cardinality(winners) <= 1

\* What is recorded of a settled job is final.
CompletedIsFinal == [][peerJob.status = "completed" => peerJob'.status = "completed"]_a2aVars
==============================================================================
