------------------------------ MODULE PaidJobs ------------------------------
(***************************************************************************)
(* An off-chain agent job of the Console (lib/agent-jobs/store.ts) and the *)
(* x402 payment that settles it: POST /api/agent-jobs/[jobId]/settle wraps *)
(* its handler in withX402 (lib/x402/middleware.ts), which charges the     *)
(* buyer through Circle Gateway and keeps x402_gateway_payments and        *)
(* x402_access_sessions.                                                   *)
(*                                                                         *)
(* One job with its buyer.  A payment is a signed proof.  The functions of *)
(* the database are single steps, except the claim of an access session:   *)
(* its SELECT locks nothing, so that two claims may both find no session.  *)
(*                                                                         *)
(* agent_jobs also holds the jobs of the ERC-8183 escrow (JobMirror): here *)
(* one appears with the status its own routes have given it, and nothing   *)
(* of this module may touch it.                                            *)
(***************************************************************************)
EXTENDS Naturals, FiniteSets

CONSTANTS
    Proofs,      \* proofs the buyer signs for this job
    Settlers,    \* settle requests under way at the same time
    Hands,       \* workers
    NoProof,
    NoHand,
    MaxSettleCrashes

ASSUME PaidJobsAssumption ==
    /\ NoProof \notin Proofs /\ NoHand \notin Hands
    /\ IsFiniteSet(Settlers) /\ MaxSettleCrashes \in Nat

VARIABLES
    agentJob,    \* the row of agent_jobs
    lapsed,      \* has claim_expires_at passed?
    proofRow,    \* x402_gateway_payments
    charged,     \* proofs Circle has settled
    sessions,    \* active access sessions of the buyer for this job
    settler,     \* the settle requests
    served,      \* how often a proof has unlocked the handler
    settleCrashes

paidVars == <<agentJob, lapsed, proofRow, charged, sessions, settler, served, settleCrashes>>

Away  == [stage |-> "away", proof |-> NoProof]
NoRowYet == [status |-> "none", claimed |-> FALSE, consumed |-> FALSE]

PaidTypeOK ==
    /\ agentJob \in [mode : {"x402_offchain", "erc8183_escrow"},
                     status : {"none", "created", "claimed", "running", "submitted", "verified",
                               "failed", "settlement_pending", "settled"},
                     hand : Hands \cup {NoHand}, paidBy : Proofs \cup {NoProof}]
    /\ lapsed \in BOOLEAN
    /\ proofRow \in [Proofs -> [status : {"none", "verified", "settled", "failed"},
                                claimed : BOOLEAN, consumed : BOOLEAN]]
    /\ charged \subseteq Proofs
    /\ sessions \in 0 .. Cardinality(Settlers)
    /\ settler \in [Settlers -> [stage : {"away", "look", "insert", "bind", "claim", "settle",
                                          "record", "consume", "handle", "mark"},
                                 proof : Proofs \cup {NoProof}]]
    /\ served \in [Proofs -> 0 .. 2]
    /\ settleCrashes \in 0 .. MaxSettleCrashes

PaidInit ==
    /\ agentJob = [mode |-> "x402_offchain", status |-> "none", hand |-> NoHand, paidBy |-> NoProof]
    /\ lapsed = FALSE
    /\ proofRow = [p \in Proofs |-> NoRowYet]
    /\ charged = {}
    /\ sessions = 0
    /\ settler = [r \in Settlers |-> Away]
    /\ served = [p \in Proofs |-> 0]
    /\ settleCrashes = 0

-----------------------------------------------------------------------------
(***************************************************************************)
(* The job until it is verified.  Each route is one guarded UPDATE, by the *)
(* agent whose API key was sent.                                           *)
(***************************************************************************)
JobOnly ==
    UNCHANGED <<proofRow, charged, sessions, settler, served, settleCrashes>>

CreateAgentJob ==
    /\ agentJob.status = "none"
    /\ agentJob' = [agentJob EXCEPT !.status = "created"]
    /\ UNCHANGED lapsed /\ JobOnly

\* createLocalErc8183Job; claimed, run and submitted by the routes of the escrow.
EscrowJobAppears ==
    /\ agentJob.status = "none"
    /\ \E s \in {"created", "claimed", "running", "submitted", "settled"} :
         agentJob' = [agentJob EXCEPT !.mode = "erc8183_escrow", !.status = s]
    /\ UNCHANGED lapsed /\ JobOnly

ClaimPasses ==
    /\ agentJob.status = "claimed" /\ ~lapsed
    /\ lapsed' = TRUE
    /\ UNCHANGED agentJob /\ JobOnly

OffChain == agentJob.mode = "x402_offchain"

\* Mutant: any job that is not claimed.
FreeOfBoth == agentJob.status = "created" \/ (agentJob.status = "claimed" /\ lapsed)

Free == OffChain /\ (agentJob.status = "created" \/ (agentJob.status = "claimed" /\ lapsed))

ClaimAgentJob(w) ==
    /\ Free
    /\ agentJob' = [agentJob EXCEPT !.status = "claimed", !.hand = w]
    /\ lapsed' = FALSE
    /\ JobOnly

MarkJobRunning(w) ==
    /\ OffChain /\ agentJob.status = "claimed" /\ agentJob.hand = w
    /\ agentJob' = [agentJob EXCEPT !.status = "running"]
    /\ UNCHANGED lapsed /\ JobOnly

SubmitAgentJob(w) ==
    /\ OffChain /\ agentJob.status \in {"claimed", "running"} /\ agentJob.hand = w
    /\ agentJob' = [agentJob EXCEPT !.status = "submitted"]
    /\ UNCHANGED lapsed /\ JobOnly

VerifyAgentJob ==
    /\ OffChain /\ agentJob.status = "submitted"
    /\ \E verdict \in {"verified", "failed"} :
         agentJob' = [agentJob EXCEPT !.status = verdict]
    /\ UNCHANGED lapsed /\ JobOnly

\* agent_id_mismatch: the worker a request names is the agent of its key.
ActsFor(key, w) == key = w

\* erc8183_jobs_use_erc8183_routes
HasTheseRoutes == agentJob.mode # "erc8183_escrow"

PostClaim(key, w)   == ActsFor(key, w) /\ ClaimAgentJob(w)
PostRunning(key, w) == ActsFor(key, w) /\ HasTheseRoutes /\ MarkJobRunning(w)
PostSubmit(key, w)  == ActsFor(key, w) /\ HasTheseRoutes /\ SubmitAgentJob(w)
PostVerify          == HasTheseRoutes /\ VerifyAgentJob

-----------------------------------------------------------------------------
(***************************************************************************)
(* withX402 around the settle route, await by await.                       *)
(***************************************************************************)
Stands(r, stage) == settler[r].stage = stage
Paying(r)        == settler[r].proof
Moves(r, stage)  == settler' = [settler EXCEPT ![r].stage = stage]
GoesAway(r)      == settler' = [settler EXCEPT ![r] = Away]

\* The route reads the job before it wraps the request; Circle has
\* verified the proof.
BeginSettle(r, p) ==
    /\ Stands(r, "away")
    /\ HasTheseRoutes /\ agentJob.status \in {"verified", "settlement_pending"}
    /\ settler' = [settler EXCEPT ![r] = [stage |-> "look", proof |-> p]]
    /\ UNCHANGED <<agentJob, lapsed, proofRow, charged, sessions, served, settleCrashes>>

\* An active session is answered 409 "already_paid".
LookForSession(r) ==
    /\ Stands(r, "look")
    /\ IF sessions = 0 THEN Moves(r, "insert") ELSE GoesAway(r)
    /\ UNCHANGED <<agentJob, lapsed, proofRow, charged, sessions, served, settleCrashes>>

InsertSession(r) ==
    /\ Stands(r, "insert")
    /\ sessions' = sessions + 1
    /\ Moves(r, "bind")
    /\ UNCHANGED <<agentJob, lapsed, proofRow, charged, served, settleCrashes>>

\* One hour after its claim; no request takes that long.
SessionExpires ==
    /\ sessions > 0
    /\ settler = [r \in Settlers |-> Away]
    /\ sessions' = 0
    /\ UNCHANGED <<agentJob, lapsed, proofRow, charged, settler, served, settleCrashes>>

\* The release ends every active session of this payer and resource.
Releases(r) == sessions' = 0 /\ GoesAway(r)

\* The payer must be the one registered for the agent.
PayerBound(r) ==
    /\ Stands(r, "bind")
    /\ Moves(r, "claim")
    /\ UNCHANGED <<agentJob, lapsed, proofRow, charged, sessions, served, settleCrashes>>

PayerRefused(r) ==
    /\ Stands(r, "bind")
    /\ Releases(r)
    /\ UNCHANGED <<agentJob, lapsed, proofRow, charged, served, settleCrashes>>

\* Mutant: a claim under way is not looked at.
ClaimableInFlight(p) ==
    proofRow[p].status \in {"none", "verified", "failed"} /\ ~proofRow[p].consumed

\* x402_gateway_claim_settlement.
SettlementClaimable(p) ==
    /\ proofRow[p].status \in {"none", "verified", "failed"}
    /\ ~proofRow[p].consumed
    /\ proofRow[p].claimed => proofRow[p].status = "failed"

ClaimSettlement(r) ==
    LET p == Paying(r) IN
    /\ Stands(r, "claim")
    /\ IF SettlementClaimable(p)
       THEN /\ proofRow' = [proofRow EXCEPT ![p] = [@ EXCEPT !.status = "verified", !.claimed = TRUE]]
            /\ Moves(r, "settle")
            /\ UNCHANGED sessions
       ELSE Releases(r) /\ UNCHANGED proofRow
    /\ UNCHANGED <<agentJob, lapsed, charged, served, settleCrashes>>

\* Circle may also say success of a proof it has settled before.
SettleSucceeds(r) ==
    /\ Stands(r, "settle")
    /\ charged' = charged \cup {Paying(r)}
    /\ Moves(r, "record")
    /\ UNCHANGED <<agentJob, lapsed, proofRow, sessions, served, settleCrashes>>

\* The upsert of recordGatewayPayment may fail; its error is swallowed.
Records402(p, status) ==
    \/ proofRow' = [proofRow EXCEPT ![p].status = status]
    \/ UNCHANGED proofRow

\* Mutant: a settlement that is refused is treated like one that succeeded.
SettleFailsGoesOn(r) ==
    /\ Stands(r, "settle")
    /\ Moves(r, "record")
    /\ UNCHANGED <<agentJob, lapsed, proofRow, charged, sessions, served, settleCrashes>>

\* settle() is refused, or throws: then Circle may have taken the payment.
SettleFails(r) ==
    LET p == Paying(r) IN
    /\ Stands(r, "settle")
    /\ \E late \in SUBSET {p} : charged' = charged \cup late
    /\ Records402(p, "failed")
    /\ Releases(r)
    /\ UNCHANGED <<agentJob, lapsed, served, settleCrashes>>

RecordPayment(r) ==
    /\ Stands(r, "record")
    /\ Records402(Paying(r), "settled")
    /\ Moves(r, "consume")
    /\ UNCHANGED <<agentJob, lapsed, charged, sessions, served, settleCrashes>>

\* x402_gateway_consume_payment, then the session is completed.
ConsumePayment(r) ==
    LET p == Paying(r) IN
    /\ Stands(r, "consume")
    /\ IF proofRow[p].consumed
       THEN Releases(r) /\ UNCHANGED <<proofRow, served>>
       ELSE /\ proofRow' = [proofRow EXCEPT ![p].consumed = TRUE]
            /\ served' = [served EXCEPT ![p] = @ + 1]
            /\ Moves(r, "handle")
            /\ UNCHANGED sessions
    /\ UNCHANGED <<agentJob, lapsed, charged, settleCrashes>>

\* The function throws: 500, and the session stays.
ConsumeThrows(r) ==
    /\ Stands(r, "consume")
    /\ GoesAway(r)
    /\ UNCHANGED <<agentJob, lapsed, proofRow, charged, sessions, served, settleCrashes>>

\* The handler; it throws when the job has been settled meanwhile.
MarkJobSettlementPending(r) ==
    /\ Stands(r, "handle")
    /\ IF agentJob.status \in {"verified", "settlement_pending"}
       THEN /\ agentJob' = [agentJob EXCEPT !.status = "settlement_pending"]
            /\ Moves(r, "mark")
       ELSE GoesAway(r) /\ UNCHANGED agentJob
    /\ UNCHANGED <<lapsed, proofRow, charged, sessions, served, settleCrashes>>

\* Mutant: the UPDATE is not restricted to jobs that are not settled.
SettledAgain(p) == agentJob' = [agentJob EXCEPT !.status = "settled", !.paidBy = p]

\* onSettled; a job settled by another payment is a conflict, answered 502.
SettledOnce(p) ==
    IF agentJob.status \in {"verified", "settlement_pending"}
    THEN agentJob' = [agentJob EXCEPT !.status = "settled", !.paidBy = p]
    ELSE UNCHANGED agentJob

MarkJobSettled(r) ==
    /\ Stands(r, "mark")
    /\ SettledOnce(Paying(r))
    /\ GoesAway(r)
    /\ UNCHANGED <<lapsed, proofRow, charged, sessions, served, settleCrashes>>

SettlerDies(r) ==
    /\ ~Stands(r, "away")
    /\ settleCrashes < MaxSettleCrashes
    /\ settleCrashes' = settleCrashes + 1
    /\ GoesAway(r)
    /\ UNCHANGED <<agentJob, lapsed, proofRow, charged, sessions, served>>

SettleStep(r) ==
    \/ \E p \in Proofs : BeginSettle(r, p)
    \/ LookForSession(r) \/ InsertSession(r)
    \/ PayerBound(r) \/ PayerRefused(r)
    \/ ClaimSettlement(r) \/ SettleSucceeds(r) \/ SettleFails(r)
    \/ RecordPayment(r) \/ ConsumePayment(r) \/ ConsumeThrows(r)
    \/ MarkJobSettlementPending(r) \/ MarkJobSettled(r)
    \/ SettlerDies(r)

PaidNext ==
    \/ CreateAgentJob \/ EscrowJobAppears \/ ClaimPasses \/ PostVerify \/ SessionExpires
    \/ \E key, w \in Hands : PostClaim(key, w) \/ PostRunning(key, w) \/ PostSubmit(key, w)
    \/ \E r \in Settlers : SettleStep(r)

PaidSpec == PaidInit /\ [][PaidNext]_paidVars

-----------------------------------------------------------------------------
(***************************************************************************)
(* Properties.                                                             *)
(***************************************************************************)

(* "Exactly one caller gets ok=true and may call Circle client.settle()"   *)
(* (x402_gateway_claim_settlement): between the claim and the consumption  *)
(* a proof belongs to one request, whatever fails and however often it is  *)
(* sent again, and it unlocks the handler at most once.                    *)
ProofIsExclusive ==
    \A p \in Proofs :
        /\ Cardinality({r \in Settlers : /\ Paying(r) = p
                                         /\ settler[r].stage \in {"settle", "record", "consume"}}) <= 1
        /\ served[p] <= 1

(* A settled job names a payment that Circle has settled and that is used  *)
(* up, and the payment it names never changes.                             *)
SettledJobIsPaid ==
    OffChain /\ agentJob.status = "settled" =>
        /\ agentJob.paidBy \in charged
        /\ proofRow[agentJob.paidBy].consumed

(* Of the payments that served their request, at most one is on the job;   *)
(* and no off-chain route or payment touches a job of the escrow, which    *)
(* must be completed on chain (settle/route.ts:49).                        *)
SettlementIsFinal ==
    [][agentJob.status = "settled" \/ agentJob.mode = "erc8183_escrow" => UNCHANGED agentJob]_paidVars

(* "Prevents accidental double-charge for the same payer/resource before   *)
(* settlement" (006_x402_access_sessions.sql): the buyer is charged once   *)
(* for the job.                                                            *)
JobIsChargedOnce == Cardinality(charged) <= 1
=============================================================================
