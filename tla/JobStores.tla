------------------------------ MODULE JobStores ------------------------------
(***************************************************************************)
(* What the provider worker and the evaluator worker share: the ERC-8183   *)
(* jobs on chain, the gateway of each worker as the workers see it, and the*)
(* Console's tables of deliverables, evaluations and reputation            *)
(* (apps/console/src/lib/erc8183-jobs/deliverable-store.ts) behind their   *)
(* MCP tools (apps/console/src/lib/mcp/deliverable-evaluation-tools.ts).   *)
(*                                                                         *)
(* Each worker has a wallet and a journal of its own ("1 VPS = 1 role = 1  *)
(* agentId = 1 wallet"), so its gateway is the wallet lock: the write that *)
(* holds it, and whether the journal calls that write unresolved.  That a  *)
(* gateway keeps this promise is the subject of ExecutionGateway.          *)
(*                                                                         *)
(* The n-th deliverable built for a job has the hash n: it contains the    *)
(* completion time, so no two runs of the runtime give the same one.  The  *)
(* n-th verdict on a job is numbered too, and a row of the evaluations     *)
(* table is the number of the verdict it holds.                            *)
(***************************************************************************)
EXTENDS Integers, FiniteSets

CONSTANTS
    Jobs,
    MaxRuns,      \* bound: deliverables built for one job
    MaxVerdicts,  \* bound: verdicts given on one job
    MirrorLags,   \* may the Console list a job by a status it has left?
    MaxCrashes,   \* bound: deaths of the two workers considered
    NoJob,
    NoWrite

ASSUME StoresAssumption ==
    /\ NoJob \notin Jobs
    /\ MaxRuns \in Nat \ {0}
    /\ MaxVerdicts \in Nat \ {0}
    /\ MirrorLags \in BOOLEAN
    /\ MaxCrashes \in Nat

Roles     == {"provider", "evaluator"}
Hashes    == 1 .. MaxRuns
Verdicts  == 1 .. MaxVerdicts
NoHash    == 0
NoVerdict == 0

SetBudget(j)  == [kind |-> "setBudget", job |-> j, hash |-> NoHash]
Submit(j, h)  == [kind |-> "submit", job |-> j, hash |-> h]
Settle(j, d)  == [kind |-> d, job |-> j, hash |-> NoHash]

Settlements == {"complete", "reject"}
Decisions   == Settlements \cup {"manual_review"}

Writes ==
    {SetBudget(j) : j \in Jobs}
      \cup {Submit(j, h) : j \in Jobs, h \in Hashes}
      \cup {Settle(j, d) : j \in Jobs, d \in Settlements}

\* A call that stores something, as the Console knows it.
CallStates == {"none", "asked", "checked", "stored", "refused"}

VARIABLES
    chain,       \* status of each job on chain
    budget,      \* has its budget been set there?
    onchain,     \* the deliverable hash submitted there
    tx,          \* each write as the wallet service and the chain know it
    lock,        \* per role: the write that holds the lock of its wallet
    open,        \* per role: is that write broadcast or unknown in the journal?
    confirmed,   \* writes the journals know as confirmed
    request,     \* publish_deliverable calls as the Console knows them
    deliverable, \* agent_job_deliverables: the stored hash
    verdict,     \* publish_evaluation calls: their state, hash and decision
    evaluation,  \* agent_job_evaluations: the stored verdict
    attached,    \* jobs whose evaluation has a settlement_tx_hash
    publication, \* agent_reputation_publication: job and feedback type
    crashes

chainVars   == <<chain, budget, onchain>>
gatewayVars == <<tx, lock, open, confirmed>>
deliverableVars == <<request, deliverable>>
evaluationVars  == <<verdict, evaluation, attached, publication>>

Feedback == {"successful_work", "failed_acceptance_criteria"}

StoresTypeOK ==
    /\ chain \in [Jobs -> {"open", "funded", "submitted", "completed", "rejected"}]
    /\ budget \in [Jobs -> BOOLEAN]
    /\ onchain \in [Jobs -> Hashes \cup {NoHash}]
    /\ tx \in [Writes -> {"none", "live", "landed", "dropped"}]
    /\ lock \in [Roles -> Writes \cup {NoWrite}]
    /\ open \in [Roles -> BOOLEAN]
    /\ confirmed \subseteq Writes
    /\ request \in [Jobs -> [Hashes -> CallStates]]
    /\ deliverable \in [Jobs -> Hashes \cup {NoHash}]
    /\ verdict \in [Jobs -> [Verdicts ->
                     [state : CallStates, hash : Hashes \cup {NoHash}, decision : Decisions]]]
    /\ evaluation \in [Jobs -> Verdicts \cup {NoVerdict}]
    /\ attached \subseteq Jobs
    /\ publication \subseteq Jobs \X Feedback
    /\ crashes \in 0 .. MaxCrashes

StoresInit ==
    /\ chain = [j \in Jobs |-> "open"]
    /\ budget = [j \in Jobs |-> FALSE]
    /\ onchain = [j \in Jobs |-> NoHash]
    /\ tx = [w \in Writes |-> "none"]
    /\ lock = [r \in Roles |-> NoWrite]
    /\ open = [r \in Roles |-> FALSE]
    /\ confirmed = {}
    /\ request = [j \in Jobs |-> [h \in Hashes |-> "none"]]
    /\ deliverable = [j \in Jobs |-> NoHash]
    /\ verdict = [j \in Jobs |-> [n \in Verdicts |->
                   [state |-> "none", hash |-> NoHash, decision |-> "manual_review"]]]
    /\ evaluation = [j \in Jobs |-> NoVerdict]
    /\ attached = {}
    /\ publication = {}
    /\ crashes = 0

-----------------------------------------------------------------------------
(***************************************************************************)
(* The AgenticCommerce contract and the wallet service, as the code uses   *)
(* them: a write that is live lands if the job is in the status it needs,  *)
(* or is dropped, whoever still waits for it; one that needs a status the  *)
(* job has left reverts.                                                   *)
(***************************************************************************)
Order(s) == CASE s = "open" -> 1 [] s = "funded" -> 2 [] s = "submitted" -> 3 [] OTHER -> 4

StatusNeeded(w) ==
    CASE w.kind = "setBudget" -> "open"
      [] w.kind = "submit"    -> "funded"
      [] OTHER                -> "submitted"

\* Mutant: a completed job is looked for under the status settled.
StatusAfterSettled(w) ==
    CASE w.kind = "setBudget" -> "open"
      [] w.kind = "submit"    -> "submitted"
      [] w.kind = "complete"  -> "settled"
      [] w.kind = "reject"    -> "rejected"

StatusAfter(w) ==
    CASE w.kind = "setBudget" -> "open"
      [] w.kind = "submit"    -> "submitted"
      [] w.kind = "complete"  -> "completed"
      [] w.kind = "reject"    -> "rejected"

Reverted(txs, j, status) ==
    [w \in Writes |->
        IF txs[w] = "live" /\ w.job = j /\ StatusNeeded(w) # status THEN "dropped" ELSE txs[w]]

LandWrite(w) ==
    /\ tx[w] = "live" /\ chain[w.job] = StatusNeeded(w)
    /\ tx' = Reverted([tx EXCEPT ![w] = "landed"], w.job, StatusAfter(w))
    /\ chain' = [chain EXCEPT ![w.job] = StatusAfter(w)]
    /\ budget' = [budget EXCEPT ![w.job] = @ \/ w.kind = "setBudget"]
    /\ onchain' = [onchain EXCEPT ![w.job] = IF w.kind = "submit" THEN w.hash ELSE @]
    /\ UNCHANGED <<lock, open, confirmed, deliverableVars, evaluationVars>>

DropWrite(w) ==
    /\ tx[w] = "live"
    /\ tx' = [tx EXCEPT ![w] = "dropped"]
    /\ UNCHANGED <<chainVars, lock, open, confirmed, deliverableVars, evaluationVars>>

\* The client funds a job whose budget is set.
FundJob(j) ==
    /\ chain[j] = "open" /\ budget[j]
    /\ chain' = [chain EXCEPT ![j] = "funded"]
    /\ tx' = Reverted(tx, j, "funded")
    /\ UNCHANGED <<budget, onchain, lock, open, confirmed, deliverableVars, evaluationVars>>

-----------------------------------------------------------------------------
(***************************************************************************)
(* gateway.execute() as a worker sees it.                                  *)
(***************************************************************************)
Reserve(r, w) ==
    /\ lock[r] = NoWrite
    /\ lock' = [lock EXCEPT ![r] = w]

\* The key of a settlement contains the hash of the reason, so a settlement
\* may be sent again after one of its kind was confirmed; any other write has
\* one key.
SendWrite(r, w) ==
    /\ w \in confirmed => w.kind \in Settlements
    /\ Reserve(r, w)
    /\ tx' = [tx EXCEPT ![w] = IF Order(StatusNeeded(w)) < Order(chain[w.job])
                               THEN "dropped" ELSE "live"]
    /\ UNCHANGED <<open, confirmed>>

\* The spend policy throws after the row and its locks were created.
PolicyRefuses(r, w) ==
    /\ w \notin confirmed
    /\ Reserve(r, w)
    /\ UNCHANGED <<tx, open, confirmed>>

\* The key is confirmed: the stored result is returned and nothing is sent.
Replays(w) ==
    w \in confirmed /\ UNCHANGED gatewayVars

\* In progress, unresolved, or the wallet is locked by another write.
Refused(r) ==
    lock[r] # NoWrite /\ UNCHANGED gatewayVars

ReleaseLock(r) ==
    /\ lock' = [lock EXCEPT ![r] = NoWrite]
    /\ open' = [open EXCEPT ![r] = FALSE]

ConfirmWrite(r, w) ==
    /\ tx[w] = "landed"
    /\ confirmed' = confirmed \cup {w}
    /\ ReleaseLock(r)
    /\ UNCHANGED tx

\* Failed: dropped, or an error was thrown after the service took the write.
FailWrite(r) ==
    ReleaseLock(r) /\ UNCHANGED <<tx, confirmed>>

\* Broadcast or unknown.
LeaveOpen(r) ==
    /\ open' = [open EXCEPT ![r] = TRUE]
    /\ UNCHANGED <<tx, lock, confirmed>>

\* verifyPostcondition of the two workers.
Postcondition(w) ==
    CASE w.kind = "setBudget" -> IF budget[w.job] THEN "confirmed" ELSE "unknown"
      [] w.kind = "submit" ->
           IF chain[w.job] \in {"open", "funded"} THEN "unknown"
           ELSE IF onchain[w.job] = w.hash THEN "confirmed" ELSE "failed"
      [] OTHER ->
           IF chain[w.job] = StatusAfter(w) THEN "confirmed"
           ELSE IF chain[w.job] = "submitted" THEN "unknown" ELSE "failed"

\* A worker starts: its gateway fails what was created and not finalized, and
\* reconcilePending looks at what is unresolved; the look may fail.
RecoverWallet(r) ==
    LET w == lock[r] IN
    \/ /\ w = NoWrite \/ open[r]
       /\ UNCHANGED gatewayVars
    \/ /\ w # NoWrite
       /\ open[r] => Postcondition(w) = "failed"
       /\ FailWrite(r)
    \/ /\ w # NoWrite /\ open[r] /\ Postcondition(w) = "confirmed"
       /\ confirmed' = confirmed \cup {w}
       /\ ReleaseLock(r)
       /\ UNCHANGED tx

-----------------------------------------------------------------------------
(***************************************************************************)
(* The lists of jobs by status come from the Console's mirror of the chain,*)
(* which may lag behind it; a call that fails lists nothing.               *)
(***************************************************************************)
Listed(status) ==
    SUBSET {j \in Jobs : \/ chain[j] = status
                         \/ MirrorLags /\ Order(chain[j]) > Order(status)}

-----------------------------------------------------------------------------
(***************************************************************************)
(* provider.publish_deliverable at the Console: it reads the chain, then   *)
(* updates or inserts the row.  Its caller may have given up meanwhile.    *)
(* upsertDeliverable refuses a locked row, but lockDeliverable is never    *)
(* called, so no row is.                                                   *)
(***************************************************************************)
AskPublish(j, h) == request' = [request EXCEPT ![j][h] = "asked"]

CheckPublish(j, h) ==
    /\ request[j][h] = "asked"
    /\ request' = [request EXCEPT ![j][h] =
                     IF chain[j] = "funded" THEN "checked" ELSE "refused"]
    /\ UNCHANGED <<chainVars, gatewayVars, deliverable, evaluationVars>>

StoreDeliverable(j, h) ==
    /\ request[j][h] = "checked"
    /\ request' = [request EXCEPT ![j][h] = "stored"]
    /\ deliverable' = [deliverable EXCEPT ![j] = h]
    /\ UNCHANGED <<chainVars, gatewayVars, evaluationVars>>

\* evaluator.get_deliverable answers only when the stored hash is the one the
\* JobSubmitted event has.  Mutant: it does not compare the two.
StoredDeliverable(j) ==
    /\ chain[j] \in {"submitted", "completed", "rejected"}
    /\ deliverable[j] # NoHash

GetDeliverable(j) ==
    /\ chain[j] \in {"submitted", "completed", "rejected"}
    /\ deliverable[j] # NoHash
    /\ deliverable[j] = onchain[j]

-----------------------------------------------------------------------------
(***************************************************************************)
(* evaluator.publish_evaluation, attach_settlement_tx, queue_reputation.   *)
(* publish_evaluation too reads the row before it writes it: a verdict is  *)
(* refused once a settlement is attached, and overwrites the row before.   *)
(***************************************************************************)
AskEvaluate(j, n, h, d) ==
    verdict' = [verdict EXCEPT ![j][n] = [state |-> "asked", hash |-> h, decision |-> d]]

CheckEvaluation(j, n) ==
    /\ verdict[j][n].state = "asked"
    /\ verdict' = [verdict EXCEPT ![j][n].state =
                     IF j \in attached THEN "refused" ELSE "checked"]
    /\ UNCHANGED <<chainVars, gatewayVars, deliverableVars, evaluation, attached, publication>>

StoreEvaluation(j, n) ==
    /\ verdict[j][n].state = "checked"
    /\ verdict' = [verdict EXCEPT ![j][n].state = "stored"]
    /\ evaluation' = [evaluation EXCEPT ![j] = n]
    /\ UNCHANGED <<chainVars, gatewayVars, deliverableVars, attached, publication>>

\* The transaction must have succeeded on chain and settle this job, and the
\* row must exist and have none.
AttachSettlement(j) ==
    /\ chain[j] \in {"completed", "rejected"}
    /\ evaluation[j] # NoVerdict
    /\ attached' = attached \cup {j}
    /\ UNCHANGED <<verdict, evaluation, publication>>

\* The feedback has to be the one of the status on chain.
FeedbackOf(d) ==
    IF d = "complete" THEN "successful_work" ELSE "failed_acceptance_criteria"

QueueReputation(j, d) ==
    /\ chain[j] = StatusAfter(Settle(j, d))
    /\ publication' = publication \cup {<<j, FeedbackOf(d)>>}
    /\ UNCHANGED <<verdict, evaluation, attached>>

-----------------------------------------------------------------------------
StoresNext ==
    /\ \/ \E w \in Writes : LandWrite(w) \/ DropWrite(w)
       \/ \E j \in Jobs : FundJob(j)
       \/ \E j \in Jobs, h \in Hashes : CheckPublish(j, h) \/ StoreDeliverable(j, h)
       \/ \E j \in Jobs, n \in Verdicts : CheckEvaluation(j, n) \/ StoreEvaluation(j, n)
    /\ UNCHANGED crashes
=============================================================================
