----------------------------- MODULE JobMirror -----------------------------
(***************************************************************************)
(* The Console's mirror of one ERC-8183 job whose createJob transaction is *)
(* confirmed: the agent_jobs row (lib/erc8183-jobs/store.ts), the routes   *)
(* under /api/erc8183-jobs/[localJobId] that write it, and the job on      *)
(* chain.                                                                  *)
(*                                                                         *)
(* A route that awaits between what it reads and what it writes is a call  *)
(* in stages.  Each update of the row is one SQL statement and one action; *)
(* a statement whose WHERE clause repeats what the route read before is    *)
(* modelled by that clause.  The tx route reads a column before it writes  *)
(* it only to word its answer: the update has the same condition.  What it *)
(* attaches for set_budget, approve, reject and claim_refund depends on    *)
(* nothing it read that can still change, so these are one action.         *)
(***************************************************************************)
EXTENDS Naturals, FiniteSets

CONSTANTS
    Requests,           \* requests under way at the same time
    Workers,
    NoWorker,
    Deliverables,    \* deliverable hashes a provider prepares or submits
    Reasons,         \* reason hashes an evaluator prepares or completes with
    Repeated,        \* bound: types of which a second transaction may be mined
    MaxRejects,      \* bound: reject transactions of one job
    MaxMirrorCrashes \* bound: requests that die half-way

ASSUME MirrorAssumption ==
    /\ NoWorker \notin Workers
    /\ 0 \notin Deliverables \cup Reasons
    /\ MaxRejects \in Nat \ {0}
    /\ MaxMirrorCrashes \in Nat

Columns == {"set_budget", "approve", "fund", "submit", "complete", "reject"}
TxTypes == Columns \cup {"claim_refund"}
NoTx    == 0

\* The transactions whose confirmation writes what it read before.
Staged == {"fund", "submit", "complete"}

Hashes(k) == IF k = "reject" THEN 1 .. MaxRejects
             ELSE IF k \in Repeated THEN 1 .. 2 ELSE {1}

EscrowStatuses == {"Open", "Funded", "Submitted", "Completed", "Rejected", "Expired"}

Depth(s) == CASE s = "Open" -> 1 [] s = "Funded" -> 2 [] s = "Submitted" -> 3 [] OTHER -> 4

VARIABLES
    row,           \* the agent_jobs row
    onchainJob,    \* the job on chain: status, deliverable and reason hash
    mined,         \* type and hash of the transactions that succeeded
    rejectTx,      \* the reject transactions the Console has sent
    call,          \* requests under way
    feedback,      \* what has been written to the reputation registry
    mirrorCrashes

mirrorVars == <<row, onchainJob, mined, rejectTx, call, feedback, mirrorCrashes>>

NoMirrorCall == [kind |-> "none", stage |-> "idle", hash |-> NoTx, seen |-> "Open", old |-> "Open"]

RejectStages == {"claim", "check", "send", "wait", "attach"}
\* The stages in which a reject request holds its claim on the row.
Holding == {"check", "send", "wait", "attach"}

MirrorTypeOK ==
    /\ row \in [status : {"created", "claimed", "running", "submitted", "settled",
                          "rejecting", "rejected", "expired"},
                erc : EscrowStatuses, worker : Workers \cup {NoWorker},
                deliverable : Deliverables \cup {0}, reason : Reasons \cup {0},
                tx : [Columns -> 0 .. (MaxRejects + 2)]]
    /\ onchainJob \in [status : EscrowStatuses, deliverable : Deliverables \cup {0},
                       reason : Reasons \cup {0}]
    /\ mined \subseteq TxTypes \X (1 .. (MaxRejects + 2))
    /\ rejectTx \in [Hashes("reject") -> {"none", "live", "landed", "failed"}]
    /\ call \in [Requests -> [kind : Staged \cup {"none", "rejecting", "reconcile"},
                           stage : {"idle", "receipt", "read", "write"} \cup RejectStages,
                           hash : 0 .. (MaxRejects + 2), seen : EscrowStatuses,
                           old : EscrowStatuses]]
    /\ feedback \subseteq {"delivered", "failed", "rejected"}
    /\ mirrorCrashes \in 0 .. MaxMirrorCrashes

MirrorInit ==
    /\ row = [status |-> "created", erc |-> "Open", worker |-> NoWorker,
              deliverable |-> 0, reason |-> 0, tx |-> [k \in Columns |-> NoTx]]
    /\ onchainJob = [status |-> "Open", deliverable |-> 0, reason |-> 0]
    /\ mined = {}
    /\ rejectTx = [h \in Hashes("reject") |-> "none"]
    /\ call = [c \in Requests |-> NoMirrorCall]
    /\ feedback = {}
    /\ mirrorCrashes = 0

-----------------------------------------------------------------------------
(***************************************************************************)
(* The AgenticCommerce contract and the participants' wallets.  A reject   *)
(* transaction of the Console is mined, reverts once the job has left the  *)
(* statuses it may be rejected in, or is dropped.                          *)
(***************************************************************************)
Rejectable == {"Open", "Funded", "Submitted"}

MineOther(k, h) ==
    /\ k \in {"set_budget", "approve"}
    /\ onchainJob.status = "Open"
    /\ h = 1 \/ <<k, h - 1>> \in mined
    /\ mined' = mined \cup {<<k, h>>}
    /\ UNCHANGED <<row, onchainJob, rejectTx, call, feedback, mirrorCrashes>>

MineFund ==
    /\ onchainJob.status = "Open"
    /\ {<<"set_budget", 1>>, <<"approve", 1>>} \subseteq mined
    /\ onchainJob' = [onchainJob EXCEPT !.status = "Funded"]
    /\ mined' = mined \cup {<<"fund", 1>>}
    /\ UNCHANGED <<row, rejectTx, call, feedback, mirrorCrashes>>

MineSubmit(d) ==
    /\ onchainJob.status = "Funded"
    /\ onchainJob' = [onchainJob EXCEPT !.status = "Submitted", !.deliverable = d]
    /\ mined' = mined \cup {<<"submit", 1>>}
    /\ UNCHANGED <<row, rejectTx, call, feedback, mirrorCrashes>>

MineComplete(r) ==
    /\ onchainJob.status = "Submitted"
    /\ onchainJob' = [onchainJob EXCEPT !.status = "Completed", !.reason = r]
    /\ mined' = mined \cup {<<"complete", 1>>}
    /\ UNCHANGED <<row, rejectTx, call, feedback, mirrorCrashes>>

\* A participant's own reject, or one of the Console's.
MineReject(h) ==
    /\ rejectTx[h] \in {"none", "live"}
    /\ onchainJob.status \in Rejectable
    /\ onchainJob' = [onchainJob EXCEPT !.status = "Rejected"]
    /\ rejectTx' = [rejectTx EXCEPT ![h] = "landed"]
    /\ mined' = mined \cup {<<"reject", h>>}
    /\ UNCHANGED <<row, call, feedback, mirrorCrashes>>

LoseReject(h) ==
    /\ rejectTx[h] = "live"
    /\ rejectTx' = [rejectTx EXCEPT ![h] = "failed"]
    /\ UNCHANGED <<row, onchainJob, mined, call, feedback, mirrorCrashes>>

MineRefund ==
    /\ onchainJob.status \in {"Funded", "Submitted"}
    /\ onchainJob' = [onchainJob EXCEPT !.status = "Expired"]
    /\ mined' = mined \cup {<<"claim_refund", 1>>}
    /\ UNCHANGED <<row, rejectTx, call, feedback, mirrorCrashes>>

Chain ==
    \/ \E k \in Columns : \E h \in Hashes(k) : MineOther(k, h)
    \/ MineFund \/ MineRefund
    \/ \E d \in Deliverables : MineSubmit(d)
    \/ \E r \in Reasons : MineComplete(r)
    \/ \E h \in Hashes("reject") : MineReject(h) \/ LoseReject(h)

-----------------------------------------------------------------------------
(***************************************************************************)
(* One-statement routes.                                                   *)
(***************************************************************************)
RowWritten(r) ==
    /\ row' = r
    /\ UNCHANGED <<onchainJob, mined, rejectTx, call, feedback, mirrorCrashes>>

\* POST submit and complete store what the transaction will carry before
\* they return it to be signed, and overwrite what an earlier call stored.
PreparedSubmit(d)   == RowWritten([row EXCEPT !.deliverable = d])
PreparedComplete(r) == RowWritten([row EXCEPT !.reason = r])

\* The WHERE clauses of claimErc8183Job and markErc8183JobRunning.
JobClaimable(r)   == r.erc = "Funded" /\ r.status = "created"
JobRunnable(r, w) == r.status = "claimed" /\ r.worker = w

ClaimJob(w) ==
    /\ JobClaimable(row)
    /\ RowWritten([row EXCEPT !.status = "claimed", !.worker = w])

MarkRunning(w) ==
    /\ JobRunnable(row, w)
    /\ RowWritten([row EXCEPT !.status = "running"])

Routes ==
    \/ \E d \in Deliverables : PreparedSubmit(d)
    \/ \E r \in Reasons : PreparedComplete(r)
    \/ \E w \in Workers : ClaimJob(w) \/ MarkRunning(w)

-----------------------------------------------------------------------------
(***************************************************************************)
(* POST tx.  The row is read first and the event compared with that copy;  *)
(* the job on chain is read next; then the hash is attached together with  *)
(* the status that was read.                                               *)
(***************************************************************************)
MirrorAt(c, kinds, stage) == call[c].kind \in kinds /\ call[c].stage = stage

Step(c, next) ==
    /\ call' = [call EXCEPT ![c] = next]
    /\ UNCHANGED <<onchainJob, mined, rejectTx, mirrorCrashes>>

\* What the caller prepared, if anything, is what the event carries.
EventMatches(k) ==
    /\ k = "submit"   => row.deliverable \in {0, onchainJob.deliverable}
    /\ k = "complete" => row.reason \in {0, onchainJob.reason}

ConfirmTx(c, k, h) ==
    /\ call[c] = NoMirrorCall
    /\ <<k, h>> \in mined
    /\ EventMatches(k)
    /\ Step(c, [NoMirrorCall EXCEPT !.kind = k, !.stage = "receipt", !.hash = h])
    /\ UNCHANGED <<row, feedback>>

ReadOnchainJob(c) ==
    /\ MirrorAt(c, Staged, "receipt")
    /\ Step(c, [call[c] EXCEPT !.stage = "write", !.seen = onchainJob.status])
    /\ UNCHANGED <<row, feedback>>

\* Mutant: the update is not restricted to an empty column.
AttachableAgain(k) ==
    k = "reject" => row.erc \in Rejectable

\* The WHERE clause of the update.
Attachable(k) ==
    /\ row.tx[k] = NoTx
    /\ k = "reject" => row.erc \in Rejectable

\* Mutant: the status on chain is written into the row's own column.
ChainStatus(k, old) ==
    CASE k = "submit" -> "Submitted" [] k = "complete" -> "Completed" [] OTHER -> old

MirrorStatus(k, old) ==
    CASE k = "submit"   -> "submitted"
      [] k = "complete" -> "settled"
      [] k = "reject"   -> "rejected"
      [] OTHER          -> old

\* A hash that was attached before is answered ok, another one with a
\* conflict, and the row stays as it is.
Attached(k, h, seen) ==
    IF Attachable(k)
    THEN [row EXCEPT !.tx[k] = h, !.status = MirrorStatus(k, @),
                     !.erc = IF k \in Staged \cup {"reject"} THEN seen ELSE @]
    ELSE row

Attaches(k, h) == Attachable(k) \/ row.tx[k] = h

\* recordDelivery, also when the hash was attached before.
Recorded(k) ==
    CASE k = "complete" -> {"delivered"} [] k = "reject" -> {"failed"} [] OTHER -> {}

Records(k, h) == feedback' = feedback \cup (IF Attaches(k, h) THEN Recorded(k) ELSE {})

AttachStaged(c) ==
    LET k == call[c].kind  h == call[c].hash IN
    /\ MirrorAt(c, Staged, "write")
    /\ row' = Attached(k, h, call[c].seen)
    /\ Records(k, h)
    /\ Step(c, NoMirrorCall)

AttachAtOnce(k, h) ==
    /\ <<k, h>> \in mined
    /\ RowWritten(Attached(k, h, onchainJob.status))

AttachRejected(h) ==
    /\ <<"reject", h>> \in mined
    /\ onchainJob.status = "Rejected"
    /\ row' = Attached("reject", h, "Rejected")
    /\ Records("reject", h)
    /\ UNCHANGED <<onchainJob, mined, rejectTx, call, mirrorCrashes>>

RowOfRefund == [row EXCEPT !.erc = "Expired", !.status = "expired"]

\* Any transaction that succeeded will do: the JobExpired event is looked
\* for and not used.
AttachRefund ==
    /\ mined # {}
    /\ onchainJob.status = "Expired"
    /\ RowWritten(RowOfRefund)

TxRoute ==
    \/ \E c \in Requests : \/ \E k \in Staged : \E h \in Hashes(k) : ConfirmTx(c, k, h)
                        \/ ReadOnchainJob(c)
                        \/ AttachStaged(c)
    \/ \E k \in {"set_budget", "approve"} : \E h \in Hashes(k) : AttachAtOnce(k, h)
    \/ \E h \in Hashes("reject") : AttachRejected(h)
    \/ AttachRefund

-----------------------------------------------------------------------------
(***************************************************************************)
(* POST reject: the Console signs the transaction itself, so it claims the *)
(* row before it sends and gives the claim back when something fails.      *)
(***************************************************************************)
AskReject(c) ==
    /\ call[c] = NoMirrorCall
    /\ row.erc = "Submitted"
    /\ row.status \notin {"rejected", "settled", "rejecting"}
    /\ Step(c, [NoMirrorCall EXCEPT !.kind = "rejecting", !.stage = "claim"])
    /\ UNCHANGED <<row, feedback>>

\* Mutant: the claim does not look at the status of the row.
ClaimReadsNoStatus == row.erc = "Submitted" /\ row.tx["reject"] = NoTx

RejectClaimable ==
    row.erc = "Submitted" /\ row.status = "submitted" /\ row.tx["reject"] = NoTx

ClaimReject(c) ==
    /\ MirrorAt(c, {"rejecting"}, "claim")
    /\ row' = IF RejectClaimable THEN [row EXCEPT !.status = "rejecting"] ELSE row
    /\ Step(c, IF RejectClaimable THEN [call[c] EXCEPT !.stage = "check"] ELSE NoMirrorCall)
    /\ UNCHANGED feedback

RolledBack ==
    IF row.status = "rejecting" /\ row.erc = "Submitted"
    THEN [row EXCEPT !.status = "submitted"] ELSE row

\* No usable key, the chain cannot be read, or the job is not Submitted there.
GiveUpReject(c) ==
    /\ MirrorAt(c, {"rejecting"}, "check")
    /\ row' = RolledBack
    /\ Step(c, NoMirrorCall)
    /\ UNCHANGED feedback

CheckReject(c) ==
    /\ MirrorAt(c, {"rejecting"}, "check")
    /\ onchainJob.status = "Submitted"
    /\ Step(c, [call[c] EXCEPT !.stage = "send"])
    /\ UNCHANGED <<row, feedback>>

\* writeContract returns the hash, or throws before or after the broadcast.
SendReject(c, h) ==
    /\ MirrorAt(c, {"rejecting"}, "send")
    /\ rejectTx[h] = "none"
    /\ \E sent, returns \in BOOLEAN :
         /\ returns => sent
         /\ rejectTx' = [rejectTx EXCEPT ![h] = IF sent THEN "live" ELSE @]
         /\ row' = IF returns THEN row ELSE RolledBack
         /\ call' = [call EXCEPT ![c] =
                       IF returns THEN [@ EXCEPT !.stage = "wait", !.hash = h] ELSE NoMirrorCall]
    /\ UNCHANGED <<onchainJob, mined, feedback, mirrorCrashes>>

\* Mutant: the receipt's status is not looked at.
ReceiptArrived(h) == rejectTx[h] \in {"landed", "failed"}

ReceiptIsSuccess(h) == rejectTx[h] = "landed"

AwaitReject(c) ==
    /\ MirrorAt(c, {"rejecting"}, "wait")
    /\ ReceiptIsSuccess(call[c].hash)
    /\ Step(c, [call[c] EXCEPT !.stage = "attach"])
    /\ UNCHANGED <<row, feedback>>

\* The receipt says reverted, or none comes within a minute.
RejectTimesOut(c) ==
    /\ MirrorAt(c, {"rejecting"}, "wait")
    /\ row' = RolledBack
    /\ Step(c, NoMirrorCall)
    /\ UNCHANGED feedback

\* An update that matches no row is logged and the answer is the same.
AttachReject(c) ==
    /\ MirrorAt(c, {"rejecting"}, "attach")
    /\ row' = Attached("reject", call[c].hash, "Rejected")
    /\ feedback' = feedback \cup {"rejected"}
    /\ Step(c, NoMirrorCall)

RejectRoute(c) ==
    \/ AskReject(c) \/ ClaimReject(c) \/ GiveUpReject(c) \/ CheckReject(c)
    \/ \E h \in Hashes("reject") : SendReject(c, h)
    \/ AwaitReject(c) \/ RejectTimesOut(c) \/ AttachReject(c)

-----------------------------------------------------------------------------
(***************************************************************************)
(* POST reconcile: read the row, read the chain, write the chain's status  *)
(* if it differs from the row's as it was read.                            *)
(***************************************************************************)
ReconcileJob(c) ==
    /\ call[c] = NoMirrorCall
    /\ Step(c, [NoMirrorCall EXCEPT !.kind = "reconcile", !.stage = "read", !.old = row.erc])
    /\ UNCHANGED <<row, feedback>>

ReconcileReads(c) ==
    /\ MirrorAt(c, {"reconcile"}, "read")
    /\ Step(c, IF onchainJob.status = call[c].old THEN NoMirrorCall
               ELSE [call[c] EXCEPT !.stage = "write", !.seen = onchainJob.status])
    /\ UNCHANGED <<row, feedback>>

ReconcileWrites(c) ==
    /\ MirrorAt(c, {"reconcile"}, "write")
    /\ row' = [row EXCEPT !.erc = call[c].seen]
    /\ Step(c, NoMirrorCall)
    /\ UNCHANGED feedback

Reconcile(c) == ReconcileJob(c) \/ ReconcileReads(c) \/ ReconcileWrites(c)

\* A request dies (the function is killed, the process restarts).
RequestDies(c) ==
    /\ call[c] # NoMirrorCall
    /\ mirrorCrashes < MaxMirrorCrashes
    /\ mirrorCrashes' = mirrorCrashes + 1
    /\ call' = [call EXCEPT ![c] = NoMirrorCall]
    /\ UNCHANGED <<row, onchainJob, mined, rejectTx, feedback>>

MirrorNext ==
    \/ Chain
    \/ Routes
    \/ TxRoute
    \/ \E c \in Requests : RejectRoute(c) \/ Reconcile(c) \/ RequestDies(c)

MirrorSpec == MirrorInit /\ [][MirrorNext]_mirrorVars

-----------------------------------------------------------------------------
(***************************************************************************)
(* The detail of a job (read-model.ts): its lifecycle by the status on     *)
(* chain, or, when the chain cannot be read, by what the row holds.        *)
(***************************************************************************)
LifecycleByChain(seen) ==
    CASE seen = "Completed" -> IF row.status = "settled" THEN "Settled" ELSE "Completed"
      [] seen = "Funded"    -> CASE row.status = "running" -> "Running"
                                 [] row.status = "claimed" -> "Claimed"
                                 [] OTHER -> "Funded"
      [] seen = "Open"      -> IF row.tx["set_budget"] # NoTx THEN "BudgetSet" ELSE "CreatedOnchain"
      [] OTHER -> seen

\* Mutant: the status of the row is looked at before its hashes.
LifecycleByStatus ==
    CASE row.status \in {"submitted", "rejecting"} -> "Submitted"
      [] row.status = "settled"                     -> "Settled"
      [] row.tx["approve"] # NoTx                   -> "Funded"
      [] OTHER                                      -> "CreatedOnchain"

LifecycleByRow ==
    IF row.tx["complete"] # NoTx THEN IF row.status = "settled" THEN "Settled" ELSE "Completed"
    ELSE IF row.tx["reject"] # NoTx THEN "Rejected"
    ELSE IF row.tx["submit"] # NoTx THEN "Submitted"
    ELSE IF row.status = "running" THEN "Running"
    ELSE IF row.status = "claimed" THEN "Claimed"
    ELSE IF row.tx["fund"] # NoTx THEN "Funded"
    ELSE IF row.tx["set_budget"] # NoTx THEN "BudgetSet"
    ELSE "CreatedOnchain"

\* Mutant: a job can be claimed as soon as its budget is set.
OfferedEarly(l) ==
    CASE l = "CreatedOnchain" -> {"set_budget"}
      [] l = "BudgetSet"      -> {"approve", "fund", "claim"}
      [] l = "Funded"         -> {"claim"}
      [] l = "Claimed"        -> {"running"}
      [] l = "Running"        -> {"submit"}
      [] l = "Submitted"      -> {"complete"}
      [] OTHER                -> {}

\* buildAllowedActions, which adds reconcile to each.
AllowedActions(l) ==
    CASE l = "CreatedOnchain" -> {"set_budget"}
      [] l = "BudgetSet"      -> {"approve", "fund"}
      [] l = "Funded"         -> {"claim"}
      [] l = "Claimed"        -> {"running"}
      [] l = "Running"        -> {"submit"}
      [] l = "Submitted"      -> {"complete"}
      [] OTHER                -> {}

\* What GET [localJobId] answers a reader: the row, then the chain if it can
\* be read.
Detail(reachable) ==
    LET l == IF reachable THEN LifecycleByChain(onchainJob.status) ELSE LifecycleByRow
    IN  [lifecycle |-> l, actions |-> AllowedActions(l)]

\* The guards of POST fund, which answers with the approve and the fund
\* transaction.  The amounts and the expiry are left out: it also refuses
\* when the budget on chain is not the price of the row, or the job is over.
Unfundable == {"claimed", "running", "submitted", "completed", "settled"}

Fundable(r) ==
    /\ r.tx["set_budget"] # NoTx /\ r.tx["fund"] = NoTx
    /\ r.status \notin Unfundable
    /\ onchainJob.status = "Open"

\* POST set-budget, submit and complete ask for nothing but the job on chain.
Admits(action, r) ==
    CASE action \in {"approve", "fund"} -> Fundable(r)
      [] action = "claim"               -> JobClaimable(r)
      [] action = "running"             -> JobRunnable(r, r.worker)
      [] OTHER                          -> TRUE

-----------------------------------------------------------------------------
(***************************************************************************)
(* Properties.                                                             *)
(***************************************************************************)
LifecycleDepth(l) ==
    CASE l = "CreatedOnchain" -> 1 [] l = "BudgetSet" -> 2 [] l = "Funded" -> 3
      [] l = "Claimed" -> 4 [] l = "Running" -> 5 [] l = "Submitted" -> 6 [] OTHER -> 7

(* A reader who cannot reach the chain is never told that the job is       *)
(* further than a reader who can would be told.                            *)
DetailNeverLeads ==
    LifecycleDepth(Detail(FALSE).lifecycle) <= LifecycleDepth(Detail(TRUE).lifecycle)

(* Every action the detail offers a reader who reaches the chain is one    *)
(* its route accepts, at once or after the reconcile it offers with it,    *)
(* although offer and guards look at different columns.                    *)
OfferedIsAccepted ==
    \A action \in Detail(TRUE).actions :
        Admits(action, [row EXCEPT !.erc = onchainJob.status])

(* The mirror may lag behind the chain, and may even fall back, but it     *)
(* never runs ahead of it: the mirrored status is one the job has been in, *)
(* a final one is the job's, and a row says settled, rejected or expired   *)
(* only of a job that is.                                                  *)
MirrorNeverLeads ==
    /\ \/ row.erc = onchainJob.status
       \/ Depth(row.erc) < Depth(onchainJob.status)
    /\ row.status = "settled"  => onchainJob.status = "Completed"
    /\ row.status = "rejected" => onchainJob.status = "Rejected"
    /\ row.status = "expired"  => onchainJob.status = "Expired"

(* "This prevents the race where two evaluator requests both pass the      *)
(* Submitted check and both broadcast reject txs" (claimErc8183Reject): at *)
(* most one request is between its claim and its end.                      *)
RejectsAreSerial ==
    Cardinality({c \in Requests : call[c].kind = "rejecting" /\ call[c].stage \in Holding}) <= 1

(* Reputation written for a job agrees with how the job ended, whichever   *)
(* route wrote it and however often it is called.                          *)
FeedbackIsEarned ==
    /\ "delivered" \in feedback => onchainJob.status = "Completed"
    /\ feedback \cap {"failed", "rejected"} # {} => onchainJob.status = "Rejected"

(* The "Tx Hash Immutability Guard" of store.ts: once a transaction hash   *)
(* is attached to a stage it is not replaced, by any race of requests.     *)
HashesAreFinal ==
    [][\A k \in Columns : row.tx[k] # NoTx => row'.tx[k] = row.tx[k]]_mirrorVars
=============================================================================
