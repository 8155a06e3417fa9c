-------------------------- MODULE JobWorkersProofs --------------------------
(***************************************************************************)
(* What JobWorkers promises for any number of jobs, overlapping polls,     *)
(* runs of the runtime, retries and crashes, with a mirror that lags or    *)
(* not.                                                                    *)
(*                                                                         *)
(* The inductive invariant has a part for what the two workers share and   *)
(* one for each worker.  A step of a worker moves one poll; what such a    *)
(* move must respect is said once (Moves, EvalMoves), shown of the few     *)
(* ways in which a loop goes on, and used by every action.                 *)
(***************************************************************************)
EXTENDS JobWorkers, TLAPS

USE StoresAssumption, ProviderAssumption, EvaluatorAssumption

\* Where a submitted job may be.
PastFunded == {"submitted", "completed", "rejected"}

-----------------------------------------------------------------------------
(***************************************************************************)
(* The chain, the wallets and the Console.                                 *)
(***************************************************************************)

\* A submission that has landed has taken its job past the status "funded".
LandedIsPast ==
    \A j \in Jobs, h \in Hashes :
        tx[Submit(j, h)] = "landed" => chain[j] \in PastFunded

\* A verdict is on a job that has been submitted: its hash can no more change.
VerdictIsLate ==
    \A j \in Jobs, n \in Verdicts :
        verdict[j][n].state # "none" => chain[j] \in PastFunded

\* The next deliverable and the next verdict of a job are unknown to the
\* Console so far.
NextIsFresh ==
    /\ \A j \in Jobs, h \in Hashes : h > runs[j] => request[j][h] = "none"
    /\ \A j \in Jobs, n \in Verdicts : n > verdicts[j] => verdict[j][n].state = "none"

StoresInv ==
    /\ StoresTypeOK
    /\ SubmittedWasStored /\ LandedIsPast
    /\ VerdictOnSubmitted /\ VerdictIsLate /\ SettlementIsBacked
    /\ NextIsFresh

\* The invariant of the provider worker.
PollRecords ==
    [stage : {"idle", "listFunded", "listOpen"} \cup FundedStages \cup OpenStages,
     todo : SUBSET Jobs, job : Jobs \cup {NoJob}, hash : Hashes \cup {NoHash}]

\* A poll that is between two jobs names none; one that sends a deliverable
\* names it, and has it stored before it submits it.
Orderly(q, asked) ==
    /\ q.stage \in {"idle", "listFunded", "listOpen"} => q.job = NoJob
    /\ q.stage \in FundedStages \cup OpenStages => q.job \in Jobs
    /\ q.stage \in {"publishing", "submitting", "writing"} => q.hash \in Hashes
    /\ q.stage \in {"submitting", "writing"} => asked[q.job][q.hash] = "stored"

ProviderBusy == activeJob # NoJob => \E p \in ProviderPolls : poll[p].job = activeJob

ProviderInv ==
    /\ ProviderTypeOK
    /\ \A p \in ProviderPolls : Orderly(poll[p], request)
    /\ ProviderBusy
    /\ MarkedIsSubmitted

\* The invariant of the evaluator worker.
EvalRecords ==
    [stage : {"idle", "listing"} \cup EvalStages, todo : SUBSET Jobs,
     job : Jobs \cup {NoJob}, hash : Hashes \cup {NoHash},
     verdict : Verdicts \cup {NoVerdict}, action : Decisions]

\* A poll has the hash that is on chain from the moment it knows one; it has
\* asked for its verdict to be stored before it waits, and settles what that
\* verdict says once it is stored.
EvalOrderly(q, given) ==
    /\ q.stage \in {"idle", "listing"} => q.job = NoJob
    /\ q.stage \in EvalStages => q.job \in Jobs
    /\ q.stage = "evaluating" => q.hash = onchain[q.job] /\ chain[q.job] \in PastFunded
    /\ q.stage \in {"publishing", "settling"} => q.verdict \in Verdicts
    /\ q.stage = "publishing" =>
          /\ given[q.job][q.verdict].state # "none"
          /\ q.action \in SettlementActions(given[q.job][q.verdict].decision)
    /\ q.stage = "settling" =>
          /\ given[q.job][q.verdict].state = "stored"
          /\ q.action = given[q.job][q.verdict].decision
    /\ q.stage \in {"settling", "writing"} => q.action \in Settlements

EvaluatorBusy ==
    activeEval # NoJob => \E p \in EvaluatorPolls : evalPoll[p].job = activeEval

EvaluatorInv ==
    /\ EvaluatorTypeOK
    /\ \A p \in EvaluatorPolls : EvalOrderly(evalPoll[p], verdict)
    /\ EvaluatorBusy

WorkersInv == StoresInv /\ ProviderInv /\ EvaluatorInv

LEMMA InitWorkersInv == Init => WorkersInv
  <1> SUFFICES ASSUME Init PROVE WorkersInv
    OBVIOUS
  <1> USE DEF Init, StoresInit, ProviderInit, EvaluatorInit
  <1>1. StoresInv
    <2>1. StoresTypeOK
      BY DEF StoresTypeOK, Verdicts, Hashes, NoHash, NoVerdict, CallStates, Decisions, Settlements
    <2>2. \A j \in Jobs, h \in Hashes : tx[Submit(j, h)] = "none"
      BY DEF Writes
    <2>3. \A j \in Jobs, d \in Settlements : tx[Settle(j, d)] = "none"
      BY DEF Writes
    <2> QED
      BY <2>1, <2>2, <2>3 DEF StoresInv, SubmittedWasStored, LandedIsPast, VerdictOnSubmitted,
         VerdictIsLate, SettlementIsBacked, NextIsFresh
  <1>2. ProviderInv
    BY DEF ProviderInv, ProviderTypeOK, Orderly, ProviderBusy, MarkedIsSubmitted, Idle, NoHash,
       FundedStages, OpenStages
  <1>3. EvaluatorInv
    BY DEF EvaluatorInv, EvaluatorTypeOK, EvalOrderly, EvaluatorBusy, NoEvaluation, NoHash,
       NoVerdict, EvalStages, Decisions
  <1> QED
    BY <1>1, <1>2, <1>3 DEF WorkersInv

-----------------------------------------------------------------------------
(***************************************************************************)
(* The steps of the chain and of the Console.                              *)
(***************************************************************************)
LEMMA WriteShape ==
  ASSUME NEW w \in Writes
  PROVE  /\ w.job \in Jobs
         /\ w.kind \in {"setBudget", "submit", "complete", "reject"}
         /\ w.kind = "submit" => w.hash \in Hashes /\ w = Submit(w.job, w.hash)
  BY DEF Writes, SetBudget, Submit, Settle, Settlements

LEMMA SubmitIsWrite == \A j \in Jobs, h \in Hashes : Submit(j, h) \in Writes
  BY DEF Writes

LEMMA SettleIsWrite == \A j \in Jobs, d \in Settlements : Settle(j, d) \in Writes
  BY DEF Writes

LEMMA SetBudgetIsWrite == \A j \in Jobs : SetBudget(j) \in Writes
  BY DEF Writes

\* What a step of the chain may do to the jobs and to the writes.
ChainGoesOn ==
    /\ \A j \in Jobs : chain[j] \in PastFunded =>
          chain'[j] \in PastFunded /\ onchain'[j] = onchain[j]
    /\ \A x \in Writes : tx'[x] = "none" <=> tx[x] = "none"
    /\ \A j \in Jobs, h \in Hashes :
          tx'[Submit(j, h)] = "landed" => chain'[j] \in PastFunded

LEMMA ChainKeepsInv ==
  ASSUME WorkersInv, ChainGoesOn, StoresTypeOK',
         UNCHANGED <<request, verdict, providerVars, evalVars>>
  PROVE  WorkersInv'
  <1> USE DEF WorkersInv, ChainGoesOn, providerVars, memoryVars, evalVars, evalMemory
  <1>1. StoresInv'
    <2> USE DEF StoresInv
    <2>1. SubmittedWasStored' /\ LandedIsPast' /\ VerdictIsLate' /\ NextIsFresh'
      BY SubmitIsWrite DEF SubmittedWasStored, LandedIsPast, VerdictIsLate, NextIsFresh
    <2>2. VerdictOnSubmitted' /\ SettlementIsBacked'
      BY SettleIsWrite DEF VerdictOnSubmitted, VerdictIsLate, SettlementIsBacked
    <2> QED
      BY <2>1, <2>2
  <1>2. ProviderInv'
    <2>1. MarkedIsSubmitted'
      BY DEF ProviderInv, ProviderTypeOK, MarkedIsSubmitted, StoresInv, StoresTypeOK, PastFunded
    <2> QED
      BY <2>1 DEF ProviderInv, ProviderTypeOK, Orderly, ProviderBusy
  <1>3. EvaluatorInv'
    BY DEF EvaluatorInv, EvaluatorTypeOK, EvalOrderly, EvaluatorBusy
  <1> QED
    BY <1>1, <1>2, <1>3

LEMMA LandKeepsInv ==
  ASSUME WorkersInv, NEW w \in Writes, LandWrite(w), UNCHANGED <<crashes, providerVars, evalVars>>
  PROVE  WorkersInv'
  <1> USE WriteShape DEF LandWrite, WorkersInv, StoresInv, StoresTypeOK
  <1>1. \A x \in Writes :
           /\ tx'[x] \in {"none", "live", "landed", "dropped"}
           /\ tx'[x] = "none" <=> tx[x] = "none"
           /\ tx'[x] = "landed" => tx[x] = "landed" \/ x = w
    BY DEF Reverted
  <1>2. tx' \in [Writes -> {"none", "live", "landed", "dropped"}]
    BY <1>1 DEF Reverted
  <1>3. /\ chain' \in [Jobs -> {"open", "funded", "submitted", "completed", "rejected"}]
        /\ budget' \in [Jobs -> BOOLEAN]
        /\ onchain' \in [Jobs -> Hashes \cup {NoHash}]
    BY DEF StatusAfter
  <1>4. StoresTypeOK'
    BY <1>2, <1>3 DEF deliverableVars, evaluationVars
  <1>5. \A j \in Jobs : chain[j] \in PastFunded => chain'[j] \in PastFunded /\ onchain'[j] = onchain[j]
    BY DEF StatusNeeded, StatusAfter, PastFunded
  <1>6. ASSUME NEW j \in Jobs, NEW h \in Hashes, tx'[Submit(j, h)] = "landed"
        PROVE  chain'[j] \in PastFunded
    <2>1. CASE Submit(j, h) = w
      BY <2>1 DEF Submit, StatusAfter, PastFunded
    <2>2. CASE tx[Submit(j, h)] = "landed"
      BY <2>2, <1>5 DEF LandedIsPast
    <2> QED
      BY <1>1, <1>6, <2>1, <2>2, SubmitIsWrite
  <1> QED
    BY <1>1, <1>4, <1>5, <1>6, ChainKeepsInv DEF ChainGoesOn, deliverableVars, evaluationVars

LEMMA DropKeepsInv ==
  ASSUME WorkersInv, NEW w \in Writes, DropWrite(w), UNCHANGED <<crashes, providerVars, evalVars>>
  PROVE  WorkersInv'
  <1> USE DEF DropWrite, WorkersInv, StoresInv, StoresTypeOK, chainVars, deliverableVars,
              evaluationVars
  <1>1. StoresTypeOK'
    OBVIOUS
  <1>2. ChainGoesOn
    BY SubmitIsWrite DEF ChainGoesOn, LandedIsPast
  <1> QED
    BY <1>1, <1>2, ChainKeepsInv

LEMMA FundKeepsInv ==
  ASSUME WorkersInv, NEW k \in Jobs, FundJob(k), UNCHANGED <<crashes, providerVars, evalVars>>
  PROVE  WorkersInv'
  <1> USE DEF FundJob, WorkersInv, StoresInv, StoresTypeOK, deliverableVars, evaluationVars
  <1>1. \A x \in Writes :
           /\ tx'[x] \in {"none", "live", "landed", "dropped"}
           /\ tx'[x] = "none" <=> tx[x] = "none"
           /\ tx'[x] = "landed" => tx[x] = "landed"
    BY DEF Reverted
  <1>2. tx' \in [Writes -> {"none", "live", "landed", "dropped"}]
    BY <1>1 DEF Reverted
  <1>3. StoresTypeOK'
    BY <1>2
  <1>4. ChainGoesOn
    BY <1>1, SubmitIsWrite DEF ChainGoesOn, LandedIsPast, PastFunded
  <1> QED
    BY <1>3, <1>4, ChainKeepsInv

\* The Console takes up or stores a deliverable it was asked to publish.
LEMMA PublishKeepsInv ==
  ASSUME WorkersInv, NEW j \in Jobs, NEW h \in Hashes,
         CheckPublish(j, h) \/ StoreDeliverable(j, h),
         UNCHANGED <<crashes, providerVars, evalVars>>
  PROVE  WorkersInv'
  <1> USE DEF CheckPublish, StoreDeliverable, WorkersInv, chainVars, gatewayVars, evaluationVars,
              providerVars, memoryVars, evalVars, evalMemory
  <1>1. request \in [Jobs -> [Hashes -> CallStates]]
    BY DEF StoresInv, StoresTypeOK
  <1>2. PICK s \in CallStates : /\ s # "none"
                                /\ request[j][h] \in {"asked", "checked"}
                                /\ request' = [request EXCEPT ![j][h] = s]
    BY DEF CallStates
  <1>3. StoresTypeOK'
    <2>1. request' \in [Jobs -> [Hashes -> CallStates]]
      BY <1>1, <1>2
    <2>2. deliverable' \in [Jobs -> Hashes \cup {NoHash}]
      BY DEF StoresInv, StoresTypeOK
    <2> QED
      BY <2>1, <2>2 DEF StoresInv, StoresTypeOK
  <1>4. ASSUME NEW k \in Jobs, NEW g \in Hashes
        PROVE  /\ request'[k][g] = "none" <=> request[k][g] = "none"
               /\ request[k][g] = "stored" => request'[k][g] = "stored"
    BY <1>1, <1>2
  <1>5. StoresInv'
    <2>1. SubmittedWasStored' /\ LandedIsPast' /\ VerdictIsLate' /\ NextIsFresh'
      BY <1>4 DEF StoresInv, SubmittedWasStored, LandedIsPast, VerdictIsLate, NextIsFresh
    <2>2. VerdictOnSubmitted' /\ SettlementIsBacked'
      BY DEF StoresInv, VerdictOnSubmitted, SettlementIsBacked
    <2> QED
      BY <1>3, <2>1, <2>2 DEF StoresInv
  <1>6. ProviderInv'
    <2>1. ASSUME NEW p \in ProviderPolls PROVE Orderly(poll[p], request)'
      BY <1>4 DEF ProviderInv, Orderly, FundedStages
    <2> QED
      BY <2>1 DEF ProviderInv, ProviderTypeOK, ProviderBusy, MarkedIsSubmitted
  <1>7. EvaluatorInv'
    BY DEF EvaluatorInv, EvaluatorTypeOK, EvalOrderly, EvaluatorBusy
  <1> QED
    BY <1>5, <1>6, <1>7

\* The Console takes up or stores a verdict.
LEMMA EvaluateKeepsInv ==
  ASSUME WorkersInv, NEW j \in Jobs, NEW n \in Verdicts,
         CheckEvaluation(j, n) \/ StoreEvaluation(j, n),
         UNCHANGED <<crashes, providerVars, evalVars>>
  PROVE  WorkersInv'
  <1> USE DEF CheckEvaluation, StoreEvaluation, WorkersInv, chainVars, gatewayVars,
              deliverableVars, providerVars, memoryVars, evalVars, evalMemory
  <1> DEFINE Rows == [state : CallStates, hash : Hashes \cup {NoHash}, decision : Decisions]
  <1>1. verdict \in [Jobs -> [Verdicts -> Rows]]
    BY DEF StoresInv, StoresTypeOK
  <1>2. PICK s \in CallStates : /\ s # "none"
                                /\ verdict[j][n].state \in {"asked", "checked"}
                                /\ verdict' = [verdict EXCEPT ![j][n].state = s]
    BY DEF CallStates
  <1>3. [verdict[j][n] EXCEPT !.state = s] \in Rows
    <2>1. verdict[j][n] \in Rows
      BY <1>1
    <2> QED
      BY <2>1
  <1>4. StoresTypeOK'
    <2>1. verdict' \in [Jobs -> [Verdicts -> Rows]]
      BY <1>1, <1>2, <1>3
    <2>2. evaluation' \in [Jobs -> Verdicts \cup {NoVerdict}]
      BY DEF StoresInv, StoresTypeOK
    <2> QED
      BY <2>1, <2>2 DEF StoresInv, StoresTypeOK
  <1>5. ASSUME NEW k \in Jobs, NEW m \in Verdicts
        PROVE  /\ verdict'[k][m].state = "none" <=> verdict[k][m].state = "none"
               /\ verdict[k][m].state = "stored" => verdict'[k][m].state = "stored"
               /\ verdict'[k][m].hash = verdict[k][m].hash
               /\ verdict'[k][m].decision = verdict[k][m].decision
    BY <1>1, <1>2
  <1>6. StoresInv'
    <2>1. SubmittedWasStored' /\ LandedIsPast' /\ VerdictIsLate' /\ NextIsFresh'
      BY <1>5 DEF StoresInv, SubmittedWasStored, LandedIsPast, VerdictIsLate, NextIsFresh
    <2>2. VerdictOnSubmitted' /\ SettlementIsBacked'
      BY <1>5 DEF StoresInv, VerdictOnSubmitted, SettlementIsBacked
    <2> QED
      BY <1>4, <2>1, <2>2 DEF StoresInv
  <1>7. ProviderInv'
    BY DEF ProviderInv, ProviderTypeOK, ProviderBusy, MarkedIsSubmitted, Orderly
  <1>8. EvaluatorInv'
    <2>1. ASSUME NEW p \in EvaluatorPolls PROVE EvalOrderly(evalPoll[p], verdict)'
      BY <1>5 DEF EvaluatorInv, EvalOrderly, EvalStages, SettlementActions
    <2> QED
      BY <2>1 DEF EvaluatorInv, EvaluatorTypeOK, EvaluatorBusy
  <1> QED
    BY <1>6, <1>7, <1>8

LEMMA StoresKeepInv ==
  ASSUME WorkersInv, StoresNext, UNCHANGED <<providerVars, evalVars>>
  PROVE  WorkersInv'
  <1> USE DEF StoresNext
  <1>1. ASSUME NEW w \in Writes, LandWrite(w) PROVE WorkersInv'
    BY <1>1, LandKeepsInv
  <1>2. ASSUME NEW w \in Writes, DropWrite(w) PROVE WorkersInv'
    BY <1>2, DropKeepsInv
  <1>3. ASSUME NEW j \in Jobs, FundJob(j) PROVE WorkersInv'
    BY <1>3, FundKeepsInv
  <1>4. ASSUME NEW j \in Jobs, NEW h \in Hashes, CheckPublish(j, h) \/ StoreDeliverable(j, h)
        PROVE  WorkersInv'
    BY <1>4, PublishKeepsInv
  <1>5. ASSUME NEW j \in Jobs, NEW n \in Verdicts, CheckEvaluation(j, n) \/ StoreEvaluation(j, n)
        PROVE  WorkersInv'
    BY <1>5, EvaluateKeepsInv
  <1> QED
    BY <1>1, <1>2, <1>3, <1>4, <1>5

-----------------------------------------------------------------------------
(***************************************************************************)
(* The gateway of a worker: a write is sent only when it may be, and only  *)
(* by SendWrite.                                                           *)
(***************************************************************************)
GatewayTypeOK ==
    /\ tx \in [Writes -> {"none", "live", "landed", "dropped"}]
    /\ lock \in [Roles -> Writes \cup {NoWrite}]
    /\ open \in [Roles -> BOOLEAN]
    /\ confirmed \subseteq Writes

\* A submission is of a deliverable the Console has stored; a settlement is
\* what a stored verdict says.
MayBeSent(w) ==
    /\ w.kind = "submit" => request[w.job][w.hash] = "stored"
    /\ w.kind \in Settlements =>
          \E n \in Verdicts :
             verdict[w.job][n].state = "stored" /\ verdict[w.job][n].decision = w.kind

WalletGoesOn ==
    /\ GatewayTypeOK'
    /\ \A x \in Writes : tx'[x] = tx[x] \/ (tx'[x] # "landed" /\ MayBeSent(x))

LEMMA SendGoesOn ==
  ASSUME GatewayTypeOK, NEW r \in Roles, NEW w \in Writes, MayBeSent(w), SendWrite(r, w)
  PROVE  WalletGoesOn
  <1>1. GatewayTypeOK'
    BY DEF GatewayTypeOK, SendWrite, Reserve
  <1>2. \A x \in Writes : tx'[x] = tx[x] \/ (x = w /\ tx'[x] # "landed")
    BY DEF GatewayTypeOK, SendWrite
  <1> QED
    BY <1>1, <1>2 DEF WalletGoesOn

LEMMA CallGoesOn ==
  ASSUME GatewayTypeOK, NEW r \in Roles, NEW w \in Writes,
         \/ PolicyRefuses(r, w) \/ Replays(w) \/ Refused(r)
         \/ ConfirmWrite(r, w) \/ FailWrite(r) \/ LeaveOpen(r)
  PROVE  WalletGoesOn
  BY DEF WalletGoesOn, GatewayTypeOK, PolicyRefuses, Replays, Refused, ConfirmWrite, FailWrite,
         LeaveOpen, Reserve, ReleaseLock, gatewayVars

LEMMA RecoverGoesOn ==
  ASSUME GatewayTypeOK, NEW r \in Roles, RecoverWallet(r)
  PROVE  WalletGoesOn
  BY DEF WalletGoesOn, GatewayTypeOK, RecoverWallet, FailWrite, ReleaseLock, gatewayVars

LEMMA StillGoesOn == GatewayTypeOK /\ UNCHANGED gatewayVars => WalletGoesOn
  BY DEF WalletGoesOn, GatewayTypeOK, gatewayVars

\* What a worker asks of the Console keeps what is stored there.
RequestsGoOn ==
    \A j \in Jobs, h \in Hashes :
       /\ request[j][h] = "stored" => request'[j][h] = "stored"
       /\ h > runs'[j] => request'[j][h] = "none"

VerdictsGoOn ==
    \A j \in Jobs, n \in Verdicts :
       /\ verdict[j][n].state # "none" =>
             verdict'[j][n].state # "none" /\ verdict'[j][n].decision = verdict[j][n].decision
       /\ verdict[j][n].state = "stored" => verdict'[j][n].state = "stored"
       /\ verdict'[j][n].state # "none" =>
             verdict'[j][n].hash = onchain[j] /\ chain[j] \in PastFunded
       /\ n > verdicts'[j] => verdict'[j][n].state = "none"

LEMMA UnaskedGoesOn ==
  /\ StoresInv /\ UNCHANGED <<request, runs>> => RequestsGoOn
  /\ StoresInv /\ UNCHANGED <<verdict, verdicts>> => VerdictsGoOn
  BY DEF StoresInv, NextIsFresh, VerdictOnSubmitted, VerdictIsLate, RequestsGoOn, VerdictsGoOn

LEMMA WorkerKeepsStores ==
  ASSUME StoresInv, StoresTypeOK', UNCHANGED chainVars,
         WalletGoesOn, RequestsGoOn, VerdictsGoOn
  PROVE  StoresInv'
  <1> USE DEF StoresInv, chainVars
  <1>1. SubmittedWasStored'
    <2> SUFFICES ASSUME NEW j \in Jobs, NEW h \in Hashes, tx'[Submit(j, h)] # "none"
                 PROVE  request'[j][h] = "stored"
      BY DEF SubmittedWasStored, Submit
    <2>1. tx[Submit(j, h)] # "none" \/ MayBeSent(Submit(j, h))
      BY SubmitIsWrite DEF WalletGoesOn
    <2>2. request[j][h] = "stored"
      BY <2>1 DEF SubmittedWasStored, MayBeSent, Submit
    <2> QED
      BY <2>2 DEF RequestsGoOn
  <1>2. LandedIsPast'
    BY SubmitIsWrite DEF LandedIsPast, WalletGoesOn
  <1>3. SettlementIsBacked'
    <2> SUFFICES ASSUME NEW j \in Jobs, NEW d \in Settlements, tx'[Settle(j, d)] # "none"
                 PROVE  \E n \in Verdicts : /\ verdict'[j][n].state = "stored"
                                            /\ verdict'[j][n].decision = d
      BY DEF SettlementIsBacked, Settle
    <2>1. tx[Settle(j, d)] # "none" \/ MayBeSent(Settle(j, d))
      BY SettleIsWrite DEF WalletGoesOn
    <2>2. PICK n \in Verdicts : verdict[j][n].state = "stored" /\ verdict[j][n].decision = d
      BY <2>1 DEF SettlementIsBacked, MayBeSent, Settle
    <2> QED
      BY <2>2 DEF VerdictsGoOn
  <1>4. VerdictOnSubmitted' /\ VerdictIsLate' /\ NextIsFresh'
    BY DEF VerdictOnSubmitted, VerdictIsLate, NextIsFresh, VerdictsGoOn, RequestsGoOn
  <1> QED
    BY <1>1, <1>2, <1>3, <1>4

-----------------------------------------------------------------------------
(***************************************************************************)
(* The provider worker.  A step of poll p takes it to another record, and  *)
(* if it makes the worker busy with a job, then p is at that job.          *)
(***************************************************************************)
Moves(p) ==
    \E q \in PollRecords :
       /\ poll' = [poll EXCEPT ![p] = q]
       /\ Orderly(q, request')
       /\ activeJob' \in Jobs \cup {NoJob}
       /\ \/ activeJob' \in {NoJob, q.job}
          \/ activeJob' = activeJob /\ poll[p].job \in {NoJob, q.job}

\* What the worker remembers: it gives up a job only for a reason.
Remembers ==
    /\ processedOpen' \subseteq Jobs
    /\ processedFunded' \subseteq Jobs
    /\ retries' \in [Jobs -> Nat]
    /\ \A j \in processedFunded' : chain[j] \in {"open", "funded"} => retries'[j] >= MaxRetries

LEMMA MovesKeepProvider ==
  ASSUME ProviderInv, NEW p \in ProviderPolls, Moves(p), Remembers, RequestsGoOn,
         up' \in BOOLEAN, runs' \in [Jobs -> 0 .. MaxRuns], UNCHANGED chain
  PROVE  ProviderInv'
  <1> USE DEF ProviderInv, ProviderTypeOK
  <1>1. PICK q \in PollRecords :
           /\ poll' = [poll EXCEPT ![p] = q]
           /\ Orderly(q, request')
           /\ activeJob' \in Jobs \cup {NoJob}
           /\ \/ activeJob' \in {NoJob, q.job}
              \/ activeJob' = activeJob /\ poll[p].job \in {NoJob, q.job}
    BY DEF Moves
  <1>2. ProviderTypeOK'
    BY <1>1 DEF Remembers, PollRecords
  <1>3. ASSUME NEW x \in ProviderPolls PROVE Orderly(poll'[x], request')
    <2>1. CASE x = p
      BY <1>1, <2>1
    <2>2. CASE x # p
      <3>1. poll'[x] = poll[x] /\ Orderly(poll[x], request)
        BY <1>1, <2>2
      <3> QED
        BY <3>1 DEF Orderly, RequestsGoOn, FundedStages
    <2> QED
      BY <2>1, <2>2
  <1>4. ProviderBusy'
    <2> SUFFICES ASSUME activeJob' # NoJob
                 PROVE  \E x \in ProviderPolls : poll'[x].job = activeJob'
      BY DEF ProviderBusy
    <2>1. CASE activeJob' = q.job
      BY <1>1, <2>1
    <2>2. CASE activeJob' = activeJob /\ poll[p].job \in {NoJob, q.job}
      <3>1. PICK x \in ProviderPolls : poll[x].job = activeJob
        BY <2>2 DEF ProviderBusy
      <3> QED
        BY <1>1, <2>2, <3>1
    <2> QED
      BY <1>1, <2>1, <2>2
  <1>5. MarkedIsSubmitted'
    BY DEF Remembers, MarkedIsSubmitted
  <1> QED
    BY <1>2, <1>3, <1>4, <1>5

\* The ways in which a loop goes on.
LEMMA NextFundedMoves ==
  ASSUME ProviderInv, NEW p \in ProviderPolls, NEW todo \in SUBSET Jobs, NEW done, NEW active,
         active = NoJob \/ (active = activeJob /\ poll[p].job = NoJob),
         NextFunded(p, todo, done, active)
  PROVE  Moves(p)
  <1>1. ASSUME NEW j \in todo \ done, activeJob' = j,
               poll' = [poll EXCEPT ![p] =
                 [stage |-> "running", todo |-> todo \ {j}, job |-> j, hash |-> NoHash]]
        PROVE  Moves(p)
    <2> DEFINE q == [stage |-> "running", todo |-> todo \ {j}, job |-> j, hash |-> NoHash]
    <2>1. q \in PollRecords /\ Orderly(q, request')
      BY DEF PollRecords, FundedStages, OpenStages, Orderly
    <2> QED
      BY <1>1, <2>1 DEF Moves
  <1>2. ASSUME NEW s \in {"listOpen", "idle"}, activeJob' = active,
               poll' = [poll EXCEPT ![p] = [Idle EXCEPT !.stage = s]]
        PROVE  Moves(p)
    <2> DEFINE q == [Idle EXCEPT !.stage = s]
    <2>1. q \in PollRecords /\ q.job = NoJob /\ Orderly(q, request')
      BY DEF Idle, PollRecords, FundedStages, OpenStages, Orderly
    <2>2. activeJob' \in Jobs \cup {NoJob}
      BY <1>2 DEF ProviderInv, ProviderTypeOK
    <2> QED
      BY <1>2, <2>1, <2>2 DEF Moves
  <1>3. [Idle EXCEPT !.stage = "idle"] = Idle
    BY DEF Idle
  <1> QED
    BY <1>1, <1>2, <1>3 DEF NextFunded, End

LEMMA NextOpenMoves ==
  ASSUME ProviderInv, NEW p \in ProviderPolls, NEW todo \in SUBSET Jobs, NEW done, NEW active,
         active = NoJob \/ (active = activeJob /\ poll[p].job = NoJob),
         NextOpen(p, todo, done, active)
  PROVE  Moves(p)
  <1>1. ASSUME NEW j \in todo \ done, activeJob' = j,
               poll' = [poll EXCEPT ![p] =
                 [stage |-> "budgeting", todo |-> todo \ {j}, job |-> j, hash |-> NoHash]]
        PROVE  Moves(p)
    <2> DEFINE q == [stage |-> "budgeting", todo |-> todo \ {j}, job |-> j, hash |-> NoHash]
    <2>1. q \in PollRecords /\ Orderly(q, request')
      BY DEF PollRecords, FundedStages, OpenStages, Orderly
    <2> QED
      BY <1>1, <2>1 DEF Moves
  <1>2. ASSUME activeJob' = active, End(p)
        PROVE  Moves(p)
    <2>1. Idle \in PollRecords /\ Idle.job = NoJob /\ Orderly(Idle, request')
      BY DEF Idle, PollRecords, FundedStages, OpenStages, Orderly
    <2>2. activeJob' \in Jobs \cup {NoJob}
      BY <1>2 DEF ProviderInv, ProviderTypeOK
    <2> QED
      BY <1>2, <2>1, <2>2 DEF Moves, End
  <1> QED
    BY <1>1, <1>2 DEF NextOpen

LEMMA EscapeMoves ==
  ASSUME ProviderInv, NEW p \in ProviderPolls, Escape(p)
  PROVE  Moves(p) /\ Remembers
  <1>1. Idle \in PollRecords /\ Orderly(Idle, request')
    BY DEF Idle, PollRecords, FundedStages, OpenStages, Orderly
  <1>2. Moves(p)
    BY <1>1 DEF Moves, Escape, End
  <1> QED
    BY <1>2 DEF Escape, Remembers, ProviderInv, ProviderTypeOK, MarkedIsSubmitted

\* A poll that stays at its job; what a submission needs is there.
LEMMA GoToMoves ==
  ASSUME ProviderInv, NEW p \in ProviderPolls,
         NEW s \in {"submitting", "writing", "sleeping", "writingBudget", "verifying", "listFunded"},
         s = "listFunded" => poll[p].job = NoJob,
         s # "listFunded" => poll[p].job \in Jobs,
         s \in {"submitting", "writing"} =>
            poll[p].hash \in Hashes /\ request'[poll[p].job][poll[p].hash] = "stored",
         GoTo(p, s), UNCHANGED activeJob
  PROVE  Moves(p)
  <1> DEFINE q == [poll[p] EXCEPT !.stage = s]
  <1>1. poll[p] \in PollRecords
    BY DEF ProviderInv, ProviderTypeOK, PollRecords
  <1>2. q \in PollRecords /\ q.stage = s /\ q.job = poll[p].job /\ q.hash = poll[p].hash
    BY <1>1 DEF PollRecords, FundedStages, OpenStages
  <1>3. Orderly(q, request')
    BY <1>2 DEF Orderly, FundedStages, OpenStages
  <1>4. poll' = [poll EXCEPT ![p] = q]
    BY DEF GoTo
  <1> QED
    BY <1>2, <1>3, <1>4 DEF Moves, ProviderInv, ProviderTypeOK

LEMMA FailedMoves ==
  ASSUME ProviderInv, NEW p \in ProviderPolls, poll[p].stage \in FundedStages, Failed(p)
  PROVE  Moves(p) /\ Remembers
  <1>1. CASE activeJob = NoJob
    BY <1>1, EscapeMoves DEF Failed
  <1>2. CASE activeJob # NoJob
    <2> DEFINE j == poll[p].job
    <2>1. j \in Jobs /\ retries[j] \in Nat
      BY DEF ProviderInv, ProviderTypeOK, Orderly
    <2>2. Moves(p)
      BY <1>2, <2>1, NextFundedMoves, GoToMoves DEF Failed
    <2>3. Remembers
      BY <1>2, <2>1 DEF Failed, Remembers, ProviderInv, ProviderTypeOK, MarkedIsSubmitted
    <2> QED
      BY <2>2, <2>3
  <1> QED
    BY <1>1, <1>2

LEMMA FailedOpenMoves ==
  ASSUME ProviderInv, NEW p \in ProviderPolls, FailedOpen(p)
  PROVE  Moves(p) /\ Remembers
  <1>1. CASE activeJob = NoJob
    BY <1>1, EscapeMoves DEF FailedOpen
  <1>2. CASE activeJob # NoJob
    <2>1. poll[p].todo \in SUBSET Jobs
      BY DEF ProviderInv, ProviderTypeOK
    <2>2. Moves(p)
      BY <1>2, <2>1, NextOpenMoves DEF FailedOpen
    <2>3. Remembers
      BY <1>2 DEF FailedOpen, Remembers, ProviderInv, ProviderTypeOK, MarkedIsSubmitted
    <2> QED
      BY <2>2, <2>3
  <1> QED
    BY <1>1, <1>2

-----------------------------------------------------------------------------
(***************************************************************************)
(* The steps of the provider worker.                                       *)
(***************************************************************************)
LEMMA ProviderMoveKeepsInv ==
  ASSUME WorkersInv, NEW p \in ProviderPolls, Moves(p), Remembers, WalletGoesOn, RequestsGoOn,
         runs' \in [Jobs -> 0 .. MaxRuns], request' \in [Jobs -> [Hashes -> CallStates]],
         UNCHANGED <<up, deliverable, chainVars, evaluationVars, evalVars, crashes>>
  PROVE  WorkersInv'
  <1> USE DEF WorkersInv, chainVars, evaluationVars, evalVars, evalMemory
  <1>1. ProviderInv'
    BY MovesKeepProvider DEF ProviderInv, ProviderTypeOK
  <1>2. StoresInv'
    <2>1. StoresTypeOK'
      BY DEF StoresInv, StoresTypeOK, WalletGoesOn, GatewayTypeOK
    <2>2. VerdictsGoOn
      BY UnaskedGoesOn
    <2> QED
      BY <2>1, <2>2, WorkerKeepsStores
  <1>3. EvaluatorInv'
    BY DEF EvaluatorInv, EvaluatorTypeOK, EvalOrderly, EvaluatorBusy
  <1> QED
    BY <1>1, <1>2, <1>3

\* A step that asks nothing of the Console that has to be stored.
LEMMA QuietMoveKeepsInv ==
  ASSUME WorkersInv, NEW p \in ProviderPolls, Moves(p), Remembers, WalletGoesOn,
         UNCHANGED <<up, runs, deliverableVars, chainVars, evaluationVars, evalVars, crashes>>
  PROVE  WorkersInv'
  <1>1. RequestsGoOn
    BY UnaskedGoesOn DEF WorkersInv, deliverableVars
  <1>2. request' \in [Jobs -> [Hashes -> CallStates]] /\ runs' \in [Jobs -> 0 .. MaxRuns]
    BY DEF WorkersInv, StoresInv, StoresTypeOK, ProviderInv, ProviderTypeOK, deliverableVars
  <1> QED
    BY <1>1, <1>2, ProviderMoveKeepsInv DEF deliverableVars

LEMMA MemoryStays ==
  ProviderInv /\ UNCHANGED <<processedOpen, processedFunded, retries>> => Remembers
  BY DEF Remembers, ProviderInv, ProviderTypeOK, MarkedIsSubmitted

\* What a poll at a stage is known to hold.
LEMMA PollHolds ==
  ASSUME WorkersInv, NEW p \in ProviderPolls
  PROVE  /\ GatewayTypeOK
         /\ poll[p].todo \in SUBSET Jobs
         /\ poll[p].stage \in {"idle", "listFunded", "listOpen"} => poll[p].job = NoJob
         /\ poll[p].stage \in FundedStages \cup OpenStages => poll[p].job \in Jobs
         /\ poll[p].stage \in {"publishing", "submitting", "writing"} =>
               poll[p].hash \in Hashes /\ SubmitOf(p) \in Writes
         /\ poll[p].stage \in OpenStages => BudgetOf(p) \in Writes
         /\ poll[p].stage \in {"submitting", "writing"} =>
               request[poll[p].job][poll[p].hash] = "stored" /\ MayBeSent(SubmitOf(p))
         /\ poll[p].stage \in OpenStages => MayBeSent(BudgetOf(p))
  <1>1. GatewayTypeOK
    BY DEF WorkersInv, StoresInv, StoresTypeOK, GatewayTypeOK
  <1>2. Orderly(poll[p], request) /\ poll[p].todo \in SUBSET Jobs
    BY DEF WorkersInv, ProviderInv, ProviderTypeOK
  <1> QED
    BY <1>1, <1>2, SubmitIsWrite, SetBudgetIsWrite
    DEF Orderly, SubmitOf, BudgetOf, FundedStages, MayBeSent, Submit, SetBudget, Settlements

LEMMA ListingKeepsInv ==
  ASSUME WorkersInv, NEW p \in ProviderPolls,
         StartPoll(p) \/ ListFunded(p) \/ WakeUp(p) \/ ListOpen(p),
         UNCHANGED <<evaluationVars, evalVars, crashes>>
  PROVE  WorkersInv'
  <1> USE PollHolds DEF At, memoryVars
  <1>1. ProviderInv /\ NoJob \notin Jobs
    BY DEF WorkersInv
  <1>2. Moves(p)
    <2>1. CASE StartPoll(p)
      BY <1>1, <2>1, GoToMoves DEF StartPoll
    <2>2. CASE ListFunded(p)
      BY <1>1, <2>2, NextFundedMoves DEF ListFunded, Listed
    <2>3. CASE WakeUp(p)
      BY <1>1, <2>3, NextFundedMoves DEF WakeUp
    <2>4. CASE ListOpen(p)
      BY <1>1, <2>4, NextOpenMoves DEF ListOpen, Listed
    <2> QED
      BY <2>1, <2>2, <2>3, <2>4
  <1>3. WalletGoesOn
    BY StillGoesOn DEF StartPoll, ListFunded, WakeUp, ListOpen
  <1> QED
    BY <1>1, <1>2, <1>3, MemoryStays, QuietMoveKeepsInv
    DEF StartPoll, ListFunded, WakeUp, ListOpen

\* The hash of a new deliverable is the first that is fresh.
LEMMA RuntimeCompletesKeepsInv ==
  ASSUME WorkersInv, NEW p \in ProviderPolls, RuntimeCompletes(p),
         UNCHANGED <<evaluationVars, evalVars, crashes>>
  PROVE  WorkersInv'
  <1> DEFINE j == poll[p].job
             h == runs[j] + 1
  <1> USE PollHolds DEF RuntimeCompletes, At
  <1>1. ProviderInv /\ StoresInv
    BY DEF WorkersInv
  <1>2. WalletGoesOn
    BY StillGoesOn
  <1>3. CASE activeJob = NoJob
    BY <1>1, <1>2, <1>3, EscapeMoves, QuietMoveKeepsInv DEF deliverableVars
  <1>4. CASE activeJob # NoJob
    <2>1. /\ j \in Jobs /\ h \in Hashes /\ h = runs[j] + 1
          /\ runs \in [Jobs -> 0 .. MaxRuns]
          /\ runs' = [runs EXCEPT ![j] = h]
      BY <1>1, <1>4 DEF ProviderInv, ProviderTypeOK, Orderly, FundedStages, Hashes
    <2>2. runs' \in [Jobs -> 0 .. MaxRuns]
      BY <2>1 DEF Hashes
    <2>3. /\ request \in [Jobs -> [Hashes -> CallStates]]
          /\ request' = [request EXCEPT ![j][h] = "asked"]
      BY <1>1, <1>4 DEF AskPublish, StoresInv, StoresTypeOK
    <2>4. request' \in [Jobs -> [Hashes -> CallStates]]
      BY <2>1, <2>3 DEF CallStates
    <2>5. request[j][h] = "none"
      BY <1>1, <2>1 DEF StoresInv, NextIsFresh, Hashes
    <2>6. RequestsGoOn
      <3> SUFFICES ASSUME NEW k \in Jobs, NEW g \in Hashes
                   PROVE  /\ request[k][g] = "stored" => request'[k][g] = "stored"
                          /\ g > runs'[k] => request'[k][g] = "none"
        BY DEF RequestsGoOn
      <3>1. g > runs[k] => request[k][g] = "none"
        BY <1>1 DEF StoresInv, NextIsFresh
      <3>2. g \in Nat /\ runs[k] \in Nat
        BY <2>1 DEF Hashes
      <3>3. CASE k = j /\ g = h
        BY <2>1, <2>3, <2>5, <3>2, <3>3
      <3>4. CASE ~(k = j /\ g = h)
        <4>1. request'[k][g] = request[k][g]
          BY <2>3, <3>4
        <4>2. g > runs'[k] => g > runs[k]
          BY <2>1, <3>2
        <4> QED
          BY <3>1, <4>1, <4>2
      <3> QED
        BY <3>3, <3>4
    <2>7. Moves(p)
      <3> DEFINE q == [poll[p] EXCEPT !.stage = "publishing", !.hash = h]
      <3>1. poll[p] \in PollRecords
        BY <1>1 DEF ProviderInv, ProviderTypeOK, PollRecords
      <3>2. q \in PollRecords /\ q.job = j /\ q.hash = h /\ q.stage = "publishing"
        BY <2>1, <3>1 DEF PollRecords, FundedStages
      <3>3. Orderly(q, request')
        BY <2>1, <3>2 DEF Orderly, FundedStages, OpenStages
      <3>4. poll' = [poll EXCEPT ![p] = q] /\ activeJob' = activeJob
        BY <1>4 DEF memoryVars
      <3> QED
        BY <1>1, <3>2, <3>3, <3>4 DEF Moves, ProviderInv, ProviderTypeOK
    <2>8. Remembers
      BY <1>1, <1>4, MemoryStays DEF memoryVars
    <2> QED
      BY <1>2, <2>2, <2>4, <2>6, <2>7, <2>8, ProviderMoveKeepsInv
  <1> QED
    BY <1>3, <1>4

LEMMA RuntimeKeepsInv ==
  ASSUME WorkersInv, NEW p \in ProviderPolls,
         \/ RuntimeWaits(p) \/ RuntimeFails(p) \/ PublishReturns(p) \/ PublishThrows(p),
         UNCHANGED <<evaluationVars, evalVars, crashes>>
  PROVE  WorkersInv'
  <1> USE PollHolds DEF At, memoryVars
  <1>1. ProviderInv
    BY DEF WorkersInv
  <1>2. Moves(p) /\ Remembers
    <2>1. CASE RuntimeWaits(p)
      <3>1. CASE activeJob = NoJob
        BY <1>1, <2>1, <3>1, EscapeMoves DEF RuntimeWaits
      <3>2. CASE activeJob # NoJob
        BY <1>1, <2>1, <3>2, NextFundedMoves, MemoryStays DEF RuntimeWaits
      <3> QED
        BY <3>1, <3>2
    <2>2. CASE RuntimeFails(p)
      BY <1>1, <2>2, FailedMoves DEF RuntimeFails, FundedStages
    <2>3. CASE PublishReturns(p)
      <3>1. CASE activeJob = NoJob
        BY <1>1, <2>3, <3>1, EscapeMoves DEF PublishReturns
      <3>2. CASE activeJob # NoJob
        BY <1>1, <2>3, <3>2, GoToMoves, MemoryStays
        DEF PublishReturns, FundedStages, deliverableVars
      <3> QED
        BY <3>1, <3>2
    <2>4. CASE PublishThrows(p)
      BY <1>1, <2>4, FailedMoves DEF PublishThrows, FundedStages
    <2> QED
      BY <2>1, <2>2, <2>3, <2>4
  <1>3. WalletGoesOn
    BY StillGoesOn DEF RuntimeWaits, RuntimeFails, PublishReturns, PublishThrows
  <1> QED
    BY <1>2, <1>3, QuietMoveKeepsInv
    DEF RuntimeWaits, RuntimeFails, PublishReturns, PublishThrows

LEMMA SubmittingKeepsInv ==
  ASSUME WorkersInv, NEW p \in ProviderPolls,
         \/ SubmitDeliverable(p) \/ SubmitRefused(p)
         \/ Submitted(p) \/ SubmittedUnrecorded(p) \/ SubmitThrows(p),
         UNCHANGED <<evaluationVars, evalVars, crashes>>
  PROVE  WorkersInv'
  <1> USE PollHolds DEF At, memoryVars
  <1>1. ProviderInv /\ "provider" \in Roles
    BY DEF WorkersInv, Roles
  <1>2. WalletGoesOn
    <2>1. CASE SubmitDeliverable(p)
      BY <1>1, <2>1, SendGoesOn DEF SubmitDeliverable
    <2>2. CASE SubmitRefused(p)
      BY <1>1, <2>2, CallGoesOn DEF SubmitRefused
    <2>3. CASE Submitted(p) \/ SubmittedUnrecorded(p) \/ SubmitThrows(p)
      BY <1>1, <2>3, CallGoesOn DEF Submitted, SubmittedUnrecorded, SubmitThrows
    <2> QED
      BY <2>1, <2>2, <2>3
  <1>3. Moves(p) /\ Remembers
    <2>1. CASE SubmitDeliverable(p)
      BY <1>1, <2>1, GoToMoves, MemoryStays DEF SubmitDeliverable, FundedStages, deliverableVars
    <2>2. CASE SubmitRefused(p) \/ SubmittedUnrecorded(p) \/ SubmitThrows(p)
      BY <1>1, <2>2, FailedMoves DEF SubmitRefused, SubmittedUnrecorded, SubmitThrows, FundedStages
    <2>3. CASE Submitted(p)
      <3>1. CASE activeJob = NoJob
        BY <1>1, <2>3, <3>1, EscapeMoves DEF Submitted
      <3>2. CASE activeJob # NoJob
        <4>1. poll[p].job \in Jobs /\ poll[p].hash \in Hashes
          BY <2>3 DEF Submitted, FundedStages
        <4>2. chain[poll[p].job] \in PastFunded
          BY <2>3, <4>1 DEF Submitted, ConfirmWrite, SubmitOf, WorkersInv, StoresInv, LandedIsPast
        <4>3. Moves(p)
          BY <1>1, <2>3, <3>2, NextFundedMoves DEF Submitted
        <4>4. Remembers
          BY <1>1, <2>3, <3>2, <4>1, <4>2
          DEF Submitted, Remembers, ProviderInv, ProviderTypeOK, MarkedIsSubmitted, PastFunded
        <4> QED
          BY <4>3, <4>4
      <3> QED
        BY <3>1, <3>2
    <2> QED
      BY <2>1, <2>2, <2>3
  <1> QED
    BY <1>2, <1>3, QuietMoveKeepsInv
    DEF SubmitDeliverable, SubmitRefused, Submitted, SubmittedUnrecorded, SubmitThrows

LEMMA BudgetKeepsInv ==
  ASSUME WorkersInv, NEW p \in ProviderPolls,
         \/ SendBudget(p) \/ BudgetRefused(p) \/ BudgetConfirmed(p)
         \/ BudgetThrows(p) \/ BudgetVerified(p) \/ VerifyThrows(p),
         UNCHANGED <<evaluationVars, evalVars, crashes>>
  PROVE  WorkersInv'
  <1> USE PollHolds DEF At, memoryVars
  <1>1. ProviderInv /\ "provider" \in Roles
    BY DEF WorkersInv, Roles
  <1>2. poll[p].stage \in OpenStages
    BY DEF OpenStages, SendBudget, BudgetRefused, BudgetConfirmed, BudgetThrows, BudgetVerified,
           VerifyThrows
  <1>3. WalletGoesOn
    <2>1. CASE SendBudget(p)
      BY <1>1, <1>2, <2>1, SendGoesOn DEF SendBudget
    <2>2. CASE BudgetRefused(p) \/ BudgetConfirmed(p) \/ BudgetThrows(p)
      BY <1>1, <1>2, <2>2, CallGoesOn DEF BudgetRefused, BudgetConfirmed, BudgetThrows
    <2>3. CASE BudgetVerified(p) \/ VerifyThrows(p)
      BY <2>3, StillGoesOn DEF BudgetVerified, VerifyThrows
    <2> QED
      BY <2>1, <2>2, <2>3
  <1>4. Moves(p) /\ Remembers
    <2>1. CASE SendBudget(p)
      BY <1>1, <1>2, <2>1, GoToMoves, MemoryStays DEF SendBudget
    <2>2. CASE BudgetRefused(p) \/ BudgetThrows(p) \/ VerifyThrows(p)
      BY <1>1, <2>2, FailedOpenMoves DEF BudgetRefused, BudgetThrows, VerifyThrows
    <2>3. CASE BudgetConfirmed(p)
      BY <1>1, <1>2, <2>3, EscapeMoves, GoToMoves, MemoryStays DEF BudgetConfirmed
    <2>4. CASE BudgetVerified(p)
      <3>1. Moves(p)
        BY <1>1, <2>4, NextOpenMoves DEF BudgetVerified
      <3>2. Remembers
        BY <1>1, <1>2, <2>4
        DEF BudgetVerified, Remembers, ProviderInv, ProviderTypeOK, MarkedIsSubmitted
      <3> QED
        BY <3>1, <3>2
    <2> QED
      BY <2>1, <2>2, <2>3, <2>4
  <1> QED
    BY <1>3, <1>4, QuietMoveKeepsInv
    DEF SendBudget, BudgetRefused, BudgetConfirmed, BudgetThrows, BudgetVerified, VerifyThrows

-----------------------------------------------------------------------------
(***************************************************************************)
(* The evaluator worker, in the same way.                                  *)
(***************************************************************************)
EvalMoves(p) ==
    \E q \in EvalRecords :
       /\ evalPoll' = [evalPoll EXCEPT ![p] = q]
       /\ EvalOrderly(q, verdict')
       /\ activeEval' \in Jobs \cup {NoJob}
       /\ \/ activeEval' \in {NoJob, q.job}
          \/ activeEval' = activeEval /\ evalPoll[p].job \in {NoJob, q.job}

EvalRemembers == processedIds' \subseteq Jobs /\ evalRetries' \in [Jobs -> Nat]

LEMMA MovesKeepEvaluator ==
  ASSUME EvaluatorInv, NEW p \in EvaluatorPolls, EvalMoves(p), EvalRemembers, VerdictsGoOn,
         evalUp' \in BOOLEAN, verdicts' \in [Jobs -> 0 .. MaxVerdicts], UNCHANGED chainVars
  PROVE  EvaluatorInv'
  <1> USE DEF EvaluatorInv, EvaluatorTypeOK, chainVars
  <1>1. PICK q \in EvalRecords :
           /\ evalPoll' = [evalPoll EXCEPT ![p] = q]
           /\ EvalOrderly(q, verdict')
           /\ activeEval' \in Jobs \cup {NoJob}
           /\ \/ activeEval' \in {NoJob, q.job}
              \/ activeEval' = activeEval /\ evalPoll[p].job \in {NoJob, q.job}
    BY DEF EvalMoves
  <1>2. EvaluatorTypeOK'
    BY <1>1 DEF EvalRemembers, EvalRecords
  <1>3. ASSUME NEW x \in EvaluatorPolls PROVE EvalOrderly(evalPoll'[x], verdict')
    <2>1. CASE x = p
      BY <1>1, <2>1
    <2>2. CASE x # p
      <3>1. evalPoll'[x] = evalPoll[x] /\ EvalOrderly(evalPoll[x], verdict)
        BY <1>1, <2>2
      <3> QED
        BY <3>1 DEF EvalOrderly, VerdictsGoOn, EvalStages
    <2> QED
      BY <2>1, <2>2
  <1>4. ASSUME NEW x \in EvaluatorPolls PROVE EvalOrderly(evalPoll[x], verdict)'
    BY <1>3 DEF EvalOrderly
  <1>5. EvaluatorBusy'
    <2> SUFFICES ASSUME activeEval' # NoJob
                 PROVE  \E x \in EvaluatorPolls : evalPoll'[x].job = activeEval'
      BY DEF EvaluatorBusy
    <2>1. CASE activeEval' = q.job
      BY <1>1, <2>1
    <2>2. CASE activeEval' = activeEval /\ evalPoll[p].job \in {NoJob, q.job}
      <3>1. PICK x \in EvaluatorPolls : evalPoll[x].job = activeEval
        BY <2>2 DEF EvaluatorBusy
      <3> QED
        BY <1>1, <2>2, <3>1
    <2> QED
      BY <1>1, <2>1, <2>2
  <1> QED
    BY <1>2, <1>4, <1>5

\* The ways in which the loop goes on.
LEMMA EndEvalIsOrderly ==
  NoEvaluation \in EvalRecords /\ NoEvaluation.job = NoJob /\ EvalOrderly(NoEvaluation, verdict')
  BY DEF NoEvaluation, EvalRecords, EvalStages, EvalOrderly, NoHash, NoVerdict, Decisions

LEMMA NextSubmittedMoves ==
  ASSUME EvaluatorInv, NEW p \in EvaluatorPolls, NEW todo \in SUBSET Jobs, NEW done, NEW active,
         active = NoJob \/ (active = activeEval /\ evalPoll[p].job = NoJob),
         NextSubmitted(p, todo, done, active)
  PROVE  EvalMoves(p)
  <1>1. ASSUME NEW j \in todo \ done, activeEval' = j,
               evalPoll' = [evalPoll EXCEPT ![p] =
                 [NoEvaluation EXCEPT !.stage = "fetching", !.todo = todo \ {j}, !.job = j]]
        PROVE  EvalMoves(p)
    <2> DEFINE q == [NoEvaluation EXCEPT !.stage = "fetching", !.todo = todo \ {j}, !.job = j]
    <2>1. q \in EvalRecords /\ q.job = j /\ q.stage = "fetching"
      BY DEF NoEvaluation, EvalRecords, EvalStages, NoHash, NoVerdict, Decisions
    <2>2. EvalOrderly(q, verdict')
      BY <2>1 DEF EvalOrderly
    <2> QED
      BY <1>1, <2>1, <2>2 DEF EvalMoves
  <1>2. ASSUME activeEval' = active, EndEval(p)
        PROVE  EvalMoves(p)
    <2>1. activeEval' \in Jobs \cup {NoJob}
      BY <1>2 DEF EvaluatorInv, EvaluatorTypeOK
    <2> QED
      BY <1>2, <2>1, EndEvalIsOrderly DEF EvalMoves, EndEval
  <1> QED
    BY <1>1, <1>2 DEF NextSubmitted

LEMMA EscapeEvalMoves ==
  ASSUME EvaluatorInv, NEW p \in EvaluatorPolls, EscapeEval(p)
  PROVE  EvalMoves(p) /\ EvalRemembers
  BY EndEvalIsOrderly
  DEF EvalMoves, EscapeEval, EndEval, EvalRemembers, EvaluatorInv, EvaluatorTypeOK

\* A poll that stays at its job; what it waits for next is in order.
LEMMA EvalGoToMoves ==
  ASSUME EvaluatorInv, NEW p \in EvaluatorPolls,
         NEW s \in {"listing", "settling", "writing", "attaching", "queueing", "sleeping"},
         EvalOrderly([evalPoll[p] EXCEPT !.stage = s], verdict'),
         EvalGoTo(p, s), UNCHANGED activeEval
  PROVE  EvalMoves(p)
  <1> DEFINE q == [evalPoll[p] EXCEPT !.stage = s]
  <1>1. evalPoll[p] \in EvalRecords
    BY DEF EvaluatorInv, EvaluatorTypeOK, EvalRecords
  <1>2. q \in EvalRecords /\ q.job = evalPoll[p].job
    BY <1>1 DEF EvalRecords, EvalStages
  <1>3. evalPoll' = [evalPoll EXCEPT ![p] = q]
    BY DEF EvalGoTo
  <1> QED
    BY <1>2, <1>3 DEF EvalMoves, EvaluatorInv, EvaluatorTypeOK

LEMMA EvalStageIs ==
  ASSUME EvaluatorInv, NEW p \in EvaluatorPolls, NEW s \in {"idle", "listing"} \cup EvalStages
  PROVE  LET q == [evalPoll[p] EXCEPT !.stage = s] IN
         /\ q.stage = s /\ q.job = evalPoll[p].job /\ q.hash = evalPoll[p].hash
         /\ q.verdict = evalPoll[p].verdict /\ q.action = evalPoll[p].action
  BY DEF EvaluatorInv, EvaluatorTypeOK

LEMMA EvaluationFailedMoves ==
  ASSUME EvaluatorInv, NEW p \in EvaluatorPolls, evalPoll[p].stage \in EvalStages,
         EvaluationFailed(p)
  PROVE  EvalMoves(p) /\ EvalRemembers
  <1>1. CASE activeEval = NoJob
    BY <1>1, EscapeEvalMoves DEF EvaluationFailed
  <1>2. CASE activeEval # NoJob
    <2>1. evalPoll[p].job \in Jobs /\ evalRetries[evalPoll[p].job] \in Nat
      BY DEF EvaluatorInv, EvaluatorTypeOK, EvalOrderly
    <2>2. EvalOrderly([evalPoll[p] EXCEPT !.stage = "sleeping"], verdict')
      BY <2>1, EvalStageIs DEF EvalOrderly, EvalStages
    <2>3. EvalMoves(p)
      BY <1>2, <2>2, NextSubmittedMoves, EvalGoToMoves DEF EvaluationFailed
    <2>4. EvalRemembers
      BY <1>2, <2>1 DEF EvaluationFailed, EvalRemembers, EvaluatorInv, EvaluatorTypeOK
    <2> QED
      BY <2>3, <2>4
  <1> QED
    BY <1>1, <1>2

LEMMA EvaluationEndsMoves ==
  ASSUME EvaluatorInv, NEW p \in EvaluatorPolls, evalPoll[p].stage \in EvalStages,
         EvaluationEnds(p)
  PROVE  EvalMoves(p) /\ EvalRemembers
  <1>1. CASE activeEval = NoJob
    BY <1>1, EscapeEvalMoves DEF EvaluationEnds
  <1>2. CASE activeEval # NoJob
    <2>1. evalPoll[p].job \in Jobs /\ evalPoll[p].todo \in SUBSET Jobs
      BY DEF EvaluatorInv, EvaluatorTypeOK, EvalOrderly
    <2>2. EvalMoves(p)
      BY <1>2, <2>1, NextSubmittedMoves DEF EvaluationEnds
    <2>3. EvalRemembers
      BY <1>2, <2>1 DEF EvaluationEnds, EvalRemembers, EvaluatorInv, EvaluatorTypeOK
    <2> QED
      BY <2>2, <2>3
  <1> QED
    BY <1>1, <1>2

-----------------------------------------------------------------------------
(***************************************************************************)
(* The steps of the evaluator worker.                                      *)
(***************************************************************************)
EvaluationTypeOK ==
    /\ verdict \in [Jobs -> [Verdicts ->
                     [state : CallStates, hash : Hashes \cup {NoHash}, decision : Decisions]]]
    /\ evaluation \in [Jobs -> Verdicts \cup {NoVerdict}]
    /\ attached \subseteq Jobs
    /\ publication \subseteq Jobs \X Feedback

LEMMA EvaluatorMoveKeepsInv ==
  ASSUME WorkersInv, NEW p \in EvaluatorPolls, EvalMoves(p), EvalRemembers, WalletGoesOn,
         VerdictsGoOn, verdicts' \in [Jobs -> 0 .. MaxVerdicts], EvaluationTypeOK',
         UNCHANGED <<evalUp, chainVars, deliverableVars, providerVars, crashes>>
  PROVE  WorkersInv'
  <1> USE DEF WorkersInv, chainVars, deliverableVars, providerVars, memoryVars
  <1>1. EvaluatorInv'
    BY MovesKeepEvaluator DEF EvaluatorInv, EvaluatorTypeOK
  <1>2. StoresInv'
    <2>1. StoresTypeOK'
      BY DEF StoresInv, StoresTypeOK, WalletGoesOn, GatewayTypeOK, EvaluationTypeOK
    <2>2. RequestsGoOn
      BY UnaskedGoesOn
    <2> QED
      BY <2>1, <2>2, WorkerKeepsStores
  <1>3. ProviderInv'
    BY DEF ProviderInv, ProviderTypeOK, Orderly, ProviderBusy, MarkedIsSubmitted
  <1> QED
    BY <1>1, <1>2, <1>3

\* A step that gives no verdict.
LEMMA QuietEvalKeepsInv ==
  ASSUME WorkersInv, NEW p \in EvaluatorPolls, EvalMoves(p), EvalRemembers, WalletGoesOn,
         evaluation' \in [Jobs -> Verdicts \cup {NoVerdict}],
         attached' \subseteq Jobs, publication' \subseteq Jobs \X Feedback,
         UNCHANGED <<evalUp, verdicts, verdict, chainVars, deliverableVars, providerVars, crashes>>
  PROVE  WorkersInv'
  <1>1. VerdictsGoOn
    BY UnaskedGoesOn DEF WorkersInv
  <1>2. EvaluationTypeOK' /\ verdicts' \in [Jobs -> 0 .. MaxVerdicts]
    BY DEF WorkersInv, StoresInv, StoresTypeOK, EvaluatorInv, EvaluatorTypeOK, EvaluationTypeOK
  <1> QED
    BY <1>1, <1>2, EvaluatorMoveKeepsInv

LEMMA EvalMemoryStays ==
  EvaluatorInv /\ UNCHANGED <<processedIds, evalRetries>> => EvalRemembers
  BY DEF EvalRemembers, EvaluatorInv, EvaluatorTypeOK

LEMMA EvalPollHolds ==
  ASSUME WorkersInv, NEW p \in EvaluatorPolls
  PROVE  /\ GatewayTypeOK /\ EvaluationTypeOK /\ EvaluatorInv
         /\ evalPoll[p].todo \in SUBSET Jobs
         /\ evalPoll[p].stage \in {"idle", "listing"} => evalPoll[p].job = NoJob
         /\ evalPoll[p].stage \in EvalStages => evalPoll[p].job \in Jobs
         /\ evalPoll[p].stage \in {"settling", "writing"} =>
               evalPoll[p].action \in Settlements /\ SettlementOf(p) \in Writes
         /\ evalPoll[p].stage = "settling" => MayBeSent(SettlementOf(p))
  <1>1. GatewayTypeOK /\ EvaluationTypeOK /\ EvaluatorInv
    BY DEF WorkersInv, StoresInv, StoresTypeOK, GatewayTypeOK, EvaluationTypeOK
  <1>2. EvalOrderly(evalPoll[p], verdict) /\ evalPoll[p].todo \in SUBSET Jobs
    BY DEF WorkersInv, EvaluatorInv, EvaluatorTypeOK
  <1> QED
    BY <1>1, <1>2, SettleIsWrite DEF EvalOrderly, EvalStages, SettlementOf, MayBeSent, Settle, Settlements

LEMMA EvalListingKeepsInv ==
  ASSUME WorkersInv, NEW p \in EvaluatorPolls,
         StartEvalPoll(p) \/ ListSubmitted(p) \/ WakeUpEval(p),
         UNCHANGED <<deliverableVars, providerVars, crashes>>
  PROVE  WorkersInv'
  <1> USE EvalPollHolds DEF EvalAt, evalMemory, evaluationVars, EvaluationTypeOK
  <1>1. EvalMoves(p)
    <2>1. CASE StartEvalPoll(p)
      <3>1. EvalOrderly([evalPoll[p] EXCEPT !.stage = "listing"], verdict')
        BY <2>1, EvalStageIs DEF StartEvalPoll, EvalOrderly, EvalStages
      <3> QED
        BY <2>1, <3>1, EvalGoToMoves DEF StartEvalPoll
    <2>2. CASE ListSubmitted(p)
      BY <2>2, NextSubmittedMoves DEF ListSubmitted, Listed
    <2>3. CASE WakeUpEval(p)
      BY <2>3, NextSubmittedMoves DEF WakeUpEval
    <2> QED
      BY <2>1, <2>2, <2>3
  <1>2. WalletGoesOn
    BY StillGoesOn DEF StartEvalPoll, ListSubmitted, WakeUpEval
  <1> QED
    BY <1>1, <1>2, EvalMemoryStays, QuietEvalKeepsInv DEF StartEvalPoll, ListSubmitted, WakeUpEval

\* The deliverable that is fetched is the one on chain, and it stays that.
LEMMA EvaluatingKeepsInv ==
  ASSUME WorkersInv, NEW p \in EvaluatorPolls,
         \/ FetchReturns(p) \/ FetchThrows(p) \/ VerdictInvalid(p) \/ EvaluatorRuntimeFails(p),
         UNCHANGED <<deliverableVars, providerVars, crashes>>
  PROVE  WorkersInv'
  <1> USE EvalPollHolds DEF EvalAt, evalMemory, evaluationVars, EvaluationTypeOK
  <1>1. EvalMoves(p) /\ EvalRemembers
    <2>1. CASE FetchReturns(p)
      <3>1. CASE activeEval = NoJob
        BY <2>1, <3>1, EscapeEvalMoves DEF FetchReturns
      <3>2. CASE activeEval # NoJob
        <4> DEFINE j == evalPoll[p].job
                   q == [evalPoll[p] EXCEPT !.stage = "evaluating", !.hash = deliverable[j]]
        <4>1. j \in Jobs /\ deliverable[j] \in Hashes \cup {NoHash}
          BY <2>1 DEF FetchReturns, EvalStages, WorkersInv, StoresInv, StoresTypeOK
        <4>2. evalPoll[p] \in EvalRecords
          BY DEF EvaluatorInv, EvaluatorTypeOK, EvalRecords
        <4>3. q \in EvalRecords /\ q.job = j /\ q.hash = deliverable[j] /\ q.stage = "evaluating"
          BY <4>1, <4>2 DEF EvalRecords, EvalStages
        <4>4. EvalOrderly(q, verdict')
          BY <2>1, <4>1, <4>3 DEF FetchReturns, GetDeliverable, EvalOrderly, PastFunded
        <4>5. evalPoll' = [evalPoll EXCEPT ![p] = q] /\ activeEval' = activeEval
          BY <2>1, <3>2 DEF FetchReturns
        <4> QED
          BY <2>1, <3>2, <4>3, <4>4, <4>5, EvalMemoryStays
          DEF FetchReturns, EvalMoves, EvaluatorInv, EvaluatorTypeOK
      <3> QED
        BY <3>1, <3>2
    <2>2. CASE FetchThrows(p) \/ EvaluatorRuntimeFails(p)
      BY <2>2, EvaluationFailedMoves DEF FetchThrows, EvaluatorRuntimeFails, EvalStages
    <2>3. CASE VerdictInvalid(p)
      BY <2>3, EvaluationEndsMoves DEF VerdictInvalid, EvalStages
    <2> QED
      BY <2>1, <2>2, <2>3
  <1>2. WalletGoesOn
    BY StillGoesOn DEF FetchReturns, FetchThrows, VerdictInvalid, EvaluatorRuntimeFails
  <1> QED
    BY <1>1, <1>2, QuietEvalKeepsInv
    DEF FetchReturns, FetchThrows, VerdictInvalid, EvaluatorRuntimeFails

\* A verdict gets the first fresh number of its job.
LEMMA VerdictGivenKeepsInv ==
  ASSUME WorkersInv, NEW p \in EvaluatorPolls, VerdictGiven(p),
         UNCHANGED <<deliverableVars, providerVars, crashes>>
  PROVE  WorkersInv'
  <1> DEFINE j == evalPoll[p].job
             n == verdicts[j] + 1
             Rows == [state : CallStates, hash : Hashes \cup {NoHash}, decision : Decisions]
  <1> USE EvalPollHolds DEF VerdictGiven, EvalAt
  <1>1. WalletGoesOn
    BY StillGoesOn
  <1>2. CASE activeEval = NoJob
    BY <1>1, <1>2, EscapeEvalMoves, QuietEvalKeepsInv DEF EvaluationTypeOK
  <1>3. CASE activeEval # NoJob
    <2>1. PICK d \in Decisions, a \in Decisions :
             /\ a \in SettlementActions(d)
             /\ AskEvaluate(j, n, evalPoll[p].hash, d)
             /\ evalPoll' = [evalPoll EXCEPT ![p].stage = "publishing",
                               ![p].verdict = n, ![p].action = a]
      BY <1>3
    <2>2. /\ j \in Jobs /\ n \in Verdicts /\ n = verdicts[j] + 1
          /\ verdicts \in [Jobs -> 0 .. MaxVerdicts]
          /\ verdicts' = [verdicts EXCEPT ![j] = n]
      BY <1>3 DEF EvaluatorInv, EvaluatorTypeOK, EvalStages, Verdicts
    <2>3. verdicts' \in [Jobs -> 0 .. MaxVerdicts]
      BY <2>2 DEF Verdicts
    <2>4. /\ evalPoll[p].hash = onchain[j] /\ chain[j] \in PastFunded
          /\ evalPoll[p].hash \in Hashes \cup {NoHash}
      BY DEF EvaluatorInv, EvaluatorTypeOK, EvalOrderly
    <2> DEFINE v == [state |-> "asked", hash |-> evalPoll[p].hash, decision |-> d]
    <2>5. verdict \in [Jobs -> [Verdicts -> Rows]] /\ verdict' = [verdict EXCEPT ![j][n] = v]
      BY <2>1 DEF AskEvaluate, EvaluationTypeOK
    <2>6. v \in Rows
      BY <2>4 DEF CallStates
    <2>7. EvaluationTypeOK'
      <3>1. verdict' \in [Jobs -> [Verdicts -> Rows]]
        BY <2>2, <2>5, <2>6
      <3> QED
        BY <3>1 DEF EvaluationTypeOK
    <2>8. verdict'[j][n] = v /\ verdict[j][n].state = "none"
      <3>1. verdict[j][n].state = "none"
        BY <2>2 DEF WorkersInv, StoresInv, NextIsFresh, Verdicts
      <3> QED
        BY <2>2, <2>5, <3>1
    <2>9. VerdictsGoOn
      <3> SUFFICES ASSUME NEW k \in Jobs, NEW m \in Verdicts
                   PROVE  /\ verdict[k][m].state # "none" =>
                                /\ verdict'[k][m].state # "none"
                                /\ verdict'[k][m].decision = verdict[k][m].decision
                          /\ verdict[k][m].state = "stored" => verdict'[k][m].state = "stored"
                          /\ verdict'[k][m].state # "none" =>
                                verdict'[k][m].hash = onchain[k] /\ chain[k] \in PastFunded
                          /\ m > verdicts'[k] => verdict'[k][m].state = "none"
        BY DEF VerdictsGoOn
      <3>1. /\ verdict[k][m].state # "none" =>
                  verdict[k][m].hash = onchain[k] /\ chain[k] \in PastFunded
            /\ m > verdicts[k] => verdict[k][m].state = "none"
        BY DEF WorkersInv, StoresInv, NextIsFresh, VerdictOnSubmitted, VerdictIsLate
      <3>2. m \in Nat /\ verdicts[k] \in Nat
        BY <2>2 DEF Verdicts
      <3>3. CASE k = j /\ m = n
        BY <2>2, <2>4, <2>8, <3>2, <3>3
      <3>4. CASE ~(k = j /\ m = n)
        <4>1. verdict'[k][m] = verdict[k][m]
          BY <2>5, <3>4
        <4>2. m > verdicts'[k] => m > verdicts[k]
          BY <2>2, <3>2
        <4> QED
          BY <3>1, <4>1, <4>2
      <3> QED
        BY <3>3, <3>4
    <2>10. EvalMoves(p)
      <3> DEFINE q == [evalPoll[p] EXCEPT !.stage = "publishing", !.verdict = n, !.action = a]
      <3>1. evalPoll[p] \in EvalRecords
        BY DEF EvaluatorInv, EvaluatorTypeOK, EvalRecords
      <3>2. /\ q \in EvalRecords /\ q.stage = "publishing"
            /\ q.job = j /\ q.verdict = n /\ q.action = a
        BY <2>2, <3>1 DEF EvalRecords, EvalStages
      <3>3. verdict'[q.job][q.verdict] = v
        BY <2>8, <3>2
      <3>4. EvalOrderly(q, verdict')
        BY <2>1, <2>2, <3>2, <3>3 DEF EvalOrderly
      <3>5. evalPoll' = [evalPoll EXCEPT ![p] = q] /\ activeEval' = activeEval
        BY <1>3, <2>1 DEF evalMemory
      <3> QED
        BY <3>2, <3>4, <3>5 DEF EvalMoves, EvaluatorInv, EvaluatorTypeOK
    <2>11. EvalRemembers
      BY <1>3, EvalMemoryStays DEF evalMemory
    <2> QED
      BY <1>1, <2>3, <2>7, <2>9, <2>10, <2>11, EvaluatorMoveKeepsInv
  <1> QED
    BY <1>2, <1>3

\* What is settled is what a stored verdict says.
LEMMA StoringKeepsInv ==
  ASSUME WorkersInv, NEW p \in EvaluatorPolls, VerdictStored(p) \/ VerdictNotStored(p),
         UNCHANGED <<deliverableVars, providerVars, crashes>>
  PROVE  WorkersInv'
  <1> USE EvalPollHolds DEF EvalAt, evalMemory, evaluationVars, EvaluationTypeOK
  <1>1. EvalMoves(p) /\ EvalRemembers
    <2>1. CASE EvaluationEnds(p)
      BY <2>1, EvaluationEndsMoves DEF VerdictStored, VerdictNotStored, EvalStages
    <2>2. CASE ~EvaluationEnds(p)
      <3>1. /\ EvalAt(p, "publishing") /\ EvalGoTo(p, "settling") /\ UNCHANGED evalMemory
            /\ verdict[evalPoll[p].job][evalPoll[p].verdict].state = "stored"
            /\ evalPoll[p].action # "manual_review" /\ verdict' = verdict
        BY <2>2 DEF VerdictStored, VerdictNotStored
      <3>2. EvalOrderly(evalPoll[p], verdict) /\ evalPoll[p].action \in Decisions
        BY DEF EvaluatorInv, EvaluatorTypeOK
      <3>3. EvalOrderly([evalPoll[p] EXCEPT !.stage = "settling"], verdict')
        BY <3>1, <3>2, EvalStageIs DEF EvalOrderly, EvalStages, SettlementActions, Decisions
      <3> QED
        BY <3>1, <3>3, EvalGoToMoves, EvalMemoryStays
    <2> QED
      BY <2>1, <2>2
  <1>2. WalletGoesOn
    BY StillGoesOn DEF VerdictStored, VerdictNotStored
  <1> QED
    BY <1>1, <1>2, QuietEvalKeepsInv DEF VerdictStored, VerdictNotStored

LEMMA SettlingKeepsInv ==
  ASSUME WorkersInv, NEW p \in EvaluatorPolls,
         \/ SendSettlement(p) \/ SettlementRefused(p)
         \/ SettlementConfirmed(p) \/ SettlementThrows(p),
         UNCHANGED <<deliverableVars, providerVars, crashes>>
  PROVE  WorkersInv'
  <1> USE EvalPollHolds DEF EvalAt, evalMemory, evaluationVars, EvaluationTypeOK
  <1>1. "evaluator" \in Roles
    BY DEF Roles
  <1>2. WalletGoesOn
    <2>1. CASE SendSettlement(p)
      BY <1>1, <2>1, SendGoesOn DEF SendSettlement
    <2>2. CASE SettlementRefused(p) \/ SettlementConfirmed(p) \/ SettlementThrows(p)
      BY <1>1, <2>2, CallGoesOn DEF SettlementRefused, SettlementConfirmed, SettlementThrows
    <2> QED
      BY <2>1, <2>2
  <1>3. EvalMoves(p) /\ EvalRemembers
    <2>1. ASSUME NEW s \in {"writing", "attaching"}, EvalGoTo(p, s),
                 UNCHANGED evalMemory, evalPoll[p].stage \in {"settling", "writing"}
          PROVE  EvalMoves(p) /\ EvalRemembers
      <3>1. EvalOrderly([evalPoll[p] EXCEPT !.stage = s], verdict')
        BY <2>1, EvalStageIs DEF EvalOrderly, EvalStages
      <3> QED
        BY <2>1, <3>1, EvalGoToMoves, EvalMemoryStays
    <2>2. CASE SendSettlement(p) \/ SettlementConfirmed(p)
      BY <2>1, <2>2 DEF SendSettlement, SettlementConfirmed
    <2>3. CASE SettlementRefused(p) \/ SettlementThrows(p)
      BY <2>3, EvaluationFailedMoves DEF SettlementRefused, SettlementThrows, EvalStages
    <2> QED
      BY <2>2, <2>3
  <1> QED
    BY <1>2, <1>3, QuietEvalKeepsInv
    DEF SendSettlement, SettlementRefused, SettlementConfirmed, SettlementThrows

LEMMA ClosingKeepsInv ==
  ASSUME WorkersInv, NEW p \in EvaluatorPolls, AttachReturns(p) \/ QueueReturns(p),
         UNCHANGED <<deliverableVars, providerVars, crashes>>
  PROVE  WorkersInv'
  <1> USE EvalPollHolds DEF EvalAt, evalMemory, evaluationVars, EvaluationTypeOK
  <1>1. EvalMoves(p) /\ EvalRemembers
    <2>1. CASE AttachReturns(p)
      <3>1. EvalOrderly([evalPoll[p] EXCEPT !.stage = "queueing"], verdict')
        BY <2>1, EvalStageIs DEF AttachReturns, EvalOrderly, EvalStages
      <3> QED
        BY <2>1, <3>1, EvalGoToMoves, EvalMemoryStays DEF AttachReturns
    <2>2. CASE QueueReturns(p)
      BY <2>2, EvaluationEndsMoves DEF QueueReturns, EvalStages
    <2> QED
      BY <2>1, <2>2
  <1>2. WalletGoesOn
    BY StillGoesOn DEF AttachReturns, QueueReturns
  <1>3. evalPoll[p].job \in Jobs
    BY DEF AttachReturns, QueueReturns, EvalStages
  <1> QED
    BY <1>1, <1>2, <1>3, QuietEvalKeepsInv
    DEF AttachReturns, QueueReturns, AttachSettlement, QueueReputation, FeedbackOf, Feedback

-----------------------------------------------------------------------------
(***************************************************************************)
(* A worker dies and starts again; what the Console and the chain have     *)
(* stays, and so does the lock of its wallet.                              *)
(***************************************************************************)
LEMMA ProviderLifeKeepsInv ==
  ASSUME WorkersInv, UNCHANGED <<evaluationVars, evalVars>>,
         ProviderDies \/ (ProviderStarts /\ UNCHANGED crashes)
  PROVE  WorkersInv'
  <1> USE DEF WorkersInv, chainVars, evaluationVars, evalVars, evalMemory, deliverableVars, memoryVars
  <1>1. WalletGoesOn /\ crashes' \in 0 .. MaxCrashes
    <2>1. GatewayTypeOK /\ "provider" \in Roles /\ crashes \in 0 .. MaxCrashes
      BY DEF StoresInv, StoresTypeOK, GatewayTypeOK, Roles
    <2> QED
      BY <2>1, StillGoesOn, RecoverGoesOn DEF ProviderDies, ProviderStarts
  <1>2. StoresTypeOK'
    BY <1>1 DEF StoresInv, StoresTypeOK, WalletGoesOn, GatewayTypeOK, ProviderDies, ProviderStarts
  <1>3. StoresInv'
    BY <1>1, <1>2, WorkerKeepsStores, UnaskedGoesOn DEF ProviderDies, ProviderStarts
  <1>4. ProviderInv'
    <2>1. CASE ProviderDies
      BY <2>1, NoJob \notin Jobs
      DEF ProviderDies, ProviderInv, ProviderTypeOK, Orderly, ProviderBusy, MarkedIsSubmitted,
          Idle, NoHash, FundedStages, OpenStages
    <2>2. CASE ProviderStarts
      BY <2>2
      DEF ProviderStarts, ProviderInv, ProviderTypeOK, Orderly, ProviderBusy, MarkedIsSubmitted
    <2> QED
      BY <2>1, <2>2
  <1>5. EvaluatorInv'
    BY DEF EvaluatorInv, EvaluatorTypeOK, EvalOrderly, EvaluatorBusy, ProviderDies, ProviderStarts
  <1> QED
    BY <1>3, <1>4, <1>5

LEMMA EvaluatorLifeKeepsInv ==
  ASSUME WorkersInv, UNCHANGED <<deliverableVars, providerVars>>,
         EvaluatorDies \/ (EvaluatorStarts /\ UNCHANGED crashes)
  PROVE  WorkersInv'
  <1> USE DEF WorkersInv, chainVars, evaluationVars, deliverableVars, evalMemory, providerVars,
              memoryVars
  <1>1. WalletGoesOn /\ crashes' \in 0 .. MaxCrashes
    <2>1. GatewayTypeOK /\ "evaluator" \in Roles /\ crashes \in 0 .. MaxCrashes
      BY DEF StoresInv, StoresTypeOK, GatewayTypeOK, Roles
    <2> QED
      BY <2>1, StillGoesOn, RecoverGoesOn DEF EvaluatorDies, EvaluatorStarts
  <1>2. StoresTypeOK'
    BY <1>1 DEF StoresInv, StoresTypeOK, WalletGoesOn, GatewayTypeOK, EvaluatorDies, EvaluatorStarts
  <1>3. StoresInv'
    BY <1>1, <1>2, WorkerKeepsStores, UnaskedGoesOn DEF EvaluatorDies, EvaluatorStarts
  <1>4. EvaluatorInv'
    <2>1. CASE EvaluatorDies
      <3>1. evalPoll' = [p \in EvaluatorPolls |-> NoEvaluation]
        BY <2>1 DEF EvaluatorDies
      <3>2. NoEvaluation \in EvalRecords
        BY EndEvalIsOrderly
      <3>3. ASSUME NEW p \in EvaluatorPolls PROVE EvalOrderly(evalPoll[p], verdict)'
        BY <3>1 DEF EvalOrderly, NoEvaluation, EvalStages
      <3>4. EvaluatorTypeOK'
        BY <2>1, <3>1, <3>2 DEF EvaluatorDies, EvaluatorInv, EvaluatorTypeOK, EvalRecords
      <3> QED
        BY <2>1, <3>3, <3>4 DEF EvaluatorDies, EvaluatorInv, EvaluatorBusy
    <2>2. CASE EvaluatorStarts
      BY <2>2 DEF EvaluatorStarts, EvaluatorInv, EvaluatorTypeOK, EvalOrderly, EvaluatorBusy
    <2> QED
      BY <2>1, <2>2
  <1>5. ProviderInv'
    BY DEF ProviderInv, ProviderTypeOK, Orderly, ProviderBusy, MarkedIsSubmitted, EvaluatorDies,
           EvaluatorStarts
  <1> QED
    BY <1>3, <1>4, <1>5

LEMMA ProviderKeepsInv ==
  ASSUME WorkersInv, ProviderNext, UNCHANGED evalVars
  PROVE  WorkersInv'
  <1> USE DEF ProviderNext
  <1>1. ASSUME NEW p \in ProviderPolls, ProviderStep(p), UNCHANGED crashes
        PROVE  WorkersInv'
    BY <1>1, ListingKeepsInv, RuntimeCompletesKeepsInv, RuntimeKeepsInv, SubmittingKeepsInv,
       BudgetKeepsInv
    DEF ProviderStep
  <1>2. CASE ProviderDies \/ (ProviderStarts /\ UNCHANGED crashes)
    BY <1>2, ProviderLifeKeepsInv
  <1> QED
    BY <1>1, <1>2

LEMMA EvaluatorKeepsInv ==
  ASSUME WorkersInv, EvaluatorNext, UNCHANGED providerVars
  PROVE  WorkersInv'
  <1> USE DEF EvaluatorNext
  <1>1. ASSUME NEW p \in EvaluatorPolls, EvaluatorStep(p), UNCHANGED crashes
        PROVE  WorkersInv'
    BY <1>1, EvalListingKeepsInv, EvaluatingKeepsInv, VerdictGivenKeepsInv, StoringKeepsInv,
       SettlingKeepsInv, ClosingKeepsInv
    DEF EvaluatorStep
  <1>2. CASE EvaluatorDies \/ (EvaluatorStarts /\ UNCHANGED crashes)
    BY <1>2, EvaluatorLifeKeepsInv
  <1> QED
    BY <1>1, <1>2

-----------------------------------------------------------------------------
(***************************************************************************)
(* The theorems.                                                           *)
(***************************************************************************)
LEMMA NextWorkersInv == WorkersInv /\ [Next]_vars => WorkersInv'
  <1> SUFFICES ASSUME WorkersInv, [Next]_vars PROVE WorkersInv'
    OBVIOUS
  <1>1. CASE StoresNext /\ UNCHANGED <<providerVars, evalVars>>
    BY <1>1, StoresKeepInv
  <1>2. CASE ProviderNext /\ UNCHANGED evalVars
    BY <1>2, ProviderKeepsInv
  <1>3. CASE EvaluatorNext /\ UNCHANGED providerVars
    BY <1>3, EvaluatorKeepsInv
  <1>4. CASE UNCHANGED vars
    <2> USE <1>4 DEF vars, WorkersInv, chainVars, gatewayVars, deliverableVars, evaluationVars,
                     providerVars, memoryVars, evalVars, evalMemory
    <2>1. StoresInv'
      BY DEF StoresInv, StoresTypeOK, SubmittedWasStored, LandedIsPast, VerdictOnSubmitted,
             VerdictIsLate, SettlementIsBacked, NextIsFresh
    <2>2. ProviderInv'
      BY DEF ProviderInv, ProviderTypeOK, Orderly, ProviderBusy, MarkedIsSubmitted
    <2>3. EvaluatorInv'
      BY DEF EvaluatorInv, EvaluatorTypeOK, EvalOrderly, EvaluatorBusy
    <2> QED
      BY <2>1, <2>2, <2>3
  <1> QED
    BY <1>1, <1>2, <1>3, <1>4 DEF Next

THEOREM WorkersInvariant == Spec => []WorkersInv
  BY InitWorkersInv, NextWorkersInv, PTL DEF Spec

\* The workers, their gateways, the chain and the Console stay in the states
\* the code gives them.
THEOREM WorkersTypeCorrect == Spec => []TypeOK
  <1>1. WorkersInv => TypeOK
    BY DEF WorkersInv, StoresInv, ProviderInv, EvaluatorInv, TypeOK
  <1> QED
    BY <1>1, WorkersInvariant, PTL

\* Publish, then submit (processFundedJob of provider.ts): whatever call times
\* out, however many polls overlap and wherever the worker dies, no hash is
\* sent to the chain whose deliverable the Console does not have.
THEOREM SubmissionsAreStored == Spec => []SubmittedWasStored
  <1>1. WorkersInv => SubmittedWasStored
    BY DEF WorkersInv, StoresInv
  <1> QED
    BY <1>1, WorkersInvariant, PTL

\* The provider worker forgets a funded job only when it is submitted, or when
\* its attempts are used up.
THEOREM ForgottenIsSubmitted == Spec => []MarkedIsSubmitted
  <1>1. WorkersInv => MarkedIsSubmitted
    BY DEF WorkersInv, ProviderInv
  <1> QED
    BY <1>1, WorkersInvariant, PTL

\* A worker that says it is busy has a poll at that job, although overlapping
\* polls set and reset the one activeJob (activeEval) they share.
THEOREM BusyIsAtWork == Spec => []NoStuckWorker
  <1>1. WorkersInv => NoStuckWorker
    BY DEF WorkersInv, ProviderInv, EvaluatorInv, ProviderBusy, EvaluatorBusy, NoStuckWorker
  <1> QED
    BY <1>1, WorkersInvariant, PTL

\* A verdict is about the deliverable that was submitted on chain, whatever the
\* provider stored before or after.
THEOREM VerdictsAreOnSubmitted == Spec => []VerdictOnSubmitted
  <1>1. WorkersInv => VerdictOnSubmitted
    BY DEF WorkersInv, StoresInv
  <1> QED
    BY <1>1, WorkersInvariant, PTL

\* No settlement is sent but the one a verdict in the Console's table says.
THEOREM SettlementsAreBacked == Spec => []SettlementIsBacked
  <1>1. WorkersInv => SettlementIsBacked
    BY DEF WorkersInv, StoresInv
  <1> QED
    BY <1>1, WorkersInvariant, PTL
=============================================================================
