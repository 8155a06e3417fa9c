--------------------------- MODULE EvaluatorWorker ---------------------------
(***************************************************************************)
(* The evaluator worker (apps/arclayer-runner/src/workers/evaluator.ts):   *)
(* a timer calls poll() every 15 s; poll() takes the submitted jobs one by *)
(* one: fetch the deliverable, have it evaluated, store the verdict, settle*)
(* on chain, attach the settlement, queue the reputation.                  *)
(*                                                                         *)
(* As in the provider worker, polls overlap and this.activeEval!.phase =   *)
(* throws, in the try block and again in its catch block, when another     *)
(* poll has reset activeEval.                                              *)
(***************************************************************************)
EXTENDS JobStores

CONSTANTS
    EvaluatorPolls,    \* calls of poll() that may be pending at once
    MaxEvalRetries     \* maxRuntimeRetries

ASSUME EvaluatorAssumption == MaxEvalRetries \in Nat \ {0}

VARIABLES
    evalUp,        \* is the process running?
    activeEval,
    processedIds,
    evalRetries,   \* retryCounts
    evalPoll,
    verdicts       \* per job: verdicts given so far

evalMemory == <<activeEval, processedIds, evalRetries>>
evalVars   == <<evalUp, evalMemory, evalPoll, verdicts>>

NoEvaluation ==
    [stage |-> "idle", todo |-> {}, job |-> NoJob,
     hash |-> NoHash, verdict |-> NoVerdict, action |-> "manual_review"]

EvalStages ==
    {"fetching", "evaluating", "publishing", "settling", "writing",
     "attaching", "queueing", "sleeping"}

EvaluatorTypeOK ==
    /\ evalUp \in BOOLEAN
    /\ activeEval \in Jobs \cup {NoJob}
    /\ processedIds \subseteq Jobs
    /\ evalRetries \in [Jobs -> Nat]
    /\ evalPoll \in [EvaluatorPolls ->
         [stage : {"idle", "listing"} \cup EvalStages, todo : SUBSET Jobs,
          job : Jobs \cup {NoJob}, hash : Hashes \cup {NoHash},
          verdict : Verdicts \cup {NoVerdict}, action : Decisions]]
    /\ verdicts \in [Jobs -> 0 .. MaxVerdicts]

EvaluatorInit ==
    /\ evalUp = TRUE
    /\ activeEval = NoJob
    /\ processedIds = {}
    /\ evalRetries = [j \in Jobs |-> 0]
    /\ evalPoll = [p \in EvaluatorPolls |-> NoEvaluation]
    /\ verdicts = [j \in Jobs |-> 0]

-----------------------------------------------------------------------------
EvalAt(p, s) == evalUp /\ evalPoll[p].stage = s

EvalGoTo(p, s) == evalPoll' = [evalPoll EXCEPT ![p].stage = s]

EndEval(p) == evalPoll' = [evalPoll EXCEPT ![p] = NoEvaluation]

\* The loop over the listed jobs goes on: "done" are the processed ones and
\* "active" is what activeEval holds by now.
NextSubmitted(p, todo, done, active) ==
    \/ \E j \in todo \ done :
          /\ activeEval' = j
          /\ evalPoll' = [evalPoll EXCEPT ![p] =
               [NoEvaluation EXCEPT !.stage = "fetching", !.todo = todo \ {j}, !.job = j]]
    \/ /\ todo \subseteq done
       /\ activeEval' = active
       /\ EndEval(p)

\* A TypeError in the catch block: finally resets activeEval, and the exception
\* leaves the loop and ends the poll.
EscapeEval(p) ==
    /\ activeEval' = NoJob
    /\ EndEval(p)
    /\ UNCHANGED <<processedIds, evalRetries>>

\* The catch block: the attempt is counted; the last one leaves the job to
\* manual review and leaves the loop, any other sleeps with activeEval set.
EvaluationFailed(p) ==
    LET j == evalPoll[p].job
        attempts == evalRetries[j] + 1
    IN
    IF activeEval = NoJob THEN EscapeEval(p)
    ELSE /\ evalRetries' = [evalRetries EXCEPT ![j] = attempts]
         /\ IF attempts >= MaxEvalRetries
              THEN /\ processedIds' = processedIds \cup {j}
                   /\ NextSubmitted(p, {}, {}, NoJob)
              ELSE /\ EvalGoTo(p, "sleeping")
                   /\ UNCHANGED <<activeEval, processedIds>>

\* processSubmittedJob returns: the job is settled or left to manual review.
\* Both write activeEval first.
EvaluationEnds(p) ==
    LET done == processedIds \cup {evalPoll[p].job} IN
    IF activeEval = NoJob THEN EscapeEval(p)
    ELSE /\ processedIds' = done
         /\ evalRetries' = [evalRetries EXCEPT ![evalPoll[p].job] = 0]
         /\ NextSubmitted(p, evalPoll[p].todo, done, NoJob)

-----------------------------------------------------------------------------
StartEvalPoll(p) ==
    /\ EvalAt(p, "idle")
    /\ activeEval = NoJob
    /\ EvalGoTo(p, "listing")
    /\ UNCHANGED <<evalUp, evalMemory, verdicts,
                   chainVars, gatewayVars, evaluationVars>>

ListSubmitted(p) ==
    /\ EvalAt(p, "listing")
    /\ \E listed \in Listed("submitted") :
          NextSubmitted(p, listed, processedIds, activeEval)
    /\ UNCHANGED <<evalUp, processedIds, evalRetries, verdicts,
                   chainVars, gatewayVars, evaluationVars>>

FetchReturns(p) ==
    /\ EvalAt(p, "fetching")
    /\ GetDeliverable(evalPoll[p].job)
    /\ IF activeEval = NoJob
         THEN EscapeEval(p)
         ELSE /\ evalPoll' = [evalPoll EXCEPT ![p].stage = "evaluating",
                                              ![p].hash = deliverable[evalPoll[p].job]]
              /\ UNCHANGED evalMemory
    /\ UNCHANGED <<evalUp, verdicts, chainVars, gatewayVars, evaluationVars>>

FetchThrows(p) ==
    /\ EvalAt(p, "fetching")
    /\ EvaluationFailed(p)
    /\ UNCHANGED <<evalUp, verdicts, chainVars, gatewayVars, evaluationVars>>

\* determineSettlementAction: low confidence, missing evidence or criteria that
\* do not fit the decision turn it into a manual review.
SettlementActions(decision) == {decision, "manual_review"}

\* A valid verdict on this hash: it is sent to the Console before anything is
\* settled.
VerdictGiven(p) ==
    LET j == evalPoll[p].job
        n == verdicts[j] + 1
    IN
    /\ EvalAt(p, "evaluating")
    /\ verdicts[j] < MaxVerdicts
    /\ IF activeEval = NoJob
         THEN EscapeEval(p) /\ UNCHANGED <<verdicts, verdict>>
         ELSE /\ verdicts' = [verdicts EXCEPT ![j] = n]
              /\ \E d \in Decisions, a \in Decisions :
                    /\ a \in SettlementActions(d)
                    /\ AskEvaluate(j, n, evalPoll[p].hash, d)
                    /\ evalPoll' = [evalPoll EXCEPT ![p].stage = "publishing",
                                      ![p].verdict = n, ![p].action = a]
              /\ UNCHANGED evalMemory
    /\ UNCHANGED <<evalUp, chainVars, gatewayVars,
                   evaluation, attached, publication>>

\* No verdict, or one on another hash, or no envelope: manual review.
VerdictInvalid(p) ==
    /\ EvalAt(p, "evaluating")
    /\ EvaluationEnds(p)
    /\ UNCHANGED <<evalUp, verdicts, chainVars, gatewayVars, evaluationVars>>

\* A failure of the runtime never rejects the provider.
EvaluatorRuntimeFails(p) ==
    /\ EvalAt(p, "evaluating")
    /\ EvaluationFailed(p)
    /\ UNCHANGED <<evalUp, verdicts, chainVars, gatewayVars, evaluationVars>>

VerdictStored(p) ==
    LET q == evalPoll[p] IN
    /\ EvalAt(p, "publishing")
    /\ verdict[q.job][q.verdict].state = "stored"
    /\ IF q.action = "manual_review"
         THEN EvaluationEnds(p)
         ELSE EvalGoTo(p, "settling") /\ UNCHANGED evalMemory
    /\ UNCHANGED <<evalUp, verdicts, chainVars, gatewayVars, evaluationVars>>

\* Mutant: a verdict that may not have been stored is settled all the same.
VerdictNotStoredGoesOn(p) ==
    /\ EvalAt(p, "publishing")
    /\ IF evalPoll[p].action = "manual_review"
         THEN EvaluationEnds(p)
         ELSE EvalGoTo(p, "settling") /\ UNCHANGED evalMemory
    /\ UNCHANGED <<evalUp, verdicts, chainVars, gatewayVars, evaluationVars>>

\* The Console refuses the verdict, or the call times out: manual review.
VerdictNotStored(p) ==
    /\ EvalAt(p, "publishing")
    /\ EvaluationEnds(p)
    /\ UNCHANGED <<evalUp, verdicts, chainVars, gatewayVars, evaluationVars>>

-----------------------------------------------------------------------------
(***************************************************************************)
(* settleComplete and settleReject.                                        *)
(***************************************************************************)
SettlementOf(p) == Settle(evalPoll[p].job, evalPoll[p].action)

SendSettlement(p) ==
    /\ EvalAt(p, "settling")
    /\ SendWrite("evaluator", SettlementOf(p))
    /\ EvalGoTo(p, "writing")
    /\ UNCHANGED <<evalUp, evalMemory, verdicts, chainVars, evaluationVars>>

SettlementRefused(p) ==
    /\ EvalAt(p, "settling")
    /\ Refused("evaluator") \/ PolicyRefuses("evaluator", SettlementOf(p))
    /\ EvaluationFailed(p)
    /\ UNCHANGED <<evalUp, verdicts, chainVars, evaluationVars>>

\* A confirmation that was recovered from the chain has no transaction hash,
\* and nothing is attached.
SettlementConfirmed(p) ==
    /\ \/ EvalAt(p, "writing") /\ ConfirmWrite("evaluator", SettlementOf(p))
       \/ EvalAt(p, "settling") /\ Replays(SettlementOf(p))
    /\ EvalGoTo(p, "attaching")
    /\ UNCHANGED <<evalUp, evalMemory, verdicts, chainVars, evaluationVars>>

\* Failed or unresolved, or the receipt of a confirmed settlement cannot be
\* appended.
SettlementThrows(p) ==
    /\ \/ /\ EvalAt(p, "writing")
          /\ \/ FailWrite("evaluator") \/ LeaveOpen("evaluator")
             \/ ConfirmWrite("evaluator", SettlementOf(p))
       \/ EvalAt(p, "settling") /\ Replays(SettlementOf(p))
    /\ EvaluationFailed(p)
    /\ UNCHANGED <<evalUp, verdicts, chainVars, evaluationVars>>

\* The errors of the next two calls are only logged.
AttachReturns(p) ==
    /\ EvalAt(p, "attaching")
    /\ AttachSettlement(evalPoll[p].job) \/ UNCHANGED evaluationVars
    /\ EvalGoTo(p, "queueing")
    /\ UNCHANGED <<evalUp, evalMemory, verdicts, chainVars, gatewayVars>>

QueueReturns(p) ==
    /\ EvalAt(p, "queueing")
    /\ QueueReputation(evalPoll[p].job, evalPoll[p].action) \/ UNCHANGED evaluationVars
    /\ EvaluationEnds(p)
    /\ UNCHANGED <<evalUp, verdicts, chainVars, gatewayVars>>

WakeUpEval(p) ==
    /\ EvalAt(p, "sleeping")
    /\ NextSubmitted(p, evalPoll[p].todo, processedIds, NoJob)
    /\ UNCHANGED <<evalUp, processedIds, evalRetries, verdicts,
                   chainVars, gatewayVars, evaluationVars>>

-----------------------------------------------------------------------------
EvaluatorDies ==
    /\ evalUp
    /\ crashes < MaxCrashes
    /\ crashes' = crashes + 1
    /\ evalUp' = FALSE
    /\ activeEval' = NoJob
    /\ processedIds' = {}
    /\ evalRetries' = [j \in Jobs |-> 0]
    /\ evalPoll' = [p \in EvaluatorPolls |-> NoEvaluation]
    /\ UNCHANGED <<verdicts, chainVars, gatewayVars, evaluationVars>>

EvaluatorStarts ==
    /\ ~evalUp
    /\ evalUp' = TRUE
    /\ RecoverWallet("evaluator")
    /\ UNCHANGED <<evalMemory, evalPoll, verdicts, chainVars, evaluationVars>>

EvaluatorStep(p) ==
    \/ StartEvalPoll(p) \/ ListSubmitted(p) \/ FetchReturns(p) \/ FetchThrows(p)
    \/ VerdictGiven(p) \/ VerdictInvalid(p) \/ EvaluatorRuntimeFails(p)
    \/ VerdictStored(p) \/ VerdictNotStored(p)
    \/ SendSettlement(p) \/ SettlementRefused(p) \/ SettlementConfirmed(p)
    \/ SettlementThrows(p) \/ AttachReturns(p) \/ QueueReturns(p) \/ WakeUpEval(p)

EvaluatorNext ==
    /\ \/ (\E p \in EvaluatorPolls : EvaluatorStep(p)) /\ UNCHANGED crashes
       \/ EvaluatorDies
       \/ EvaluatorStarts /\ UNCHANGED crashes
    /\ UNCHANGED deliverableVars
=============================================================================
