----------------------------- MODULE JobWorkers -----------------------------
(***************************************************************************)
(* A provider worker and an evaluator worker on the same jobs, the Console *)
(* and the chain between them.                                             *)
(***************************************************************************)
EXTENDS ProviderWorker, EvaluatorWorker

vars == <<chainVars, gatewayVars, deliverableVars, evaluationVars, crashes,
          providerVars, evalVars>>

Init == StoresInit /\ ProviderInit /\ EvaluatorInit

Next ==
    \/ StoresNext /\ UNCHANGED <<providerVars, evalVars>>
    \/ ProviderNext /\ UNCHANGED evalVars
    \/ EvaluatorNext /\ UNCHANGED providerVars

Spec == Init /\ [][Next]_vars

-----------------------------------------------------------------------------
\* Type invariant of the workers, their gateways, the chain and the Console.
TypeOK == StoresTypeOK /\ ProviderTypeOK /\ EvaluatorTypeOK

\* A deliverable whose hash was sent to the chain has been stored by the
\* Console before, whatever calls timed out and whatever polls overlapped
\* (publish, then submit, in processFundedJob).
SubmittedWasStored ==
    \A j \in Jobs, h \in Hashes :
        tx[Submit(j, h)] # "none" => request[j][h] = "stored"

\* The provider worker forgets a funded job only when it is submitted on chain
\* or when its attempts are used up: a submission that is refused, dropped or
\* unresolved leaves the job to the next poll.
MarkedIsSubmitted ==
    \A j \in processedFunded :
        chain[j] \in {"open", "funded"} => retries[j] >= MaxRetries

\* A worker that says it is busy has a poll that works on just that job and
\* will reset it; otherwise every later poll would return at once, for ever.
NoStuckWorker ==
    /\ activeJob # NoJob => \E p \in ProviderPolls : poll[p].job = activeJob
    /\ activeEval # NoJob => \E p \in EvaluatorPolls : evalPoll[p].job = activeEval

\* Every verdict is about the deliverable that was submitted on chain, although
\* the provider may overwrite the stored one at any time before and the two are
\* read separately.
VerdictOnSubmitted ==
    \A j \in Jobs, n \in Verdicts :
        verdict[j][n].state # "none" => verdict[j][n].hash = onchain[j]

\* Nothing is settled without a verdict that says so in the Console's table at
\* that time: a runtime failure never rejects the provider, a manual review or
\* a verdict that could not be stored settles nothing.
SettlementIsBacked ==
    \A j \in Jobs, d \in Settlements :
        tx[Settle(j, d)] # "none" =>
            \E n \in Verdicts : verdict[j][n].state = "stored" /\ verdict[j][n].decision = d
=============================================================================
