--------------------------- MODULE ProviderWorker ---------------------------
(***************************************************************************)
(* The provider worker (apps/arclayer-runner/src/workers/provider.ts): a   *)
(* timer calls poll() every 15 s; poll() takes the funded jobs one by one  *)
(* (run, publish, submit), then the open ones (set the budget).            *)
(*                                                                         *)
(* poll() returns at once when a job is active, but it looks at activeJob  *)
(* before it awaits the list of jobs, and a call to the Console may take   *)
(* 60 s: polls overlap.  poll[p] is one call of poll(): every await ends a *)
(* step.  Whatever runs after an await finds activeJob as another poll may *)
(* have left it: this.activeJob!.phase = ... throws when it is null, in    *)
(* the try block and again in its catch block.                             *)
(***************************************************************************)
EXTENDS JobStores

CONSTANTS
    ProviderPolls,   \* calls of poll() that may be pending at once
    MaxRetries       \* maxRuntimeRetries

ASSUME ProviderAssumption == MaxRetries \in Nat \ {0}

VARIABLES
    up,              \* is the process running?
    activeJob,
    processedOpen,   \* processedOpenIds
    processedFunded, \* processedFundedIds
    retries,         \* retryCounts
    poll,
    runs             \* per job: deliverables built so far

memoryVars   == <<activeJob, processedOpen, processedFunded, retries>>
providerVars == <<up, memoryVars, poll, runs>>

Idle == [stage |-> "idle", todo |-> {}, job |-> NoJob, hash |-> NoHash]

FundedStages == {"running", "publishing", "submitting", "writing", "sleeping"}
OpenStages   == {"budgeting", "writingBudget", "verifying"}

ProviderTypeOK ==
    /\ up \in BOOLEAN
    /\ activeJob \in Jobs \cup {NoJob}
    /\ processedOpen \subseteq Jobs
    /\ processedFunded \subseteq Jobs
    /\ retries \in [Jobs -> Nat]
    /\ poll \in [ProviderPolls ->
                   [stage : {"idle", "listFunded", "listOpen"} \cup FundedStages \cup OpenStages,
                    todo : SUBSET Jobs, job : Jobs \cup {NoJob}, hash : Hashes \cup {NoHash}]]
    /\ runs \in [Jobs -> 0 .. MaxRuns]

ProviderInit ==
    /\ up = TRUE
    /\ activeJob = NoJob
    /\ processedOpen = {}
    /\ processedFunded = {}
    /\ retries = [j \in Jobs |-> 0]
    /\ poll = [p \in ProviderPolls |-> Idle]
    /\ runs = [j \in Jobs |-> 0]

-----------------------------------------------------------------------------
At(p, s) == up /\ poll[p].stage = s

GoTo(p, s) == poll' = [poll EXCEPT ![p].stage = s]

End(p) == poll' = [poll EXCEPT ![p] = Idle]

\* The loop over the listed jobs goes on: "done" are the processed ones and
\* "active" is what activeJob holds by now.  After the funded jobs poll() looks
\* at activeJob again.
NextFunded(p, todo, done, active) ==
    \/ \E j \in todo \ done :
          /\ activeJob' = j
          /\ poll' = [poll EXCEPT ![p] =
               [stage |-> "running", todo |-> todo \ {j}, job |-> j, hash |-> NoHash]]
    \/ /\ todo \subseteq done
       /\ activeJob' = active
       /\ IF active = NoJob
            THEN poll' = [poll EXCEPT ![p] = [Idle EXCEPT !.stage = "listOpen"]]
            ELSE End(p)

NextOpen(p, todo, done, active) ==
    \/ \E j \in todo \ done :
          /\ activeJob' = j
          /\ poll' = [poll EXCEPT ![p] =
               [stage |-> "budgeting", todo |-> todo \ {j}, job |-> j, hash |-> NoHash]]
    \/ /\ todo \subseteq done
       /\ activeJob' = active
       /\ End(p)

\* A TypeError in the catch block: finally resets activeJob, and the exception
\* leaves the loop and ends the poll.
Escape(p) ==
    /\ activeJob' = NoJob
    /\ End(p)
    /\ UNCHANGED <<processedOpen, processedFunded, retries>>

\* Mutant: a job that is given up leaves the worker busy.
FailedStillActive(p) ==
    LET j == poll[p].job
        attempts == retries[j] + 1
    IN
    IF activeJob = NoJob THEN Escape(p)
    ELSE /\ retries' = [retries EXCEPT ![j] = attempts]
         /\ IF attempts >= MaxRetries
              THEN /\ processedFunded' = processedFunded \cup {j}
                   /\ activeJob' = activeJob
                   /\ End(p)
              ELSE /\ GoTo(p, "sleeping")
                   /\ UNCHANGED <<activeJob, processedFunded>>
         /\ UNCHANGED processedOpen

\* The catch block of the funded loop: the attempt is counted; the last one
\* gives the job up and leaves the loop, any other sleeps with activeJob set.
Failed(p) ==
    LET j == poll[p].job
        attempts == retries[j] + 1
    IN
    IF activeJob = NoJob THEN Escape(p)
    ELSE /\ retries' = [retries EXCEPT ![j] = attempts]
         /\ IF attempts >= MaxRetries
              THEN /\ processedFunded' = processedFunded \cup {j}
                   /\ NextFunded(p, {}, {}, NoJob)
              ELSE /\ GoTo(p, "sleeping")
                   /\ UNCHANGED <<activeJob, processedFunded>>
         /\ UNCHANGED processedOpen

\* The catch block of the open loop; failures are not counted there.
FailedOpen(p) ==
    IF activeJob = NoJob THEN Escape(p)
    ELSE /\ NextOpen(p, poll[p].todo, processedOpen, NoJob)
         /\ UNCHANGED <<processedOpen, processedFunded, retries>>

-----------------------------------------------------------------------------
(***************************************************************************)
(* poll() and the funded jobs.                                             *)
(***************************************************************************)
StartPoll(p) ==
    /\ At(p, "idle")
    /\ activeJob = NoJob
    /\ GoTo(p, "listFunded")
    /\ UNCHANGED <<up, memoryVars, runs, chainVars, gatewayVars, deliverableVars>>

ListFunded(p) ==
    /\ At(p, "listFunded")
    /\ \E listed \in Listed("funded") :
          NextFunded(p, listed, processedFunded, activeJob)
    /\ UNCHANGED <<up, processedOpen, processedFunded, retries, runs,
                   chainVars, gatewayVars, deliverableVars>>

\* runProviderJob returns a completed result: a deliverable is built and sent
\* to the Console.
RuntimeCompletes(p) ==
    LET j == poll[p].job
        h == runs[j] + 1
    IN
    /\ At(p, "running")
    /\ runs[j] < MaxRuns
    /\ IF activeJob = NoJob
         THEN Escape(p) /\ UNCHANGED <<runs, request>>
         ELSE /\ runs' = [runs EXCEPT ![j] = h]
              /\ AskPublish(j, h)
              /\ poll' = [poll EXCEPT ![p].stage = "publishing", ![p].hash = h]
              /\ UNCHANGED memoryVars
    /\ UNCHANGED <<up, chainVars, gatewayVars, deliverable>>

\* needs_payment, needs_action: the job stays unprocessed.
RuntimeWaits(p) ==
    /\ At(p, "running")
    /\ IF activeJob = NoJob
         THEN Escape(p)
         ELSE /\ NextFunded(p, poll[p].todo, processedFunded, NoJob)
              /\ UNCHANGED <<processedOpen, processedFunded, retries>>
    /\ UNCHANGED <<up, runs, chainVars, gatewayVars, deliverableVars>>

RuntimeFails(p) ==
    /\ At(p, "running")
    /\ Failed(p)
    /\ UNCHANGED <<up, runs, chainVars, gatewayVars, deliverableVars>>

PublishReturns(p) ==
    /\ At(p, "publishing")
    /\ request[poll[p].job][poll[p].hash] = "stored"
    /\ IF activeJob = NoJob THEN Escape(p)
                            ELSE GoTo(p, "submitting") /\ UNCHANGED memoryVars
    /\ UNCHANGED <<up, runs, chainVars, gatewayVars, deliverableVars>>

\* Mutant: a publication that failed does not keep the worker from submitting.
PublishThrowsAndGoesOn(p) ==
    /\ At(p, "publishing")
    /\ GoTo(p, "submitting")
    /\ UNCHANGED <<up, memoryVars, runs, chainVars, gatewayVars, deliverableVars>>

\* The Console refuses, or the call times out, wherever the Console stands.
PublishThrows(p) ==
    /\ At(p, "publishing")
    /\ Failed(p)
    /\ UNCHANGED <<up, runs, chainVars, gatewayVars, deliverableVars>>

\* submitProviderDeliverable: a preflight at the Console whose failure is
\* ignored, then the gateway.
SubmitOf(p) == Submit(poll[p].job, poll[p].hash)

SubmitDeliverable(p) ==
    /\ At(p, "submitting")
    /\ SendWrite("provider", SubmitOf(p))
    /\ GoTo(p, "writing")
    /\ UNCHANGED <<up, memoryVars, runs, chainVars, deliverableVars>>

SubmitRefused(p) ==
    /\ At(p, "submitting")
    /\ Refused("provider") \/ PolicyRefuses("provider", SubmitOf(p))
    /\ Failed(p)
    /\ UNCHANGED <<up, runs, chainVars, deliverableVars>>

\* Confirmed: the job is processed, unless activeJob is gone, ...
Submitted(p) ==
    /\ At(p, "writing")
    /\ ConfirmWrite("provider", SubmitOf(p))
    /\ IF activeJob = NoJob
         THEN Escape(p)
         ELSE LET done == processedFunded \cup {poll[p].job} IN
              /\ processedFunded' = done
              /\ retries' = [retries EXCEPT ![poll[p].job] = 0]
              /\ NextFunded(p, poll[p].todo, done, NoJob)
              /\ UNCHANGED processedOpen
    /\ UNCHANGED <<up, runs, chainVars, deliverableVars>>

\* ... or the receipt cannot be appended.
SubmittedUnrecorded(p) ==
    /\ At(p, "writing")
    /\ ConfirmWrite("provider", SubmitOf(p))
    /\ Failed(p)
    /\ UNCHANGED <<up, runs, chainVars, deliverableVars>>

\* Mutant: a submission that is only broadcast counts as submitted.
SubmitThrowsProcessed(p) ==
    /\ At(p, "writing")
    /\ LeaveOpen("provider")
    /\ processedFunded' = processedFunded \cup {poll[p].job}
    /\ retries' = [retries EXCEPT ![poll[p].job] = 0]
    /\ NextFunded(p, poll[p].todo, processedFunded', NoJob)
    /\ UNCHANGED <<up, processedOpen, runs, chainVars, deliverableVars>>

SubmitThrows(p) ==
    /\ At(p, "writing")
    /\ FailWrite("provider") \/ LeaveOpen("provider")
    /\ Failed(p)
    /\ UNCHANGED <<up, runs, chainVars, deliverableVars>>

\* The backoff is over: finally, and the next job of the list.
WakeUp(p) ==
    /\ At(p, "sleeping")
    /\ NextFunded(p, poll[p].todo, processedFunded, NoJob)
    /\ UNCHANGED <<up, processedOpen, processedFunded, retries, runs,
                   chainVars, gatewayVars, deliverableVars>>

-----------------------------------------------------------------------------
(***************************************************************************)
(* The open jobs.                                                          *)
(***************************************************************************)
ListOpen(p) ==
    /\ At(p, "listOpen")
    /\ \E listed \in Listed("open") : NextOpen(p, listed, processedOpen, activeJob)
    /\ UNCHANGED <<up, processedOpen, processedFunded, retries, runs,
                   chainVars, gatewayVars, deliverableVars>>

BudgetOf(p) == SetBudget(poll[p].job)

SendBudget(p) ==
    /\ At(p, "budgeting")
    /\ SendWrite("provider", BudgetOf(p))
    /\ GoTo(p, "writingBudget")
    /\ UNCHANGED <<up, memoryVars, runs, chainVars, deliverableVars>>

BudgetRefused(p) ==
    /\ At(p, "budgeting")
    /\ \/ BudgetOf(p) \notin confirmed /\ Refused("provider")
       \/ PolicyRefuses("provider", BudgetOf(p))
    /\ FailedOpen(p)
    /\ UNCHANGED <<up, runs, chainVars, deliverableVars>>

BudgetConfirmed(p) ==
    /\ \/ At(p, "budgeting") /\ Replays(BudgetOf(p))
       \/ At(p, "writingBudget") /\ ConfirmWrite("provider", BudgetOf(p))
    /\ IF activeJob = NoJob THEN Escape(p)
                            ELSE GoTo(p, "verifying") /\ UNCHANGED memoryVars
    /\ UNCHANGED <<up, runs, chainVars, deliverableVars>>

BudgetThrows(p) ==
    /\ \/ /\ At(p, "writingBudget")
          /\ \/ FailWrite("provider") \/ LeaveOpen("provider")
             \/ ConfirmWrite("provider", BudgetOf(p))
       \/ At(p, "budgeting") /\ Replays(BudgetOf(p))
    /\ FailedOpen(p)
    /\ UNCHANGED <<up, runs, chainVars, deliverableVars>>

\* The budget read back from the chain is the proposed one, or the call fails.
BudgetVerified(p) ==
    /\ At(p, "verifying")
    /\ processedOpen' = processedOpen \cup {poll[p].job}
    /\ NextOpen(p, poll[p].todo, processedOpen', NoJob)
    /\ UNCHANGED <<up, processedFunded, retries, runs,
                   chainVars, gatewayVars, deliverableVars>>

VerifyThrows(p) ==
    /\ At(p, "verifying")
    /\ FailedOpen(p)
    /\ UNCHANGED <<up, runs, chainVars, gatewayVars, deliverableVars>>

-----------------------------------------------------------------------------
\* The process dies: its memory is gone, the journal and the Console stay.
ProviderDies ==
    /\ up
    /\ crashes < MaxCrashes
    /\ crashes' = crashes + 1
    /\ up' = FALSE
    /\ activeJob' = NoJob
    /\ processedOpen' = {} /\ processedFunded' = {}
    /\ retries' = [j \in Jobs |-> 0]
    /\ poll' = [p \in ProviderPolls |-> Idle]
    /\ UNCHANGED <<runs, chainVars, gatewayVars, deliverableVars>>

ProviderStarts ==
    /\ ~up
    /\ up' = TRUE
    /\ RecoverWallet("provider")
    /\ UNCHANGED <<memoryVars, poll, runs, chainVars, deliverableVars>>

ProviderStep(p) ==
    \/ StartPoll(p) \/ ListFunded(p) \/ RuntimeCompletes(p) \/ RuntimeWaits(p) \/ RuntimeFails(p)
    \/ PublishReturns(p) \/ PublishThrows(p)
    \/ SubmitDeliverable(p) \/ SubmitRefused(p)
    \/ Submitted(p) \/ SubmittedUnrecorded(p) \/ SubmitThrows(p) \/ WakeUp(p)
    \/ ListOpen(p) \/ SendBudget(p) \/ BudgetRefused(p) \/ BudgetConfirmed(p)
    \/ BudgetThrows(p) \/ BudgetVerified(p) \/ VerifyThrows(p)

ProviderNext ==
    /\ \/ (\E p \in ProviderPolls : ProviderStep(p)) /\ UNCHANGED crashes
       \/ ProviderDies
       \/ ProviderStarts /\ UNCHANGED crashes
    /\ UNCHANGED evaluationVars
=============================================================================
