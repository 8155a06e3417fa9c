---------------------------- MODULE RunnerRequests ----------------------------
(***************************************************************************)
(* The runner's HTTP door: a signed request is checked (time stamp, nonce),*)
(* its task is reserved, and the handler runs the agent, stores receipts,  *)
(* submits the deliverable and closes the run the Console hosts.           *)
(*                                                                         *)
(* Nonces and task reservations live in memory.  A request may be          *)
(* delivered again at any time: the network or a proxy repeats it, or the  *)
(* caller retries after an answer was lost.  Time is counted in ticks; a   *)
(* reservation lasts 24 hours, longer than an instance follows.            *)
(***************************************************************************)
EXTENDS Naturals, FiniteSets

CONSTANTS
    Messages,            \* signed requests, each with a nonce of its own
    Tasks, TaskOf,       \* [Messages -> Tasks]
    RouteOf,             \* [Messages -> Routes]
    TaskJobs, JobOfTask, \* [Tasks -> TaskJobs]
    Deliveries,          \* handlings of one delivery of a request
    NoMessage, NoOutput,
    Outputs,             \* what the agent may produce
    Trusted,             \* FALSE: runtimeKind is openclaw
    Skew, NonceTtl,      \* hmacSkewMs and nonceTtlMs in ticks
    Ahead,               \* how far the sender's clock is ahead
    LastTick,            \* bound: ticks that are followed
    MaxRunnerCrashes     \* bound: restarts of the runner

VARIABLES
    clock,
    stamp,       \* the time stamp of each request, 0: not sent
    nonceUntil,  \* NonceStore, 0: no entry
    taskEntry,   \* TaskIdempotencyStore
    handling,    \* the deliveries being handled
    agentRuns,   \* how often this process gave a task to the agent
    submitKey,   \* the gateway's state of submitDeliverable:<job>:<hash>
    deliverable, \* the chain: the deliverable of each job
    hostedRun,   \* the Console: the run of each job
    runnerCrashes

requestVars == <<clock, stamp, nonceUntil, taskEntry, handling, agentRuns, submitKey,
                 deliverable, hostedRun, runnerCrashes>>

Routes == {"runtime/run", "provider/run-only", "provider/run-and-submit"}

ASSUME RequestAssumption ==
    /\ TaskOf \in [Messages -> Tasks] /\ RouteOf \in [Messages -> Routes]
    /\ JobOfTask \in [Tasks -> TaskJobs]
    /\ Skew \in Nat \ {0} /\ NonceTtl \in Nat \ {0} /\ Ahead \in Nat
    /\ NoOutput \notin Outputs /\ NoMessage \notin Messages
    /\ LastTick \in Nat \ {0} /\ MaxRunnerCrashes \in Nat

NoHandling == [message |-> NoMessage, stage |-> "idle", hosted |-> FALSE, output |-> NoOutput]

RequestInit ==
    /\ clock = 1
    /\ stamp = [m \in Messages |-> 0]
    /\ nonceUntil = [m \in Messages |-> 0]
    /\ taskEntry = [t \in Tasks |-> "none"]
    /\ handling = [d \in Deliveries |-> NoHandling]
    /\ agentRuns = [t \in Tasks |-> 0]
    /\ submitKey = [j \in TaskJobs |-> [o \in Outputs |-> "none"]]
    /\ deliverable = [j \in TaskJobs |-> NoOutput]
    /\ hostedRun = [j \in TaskJobs |-> [status |-> "none", output |-> NoOutput]]
    /\ runnerCrashes = 0

TaskAt(d) == TaskOf[handling[d].message]
JobAt(d)  == JobOfTask[TaskAt(d)]
RouteAt(d) == RouteOf[handling[d].message]

At(d, stage)   == handling[d].stage = stage
GoesTo(d, stage) == handling' = [handling EXCEPT ![d].stage = stage]
Answers(d)     == handling' = [handling EXCEPT ![d] = NoHandling]
MarkTask(d, s) == taskEntry' = [taskEntry EXCEPT ![TaskAt(d)] = s]

Sign(m) ==
    /\ stamp[m] = 0
    /\ stamp' = [stamp EXCEPT ![m] = clock + Ahead]
    /\ UNCHANGED <<clock, nonceUntil, taskEntry, handling, agentRuns, submitKey, deliverable,
                   hostedRun, runnerCrashes>>

Tick ==
    /\ clock < LastTick /\ clock' = clock + 1
    /\ UNCHANGED <<stamp, nonceUntil, taskEntry, handling, agentRuns, submitKey, deliverable,
                   hostedRun, runnerCrashes>>

----------------------------------------------------------------------------
(* The router                                                              *)

Authenticated(m) ==
    /\ stamp[m] # 0
    /\ clock <= stamp[m] + Skew /\ stamp[m] <= clock + Skew

FreshNonce(m) == nonceUntil[m] <= clock

\* Mutant: a task that failed may be reserved again.
ReservableOnceFailed(t) == taskEntry[t] \in {"none", "failed"}

Reservable(t) == taskEntry[t] = "none"

RunAgent(d, t) ==
    agentRuns' = [agentRuns EXCEPT ![t] = IF @ < 2 THEN @ + 1 ELSE @]

\* Everything up to the handler's first await: a request that fails a check
\* is answered with 401 or 409, its nonce is used up all the same.
Receive(d, m) ==
    LET t == TaskOf[m] IN
    /\ At(d, "idle")
    /\ Authenticated(m) /\ FreshNonce(m)
    /\ nonceUntil' = [nonceUntil EXCEPT ![m] = clock + NonceTtl]
    /\ IF Reservable(t)
       THEN /\ taskEntry' = [taskEntry EXCEPT ![t] = "pending"]
            /\ IF RouteOf[m] = "runtime/run"
               THEN /\ handling' = [handling EXCEPT ![d] = [@ EXCEPT !.message = m, !.stage = "running"]]
                    /\ RunAgent(d, t)
               ELSE /\ handling' = [handling EXCEPT ![d] = [@ EXCEPT !.message = m, !.stage = "starting"]]
                    /\ UNCHANGED agentRuns
       ELSE UNCHANGED <<taskEntry, handling, agentRuns>>
    /\ UNCHANGED <<clock, stamp, submitKey, deliverable, hostedRun, runnerCrashes>>

----------------------------------------------------------------------------
(* runGeneric, runProviderJob                                              *)

\* The Console finds or inserts the run; its answer may be lost, and the
\* job goes on without a run id.
StartJobRun(d) ==
    /\ At(d, "starting")
    /\ \/ /\ hostedRun[JobAt(d)].status = "none"
          /\ hostedRun' = [hostedRun EXCEPT ![JobAt(d)].status = "active"]
       \/ UNCHANGED hostedRun
    /\ \E known \in BOOLEAN :
         /\ known => hostedRun'[JobAt(d)].status # "none"
         /\ handling' = [handling EXCEPT ![d].stage = "running", ![d].hosted = known]
    /\ RunAgent(d, TaskAt(d))
    /\ UNCHANGED <<clock, stamp, nonceUntil, taskEntry, submitKey, deliverable, runnerCrashes>>

\* An OpenClaw result that asks for a payment or an action is an error.
NeedsMore == Trusted

\* The connector throws: a timeout, a bad status, an invalid result.
AgentThrows(d) ==
    /\ At(d, "running")
    /\ MarkTask(d, "failed") /\ Answers(d)
    /\ UNCHANGED <<clock, stamp, nonceUntil, agentRuns, submitKey, deliverable, hostedRun, runnerCrashes>>

AgentAnswers(d) ==
    /\ At(d, "running")
    /\ IF RouteAt(d) = "runtime/run"
       THEN MarkTask(d, "completed") /\ GoesTo(d, "storing")
       ELSE /\ \/ GoesTo(d, "failing")
               \/ NeedsMore /\ GoesTo(d, "asking")
               \/ \E o \in Outputs :
                    handling' = [handling EXCEPT ![d].stage = "storing", ![d].output = o]
            /\ UNCHANGED taskEntry
    /\ UNCHANGED <<clock, stamp, nonceUntil, agentRuns, submitKey, deliverable, hostedRun, runnerCrashes>>

\* The checkpoint is written, or its failure is ignored.
Checkpointed(d) ==
    /\ \/ At(d, "failing") /\ MarkTask(d, "failed")
       \/ At(d, "asking") /\ MarkTask(d, "completed")
    /\ Answers(d)
    /\ UNCHANGED <<clock, stamp, nonceUntil, agentRuns, submitKey, deliverable, hostedRun, runnerCrashes>>

StoreResult(d) ==
    /\ At(d, "storing")
    /\ \/ /\ MarkTask(d, "completed")
          /\ IF RouteAt(d) = "provider/run-and-submit" THEN GoesTo(d, "preparing") ELSE Answers(d)
       \/ MarkTask(d, "failed") /\ Answers(d)
    /\ UNCHANGED <<clock, stamp, nonceUntil, agentRuns, submitKey, deliverable, hostedRun, runnerCrashes>>

----------------------------------------------------------------------------
(* submitProviderDeliverable                                               *)

KeyAt(d) == submitKey[JobAt(d)][handling[d].output]
SetKey(d, s) == submitKey' = [submitKey EXCEPT ![JobAt(d)][handling[d].output] = s]

\* prepareSubmitDeliverable has answered or failed.
Submit(d) ==
    /\ At(d, "preparing")
    /\ \/ KeyAt(d) \in {"none", "failed"} /\ SetKey(d, "executing") /\ GoesTo(d, "submitting")
       \/ KeyAt(d) = "confirmed" /\ GoesTo(d, "receipting") /\ UNCHANGED submitKey
       \/ KeyAt(d) \in {"executing", "unknown"} /\ Answers(d) /\ UNCHANGED submitKey
    /\ UNCHANGED <<clock, stamp, nonceUntil, taskEntry, agentRuns, deliverable, hostedRun, runnerCrashes>>

\* AgenticCommerce takes one deliverable of a funded job.
MineDeliverable(d) ==
    /\ deliverable[JobAt(d)] = NoOutput
    /\ deliverable' = [deliverable EXCEPT ![JobAt(d)] = handling[d].output]

\* Mutant: a submit that fails is not told from one that succeeds.
SubmitGoesOn(d) ==
    /\ At(d, "submitting")
    /\ \/ MineDeliverable(d) /\ SetKey(d, "confirmed")
       \/ UNCHANGED deliverable /\ SetKey(d, "failed")
    /\ GoesTo(d, "receipting")
    /\ UNCHANGED <<clock, stamp, nonceUntil, taskEntry, agentRuns, hostedRun, runnerCrashes>>

\* The write is confirmed; it fails, or its result is not known, and it may
\* have been mined all the same.
SubmitEnds(d) ==
    /\ At(d, "submitting")
    /\ \/ MineDeliverable(d) /\ SetKey(d, "confirmed") /\ GoesTo(d, "receipting")
       \/ /\ \E s \in {"failed", "unknown"} : SetKey(d, s)
          /\ MineDeliverable(d) \/ UNCHANGED deliverable
          /\ Answers(d)
    /\ UNCHANGED <<clock, stamp, nonceUntil, taskEntry, agentRuns, hostedRun, runnerCrashes>>

StoreReceipt(d) ==
    /\ At(d, "receipting")
    /\ GoesTo(d, "completing") \/ Answers(d)
    /\ UNCHANGED <<clock, stamp, nonceUntil, taskEntry, agentRuns, submitKey, deliverable,
                   hostedRun, runnerCrashes>>

\* Without a run id the Console is not called; a failed call is a warning.
CompleteJobRun(d) ==
    /\ At(d, "completing")
    /\ \/ /\ handling[d].hosted
          /\ hostedRun' = [hostedRun EXCEPT ![JobAt(d)] =
                             [status |-> "completed", output |-> handling[d].output]]
       \/ UNCHANGED hostedRun
    /\ Answers(d)
    /\ UNCHANGED <<clock, stamp, nonceUntil, taskEntry, agentRuns, submitKey, deliverable, runnerCrashes>>

\* Both stores are lost, the gateway's journal is recovered.
RunnerRestarts ==
    /\ runnerCrashes < MaxRunnerCrashes /\ runnerCrashes' = runnerCrashes + 1
    /\ nonceUntil' = [m \in Messages |-> 0]
    /\ taskEntry' = [t \in Tasks |-> "none"]
    /\ handling' = [d \in Deliveries |-> NoHandling]
    /\ agentRuns' = [t \in Tasks |-> 0]
    /\ submitKey' = [j \in TaskJobs |-> [o \in Outputs |->
                       IF submitKey[j][o] = "executing" THEN "failed" ELSE submitKey[j][o]]]
    /\ \/ \E d \in Deliveries : At(d, "submitting") /\ MineDeliverable(d)
       \/ UNCHANGED deliverable
    /\ UNCHANGED <<clock, stamp, hostedRun>>

RequestNext ==
    \/ \E m \in Messages : Sign(m) \/ \E d \in Deliveries : Receive(d, m)
    \/ \E d \in Deliveries :
         \/ StartJobRun(d) \/ AgentThrows(d) \/ AgentAnswers(d) \/ Checkpointed(d)
         \/ StoreResult(d) \/ Submit(d) \/ SubmitEnds(d) \/ StoreReceipt(d) \/ CompleteJobRun(d)
    \/ Tick \/ RunnerRestarts

RequestSpec == RequestInit /\ [][RequestNext]_requestVars

----------------------------------------------------------------------------

Stages == {"idle", "starting", "running", "failing", "asking", "storing", "preparing",
           "submitting", "receipting", "completing"}

RequestTypeOK ==
    /\ clock \in 1 .. LastTick
    /\ stamp \in [Messages -> 0 .. LastTick + Ahead]
    /\ nonceUntil \in [Messages -> 0 .. LastTick + NonceTtl]
    /\ taskEntry \in [Tasks -> {"none", "pending", "completed", "failed"}]
    /\ handling \in [Deliveries -> [message : Messages \cup {NoMessage}, stage : Stages,
                                    hosted : BOOLEAN, output : Outputs \cup {NoOutput}]]
    /\ agentRuns \in [Tasks -> 0 .. 2]
    /\ submitKey \in [TaskJobs -> [Outputs -> {"none", "executing", "confirmed", "failed", "unknown"}]]
    /\ deliverable \in [TaskJobs -> Outputs \cup {NoOutput}]
    /\ hostedRun \in [TaskJobs -> [status : {"none", "active", "completed"},
                                   output : Outputs \cup {NoOutput}]]
    /\ runnerCrashes \in 0 .. MaxRunnerCrashes

\* A task is given to the agent once while the process lives, however often
\* its requests are delivered, whatever becomes of the first run and whichever
\* nonces have expired (http.ts, task-idempotency.ts).
TaskRunsOnce == \A t \in Tasks : agentRuns[t] <= 1

\* A hosted run that is completed with an output has that output's hash on the
\* chain, across repeated tasks of one job, lost answers, late transactions and
\* restarts (runAndSubmitProviderJob, services.ts).
CompletedRunIsOnChain ==
    \A j \in TaskJobs : hostedRun[j].status = "completed" => deliverable[j] = hostedRun[j].output
=============================================================================
