-------------------------- MODULE ProviderRuntime --------------------------
(***************************************************************************)
(* The durable memory of a provider bot in the Console                     *)
(* (lib/provider-runtime/store.ts behind the provider.* MCP tools): one    *)
(* run per job with append-only checkpoints, a pointer to the active run,  *)
(* the resume plan, and applications to open jobs.                         *)
(*                                                                         *)
(* One agent, whose bot instances call the tools in any order.  A tool     *)
(* that writes several tables is a call in stages, and may die between     *)
(* them.  Of the log of a run the newest checkpoint counts.  Whether the   *)
(* chain says Funded does not bind a retry: when it cannot be read, the    *)
(* retry is granted.                                                       *)
(***************************************************************************)
EXTENDS Naturals

CONSTANTS
    Gigs,            \* jobs
    Bots,            \* instances of the bot
    NoGig,
    PhasesUsed       \* bound: phases the bots report

\* The phases the plan tells apart; any other phase is "other".
Phases == {"other", "applied", "budget_sent", "budget_confirmed", "runtime_started",
           "runtime_completed", "runtime_failed", "retry_requested", "ready", "submit_sent",
           "submit_failed"}
RetryablePhases == {"runtime_failed", "submit_failed"}

ASSUME ProviderRuntimeAssumption == NoGig \notin Gigs /\ PhasesUsed \subseteq Phases
MaxRetryCount == 3

VARIABLES
    taken,       \* jobs that are no longer open to everybody
    jobRun,      \* the run of each job: its status, newest phase and retry count
    pointer,     \* active_run_id of the agent
    application, \* the agent's application to each job
    tool         \* the call under way of each bot

runtimeVars == <<taken, jobRun, pointer, application, tool>>

NoTool == [name |-> "none", job |-> NoGig]
Unstarted == [status |-> "none", phase |-> "other", retries |-> 0]

RuntimeTypeOK ==
    /\ taken \subseteq Gigs
    /\ jobRun \in [Gigs -> [status : {"none", "active", "completed"}, phase : Phases,
                            retries : 0 .. MaxRetryCount]]
    /\ pointer \in Gigs \cup {NoGig}
    /\ application \in [Gigs -> {"none", "submitted", "withdrawn"}]
    /\ tool \in [Bots -> [name : {"none", "start", "complete", "retry", "regranted"},
                          job : Gigs \cup {NoGig}]]

RuntimeInit ==
    /\ taken = {}
    /\ jobRun = [j \in Gigs |-> Unstarted]
    /\ pointer = NoGig
    /\ application = [j \in Gigs |-> "none"]
    /\ tool = [b \in Bots |-> NoTool]

-----------------------------------------------------------------------------
\* The client assigns the job, or it leaves Open.
GigTaken(j) ==
    /\ j \notin taken
    /\ taken' = taken \cup {j}
    /\ UNCHANGED <<jobRun, pointer, application, tool>>

-----------------------------------------------------------------------------
Ready(b)      == tool[b] = NoTool
Calling(b, name, j) == tool' = [tool EXCEPT ![b] = [name |-> name, job |-> j]]
IsCalling(b, name) == tool[b].name = name
Returns(b)    == tool' = [tool EXCEPT ![b] = NoTool]

\* The run is looked for, or inserted; on a duplicate key the row that is
\* there is taken, whatever its status.
StartRun(b, j) ==
    /\ Ready(b)
    /\ IF jobRun[j].status = "none"
       THEN \E phase \in PhasesUsed :
              jobRun' = [jobRun EXCEPT ![j] = [status |-> "active", phase |-> phase, retries |-> 0]]
       ELSE UNCHANGED jobRun
    /\ Calling(b, "start", j)
    /\ UNCHANGED <<taken, pointer, application>>

\* The upsert may fail; its error is only logged.
SyncPointer(b) ==
    /\ IsCalling(b, "start")
    /\ pointer' \in {pointer, tool[b].job}
    /\ Returns(b)
    /\ UNCHANGED <<taken, jobRun, application>>

\* The run is found by its job if it is active, or given by its id.
WriteCheckpoint(b, j, phase) ==
    /\ Ready(b)
    /\ jobRun[j].status # "none"
    /\ jobRun' = [jobRun EXCEPT ![j].phase = phase, ![j].retries = 0]
    /\ UNCHANGED <<taken, pointer, application, tool>>

CompleteRun(b, j) ==
    /\ Ready(b)
    /\ jobRun[j].status # "none"
    /\ jobRun' = [jobRun EXCEPT ![j].status = "completed"]
    /\ Calling(b, "complete", j)
    /\ UNCHANGED <<taken, pointer, application>>

\* Mutant: the pointer is cleared, whichever run it names.
ClearsAnyPointer(j) == NoGig

\* Only a pointer to this run is cleared.
PointerAfter(j) == IF pointer = j THEN NoGig ELSE pointer

ClearPointer(b) ==
    /\ IsCalling(b, "complete")
    /\ pointer' = PointerAfter(tool[b].job)
    /\ Returns(b)
    /\ UNCHANGED <<taken, jobRun, application>>

\* The newest checkpoint is retryable and grants a retry; the chain says
\* Funded, or cannot be read.
RetryRun(b, j) ==
    /\ Ready(b)
    /\ jobRun[j].status # "none"
    /\ jobRun[j].phase \in RetryablePhases
    /\ jobRun[j].retries < MaxRetryCount
    /\ Calling(b, "retry", j)
    /\ UNCHANGED <<taken, jobRun, pointer, application>>

Reactivate(b) ==
    /\ IsCalling(b, "retry")
    /\ jobRun' = [jobRun EXCEPT ![tool[b].job].status = "active"]
    /\ pointer' = tool[b].job
    /\ Calling(b, "regranted", tool[b].job)
    /\ UNCHANGED <<taken, application>>

\* The count goes into the metadata of the retry's own checkpoint.
NoteRetry(b) ==
    LET j == tool[b].job IN
    /\ IsCalling(b, "regranted")
    /\ jobRun' = [jobRun EXCEPT ![j].phase = "retry_requested",
                                ![j].retries = IF @ < MaxRetryCount THEN @ + 1 ELSE @]
    /\ Returns(b)
    /\ UNCHANGED <<taken, pointer, application>>

-----------------------------------------------------------------------------
Active(j) == jobRun[j].status = "active"

\* Mutant: the context trusts the pointer alone.
ContextByPointer == IF pointer # NoGig /\ Active(pointer) THEN {pointer} ELSE {}

\* The run the context shows: the pointer's if it is active, else any
\* active one.
ActiveRun ==
    IF pointer # NoGig /\ Active(pointer) THEN {pointer} ELSE {j \in Gigs : Active(j)}

\* The context puts the pointer back on the run it found.
GetContext(b) ==
    /\ Ready(b)
    /\ \E j \in ActiveRun : pointer' \in {pointer, j}
    /\ UNCHANGED <<taken, jobRun, application, tool>>

\* buildResumePlan: what the bot is told to do next, from the chain and the
\* newest phase.
NextAction(status, assigned, phase) ==
    IF status \in {"Completed", "Rejected", "Expired"} \/ assigned = "other" THEN "none"
    ELSE CASE status = "Open" /\ assigned = "nobody" ->
                IF phase = "applied" THEN "wait_for_client" ELSE "apply_open_job"
           [] status = "Open" /\ assigned = "us" ->
                CASE phase = "budget_sent" -> "retry_set_budget"
                  [] phase = "budget_confirmed" -> "wait_for_client"
                  [] OTHER -> "set_budget"
           [] status = "Funded" ->
                CASE phase = "runtime_started" -> "wait_for_llm"
                  [] phase = "runtime_completed" -> "prepare_deliverable"
                  [] phase = "runtime_failed" -> "none"
                  [] phase = "ready" -> "submit_deliverable"
                  [] phase \in {"submit_sent", "submit_failed"} -> "check_submit_status"
                  [] OTHER -> "run_llm_and_submit"
           [] status = "Submitted" -> "wait_for_evaluator"
           [] OTHER -> "check_onchain_status"

-----------------------------------------------------------------------------
\* The job is read on chain, or, when the RPC fails, at the indexer.
ApplyToOpenJob(b, j) ==
    /\ Ready(b)
    /\ j \notin taken
    /\ application' = [application EXCEPT ![j] = "submitted"]
    /\ UNCHANGED <<taken, jobRun, pointer, tool>>

Withdraw(b, j) ==
    /\ Ready(b)
    /\ application[j] = "submitted"
    /\ application' = [application EXCEPT ![j] = "withdrawn"]
    /\ UNCHANGED <<taken, jobRun, pointer, tool>>

BotDies(b) ==
    /\ ~Ready(b)
    /\ Returns(b)
    /\ UNCHANGED <<taken, jobRun, pointer, application>>

RuntimeNext ==
    \/ \E j \in Gigs : GigTaken(j)
    \/ \E b \in Bots :
         \/ SyncPointer(b) \/ ClearPointer(b) \/ Reactivate(b) \/ NoteRetry(b)
         \/ GetContext(b) \/ BotDies(b)
         \/ \E j \in Gigs :
              \/ StartRun(b, j) \/ CompleteRun(b, j) \/ RetryRun(b, j)
              \/ ApplyToOpenJob(b, j) \/ Withdraw(b, j)
              \/ \E phase \in PhasesUsed : WriteCheckpoint(b, j, phase)

-----------------------------------------------------------------------------
(* "Enables provider bots to persist state across restarts, resume active  *)
(* jobs": a bot that comes back is shown an active run whenever there is   *)
(* one, whatever calls died or overlapped and whatever the pointer says,   *)
(* and never a run that has ended; and where its plan has no next action   *)
(* although the job is not over, a retry can be asked for.                 *)
WorkIsResumed ==
    /\ (\E j \in Gigs : Active(j)) => ActiveRun # {}
    /\ \A j \in ActiveRun : Active(j)
    /\ \A j \in ActiveRun :
         NextAction("Funded", "us", jobRun[j].phase) = "none" =>
             jobRun[j].phase \in RetryablePhases /\ jobRun[j].retries < MaxRetryCount
=============================================================================
