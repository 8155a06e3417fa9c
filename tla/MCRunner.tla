------------------------------ MODULE MCRunner ------------------------------
(***************************************************************************)
(* Model checking the runner, gateway and payments apart: approvals, the   *)
(* registration of an identity, what a client may spend, the signed        *)
(* requests, the broker of an agent's tools, and what the Console          *)
(* remembers of the runs of a provider's bots.  They share no variable:    *)
(* one of them, the focus, is at work in a behaviour while the others      *)
(* rest.                                                                   *)
(***************************************************************************)
EXTENDS Approvals, IdentityEnsure, SpendControl, RunnerRequests, McpBroker,
        ProviderRuntime, TLC

\* A generic action and two registrations of one agent; two calls may be
\* under way in one process, one in the other.
CONSTANTS g, a1, a2, c1, c2, c3, p1, p2, s1

MCProcOf      == (c1 :> p1) @@ (c2 :> p1) @@ (c3 :> p2)
MCCreatorOf   == (g :> p2) @@ (a1 :> p1) @@ (a2 :> p1)
MCSignatureOf == (g :> NoSignature) @@ (a1 :> s1) @@ (a2 :> s1)

\* Two commands that are given the same metadata.
MCMetaOf == [e \in Ensures |-> "m"]

\* Two approvals of two units each, which the limits allow once a day.
CONSTANTS j1, i1, i2
MCAsked == {CreateEscrow(i1), ApproveUsdc(2, i1), ApproveUsdc(2, i2), FundJob(j1), SetProvider(j1)}

\* A task that is run and then submitted, and another task of the same job.
CONSTANTS m1, m2, m3, u1, u2, e1
MCTaskOf    == (m1 :> u1) @@ (m2 :> u1) @@ (m3 :> u2)
MCRouteOf   == (m1 :> "runtime/run") @@ (m2 :> "provider/run-and-submit")
               @@ (m3 :> "provider/run-and-submit")
MCJobOfTask == (u1 :> e1) @@ (u2 :> e1)

\* Two tools that pay, two of the Console, one malformed, one of another role.
CONSTANTS k1, k2, k3, k4, k5, k6
MCCostOf == [c \in ToolCalls |-> IF c \in {k1, k2} THEN 1 ELSE 0]

VARIABLE focus

MCInit ==
    /\ focus \in {"approvals", "identity", "spend", "requests", "broker", "runtime"}
    /\ Init /\ EnsureInit /\ SpendInit /\ RequestInit /\ BrokerInit /\ RuntimeInit

OthersRest ==
    /\ UNCHANGED focus
    /\ IF focus = "approvals" THEN TRUE ELSE UNCHANGED vars
    /\ IF focus = "identity" THEN TRUE ELSE UNCHANGED ensureVars
    /\ IF focus = "spend" THEN TRUE ELSE UNCHANGED spendVars
    /\ IF focus = "requests" THEN TRUE ELSE UNCHANGED requestVars
    /\ IF focus = "broker" THEN TRUE ELSE UNCHANGED brokerVars
    /\ IF focus = "runtime" THEN TRUE ELSE UNCHANGED runtimeVars

ApprovalsAtWork == focus = "approvals" /\ Next /\ OthersRest
IdentityAtWork  == focus = "identity" /\ EnsureNext /\ OthersRest
SpendAtWork     == focus = "spend" /\ SpendNext /\ OthersRest
RequestsAtWork  == focus = "requests" /\ RequestNext /\ OthersRest
BrokerAtWork    == focus = "broker" /\ BrokerNext /\ OthersRest
RuntimeAtWork   == focus = "runtime" /\ RuntimeNext /\ OthersRest

MCNext ==
    \/ ApprovalsAtWork \/ IdentityAtWork \/ SpendAtWork \/ RequestsAtWork
    \/ BrokerAtWork \/ RuntimeAtWork

MCSpec == MCInit /\ [][MCNext]_<<focus, vars, ensureVars, spendVars, requestVars,
                               brokerVars, runtimeVars>>

------------------------------------------------------------------------------
\* Every component's variables have their types, while it is at work.
RunnerTypeOK ==
    CASE focus = "approvals" -> TypeOK
      [] focus = "identity"  -> EnsureTypeOK
      [] focus = "spend"     -> SpendTypeOK
      [] focus = "requests"  -> RequestTypeOK
      [] focus = "broker"    -> BrokerTypeOK
      [] focus = "runtime"   -> RuntimeTypeOK

(***************************************************************************)
(* What the runner is told not to exceed holds whatever overlaps: the      *)
(* amounts moved stay within the limits of the job, the day and the month, *)
(* the calls of a session within their number, and it has one connection.  *)
(***************************************************************************)
LimitsHold ==
    CASE focus = "spend"  -> SpentWithinLimits
      [] focus = "broker" -> CallsAreBounded /\ OneConnection
      [] OTHER            -> TRUE

(***************************************************************************)
(* What is retried, or asked for twice at a time, is done once: one        *)
(* registration at a time and one for a key, recorded only when it is on   *)
(* the chain; one run of a task, reported as completed only when its       *)
(* deliverable is on the chain; a bot that comes back resumes the run it   *)
(* has begun, and no other.                                                *)
(***************************************************************************)
RetriesDoItOnce ==
    CASE focus = "identity" -> RegistrationsAreSerial /\ IdentityIsReal /\ OneRegistrationPerKey
      [] focus = "requests" -> TaskRunsOnce /\ CompletedRunIsOnChain
      [] focus = "runtime"  -> WorkIsResumed
      [] OTHER              -> TRUE

------------------------------------------------------------------------------
\* Of two handlings, or calls of a bot, that do the same things in another
\* order, the set tells.
View ==
    CASE focus = "approvals" -> <<focus, vars>>
      [] focus = "identity"  -> <<focus, ensureVars>>
      [] focus = "spend"     -> <<focus, spendVars>>
      [] focus = "requests"  ->
           <<focus, clock, stamp, nonceUntil, taskEntry, {handling[d] : d \in Deliveries},
             agentRuns, submitKey, deliverable, hostedRun, runnerCrashes>>
      [] focus = "broker"    -> <<focus, brokerVars>>
      [] focus = "runtime"   ->
           <<focus, taken, jobRun, pointer, application, {tool[b] : b \in Bots}>>

(***************************************************************************)
(* Bound: of two outputs, the first is produced first, and the request to  *)
(* run only is sent first.                                                 *)
(***************************************************************************)
First(S) == CHOOSE x \in S : TRUE

InUse(o) == \/ \E d \in Deliveries : handling[d].output = o
            \/ \E j \in TaskJobs : submitKey[j][o] # "none" \/ deliverable[j] = o

Bound ==
    focus = "requests" =>
        /\ \A d \in Deliveries :
             LET o == handling'[d].output IN
             o \in {NoOutput, First(Outputs), handling[d].output} \/ InUse(First(Outputs))
        /\ stamp'[m1] = 0 => stamp'[m2] = 0
=============================================================================
