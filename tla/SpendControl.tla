----------------------------- MODULE SpendControl -----------------------------
(***************************************************************************)
(* The spending of a runner's wallet: the ERC-8183 writes of services.ts,  *)
(* the spend policy that the execution gateway asks before it sends one    *)
(* and the ledger of reservations the policy reads.                        *)
(*                                                                         *)
(* The gateway is the one of ExecutionGateway, seen from its caller: one   *)
(* write of the wallet at a time, a key that is confirmed is answered      *)
(* again without a send, an unresolved one blocks, a failed one is sent    *)
(* again, and a write that the policy refuses keeps its locks until the    *)
(* process restarts.  Amounts are USDC; the chain counts Scale units per   *)
(* USDC (10^6 in the program).                                             *)
(***************************************************************************)
EXTENDS Naturals, FiniteSets

CONSTANTS
    SpendJobs, NoSpendJob,
    Amounts,          \* USDC amounts a caller may name
    RequestIds,       \* requestId or idempotencyKey of a call
    NoRequestId,
    SpendRole,        \* config.defaultRole
    Asked,            \* the requests of the instance
    Scale,
    PerTxLimit, DailyUsdc, MonthlyUsdc, MaxJobBudget, ApprovalAbove,
    LastDay,          \* bound: days of the month that are followed
    MaxRestarts       \* bound: restarts of the process

VARIABLES
    write,       \* the gateway's operation and the transaction of each request
    spendLedger, \* spend-ledger.jsonl: USDC reserved on each day
    day,
    escrowJob,   \* the chain's jobs
    allowance,   \* the contract's allowance on the wallet
    granted,     \* the units approved on the chain, by the day they were sent
    escrowed,    \* the units moved into escrow
    restarts

spendVars == <<write, spendLedger, day, escrowJob, allowance, granted, escrowed, restarts>>

Days == 1 .. LastDay

----------------------------------------------------------------------------
(* The requests: tool, idempotency key, the amount the policy is told.     *)

Request(tool, job, amount, id) == [tool |-> tool, job |-> job, amount |-> amount, id |-> id]

CreateEscrow(id)        == Request("createJob", NoSpendJob, 0, id)
SetProvider(j)          == Request("setProvider", j, 0, NoRequestId)
SetBudget(j, a)         == Request("setBudget", j, a, NoRequestId)
ApproveUsdc(a, id)      == Request("approveUsdc", NoSpendJob, a, id)
FundJob(j)              == Request("fundJob", j, 0, NoRequestId)
SubmitDeliverable(j)    == Request("submitDeliverable", j, 0, NoRequestId)
CompleteJob(j)          == Request("completeJob", j, 0, NoRequestId)
RejectJob(j)            == Request("rejectJob", j, 0, NoRequestId)
ClaimRefund(j)          == Request("claimRefund", j, 0, NoRequestId)

AllowedTools ==
    [provider  |-> {"setBudget", "submitDeliverable", "approveUsdc"},
     evaluator |-> {"completeJob", "rejectJob"},
     client    |-> {"createJob", "approveUsdc", "fundJob", "claimRefund"}]

Tools == {"createJob", "setProvider", "setBudget", "approveUsdc", "fundJob",
          "submitDeliverable", "completeJob", "rejectJob", "claimRefund"}

AllowedFor(role) == IF role \in DOMAIN AllowedTools THEN AllowedTools[role] ELSE Tools

\* Which job a request names, and which amount.
Requests ==
    {r \in [tool : Tools, job : SpendJobs \cup {NoSpendJob}, amount : Nat,
            id : RequestIds \cup {NoRequestId}] :
       r.job = NoSpendJob <=> r.tool \in {"createJob", "approveUsdc"}}

ASSUME SpendAssumption ==
    /\ NoSpendJob \notin SpendJobs
    /\ Asked \subseteq Requests /\ IsFiniteSet(Asked)
    /\ Amounts \subseteq Nat /\ Scale \in Nat
    /\ PerTxLimit \in Nat /\ DailyUsdc \in Nat /\ MonthlyUsdc \in Nat
    /\ LastDay \in Nat \ {0} /\ MaxRestarts \in Nat

----------------------------------------------------------------------------
(* Policy and ledger                                                       *)

\* The sum of the first n values of a function.
SumTo(f, n) ==
    LET sum[i \in 0 .. n] == IF i = 0 THEN 0 ELSE sum[i - 1] + f[i]
    IN sum[n]

Total(perDay) == SumTo(perDay, LastDay)

AssertSpendPolicy(r) ==
    /\ r.tool \in AllowedFor(SpendRole)
    /\ r.amount <= PerTxLimit
    /\ spendLedger[day] + r.amount <= DailyUsdc
    /\ Total(spendLedger) + r.amount <= MonthlyUsdc
    /\ r.tool = "setBudget" => r.amount <= MaxJobBudget
    /\ r.amount <= ApprovalAbove

ReserveSpend(r) == spendLedger' = [spendLedger EXCEPT ![day] = @ + r.amount]

----------------------------------------------------------------------------
(* The chain                                                               *)

BudgetUnits(a)    == a * Scale
AllowanceUnits(a) == a

JobStatuses == {"none", "Open", "Funded", "Submitted", "Completed", "Rejected", "Expired"}

Accepted(r) ==
    CASE r.tool = "createJob"   -> \E j \in SpendJobs : escrowJob[j].status = "none"
      [] r.tool = "approveUsdc" -> TRUE
      [] r.tool \in {"setProvider", "setBudget"} -> escrowJob[r.job].status = "Open"
      [] r.tool = "fundJob" -> /\ escrowJob[r.job].status = "Open"
                               /\ escrowJob[r.job].budget \in 1 .. allowance
      [] r.tool = "submitDeliverable" -> escrowJob[r.job].status = "Funded"
      [] r.tool = "completeJob" -> escrowJob[r.job].status = "Submitted"
      [] r.tool = "rejectJob"   -> escrowJob[r.job].status \in {"Open", "Funded", "Submitted"}
      [] r.tool = "claimRefund" -> escrowJob[r.job].status = "Expired"

Moved(j, status) == escrowJob' = [escrowJob EXCEPT ![j].status = status]

StatusOnceDone ==
    [fundJob |-> "Funded", submitDeliverable |-> "Submitted", completeJob |-> "Completed",
     rejectJob |-> "Rejected", setProvider |-> "Open", claimRefund |-> "Expired"]

JobsAfter(r) ==
    CASE r.tool = "createJob" ->
           {[escrowJob EXCEPT ![j].status = "Open"] : j \in {k \in SpendJobs : escrowJob[k].status = "none"}}
      [] r.tool = "setBudget" -> {[escrowJob EXCEPT ![r.job].budget = BudgetUnits(r.amount)]}
      [] r.tool = "approveUsdc" -> {escrowJob}
      [] OTHER -> {[escrowJob EXCEPT ![r.job].status = StatusOnceDone[r.tool]]}

Mines(r, d) ==
    /\ Accepted(r)
    /\ escrowJob' \in JobsAfter(r)
    /\ allowance' = CASE r.tool = "approveUsdc" -> AllowanceUnits(r.amount)
                      [] r.tool = "fundJob" -> allowance - escrowJob[r.job].budget
                      [] OTHER -> allowance
    /\ granted' = IF r.tool = "approveUsdc"
                  THEN [granted EXCEPT ![d] = @ + AllowanceUnits(r.amount)] ELSE granted
    /\ escrowed' = IF r.tool = "fundJob" THEN escrowed + escrowJob[r.job].budget ELSE escrowed

ChainRests == UNCHANGED <<escrowJob, allowance, granted, escrowed>>

\* The provider, the evaluator and the clock act on the jobs of the wallet.
OthersAct ==
    /\ \E j \in SpendJobs :
         \/ escrowJob[j].status = "Open"
            /\ \E a \in Amounts : escrowJob' = [escrowJob EXCEPT ![j].budget = BudgetUnits(a)]
         \/ escrowJob[j].status = "Funded" /\ Moved(j, "Submitted")
         \/ escrowJob[j].status = "Submitted" /\ \E s \in {"Completed", "Rejected"} : Moved(j, s)
         \/ escrowJob[j].status \in {"Funded", "Submitted"} /\ Moved(j, "Expired")
    /\ UNCHANGED <<write, spendLedger, day, allowance, granted, escrowed, restarts>>

\* A transaction that the gateway no longer waits for is mined, or is not.
Straggles(r) ==
    \E d \in Days :
      /\ d \in write[r].loose
      /\ write' = [write EXCEPT ![r].loose = @ \ {d}]
      /\ Mines(r, d) \/ ChainRests
      /\ UNCHANGED <<spendLedger, day, restarts>>

----------------------------------------------------------------------------
(* The gateway                                                             *)

Holds(state) == state \in {"executing", "refused", "unknown"}
WalletIsFree == \A r \in Asked : ~Holds(write[r].state)

SetWrite(r, state) == write' = [write EXCEPT ![r].state = state]

SpendInit ==
    /\ write = [r \in Asked |-> [state |-> "none", loose |-> {}]]
    /\ spendLedger = [d \in Days |-> 0]
    /\ day = 1
    /\ escrowJob = [j \in SpendJobs |-> [status |-> "none", budget |-> 0]]
    /\ allowance = 0
    /\ granted = [d \in Days |-> 0]
    /\ escrowed = 0
    /\ restarts = 0

\* A tool is called: the policy is asked, the amount is reserved and the
\* wallet is called in one synchronous piece of the handler.
ExecuteWrite(r) ==
    /\ write[r].state \in {"none", "failed"} /\ WalletIsFree
    /\ \/ AssertSpendPolicy(r) /\ ReserveSpend(r) /\ SetWrite(r, "executing")
       \/ ~AssertSpendPolicy(r) /\ SetWrite(r, "refused") /\ UNCHANGED spendLedger
    /\ UNCHANGED <<day, restarts>> /\ ChainRests

\* Bound: a request has one transaction at large per day.
Loosened(r) == write[r].loose \cup {day}

\* A failed write gives its reservation back.
WriteEndsReleasing(r) ==
    /\ write[r].state = "executing"
    /\ \/ Mines(r, day) /\ SetWrite(r, "confirmed") /\ UNCHANGED spendLedger
       \/ /\ ChainRests
          /\ write' = [write EXCEPT ![r] = [state |-> "failed", loose |-> Loosened(r)]]
          /\ spendLedger' = [spendLedger EXCEPT ![day] = @ - r.amount]
    /\ UNCHANGED <<day, restarts>>

WriteEnds(r) ==
    /\ write[r].state = "executing"
    /\ \/ Mines(r, day) /\ SetWrite(r, "confirmed")
       \/ ChainRests /\ SetWrite(r, "failed")
       \/ ChainRests /\ \E s \in {"failed", "unknown"} :
            write' = [write EXCEPT ![r] = [state |-> s, loose |-> Loosened(r)]]
    /\ UNCHANGED <<spendLedger, day, restarts>>

\* runner.reconcile_operation: the operator's word is taken.
ReconcileWrite(r) ==
    /\ write[r].state = "unknown"
    /\ \E s \in {"confirmed", "failed"} : SetWrite(r, s)
    /\ UNCHANGED <<spendLedger, day, restarts>> /\ ChainRests

Restarts ==
    /\ restarts < MaxRestarts /\ restarts' = restarts + 1
    /\ \E sent \in BOOLEAN :
         write' = [r \in Asked |->
                     IF write[r].state \in {"executing", "refused"}
                     THEN [state |-> "failed",
                           loose |-> IF sent /\ write[r].state = "executing" THEN Loosened(r)
                                     ELSE write[r].loose]
                     ELSE write[r]]
    /\ UNCHANGED <<spendLedger, day>> /\ ChainRests

NewDay ==
    /\ day < LastDay /\ day' = day + 1
    /\ \A r \in Asked : write[r].state # "executing"
    /\ UNCHANGED <<write, spendLedger, restarts>> /\ ChainRests

SpendNext ==
    \/ \E r \in Asked : ExecuteWrite(r) \/ WriteEnds(r) \/ ReconcileWrite(r) \/ Straggles(r)
    \/ OthersAct \/ Restarts \/ NewDay

SpendSpec == SpendInit /\ [][SpendNext]_spendVars

----------------------------------------------------------------------------

SpendTypeOK ==
    /\ write \in [Asked -> [state : {"none", "executing", "refused", "confirmed", "failed", "unknown"},
                            loose : SUBSET Days]]
    /\ spendLedger \in [Days -> 0 .. DailyUsdc]
    /\ day \in Days
    /\ escrowJob \in [SpendJobs -> [status : JobStatuses, budget : Nat]]
    /\ allowance \in Nat /\ granted \in [Days -> Nat] /\ escrowed \in Nat
    /\ restarts \in 0 .. MaxRestarts

\* What the wallet approves on the chain stays within the limits of its
\* policy, whatever timeouts, late errors, wrong reconciliations, retries and
\* restarts come between the reservation and the transaction, and no job is
\* funded with more than was approved (spend-policy.ts, spend-ledger.ts and
\* the policy guard of execution-gateway.ts).
SpentWithinLimits ==
    /\ \A d \in Days : granted[d] <= AllowanceUnits(DailyUsdc)
    /\ Total(granted) <= AllowanceUnits(MonthlyUsdc)
    /\ escrowed <= Total(granted)

\* "Amount to approve in USDC (6 decimals)" (mcp-schemas.ts:252): an approval
\* that the chain has confirmed covers a budget of its amount.
ApprovalCoversItsAmount ==
    [][\A r \in Asked : r.tool = "approveUsdc" /\ write[r].state = "executing"
                          /\ write'[r].state = "confirmed" => allowance' >= BudgetUnits(r.amount)]_spendVars
=============================================================================
