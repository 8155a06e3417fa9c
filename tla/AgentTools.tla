----------------------------- MODULE AgentTools -----------------------------
(***************************************************************************)
(* The tools an LLM agent gets from packages/langchain-adapter and the HTTP*)
(* routes of the runner they call (apps/arclayer-runner/src/index.ts).     *)
(*                                                                         *)
(* A tool call passes the checks of the adapter, becomes one signed request*)
(* and is given up after timeoutMs; the handler of the runner does not hear*)
(* of that and goes on.  The agent may call any tool again, in any order.  *)
(* Payments follow payX402 and batchPayX402, one step per await (limits and*)
(* crashes are X402Payments'); a budget follows the execution gateway, with*)
(* one job and so one lock (the rest is ExecutionGateway's).               *)
(***************************************************************************)
EXTENDS Naturals, Sequences

CONSTANTS
    Invocations,     \* tool calls the agent makes
    Asked,           \* inputs it may give them
    NoKey,           \* no idempotencyKey, or no batch id
    NoInput,
    Role,            \* the role the tools are made for
    OptedIn,         \* tools with an enable... option that is set
    AllowedTools, DeniedTools,   \* the overrides; no allowed tools: no override
    RequireKey,      \* requireIdempotencyKey
    SdkHosts, RunnerHosts,
    SdkLimit, PerTxLimit,
    MinBudget, MaxBudget, HardCap,
    MaxLostMessages  \* bound: requests and answers the network loses

\* The schemas of the pay tools: x402_pay makes one payment, a batch one or more.
ASSUME AskedAssumption ==
    /\ NoInput \notin Asked /\ MaxLostMessages \in Nat
    /\ \A in \in Asked :
          in.tool \in {"x402_pay", "x402_batch_pay"} =>
              /\ Len(in.payments) \in Nat \ {0} /\ DOMAIN in.payments = 1 .. Len(in.payments)
              /\ in.tool = "x402_pay" => Len(in.payments) = 1

VARIABLES
    input,      \* what each call was given
    reply,      \* what the tool told the agent
    run,        \* the handler of the call at the runner
    item,       \* the payment of a batch the handler is at
    attempted,   \* keys with an attempt event in the spending ledger
    settled,    \* keys with a success event
    charges,    \* payments the services took: key, call, item and host
    writes,     \* the operations of the gateway: amount |-> reason and state
    budget,     \* the budget of the job on chain
    seen,       \* budgets the job had since a call was made
    lost

clientVars == <<input, reply, seen, lost>>
payVars    == <<attempted, settled, charges>>
toolVars   == <<clientVars, run, item, payVars, writes, budget>>

Payments == {"x402_pay", "x402_batch_pay"}
SetsBudget == "erc8183_provider_set_budget"
Quotes == "erc8183_provider_quote_job"
Amounts == {in.amount : in \in {i \in Asked : i.tool = SetsBudget}}
NoWrite == [reason |-> NoKey, state |-> "none", caller |-> NoInput]

ToolTypeOK ==
    /\ input \in [Invocations -> Asked \cup {NoInput}]
    /\ reply \in [Invocations -> {"none", "waiting", "ok", "error", "lost", "timeout"}]
    /\ run \in [Invocations -> {"none", "sent", "next", "paying", "paid", "writing", "done"}]
    /\ item \in [Invocations -> Nat]
    /\ settled \subseteq attempted
    /\ \A x \in charges : x.by \in Invocations /\ x.key \in attempted
    /\ DOMAIN writes = Amounts
    /\ budget \in Amounts \cup {0}
    /\ seen \in [Invocations -> SUBSET (Amounts \cup {0})]
    /\ lost \in 0..MaxLostMessages

ToolInit ==
    /\ input = [c \in Invocations |-> NoInput]
    /\ reply = [c \in Invocations |-> "none"]
    /\ run = [c \in Invocations |-> "none"]
    /\ item = [c \in Invocations |-> 1]
    /\ attempted = {} /\ settled = {} /\ charges = {}
    /\ writes = [a \in Amounts |-> NoWrite]
    /\ budget = 0
    /\ seen = [c \in Invocations |-> {}]
    /\ lost = 0

-----------------------------------------------------------------------------
(***************************************************************************)
(* What tools the agent has, and what the adapter refuses by itself.       *)
(***************************************************************************)
Shared == {"x402_inspect", "payment_receipts", "payment_spend_ledger",
           "erc8183_job_status", "erc8183_job_lifecycle_summary"}

\* Tools whose handler forwards the call to the Console's MCP server.
Proxied == {"erc8183_job_status", "erc8183_job_lifecycle_summary",
            "erc8183_provider_get_context", "erc8183_provider_get_resume_plan",
            "erc8183_provider_heartbeat", "erc8183_provider_start_job",
            "erc8183_provider_write_checkpoint", "erc8183_provider_retry_job",
            "erc8183_provider_complete_run", "erc8183_provider_list_assigned_jobs",
            "erc8183_provider_list_open_jobs", "erc8183_provider_apply_open_job",
            "erc8183_provider_withdraw_open_job_application",
            "erc8183_provider_publish_deliverable"}

NeedsOptIn == {SetsBudget, "erc8183_provider_run_and_submit",
               "erc8183_provider_publish_deliverable", "erc8183_provider_submit_deliverable"}

Preset ==
    Shared \cup
    CASE Role = "x402-agent" -> Payments
      [] Role = "provider"   -> (Proxied \ NeedsOptIn) \cup (OptedIn \cap NeedsOptIn)
                                  \cup {"erc8183_provider_run_only", Quotes}
      [] OTHER               -> {}

ToolsForRole ==
    (IF AllowedTools = {} THEN Preset ELSE Preset \cap AllowedTools) \ DeniedTools

\* validateHost and assertAmountWithinSdkLimit.
PaymentPasses(p) == p.host \in SdkHosts /\ p.amount <= SdkLimit

\* The guards of the pay tools: on every payment, and between those of a batch.
PayPasses(in) ==
    /\ \A i \in DOMAIN in.payments :
          /\ PaymentPasses(in.payments[i])
          /\ RequireKey => in.payments[i].key # NoKey
    /\ \A i, j \in DOMAIN in.payments :
          in.payments[i].key = in.payments[j].key => i = j \/ in.payments[i].key = NoKey

BudgetPasses(in) ==
    /\ in.amount > 0 /\ in.amount >= MinBudget
    /\ in.amount <= MaxBudget /\ in.amount <= HardCap

AdapterPasses(in) ==
    /\ in.tool \in Payments => PayPasses(in)
    /\ in.tool = SetsBudget => BudgetPasses(in)

-----------------------------------------------------------------------------
(***************************************************************************)
(* The agent and its HTTP client.                                          *)
(***************************************************************************)

\* A quote never leaves the adapter; a refused call is an error at once.
Invoke(c, in) ==
    /\ reply[c] = "none"
    /\ in.tool \in ToolsForRole
    /\ input' = [input EXCEPT ![c] = in]
    /\ seen' = [seen EXCEPT ![c] = {budget}]
    /\ IF in.tool = Quotes \/ ~AdapterPasses(in)
         THEN /\ reply' = [reply EXCEPT ![c] = IF in.tool = Quotes THEN "ok" ELSE "error"]
              /\ UNCHANGED run
         ELSE /\ reply' = [reply EXCEPT ![c] = "waiting"]
              /\ run' = [run EXCEPT ![c] = "sent"]
    /\ UNCHANGED <<lost, item, payVars, writes, budget>>

\* The AbortController fires; the tool returns the timeout as text.
GiveUp(c) ==
    /\ reply[c] = "waiting"
    /\ reply' = [reply EXCEPT ![c] = "timeout"]
    /\ UNCHANGED <<input, seen, lost, run, item, payVars, writes, budget>>

\* The connection breaks, before the runner has the request or after.
LoseMessage(c) ==
    /\ reply[c] = "waiting"
    /\ lost < MaxLostMessages
    /\ lost' = lost + 1
    /\ reply' = [reply EXCEPT ![c] = "lost"]
    /\ \/ run[c] = "sent" /\ run' = [run EXCEPT ![c] = "done"]
       \/ UNCHANGED run
    /\ UNCHANGED <<input, seen, item, payVars, writes, budget>>

Tell(c, what) ==
    /\ run' = [run EXCEPT ![c] = "done"]
    /\ reply' = [reply EXCEPT ![c] = IF @ = "waiting" THEN what ELSE @]
    /\ UNCHANGED <<input, seen, lost>>

-----------------------------------------------------------------------------
(***************************************************************************)
(* The runner: payments.                                                   *)
(***************************************************************************)
PaymentAt(c) == input[c].payments[item[c]]

\* Mutant: a key of its own for every item of every request.
KeyPerRequest(c, i) ==
    IF input[c].payments[i].key # NoKey THEN <<"given", input[c].payments[i].key>>
    ELSE <<"random", c, i>>

\* The caller's key; else derived from the batch, the place and the content of
\* the item, or, for a single payment, a random UUID.
KeyFor(c, i) ==
    IF input[c].payments[i].key # NoKey THEN <<"given", input[c].payments[i].key>>
    ELSE IF input[c].batch # NoKey
           THEN <<"batch", input[c].batch, i, input[c].payments[i]>>
           ELSE <<"random", c, i>>

PolicyAllows(in) ==
    \A i \in DOMAIN in.payments :
        in.payments[i].host \in RunnerHosts /\ in.payments[i].amount <= PerTxLimit

BeginPay(c) ==
    /\ run[c] = "sent"
    /\ input[c].tool \in Payments
    /\ IF PolicyAllows(input[c])
         THEN run' = [run EXCEPT ![c] = "next"] /\ UNCHANGED clientVars
         ELSE Tell(c, "error")
    /\ UNCHANGED <<item, payVars, writes, budget>>

\* Mutant: a batch whose item fails is an error as a whole.
FailsTheBatch(c) == Tell(c, "error")

\* The error of a single payment reaches the client; a batch stops at it and
\* answers ok: true with the results so far.
ItemFails(c) == Tell(c, IF input[c].tool = "x402_batch_pay" THEN "ok" ELSE "error")

ItemSucceeds(c) ==
    IF item[c] < Len(input[c].payments)
      THEN /\ item' = [item EXCEPT ![c] = @ + 1]
           /\ run' = [run EXCEPT ![c] = "next"]
           /\ UNCHANGED clientVars
      ELSE Tell(c, "ok") /\ UNCHANGED item

KeyLocked(k) ==
    \E d \in Invocations : run[d] \in {"paying", "paid"} /\ KeyFor(d, item[d]) = k

\* Mutant: the ledger is not asked for an earlier success.
PaysAgain(c, k) == FALSE

AlreadyPaid(c, k) == k \in settled

\* Under the lock of the key; without crashes no attempt is ever found pending.
TakeItem(c) ==
    LET k == KeyFor(c, item[c]) IN
    /\ run[c] = "next"
    /\ ~KeyLocked(k)
    /\ IF AlreadyPaid(c, k)
         THEN ItemSucceeds(c) /\ UNCHANGED payVars
         ELSE /\ attempted' = attempted \cup {k}
              /\ run' = [run EXCEPT ![c] = "paying"]
              /\ UNCHANGED <<clientVars, item, settled, charges>>
    /\ UNCHANGED <<writes, budget>>

ServiceCharges(c) ==
    /\ run[c] = "paying"
    /\ charges' = charges \cup {[key |-> KeyFor(c, item[c]), by |-> c, at |-> item[c],
                                 host |-> PaymentAt(c).host]}
    /\ run' = [run EXCEPT ![c] = "paid"]
    /\ UNCHANGED <<clientVars, item, attempted, settled, writes, budget>>

\* The service takes nothing: an error, or 409 because an earlier payment has
\* unlocked the resource, which counts as a success.
ServiceRefuses(c) ==
    /\ run[c] = "paying"
    /\ ItemFails(c)
    /\ UNCHANGED <<item, payVars, writes, budget>>

ServiceIsUnlocked(c) ==
    /\ run[c] = "paying"
    /\ \E x \in charges : x.host = PaymentAt(c).host
    /\ settled' = settled \cup {KeyFor(c, item[c])}
    /\ ItemSucceeds(c)
    /\ UNCHANGED <<attempted, charges, writes, budget>>

RecordPaid(c) ==
    /\ run[c] = "paid"
    /\ settled' = settled \cup {KeyFor(c, item[c])}
    /\ ItemSucceeds(c)
    /\ UNCHANGED <<attempted, charges, writes, budget>>

-----------------------------------------------------------------------------
(***************************************************************************)
(* The runner: the budget of the job, and everything else.                 *)
(***************************************************************************)

\* The key of the operation is the job and the amount; its parameters include
\* the reason.  A confirmed operation is answered without another write.
BeginBudget(c) ==
    LET a == input[c].amount
        w == writes[a]
    IN
    /\ run[c] = "sent"
    /\ input[c].tool = SetsBudget
    /\ IF w.state = "confirmed" /\ w.reason = input[c].reason
         THEN Tell(c, "ok") /\ UNCHANGED writes
         ELSE IF \/ w.state # "none" /\ w.reason # input[c].reason
                 \/ \E b \in Amounts : writes[b].state \in {"executing", "unknown"}
           THEN Tell(c, "error") /\ UNCHANGED writes
           ELSE /\ writes' = [writes EXCEPT ![a] =
                     [reason |-> input[c].reason, state |-> "executing", caller |-> c]]
                /\ run' = [run EXCEPT ![c] = "writing"]
                /\ UNCHANGED clientVars
    /\ UNCHANGED <<item, payVars, budget>>

\* The write lands, fails, or leaves the runner unsure until it is reconciled.
BudgetWritten(a, state) ==
    /\ writes[a].state \in {"executing", "unknown"}
    /\ budget' = IF state = "confirmed" THEN a ELSE budget
    /\ seen' = IF state = "confirmed"
                 THEN [c \in Invocations |-> IF reply[c] = "waiting" THEN seen[c] \cup {a} ELSE seen[c]]
                 ELSE seen
    /\ writes' = [writes EXCEPT ![a].state = state]
    /\ IF writes[a].state = "executing"
         THEN /\ run' = [run EXCEPT ![writes[a].caller] = "done"]
              /\ reply' = [reply EXCEPT ![writes[a].caller] =
                    IF @ # "waiting" THEN @ ELSE IF state = "confirmed" THEN "ok" ELSE "error"]
         ELSE UNCHANGED <<run, reply>>
    /\ UNCHANGED <<input, lost, item, payVars>>

\* The reads of the runner and the job runs: the handler answers.
AnswerLocally(c) ==
    /\ run[c] = "sent"
    /\ input[c].tool \notin Payments \cup Proxied \cup {SetsBudget}
    /\ \E what \in {"ok", "error"} : Tell(c, what)
    /\ UNCHANGED <<item, payVars, writes, budget>>

\* The runner calls the tool of the Console and passes on what comes back; no
\* timeout of the agent reaches that call.
ForwardToConsole(c) ==
    /\ run[c] = "sent"
    /\ input[c].tool \in Proxied
    /\ \E what \in {"ok", "error"} : Tell(c, what)
    /\ UNCHANGED <<item, payVars, writes, budget>>

ToolNext ==
    \/ \E c \in Invocations :
          \/ \E in \in Asked : Invoke(c, in)
          \/ GiveUp(c) \/ LoseMessage(c)
          \/ BeginPay(c) \/ TakeItem(c) \/ ServiceCharges(c) \/ ServiceRefuses(c)
          \/ ServiceIsUnlocked(c) \/ RecordPaid(c)
          \/ BeginBudget(c) \/ AnswerLocally(c) \/ ForwardToConsole(c)
    \/ \E a \in Amounts, state \in {"confirmed", "failed", "unknown"} : BudgetWritten(a, state)

ToolSpec == ToolInit /\ [][ToolNext]_toolVars

-----------------------------------------------------------------------------
(***************************************************************************)
(* Properties.                                                             *)
(***************************************************************************)

\* What a payment is for, as the agent sees it.
Purpose(c, i) ==
    LET p == input[c].payments[i] IN
    IF p.key # NoKey THEN <<p.key>>
    ELSE IF input[c].batch # NoKey THEN <<input[c].batch, i, p>> ELSE <<c, i>>

\* A payment with a key of the agent's, or an item of a batch, is charged once,
\* however often the agent repeats the call after a timeout or a lost answer
\* ("idempotencyKey prevents double-spend on retry").
RetriesPayOnce ==
    \A x, y \in charges : Purpose(x.by, x.at) = Purpose(y.by, y.at) => x = y

\* What the agent owes: it gives a key again for a retry ("idempotencyKey
\* prevents double-spend on retry"), not for a payment to somebody else.
OneHostPerKey ==
    LET passing == {in \in Asked : in.tool \in Payments /\ PayPasses(in)} IN
    \A in, jn \in passing : \A i \in DOMAIN in.payments, j \in DOMAIN jn.payments :
        in.payments[i].key = jn.payments[j].key /\ in.payments[i].key # NoKey
        => in.payments[i].host = jn.payments[j].host

\* The text the agent reads is true of the money: a payment reported as made
\* was charged, by this call or an earlier one for the resource, and a call
\* the runner answered with an error charged nothing.
ToolTellsPayments ==
    \A c \in Invocations :
        /\ reply[c] = "ok" /\ input[c].tool = "x402_pay"
             => \E x \in charges : x.host = input[c].payments[1].host
        /\ reply[c] = "error" => \A x \in charges : x.by # c

\* Not so: a budget reported as set was the job's budget at some time since
\* the call (two budgets in turn, then the first again, is answered from the
\* journal).
BudgetIsAsTold ==
    \A c \in Invocations :
        reply[c] = "ok" /\ input[c].tool = SetsBudget => input[c].amount \in seen[c]
=============================================================================
