---------------------------- MODULE EscrowPages ----------------------------
(***************************************************************************)
(* The people's and the agents' side of an ERC-8183 escrow in the Console: *)
(* the page of a job (fund, submit, complete, claim the refund), the page  *)
(* that polls a local job, the page of a direct hire (prepare, sign,       *)
(* confirm) and the MCP tools that advise on a job and prepare unsigned    *)
(* transactions.                                                           *)
(*                                                                         *)
(* The contract is external: it accepts what the tools' texts say it       *)
(* accepts.  A page shows the row of the indexer, which follows the chain  *)
(* with a delay, and a prepared transaction is sent when its owner likes,  *)
(* so both act on a job that may have moved on.                            *)
(***************************************************************************)
EXTENDS Naturals, FiniteSets

CONSTANTS
    Escrows,       \* jobs of one client, who is their evaluator too
    ClientTabs,    \* tabs in which the client has a job open
    ProviderTabs,  \* tabs in which the provider has
    Advisees,      \* MCP agents, each with one prepared bundle at most
    WorkForms,  \* what a provider types in: "uri", or 32 bytes in hex
    MaxBudget,
    MaxHires,      \* preparations of the hire page
    MaxFetches     \* answers under way to the polling page

ASSUME EscrowAssumption ==
    /\ ClientTabs \cap ProviderTabs = {} /\ Escrows # {}
    /\ WorkForms \subseteq {"uri", "bytes32"}
    /\ MaxBudget \in Nat \ {0} /\ MaxHires \in Nat /\ MaxFetches \in Nat

Tabs == ClientTabs \cup ProviderTabs

VARIABLES
    escrow,     \* each job on chain
    allowance,  \* USDC of the client the contract may take
    indexed,    \* each job in the indexer
    tab,        \* the job pages
    bundle,     \* what an MCP agent was advised, and was given to sign
    hire,       \* the direct hire page
    feed        \* the polling page: what it shows and the answers under way

escrowVars == <<escrow, allowance, indexed, tab, bundle, hire, feed>>

\* ONCHAIN statuses: 0 Open, 1 Funded, 2 Submitted, 3 Completed, 4 Rejected, 5 Expired.
Statuses == 0 .. 5
Terminal == {3, 4, 5}

\* submit() stores bytes32: a URI is hashed, 32 bytes in hex are taken as they are.
Stored(d)    == IF d = "uri" THEN "hash of the uri" ELSE d
NoWork       == "nothing"

NoJob   == [exists |-> FALSE, status |-> 0, budget |-> 0, hired |-> FALSE, late |-> FALSE, work |-> NoWork]
Row(k)  == [status |-> k.status, budget |-> k.budget, work |-> k.work]
NoFlow  == [action |-> "none", step |-> "idle", tx |-> "none", amount |-> 0, work |-> NoWork,
            deaf |-> FALSE, message |-> "none"]
Calls    == {"createJob", "createOpenJob", "setProvider", "setBudget", "fund", "submit", "complete", "reject", "claimRefund"}
NoHire   == [preparing |-> 0, prepared |-> 0, signing |-> 0, sent |-> FALSE, created |-> 0, last |-> 0]
NoBundle == [tool |-> "none", step |-> "none", amount |-> 0, work |-> NoWork]
OfJob(j, b) == [job |-> j, tool |-> b.tool, step |-> b.step, amount |-> b.amount, work |-> b.work]

EscrowTypeOK ==
    /\ escrow \in [Escrows -> [exists : BOOLEAN, status : Statuses, budget : 0 .. MaxBudget, hired : BOOLEAN,
                               late : BOOLEAN,
                               work : {Stored(d) : d \in WorkForms} \cup {NoWork}]]
    /\ allowance \in 0 .. MaxBudget
    /\ \A t \in Tabs : /\ tab[t].job \in Escrows
                       /\ tab[t].flow.step \in {"idle", "allowance", "approve", "approving",
                                                "send", "sent", "wait"}
                       /\ tab[t].flow.message \in {"none", "failed", "timed out"} \cup Calls
    /\ \A a \in Advisees : /\ bundle[a].tool \in Calls \cup {"none"}
                           /\ bundle[a].step \in {"none", "advised", "approve", "send"}
    /\ {hire.preparing, hire.prepared, hire.signing, hire.created, hire.last} \subseteq 0 .. MaxHires
    /\ feed.shown \in Statuses

EscrowInit ==
    /\ escrow = [j \in Escrows |-> NoJob]
    /\ allowance = 0
    /\ indexed = [j \in Escrows |-> Row(NoJob)]
    /\ tab \in [Tabs -> {[job |-> j, view |-> Row(NoJob), flow |-> NoFlow] : j \in Escrows}]
    /\ bundle \in [Advisees -> {OfJob(j, NoBundle) : j \in Escrows}]
    /\ hire = NoHire
    /\ feed = [shown |-> 0, inFlight |-> {}]

-----------------------------------------------------------------------------
(***************************************************************************)
(* The contract, and the indexer behind it.                                *)
(***************************************************************************)
Accepts(f, j) ==
    IF f \in {"createJob", "createOpenJob"} THEN ~escrow[j].exists
    ELSE escrow[j].exists /\
        CASE f = "setProvider" -> escrow[j].status = 0 /\ ~escrow[j].hired
          [] f = "setBudget"   -> escrow[j].status = 0 /\ escrow[j].hired
          [] f = "fund"        -> /\ escrow[j].status = 0 /\ escrow[j].budget > 0
                                  /\ allowance >= escrow[j].budget
          [] f = "submit"      -> escrow[j].status = 1
          [] f = "complete"    -> escrow[j].status = 2
          [] f = "reject"      -> escrow[j].status \in {0, 1, 2}
          [] f = "claimRefund" -> escrow[j].status \in {1, 2} /\ escrow[j].late

After(f, j, amount, work) ==
    CASE f = "createJob"   -> [escrow[j] EXCEPT !.exists = TRUE, !.hired = TRUE]
      [] f = "createOpenJob" -> [escrow[j] EXCEPT !.exists = TRUE]
      [] f = "setProvider" -> [escrow[j] EXCEPT !.hired = TRUE]
      [] f = "setBudget"   -> [escrow[j] EXCEPT !.budget = amount]
      [] f = "fund"        -> [escrow[j] EXCEPT !.status = 1]
      [] f = "submit"      -> [escrow[j] EXCEPT !.status = 2, !.work = work]
      [] f = "complete"    -> [escrow[j] EXCEPT !.status = 3]
      [] f = "reject"      -> [escrow[j] EXCEPT !.status = 4]
      [] f = "claimRefund" -> [escrow[j] EXCEPT !.status = 5]

\* The transaction f is mined: it takes effect, or reverts.
Execute(f, j, amount, work) ==
    IF Accepts(f, j)
    THEN /\ escrow' = [escrow EXCEPT ![j] = After(f, j, amount, work)]
         /\ allowance' = IF f = "fund" THEN allowance - escrow[j].budget ELSE allowance
    ELSE UNCHANGED <<escrow, allowance>>

JobExpires(j) ==
    /\ escrow[j].exists /\ ~escrow[j].late
    /\ escrow' = [escrow EXCEPT ![j].late = TRUE]
    /\ UNCHANGED <<allowance, indexed, tab, bundle, hire, feed>>

IndexerFollows(j) ==
    /\ indexed' = [indexed EXCEPT ![j] = Row(escrow[j])]
    /\ UNCHANGED <<escrow, allowance, tab, bundle, hire, feed>>

-----------------------------------------------------------------------------
(***************************************************************************)
(* The page of a job.                                                      *)
(***************************************************************************)
PageGoes(t, flow) == tab' = [tab EXCEPT ![t].flow = flow]
PageEnds(t, message) == PageGoes(t, [NoFlow EXCEPT !.message = message])
RestOfPages == UNCHANGED <<indexed, bundle, hire, feed>>

At(t, step) == tab[t].flow.step = step
Idle(t)     == At(t, "idle")

LoadJob(t) ==
    /\ Idle(t)
    /\ tab' = [tab EXCEPT ![t].view = indexed[tab[t].job], ![t].flow = NoFlow]
    /\ UNCHANGED <<escrow, allowance>> /\ RestOfPages

\* Claim Refund is offered when the job shown is funded or submitted and its
\* time has passed.
Refundable(t) ==
    tab[t].view.status \in {1, 2} /\ escrow[tab[t].job].late

\* The buttons: the roles come from the job shown, submit is open to anyone.
Offered(t, action) ==
    CASE action = "fund"        -> t \in ClientTabs /\ tab[t].view.status = 0 /\ tab[t].view.budget > 0
      [] action = "complete"    -> t \in ClientTabs /\ tab[t].view.status = 2
      [] action = "claimRefund" -> t \in ClientTabs /\ Refundable(t)
      [] action = "submit"      -> TRUE

\* handleFund takes the budget of the job shown and looks at the allowance first.
ClickFund(t) ==
    /\ Idle(t) /\ Offered(t, "fund")
    /\ PageGoes(t, [NoFlow EXCEPT !.action = "fund", !.step = "allowance",
                              !.amount = tab[t].view.budget])
    /\ UNCHANGED <<escrow, allowance>> /\ RestOfPages

ReadAllowance(t) ==
    /\ At(t, "allowance")
    /\ PageGoes(t, [tab[t].flow EXCEPT !.step = IF allowance < tab[t].flow.amount
                                            THEN "approve" ELSE "send"])
    /\ UNCHANGED <<escrow, allowance>> /\ RestOfPages

Approve(t) ==
    /\ At(t, "approve")
    /\ allowance' = tab[t].flow.amount
    /\ PageGoes(t, [tab[t].flow EXCEPT !.step = "send"])
    /\ UNCHANGED escrow /\ RestOfPages

\* handleSubmitDeliverable, handleComplete and handleClaimRefund.
Click(t, action, work) ==
    /\ Idle(t) /\ Offered(t, action)
    /\ action \in {"submit", "complete", "claimRefund"}
    /\ PageGoes(t, [NoFlow EXCEPT !.action = action, !.step = "send",
                              !.work = IF action = "submit" THEN work ELSE NoWork])
    /\ UNCHANGED <<escrow, allowance>> /\ RestOfPages

\* The wallet sends the call, or its owner declines.
Send(t) ==
    /\ At(t, "send")
    /\ PageGoes(t, [tab[t].flow EXCEPT !.step = "sent", !.tx = "live"])
    /\ UNCHANGED <<escrow, allowance>> /\ RestOfPages

Decline(t) ==
    /\ tab[t].flow.step \in {"approve", "send"}
    /\ PageEnds(t, "failed")
    /\ UNCHANGED <<escrow, allowance>> /\ RestOfPages

\* Only the provider may submit, only the client fund and complete.
Entitled(t, f) == f = "claimRefund" \/ (t \in ProviderTabs <=> f = "submit")

MineCall(t) ==
    LET w == tab[t].flow  j == tab[t].job  ok == Entitled(t, w.action) /\ Accepts(w.action, j) IN
    /\ At(t, "sent") /\ w.tx = "live"
    /\ PageGoes(t, [w EXCEPT !.tx = IF ok THEN "success" ELSE "reverted"])
    /\ IF ok THEN Execute(w.action, j, 0, IF w.work = NoWork THEN NoWork ELSE Stored(w.work))
             ELSE UNCHANGED <<escrow, allowance>>
    /\ RestOfPages

\* waitForTransactionReceipt throws when the transaction reverted.
ReceiptArrives(t) ==
    /\ At(t, "sent") /\ tab[t].flow.tx # "live"
    /\ IF tab[t].flow.tx = "success" THEN PageGoes(t, [tab[t].flow EXCEPT !.step = "wait"])
                                     ELSE PageEnds(t, "failed")
    /\ UNCHANGED <<escrow, allowance>> /\ RestOfPages

\* What each handler waits for the indexer to show.
\* Mutant: the wait is over with the first answer.
FirstAnswer(flow, row) == flow.action # "none"

Shows(flow, row) ==
    CASE flow.action = "fund"        -> row.status = 1
      [] flow.action = "complete"    -> row.status = 3
      [] flow.action = "claimRefund" -> row.status = 5
      [] flow.action = "submit"      -> row.work = flow.work

\* The row has the effect of the action, whatever came after it.
Effected(flow, row) ==
    CASE flow.action = "fund"        -> row.status >= 1 /\ row.status < 4
      [] flow.action = "submit"      -> row.work = Stored(flow.work)
      [] flow.action = "complete"    -> row.status = 3
      [] flow.action = "claimRefund" -> row.status = 5

PollIndexer(t) ==
    LET row == indexed[tab[t].job] IN
    /\ At(t, "wait")
    /\ IF Shows(tab[t].flow, row)
       THEN tab' = [tab EXCEPT ![t].view = row,
                              ![t].flow = [NoFlow EXCEPT !.message = tab[t].flow.action]]
       ELSE PageGoes(t, [tab[t].flow EXCEPT !.deaf = Effected(tab[t].flow, row)])
    /\ UNCHANGED <<escrow, allowance>> /\ RestOfPages

\* Twelve answers, and none was the one: "Indexer refresh timed out."
WaitTimesOut(t) ==
    /\ At(t, "wait")
    /\ PageEnds(t, "timed out")
    /\ UNCHANGED <<escrow, allowance>> /\ RestOfPages

-----------------------------------------------------------------------------
(***************************************************************************)
(* The MCP tools.  jobs.get_lifecycle_summary names the next tool; the     *)
(* prepare tools hand out unsigned calls and at most warn about the state  *)
(* of the job.                                                             *)
(***************************************************************************)
Keeps(a, b) == bundle' = [bundle EXCEPT ![a] = OfJob(bundle[a].job, b)]
RestOfTools == UNCHANGED <<indexed, tab, hire, feed>>

\* Mutant: a job without a provider is advised to have its budget set.
SummaryUnhired(row) ==
    IF row.status = 0 THEN IF row.budget = 0 THEN "setBudget" ELSE "fund"
    ELSE IF row.late THEN "claimRefund" ELSE IF row.status = 1 THEN "submit" ELSE "complete"

Summary(row) ==
    CASE row.status = 0 -> IF ~row.hired THEN "setProvider"
                           ELSE IF row.budget = 0 THEN "setBudget" ELSE "fund"
      [] row.status = 1 -> IF row.late THEN "claimRefund" ELSE "submit"
      [] row.status = 2 -> IF row.late THEN "claimRefund" ELSE "complete"

Advise(a) ==
    /\ bundle[a].step = "none"
    /\ escrow[bundle[a].job].exists /\ escrow[bundle[a].job].status \notin Terminal
    /\ Keeps(a, [NoBundle EXCEPT !.tool = Summary(escrow[bundle[a].job]), !.step = "advised"])
    /\ UNCHANGED <<escrow, allowance>> /\ RestOfTools

\* The agent calls the tool it was told, or one it chose itself.
Prepares(a, tool) ==
    \/ bundle[a].step = "none"
    \/ bundle[a].step = "advised" /\ bundle[a].tool = tool

\* prepare_fund_job_bundle: the amount is the agent's or the budget on chain,
\* and the approval is left out when the allowance already covers it.
PrepareFund(a, amount, looks) ==
    /\ Prepares(a, "fund")
    /\ amount > 0
    /\ Keeps(a, [NoBundle EXCEPT !.tool = "fund", !.amount = amount,
                 !.step = IF looks /\ allowance >= amount THEN "send" ELSE "approve"])
    /\ UNCHANGED <<escrow, allowance>> /\ RestOfTools

Prepared(a, tool, amount, work) ==
    /\ Prepares(a, tool)
    /\ Keeps(a, [NoBundle EXCEPT !.tool = tool, !.step = "send", !.amount = amount, !.work = work])
    /\ UNCHANGED <<escrow, allowance>> /\ RestOfTools

PrepareCreateJob(a)         == Prepared(a, "createJob", 0, NoWork)
PrepareCreateOpenJob(a)     == Prepared(a, "createOpenJob", 0, NoWork)
PrepareSetProvider(a)       == Prepared(a, "setProvider", 0, NoWork)
PrepareSetBudget(a, amount) == amount > 0 /\ Prepared(a, "setBudget", amount, NoWork)
PrepareSubmit(a, d)         == Prepared(a, "submit", 0, Stored(d))
PrepareComplete(a)          == Prepared(a, "complete", 0, NoWork)
\* The client's and the evaluator's tools prepare the same call.
PrepareReject(a)            == Prepared(a, "reject", 0, NoWork)
PrepareClaimRefund(a)       == Prepared(a, "claimRefund", 0, NoWork)

\* The owner of the wallet sends the prepared calls in their order, or drops them.
SendApproval(a) ==
    /\ bundle[a].step = "approve"
    /\ allowance' = bundle[a].amount
    /\ bundle' = [bundle EXCEPT ![a].step = "send"]
    /\ UNCHANGED escrow /\ RestOfTools

SendPrepared(a) ==
    LET b == bundle[a] IN
    /\ b.step = "send"
    /\ Execute(b.tool, b.job, b.amount, b.work)
    /\ Keeps(a, NoBundle)
    /\ RestOfTools

DropPrepared(a) ==
    /\ bundle[a].step # "none"
    /\ Keeps(a, NoBundle)
    /\ UNCHANGED <<escrow, allowance>> /\ RestOfTools

-----------------------------------------------------------------------------
(***************************************************************************)
(* The page of a direct hire.  The preparations it makes are numbered.     *)
(***************************************************************************)
Rest == UNCHANGED <<escrow, allowance, indexed, tab, bundle>>
Hires(next) == hire' = next /\ UNCHANGED feed

PressPrepare ==
    /\ hire.preparing = 0 /\ hire.last < MaxHires
    /\ Hires([hire EXCEPT !.preparing = hire.last + 1, !.last = @ + 1, !.prepared = 0])
    /\ Rest

PrepareAnswers ==
    /\ hire.preparing # 0
    /\ \E ok \in BOOLEAN :
          Hires([hire EXCEPT !.preparing = 0, !.prepared = IF ok THEN hire.preparing ELSE @])
    /\ Rest

\* Editing a field drops both results, whatever is under way.
EditForm ==
    /\ hire.prepared # 0 \/ hire.created # 0
    /\ Hires([hire EXCEPT !.prepared = 0, !.created = 0])
    /\ Rest

PressSign ==
    /\ hire.prepared # 0 /\ hire.created = 0 /\ hire.signing = 0
    /\ Hires([hire EXCEPT !.signing = hire.prepared, !.sent = FALSE])
    /\ Rest

SendCreateJob ==
    /\ hire.signing # 0 /\ ~hire.sent
    /\ \/ Hires([hire EXCEPT !.sent = TRUE])
       \/ Hires([hire EXCEPT !.signing = 0])
    /\ Rest

\* The server confirms the job, or the error is shown and Sign comes back.
ConfirmAnswers ==
    /\ hire.signing # 0 /\ hire.sent
    /\ \E ok \in BOOLEAN :
          Hires([hire EXCEPT !.signing = 0, !.sent = FALSE,
                             !.created = IF ok THEN hire.signing ELSE @])
    /\ Rest

-----------------------------------------------------------------------------
(***************************************************************************)
(* The page that polls a local job: every 30 s, and when it is shown.      *)
(***************************************************************************)
PolledJob == CHOOSE j \in Escrows : TRUE

FetchJob ==
    /\ indexed[PolledJob].status \notin feed.inFlight
    /\ Cardinality(feed.inFlight) < MaxFetches
    /\ feed' = [feed EXCEPT !.inFlight = @ \cup {indexed[PolledJob].status}]
    /\ UNCHANGED hire /\ Rest

\* An answer is shown, or was no success and changes nothing.
FetchAnswers ==
    /\ \E s \in feed.inFlight, ok \in BOOLEAN :
          feed' = [shown |-> IF ok THEN s ELSE feed.shown, inFlight |-> feed.inFlight \ {s}]
    /\ UNCHANGED hire /\ Rest

-----------------------------------------------------------------------------
JobNext ==
    \/ \E j \in Escrows : JobExpires(j) \/ IndexerFollows(j)
    \/ \E t \in Tabs : \/ LoadJob(t) \/ ClickFund(t) \/ ReadAllowance(t) \/ Approve(t)
                      \/ Send(t) \/ Decline(t) \/ MineCall(t) \/ ReceiptArrives(t)
                      \/ PollIndexer(t) \/ WaitTimesOut(t)
    \/ \E t \in Tabs, action \in {"submit", "complete", "claimRefund"}, work \in WorkForms :
          Click(t, action, work)
    \/ \E a \in Advisees : Advise(a) \/ SendApproval(a) \/ SendPrepared(a) \/ DropPrepared(a)
    \/ \E a \in Advisees, looks \in BOOLEAN :
          \E amount \in {escrow[bundle[a].job].budget} \cup 1 .. MaxBudget :
            PrepareFund(a, amount, looks)
    \/ \E a \in Advisees :
          \/ PrepareCreateJob(a) \/ PrepareCreateOpenJob(a) \/ PrepareSetProvider(a)
          \/ PrepareComplete(a) \/ PrepareReject(a) \/ PrepareClaimRefund(a)
          \/ \E amount \in 1 .. MaxBudget : PrepareSetBudget(a, amount)
          \/ \E d \in WorkForms : PrepareSubmit(a, d)

HireNext ==
    PressPrepare \/ PrepareAnswers \/ EditForm \/ PressSign \/ SendCreateJob \/ ConfirmAnswers

FeedNext == FetchJob \/ FetchAnswers

EscrowNext == JobNext \/ HireNext \/ FeedNext

EscrowSpec == EscrowInit /\ [][EscrowNext]_escrowVars

-----------------------------------------------------------------------------
\* The status s was that of the job at some time.
ReachedOnChain(s, row) == s <= row.status /\ (s \in Terminal => row.status = s)

\* A page may show an old status, never one the job has not reached: not the
\* indexed row a wait ends with, not an answer to a poll that overtook another.
PagesNeverLead ==
    /\ \A j \in Escrows : ReachedOnChain(indexed[j].status, escrow[j])
    /\ \A t \in Tabs : ReachedOnChain(tab[t].view.status, escrow[tab[t].job])
    /\ ReachedOnChain(feed.shown, escrow[PolledJob])

\* "Job funded and indexed." and its likes are true: the page shows a job that
\* has got as far as the action takes it, even when other tabs and agents act
\* on the job too.
AcknowledgedIsShown ==
    \A t \in Tabs : LET m == tab[t].flow.message  s == tab[t].view.status IN
        /\ m = "fund" => s = 1
        /\ m = "complete" => s = 3
        /\ m = "claimRefund" => s = 5
        /\ m = "submit" => s >= 2 /\ tab[t].view.work # NoWork

\* The tool jobs.get_lifecycle_summary recommends prepares a call that the
\* contract accepts (a fund after its approval), in every state a job can get
\* into through the pages, the tools and the clock.
AdviceIsPossible ==
    \A j \in Escrows : escrow[j].exists /\ escrow[j].status \notin Terminal =>
        LET f == Summary(escrow[j]) IN
        IF f = "fund" THEN escrow[j].budget > 0 ELSE Accepts(f, j)

\* A wait for the indexer ends with the row that has its action's effect.  A
\* submit of a URI waits for the URI where the row has its hash, and a fund for
\* the status Funded, which the provider's submit may already have changed.
WaitEndsWhenIndexed == \A t \in Tabs : ~tab[t].flow.deaf

\* A preparation on the hire page can be signed: nothing but its own job hides
\* the Sign button.
PreparedIsSignable ==
    hire.prepared # 0 /\ hire.created # 0 => hire.created = hire.prepared
=============================================================================
