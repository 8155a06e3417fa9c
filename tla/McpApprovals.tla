---------------------------- MODULE McpApprovals ----------------------------
(***************************************************************************)
(* The Console's approval engine for MCP actions (lib/mcp/approvals.ts)    *)
(* and the page on which the owner approves and executes one with the      *)
(* Circle smart account (app/mcp/approvals/[id]/page.tsx).                 *)
(*                                                                         *)
(* One approval.  It is moved by the session that asked for it (bearer     *)
(* token) and by pages of the owner's wallet (cookie).  A transition reads *)
(* the row and then updates it under the condition it has read, so that it *)
(* is one action; only the expiry is judged on what was read.              *)
(***************************************************************************)
EXTENDS Naturals

CONSTANTS
    Pages,     \* pages of the owner that are open
    UserOps,   \* user operations the pages may send
    NoUserOp

ASSUME McpApprovalsAssumption == NoUserOp \notin UserOps

VARIABLES
    ticket,      \* the row of mcp_action_approvals
    ticketLate,  \* has expires_at passed?
    page,        \* handleExecute in each page, and what it shows
    userOp       \* the user operations on chain

ticketVars == <<ticket, ticketLate, page, userOp>>

TicketTypeOK ==
    /\ ticket \in [status : {"none", "awaiting_approval", "approved", "cancelled", "submitted",
                             "confirmed", "failed"}, tx : UserOps \cup {NoUserOp}]
    /\ ticketLate \in BOOLEAN
    /\ page \in [Pages -> [stage : {"ready", "executing", "submitting", "confirming", "polling"},
                           op : UserOps \cup {NoUserOp}, sees : BOOLEAN]]
    /\ userOp \in [UserOps -> {"none", "live", "success", "reverted"}]

Looking == [stage |-> "ready", op |-> NoUserOp, sees |-> FALSE]

TicketInit ==
    /\ ticket = [status |-> "none", tx |-> NoUserOp]
    /\ ticketLate = FALSE
    /\ page = [g \in Pages |-> Looking]
    /\ userOp = [u \in UserOps |-> "none"]

-----------------------------------------------------------------------------
\* getEffectiveStatus.
Expired == ticketLate /\ ticket.status \in {"awaiting_approval", "approved"}

TicketOnly == UNCHANGED <<ticketLate, page, userOp>>

\* The policy allows one contract, one function, no value, and what the
\* session's permissions name.
CreateTicket ==
    /\ ticket.status = "none"
    /\ ticket' = [ticket EXCEPT !.status = "awaiting_approval"]
    /\ TicketOnly

TicketTimePasses ==
    /\ ticket.status \in {"awaiting_approval", "approved"} /\ ~ticketLate
    /\ ticketLate' = TRUE
    /\ UNCHANGED <<ticket, page, userOp>>

\* By the session or by the wallet.
ApproveTicket ==
    /\ ticket.status = "awaiting_approval" /\ ~Expired
    /\ ticket' = [ticket EXCEPT !.status = "approved"]
    /\ TicketOnly

\* Mutant: whatever the row says by then, it is cancelled.
CancellableAnyTime == ticket.status # "none" /\ ~Expired

Cancellable == ticket.status \in {"awaiting_approval", "approved"} /\ ~Expired

CancelTicket ==
    /\ Cancellable
    /\ ticket' = [ticket EXCEPT !.status = "cancelled"]
    /\ TicketOnly

\* Mutant: a hash that is there is overwritten.
HashFits(u) == ticket.status \in {"approved", "submitted"}

\* The session reports the hash of what it broadcast itself.
Submittable(u) == ticket.status = "approved"

SubmitTicket(u) ==
    /\ Submittable(u) /\ ~Expired
    /\ userOp[u] # "none"
    /\ ticket' = [ticket EXCEPT !.status = "submitted", !.tx = u]
    /\ TicketOnly

\* The session names the outcome; it is not looked up.
ConfirmBySession ==
    /\ ticket.status = "submitted"
    /\ \E outcome \in {"confirmed", "failed"} : ticket' = [ticket EXCEPT !.status = outcome]
    /\ TicketOnly

-----------------------------------------------------------------------------
(***************************************************************************)
(* The page.                                                               *)
(***************************************************************************)
PageAt(g, stage)  == page[g].stage = stage
PageTo(g, stage)  == page' = [page EXCEPT ![g].stage = stage]

\* The page loads the approval, or polls it; sees: it shows "approved".
LoadPage(g) ==
    /\ PageAt(g, "ready")
    /\ page' = [page EXCEPT ![g].sees = ticket.status = "approved" /\ ~Expired]
    /\ UNCHANGED <<ticket, ticketLate, userOp>>

\* The Execute button: the smart account sends a user operation.
Execute(g) ==
    /\ PageAt(g, "ready") /\ page[g].sees
    /\ \E u \in UserOps :
         /\ userOp[u] = "none"
         /\ userOp' = [userOp EXCEPT ![u] = "live"]
         /\ page' = [page EXCEPT ![g].stage = "executing", ![g].op = u]
    /\ UNCHANGED <<ticket, ticketLate>>

UserOpMined(u) ==
    /\ userOp[u] = "live"
    /\ \E fate \in {"success", "reverted"} : userOp' = [userOp EXCEPT ![u] = fate]
    /\ UNCHANGED <<ticket, ticketLate, page>>

AwaitUserOp(g) ==
    /\ PageAt(g, "executing") /\ userOp[page[g].op] # "live"
    /\ PageTo(g, "submitting")
    /\ UNCHANGED <<ticket, ticketLate, userOp>>

\* Waiting, or a call to the Console, throws: the approval is fetched again.
ExecuteThrows(g) ==
    /\ page[g].stage \in {"executing", "submitting", "confirming"}
    /\ IF ticket.status = "submitted"
       THEN PageTo(g, "polling")
       ELSE page' = [page EXCEPT ![g] = [Looking EXCEPT !.sees = ticket.status = "approved" /\ ~Expired]]
    /\ UNCHANGED <<ticket, ticketLate, userOp>>

\* A refusal leaves the page ready, still showing what it had fetched.
SubmitByPage(g) ==
    LET u == page[g].op IN
    /\ PageAt(g, "submitting")
    /\ IF Submittable(u) /\ ~Expired
       THEN ticket' = [ticket EXCEPT !.status = "submitted", !.tx = u] /\ PageTo(g, "confirming")
       ELSE UNCHANGED ticket /\ page' = [page EXCEPT ![g].stage = "ready", ![g].op = NoUserOp]
    /\ UNCHANGED <<ticketLate, userOp>>

\* Mutant: the outcome is taken for a success.
AlwaysConfirmed(u) == "confirmed"

\* The Console reads the receipt.
OutcomeOf(u) == IF userOp[u] = "reverted" THEN "failed" ELSE "confirmed"

ConfirmByPage(g) ==
    LET u == page[g].op IN
    /\ PageAt(g, "confirming")
    /\ \/ /\ ticket.status = "submitted" /\ ticket.tx = u /\ userOp[u] # "live"
          /\ ticket' = [ticket EXCEPT !.status = OutcomeOf(u)]
       \/ UNCHANGED ticket
    /\ page' = [page EXCEPT ![g] = [Looking EXCEPT !.stage = "polling"]]
    /\ UNCHANGED <<ticketLate, userOp>>

Reload(g) ==
    /\ page[g] # Looking
    /\ page' = [page EXCEPT ![g] = Looking]
    /\ UNCHANGED <<ticket, ticketLate, userOp>>

TicketNext ==
    \/ CreateTicket \/ TicketTimePasses \/ ApproveTicket \/ CancelTicket \/ ConfirmBySession
    \/ \E u \in UserOps : SubmitTicket(u) \/ UserOpMined(u)
    \/ \E g \in Pages :
         \/ LoadPage(g) \/ Execute(g) \/ AwaitUserOp(g) \/ ExecuteThrows(g)
         \/ SubmitByPage(g) \/ ConfirmByPage(g) \/ Reload(g)

-----------------------------------------------------------------------------
(***************************************************************************)
(* Properties.                                                             *)
(***************************************************************************)

(* "Cancelled cannot be submitted", "Submitted cannot be resubmitted with  *)
(* different txHash": whoever moves it, a cancelled approval stays so, a   *)
(* hash on it stays, and its operation was sent before.                    *)
FirstHashStays ==
    [][/\ ticket.tx # NoUserOp => ticket'.tx = ticket.tx
       /\ ticket.status \in {"cancelled", "confirmed", "failed"} => ticket' = ticket
       /\ ticket'.tx # ticket.tx => userOp[ticket'.tx] # "none" /\ ticket.status = "approved"]_ticketVars

(* "Approval is single-use": one user operation is sent under it.          *)
TicketIsSingleUse == \A u, v \in UserOps : userOp[u] # "none" /\ userOp[v] # "none" => u = v
=============================================================================
