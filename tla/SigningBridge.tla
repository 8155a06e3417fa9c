--------------------------- MODULE SigningBridge ---------------------------
(***************************************************************************)
(* Signing in the browser on behalf of an MCP agent                        *)
(* (lib/mcp/signing-bridge/store.ts): the agent's tool leaves a request    *)
(* for the signing session of a wallet, tabs of the profile page poll for  *)
(* it, and the modal of the tab that claims it sends its transactions one  *)
(* by one (SigningRequestModal.tsx).                                       *)
(*                                                                         *)
(* One wallet, one request; the tabs of the owner, any of which may be     *)
(* closed.  A transaction is sent by the wallet and mined by the chain.    *)
(***************************************************************************)
EXTENDS Naturals, FiniteSets, Sequences

CONSTANTS
    Tabs,
    Pairings,   \* signing sessions
    NoPairing,
    ToolsUsed   \* bound: tools the agent calls

ASSUME SigningAssumption ==
    /\ NoPairing \notin Pairings
    /\ ToolsUsed \subseteq {"create_job", "fund_job", "complete_job", "reject_job", "claim_refund"}

VARIABLES
    pairing,     \* mcp_signing_sessions
    pairingLate, \* sessions whose expires_at has passed
    signRequest, \* the row of mcp_signing_requests
    requestLate, \* has its expires_at passed?
    flow,        \* handleApprove in each tab
    opening,     \* tabs between the two statements of createSession
    sentTx       \* how often each transaction was sent, and what became of it

signingVars == <<pairing, pairingLate, signRequest, requestLate, flow, opening, sentTx>>

\* What each tool asks the wallet to send.  Funding is refused before the
\* provider has set a budget, and for any other amount.
CreateJobCalls == <<[to |-> "commerce", calls |-> "createJob"]>>
FundCalls      == <<[to |-> "usdc", calls |-> "approve"], [to |-> "commerce", calls |-> "fund"]>>
CompleteCalls  == <<[to |-> "commerce", calls |-> "complete"]>>
RejectCalls    == <<[to |-> "commerce", calls |-> "reject"]>>
RefundCalls    == <<[to |-> "commerce", calls |-> "claimRefund"]>>

CallsOf == [create_job |-> CreateJobCalls, fund_job |-> FundCalls, complete_job |-> CompleteCalls,
            reject_job |-> RejectCalls, claim_refund |-> RefundCalls]

Selectors == [commerce |-> {"createJob", "fund", "complete", "reject", "claimRefund"},
              usdc     |-> {"approve"}]

\* validateTransactions: one to three calls, each on the whitelist.
Whitelisted(batch) ==
    /\ Len(batch) \in 1 .. 3
    /\ \A i \in DOMAIN batch : batch[i].calls \in Selectors[batch[i].to]

Txs == 1 .. 2
TxCount == Len(CallsOf[signRequest.tool])
Resting == [stage |-> "idle", next |-> 1]

SigningTypeOK ==
    /\ pairing \in [Pairings -> {"none", "active", "revoked"}]
    /\ pairingLate \subseteq Pairings
    /\ signRequest \in [status : {"none", "pending", "signing", "submitted", "confirmed",
                                  "cancelled", "expired"},
                        pairing : Pairings \cup {NoPairing}, hashed : BOOLEAN,
                        tool : ToolsUsed \cup {"none"}]
    /\ requestLate \in BOOLEAN
    /\ flow \in [Tabs -> [stage : {"idle", "claiming", "send", "receipt", "partial",
                                   "submitted", "confirmed", "over"},
                          next : 1 .. 3]]
    /\ opening \subseteq Tabs
    /\ sentTx \in [Txs -> [sent : 0 .. 2, fate : {"none", "live", "mined", "reverted"}]]

SigningInit ==
    /\ pairing = [g \in Pairings |-> "none"]
    /\ pairingLate = {}
    /\ signRequest = [status |-> "none", pairing |-> NoPairing, hashed |-> FALSE,
                       tool |-> "none"]
    /\ requestLate = FALSE
    /\ flow = [t \in Tabs |-> Resting]
    /\ opening = {}
    /\ sentTx = [i \in Txs |-> [sent |-> 0, fate |-> "none"]]

-----------------------------------------------------------------------------
(***************************************************************************)
(* Sessions.                                                               *)
(***************************************************************************)
SessionOnly == UNCHANGED <<signRequest, requestLate, flow, sentTx>>

\* createSession: the others are revoked, then the new one is inserted.
RevokeOthers(t) ==
    /\ t \notin opening
    /\ \E g \in Pairings : pairing[g] = "none"
    /\ pairing' = [g \in Pairings |-> IF pairing[g] = "active" THEN "revoked" ELSE pairing[g]]
    /\ opening' = opening \cup {t}
    /\ UNCHANGED pairingLate /\ SessionOnly

InsertPairing(t) ==
    /\ t \in opening
    /\ \E g \in Pairings :
         pairing[g] = "none" /\ pairing' = [pairing EXCEPT ![g] = "active"]
    /\ opening' = opening \ {t}
    /\ UNCHANGED pairingLate /\ SessionOnly

Heartbeat(g) ==
    /\ pairing[g] = "active" /\ g \in pairingLate
    /\ pairingLate' = pairingLate \ {g}
    /\ UNCHANGED <<pairing, opening>> /\ SessionOnly

RevokePairing(g) ==
    /\ pairing[g] = "active"
    /\ pairing' = [pairing EXCEPT ![g] = "revoked"]
    /\ UNCHANGED <<pairingLate, opening>> /\ SessionOnly

PairingTimePasses(g) ==
    /\ pairing[g] = "active" /\ g \notin pairingLate
    /\ pairingLate' = pairingLate \cup {g}
    /\ UNCHANGED <<pairing, opening>> /\ SessionOnly

Usable(g) == pairing[g] = "active" /\ g \notin pairingLate

-----------------------------------------------------------------------------
(***************************************************************************)
(* The request.                                                            *)
(***************************************************************************)
RequestOnly == UNCHANGED <<pairing, pairingLate, opening>>

CreateSignRequest ==
    /\ signRequest.status = "none"
    /\ \E g \in Pairings, tool \in ToolsUsed :
         /\ Usable(g)
         /\ Whitelisted(CallsOf[tool])
         /\ signRequest' = [status |-> "pending", pairing |-> g, hashed |-> FALSE, tool |-> tool]
    /\ UNCHANGED <<requestLate, flow, sentTx>> /\ RequestOnly

RequestTimePasses ==
    /\ signRequest.status \in {"pending", "signing"} /\ ~requestLate
    /\ requestLate' = TRUE
    /\ UNCHANGED <<signRequest, flow, sentTx>> /\ RequestOnly

\* Every poll of any tab first expires what is stale.
ExpireStale ==
    /\ signRequest.status \in {"pending", "signing"} /\ requestLate
    /\ signRequest' = [signRequest EXCEPT !.status = "expired"]
    /\ UNCHANGED <<requestLate, flow, sentTx>> /\ RequestOnly

\* The modal's Reject button, or the cancel route.
CancelSignRequest ==
    /\ signRequest.status \in {"pending", "signing"}
    /\ signRequest' = [signRequest EXCEPT !.status = "cancelled"]
    /\ UNCHANGED <<requestLate, flow, sentTx>> /\ RequestOnly

-----------------------------------------------------------------------------
(***************************************************************************)
(* handleApprove in one tab.                                               *)
(***************************************************************************)
Stage(t, stage) == flow[t].stage = stage
Reaches(t, stage) == flow' = [flow EXCEPT ![t].stage = stage]

\* The route has seen a pending request of this wallet; claimRequest has
\* seen its session active.
StartClaim(t) ==
    /\ Stage(t, "idle")
    /\ signRequest.status = "pending" /\ Usable(signRequest.pairing)
    /\ Reaches(t, "claiming")
    /\ UNCHANGED <<signRequest, requestLate, sentTx>> /\ RequestOnly

\* Mutant: a request that is being signed can be claimed.
ClaimableWhileSigning == signRequest.status \in {"pending", "signing"} /\ ~requestLate

SignRequestClaimable == signRequest.status = "pending" /\ ~requestLate

ClaimSignRequest(t) ==
    /\ Stage(t, "claiming")
    /\ IF SignRequestClaimable
       THEN signRequest' = [signRequest EXCEPT !.status = "signing"] /\ Reaches(t, "send")
       ELSE UNCHANGED signRequest /\ Reaches(t, "over")
    /\ UNCHANGED <<requestLate, sentTx>> /\ RequestOnly

SendNext(t) ==
    LET i == flow[t].next IN
    /\ Stage(t, "send")
    /\ sentTx[i].sent < 2
    /\ sentTx' = [sentTx EXCEPT ![i] = [sent |-> @.sent + 1, fate |-> "live"]]
    /\ Reaches(t, "receipt")
    /\ UNCHANGED <<signRequest, requestLate>> /\ RequestOnly

\* The wallet refuses; what has been sent is still reported.
WalletRefuses(t) ==
    /\ Stage(t, "send")
    /\ Reaches(t, IF flow[t].next = 1 THEN "over" ELSE "partial")
    /\ UNCHANGED <<signRequest, requestLate, sentTx>> /\ RequestOnly

TxMined(i) ==
    /\ sentTx[i].fate = "live"
    /\ \E fate \in {"mined", "reverted"} : sentTx' = [sentTx EXCEPT ![i].fate = fate]
    /\ UNCHANGED <<signRequest, requestLate, flow>> /\ RequestOnly

\* Mutant: the receipt is not awaited.
SentIsEnough(i) == TRUE

\* Whether the receipt says success is not looked at.
ReceiptIsThere(i) == sentTx[i].fate \in {"mined", "reverted"}

ReceiptArrives(t) ==
    LET i == flow[t].next IN
    /\ Stage(t, "receipt")
    /\ ReceiptIsThere(i)
    /\ flow' = [flow EXCEPT ![t] = [stage |-> IF i = TxCount THEN "submitted" ELSE "send",
                                    next  |-> i + 1]]
    /\ UNCHANGED <<signRequest, requestLate, sentTx>> /\ RequestOnly

ReceiptFails(t) ==
    /\ Stage(t, "receipt")
    /\ Reaches(t, "partial")
    /\ UNCHANGED <<signRequest, requestLate, sentTx>> /\ RequestOnly

\* A refusal is not looked at, and a call that fails is swallowed.
MarkSubmitted(t) ==
    /\ flow[t].stage \in {"submitted", "partial"}
    /\ \/ /\ signRequest.status = "signing"
          /\ signRequest' = [signRequest EXCEPT !.status = "submitted", !.hashed = TRUE]
       \/ UNCHANGED signRequest
    /\ Reaches(t, IF Stage(t, "partial") THEN "over" ELSE "confirmed")
    /\ UNCHANGED <<requestLate, sentTx>> /\ RequestOnly

MarkConfirmed(t) ==
    /\ Stage(t, "confirmed")
    /\ \/ /\ signRequest.status \in {"submitted", "signing"}
          /\ signRequest' = [signRequest EXCEPT !.status = "confirmed", !.hashed = TRUE]
       \/ UNCHANGED signRequest
    /\ Reaches(t, "over")
    /\ UNCHANGED <<requestLate, sentTx>> /\ RequestOnly

TabCloses(t) ==
    /\ ~(flow[t].stage \in {"idle", "over"})
    /\ Reaches(t, "over")
    /\ UNCHANGED <<signRequest, requestLate, sentTx>> /\ RequestOnly

SigningNext ==
    \/ \E t \in Tabs :
         \/ RevokeOthers(t) \/ InsertPairing(t)
         \/ StartClaim(t) \/ ClaimSignRequest(t) \/ SendNext(t) \/ WalletRefuses(t)
         \/ ReceiptArrives(t) \/ ReceiptFails(t)
         \/ MarkSubmitted(t) \/ MarkConfirmed(t) \/ TabCloses(t)
    \/ \E g \in Pairings : Heartbeat(g) \/ RevokePairing(g) \/ PairingTimePasses(g)
    \/ \E i \in Txs : TxMined(i)
    \/ CreateSignRequest \/ RequestTimePasses \/ ExpireStale \/ CancelSignRequest

-----------------------------------------------------------------------------
(***************************************************************************)
(* Properties.                                                             *)
(***************************************************************************)

(* "Atomic claim: move pending -> signing. Only one caller can win": a     *)
(* transaction of a request is sent at most once, in order, whichever tabs *)
(* try, and a request reported as confirmed has all of them on chain.      *)
SignedOnce ==
    /\ \A i \in Txs :
         /\ sentTx[i].sent <= 1
         /\ sentTx[i].sent = 1 /\ i > 1 => sentTx[i - 1].fate \in {"mined", "reverted"}
    /\ signRequest.hashed => sentTx[1].sent = 1
    /\ signRequest.status = "confirmed" =>
         \A i \in 1 .. TxCount : sentTx[i].fate \in {"mined", "reverted"}

(* "User rejected the request." and "Request expired.", says the status    *)
(* tool: of a request that is over without a hash, nothing was sent.       *)
ClosedIsUnsigned ==
    signRequest.status \in {"cancelled", "expired"} => \A i \in Txs : sentTx[i].sent = 0

(* "max 1 active" session of a wallet.                                     *)
OnePairing == Cardinality({g \in Pairings : pairing[g] = "active"}) <= 1
=============================================================================
