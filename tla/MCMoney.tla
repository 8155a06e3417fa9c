------------------------------ MODULE MCMoney ------------------------------
(***************************************************************************)
(* Model checking what moves money or opens the door to it: the payments   *)
(* of the runner on its record, paid jobs, signed transactions, approval   *)
(* tickets, the commerce gates, the tools an agent pays with, the          *)
(* credentials of a user, the wallets of an agent and how an agent is      *)
(* onboarded.  They share no variable: one of them, the focus, is at work  *)
(* in a behaviour while the others rest.                                   *)
(***************************************************************************)
EXTENDS X402Payments, PaidJobs, SigningBridge, McpApprovals, CommerceGate, AgentTools,
        Credentials, AgentWallets, Onboarding, TLC

\* The payments: one key for all calls.
CONSTANTS k1
MCKeyOf    == [c \in Calls |-> k1]
MCAmountOf == [c \in Calls |-> 1]

\* The gates: two proofs of one purse.
CONSTANT w1
MCPaymentOf == [p \in Proofs402 |-> w1]

\* The tools: an agent that pays, and one that provides.
CONSTANTS i1, i2, i3
To(host, amount, k) == [host |-> host, amount |-> amount, key |-> k]
MCAsked ==
    {[tool |-> "x402_pay", payments |-> <<To("h1", 1, "k")>>, batch |-> NoKey],
     [tool |-> "x402_pay", payments |-> <<To("h2", 2, "k")>>, batch |-> NoKey],
     [tool |-> "x402_batch_pay", payments |-> <<To("h1", 1, NoKey), To("h2", 1, NoKey)>>, batch |-> "b"],
     [tool |-> "x402_batch_pay", payments |-> <<To("h2", 1, NoKey), To("h1", 1, "k")>>, batch |-> "b"],
     [tool |-> "payment_spend_ledger"], [tool |-> "erc8183_job_status"]}
MCAskedToProvide ==
    {[tool |-> SetsBudget, amount |-> a, reason |-> "r"] : a \in 1 .. 3}
    \cup {[tool |-> "erc8183_provider_start_job"], [tool |-> Quotes]}

Provider == INSTANCE AgentTools WITH Role <- "provider", OptedIn <- {SetsBudget},
                                     Asked <- MCAskedToProvide

\* The wallets: two owners, each in a tab, and an agent minted to each account.
CONSTANTS o1, o2, b1, b2, a1, a2, t1, t2
MCWalletOf == (t1 :> o1) @@ (t2 :> o2)
MCMintedTo == (a1 :> b1) @@ (a2 :> b2)

\* What is known of the values: an account's name, and that the inputs of the
\* agent keep to what it owes.
ASSUME MCAssumption == b1 \in Accounts /\ OneHostPerKey

VARIABLE focus

otherVars == <<paidVars, signingVars, ticketVars, commerceVars, toolVars, credentialVars, walletVars,
               onboardingVars>>

MCInit ==
    /\ focus \in {"payments", "jobs", "signing", "tickets", "gates", "paying", "providing",
                  "sessions", "grants", "keys", "links", "payers", "bindings", "onboarding"}
    /\ Init /\ PaidInit /\ SigningInit /\ TicketInit /\ CommerceInit
    /\ IF focus = "providing" THEN Provider!ToolInit ELSE ToolInit
    /\ CredentialInit /\ (focus # "sessions" => jar # NoLogin)
    /\ OnboardingInit
    /\ AgentWalletsInit
    /\ tokenOwner = [a \in Agents |-> CASE focus = "payers" /\ a = a1   -> o1
                                        [] focus = "bindings" /\ a = a2 -> b1
                                        [] OTHER                        -> MCMintedTo[a]]

OthersRest ==
    /\ UNCHANGED focus
    /\ IF focus = "payments" THEN TRUE ELSE UNCHANGED vars
    /\ IF focus = "jobs" THEN TRUE ELSE UNCHANGED paidVars
    /\ IF focus = "signing" THEN TRUE ELSE UNCHANGED signingVars
    /\ IF focus = "tickets" THEN TRUE ELSE UNCHANGED ticketVars
    /\ IF focus = "gates" THEN TRUE ELSE UNCHANGED commerceVars
    /\ IF focus \in {"paying", "providing"} THEN TRUE ELSE UNCHANGED toolVars
    /\ IF focus \in {"sessions", "grants", "keys"} THEN TRUE ELSE UNCHANGED credentialVars
    /\ IF focus \in {"links", "payers", "bindings"} THEN TRUE ELSE UNCHANGED walletVars
    /\ IF focus = "onboarding" THEN TRUE ELSE UNCHANGED onboardingVars

PaymentsAtWork  == focus = "payments" /\ Next /\ OthersRest
PaidJobsAtWork  == focus = "jobs" /\ PaidNext /\ OthersRest
SigningAtWork   == focus = "signing" /\ SigningNext /\ OthersRest
TicketsAtWork   == focus = "tickets" /\ TicketNext /\ OthersRest
GatesAtWork     == focus = "gates" /\ CommerceNext /\ OthersRest
PayingAtWork    == focus = "paying" /\ ToolNext /\ OthersRest
ProvidingAtWork == focus = "providing" /\ Provider!ToolNext /\ OthersRest
SessionsAtWork  == focus = "sessions" /\ SessionNext /\ OthersRest
GrantsAtWork    == focus = "grants" /\ GrantNext /\ OthersRest
KeysAtWork      == focus = "keys" /\ (KeyNext \/ LogOut \/ \E s \in Logins : SessionEnds(s)) /\ OthersRest
LinksAtWork     == focus = "links" /\ LinkNext /\ OthersRest
PayersAtWork ==
    /\ focus = "payers"
    /\ PayerNext \/ LinkNext \/ \E a \in Agents : IndexAgent(a) \/ TransferAgent(a, b1)
    /\ OthersRest
BindingsAtWork  == focus = "bindings" /\ (BindNext \/ LinkNext) /\ OthersRest
OnboardingAtWork == focus = "onboarding" /\ OnboardingNext /\ OthersRest

MCNext ==
    \/ PaymentsAtWork \/ PaidJobsAtWork \/ SigningAtWork \/ TicketsAtWork \/ GatesAtWork
    \/ PayingAtWork \/ ProvidingAtWork \/ SessionsAtWork \/ GrantsAtWork \/ KeysAtWork
    \/ LinksAtWork \/ PayersAtWork \/ BindingsAtWork \/ OnboardingAtWork

MCSpec == MCInit /\ [][MCNext]_<<focus, vars, otherVars>>

------------------------------------------------------------------------------
\* Every component's variables have their types, while it is at work.
MoneyTypeOK ==
    CASE focus = "payments"                        -> TypeOK
      [] focus = "jobs"                            -> PaidTypeOK
      [] focus = "signing"                         -> SigningTypeOK
      [] focus = "tickets"                         -> TicketTypeOK
      [] focus = "gates"                           -> CommerceTypeOK
      [] focus = "paying"                          -> ToolTypeOK
      [] focus = "providing"                       -> Provider!ToolTypeOK
      [] focus \in {"sessions", "grants", "keys"}  -> CredentialTypeOK
      [] focus \in {"links", "payers", "bindings"} -> AgentWalletsTypeOK
      [] focus = "onboarding"                      -> OnboardingTypeOK

(***************************************************************************)
(* What is paid for is had once, and what is had was paid for: a job that  *)
(* settled and a receipt stand for a payment, a retry of the agent does    *)
(* not pay twice and the agent is told, a request is signed once.          *)
(***************************************************************************)
PaidForOnce ==
    CASE focus = "jobs"    -> ProofIsExclusive /\ SettledJobIsPaid
      [] focus = "signing" -> SignedOnce
      [] focus = "gates"   -> ReceiptIsPaid /\ AnsweredIsReceipted
      [] focus = "paying"  -> RetriesPayOnce /\ ToolTellsPayments
      [] OTHER             -> TRUE

(***************************************************************************)
(* Who may act is who was let in: what is used once lets one in, what was  *)
(* revoked nobody, and an agent's wallet is the one it was minted to; an   *)
(* onboarded agent was minted by its owner, on one draft of its intent.    *)
(***************************************************************************)
AccessIsEarned ==
    CASE focus \in {"sessions", "grants", "keys"}  -> OneHeir /\ RevokedIsRefused
      [] focus \in {"links", "payers", "bindings"} -> BindingIsOfTheMint /\ LinkLeavesAccount
      [] focus = "onboarding"                      -> AgentsAreMinted /\ DraftFollowsIntent
      [] OTHER                                     -> TRUE

(***************************************************************************)
(* No later request undoes a settlement, no off-chain route touches a job  *)
(* of the escrow, no submission replaces the hash a ticket was given       *)
(* first, and nobody takes the binding of an agent from its owner.         *)
(***************************************************************************)
SettledStays == SettlementIsFinal /\ FirstHashStays /\ BindingKeepsOwner

------------------------------------------------------------------------------
(***************************************************************************)
(* What is left out of a state's fingerprint: the components at rest, and  *)
(* who of two interchangeable callers is doing what (Both: of two, the set *)
(* of what they do tells).                                                 *)
(***************************************************************************)
Both(f) == {f[x] : x \in DOMAIN f}

Doing(i) == <<input[i], reply[i], run[i], item[i], seen[i],
              {[x EXCEPT !.by = NoInput] : x \in {y \in charges : y.by = i}}>>
Tally == [d \in {Doing(i) : i \in Invocations} |-> Cardinality({i \in Invocations : Doing(i) = d})]

View ==
    CASE focus = "payments" -> <<focus, vars>>
      [] focus = "jobs" ->
           <<focus, agentJob, lapsed, proofRow, charged, sessions, Both(settler), served, settleCrashes>>
      [] focus = "signing" -> <<focus, signingVars>>
      [] focus = "onboarding" -> <<focus, onboardingVars>>
      [] focus = "tickets" -> <<focus, ticketVars>>
      [] focus = "gates" ->
           <<focus, gate, profile, saves, opened, quoted, railed, gateRow, taken, access, receipts,
             Both(buy), unlocked, answered, gateTroubles>>
      [] focus = "paying"    -> <<focus, Tally, attempted, settled, lost>>
      [] focus = "providing" -> <<focus, toolVars>>
      [] focus \in {"sessions", "grants", "keys"} ->
           <<focus, nonceRow, session, Both(signIn), jar, connections, Both(consent), code,
             Both(exchange), pair, key, rotating, call, servedLate, credentialTroubles>>
      [] OTHER ->
           <<focus, account, accountRows, walletRequest, payerRow, Both(binder), binding, tokenOwner,
             controller, cookie, walletTroubles,
             IF focus = "links" THEN <<card, transfers>> ELSE <<>> >>

(***************************************************************************)
(* Bounds: of what is interchangeable, the first comes into use first; of  *)
(* two codes and three pairs of tokens, one stays unused.  In the wallets' *)
(* focuses nobody links the second account and nobody funds but where the  *)
(* cards are watched; payers are those of the first owner and of one       *)
(* scope, and the roster stands still while agents are bound.  Of two      *)
(* onboarded identities only the first gets a key, and the form for an     *)
(* agent account keeps its URI.                                            *)
(***************************************************************************)
First(S)  == CHOOSE x \in S : TRUE
InOrder(S, used) == used = {} \/ First(S) \in used

UsedPayloads ==
    {buy[b].payload : b \in Buys} \cup {x.payload : x \in receipts \cup unlocked} \cup answered

OneAccount == \A r \in WalletRequests : walletRequest[r].account # b2

Bound ==
    CASE focus = "providing" ->
             \A c, d \in Invocations :
                 <<c, d>> \in {<<i1, i2>>, <<i2, i3>>} => (input[c] = NoInput => input[d] = NoInput)
      [] focus = "jobs" -> InOrder(Proofs, {p \in Proofs : proofRow[p] # NoRowYet})
      [] focus = "gates" -> /\ InOrder(Payloads, UsedPayloads \ {NoPayload})
                            /\ InOrder(Proofs402, {p \in Proofs402 : quoted[p] # 0})
      [] focus = "sessions" ->
             /\ InOrder(Nonces, {n \in Nonces : nonceRow[n] # "none"})
             /\ InOrder(Logins, {s \in Logins : session[s].state # "none"})
      [] focus \in {"grants", "keys"} ->
             LET issued == {c \in Codes : code[c] # "none"}
                 given  == {p \in Pairs : pair[p] # Unissued}
             IN  /\ jar \in {NoLogin, First(Logins)}
                 /\ InOrder(Codes, issued) /\ InOrder(Pairs, given)
                 /\ Cardinality(issued) + Cardinality(given) <= 4
      [] focus = "links" -> OneAccount
      [] focus = "payers" ->
             /\ InOrder(PayerRows, {i \in PayerRows : payerRow[i] # Unwritten})
             /\ OneAccount /\ transfers = {} /\ cookie # o2
             /\ \A r \in WalletRequests : walletRequest[r].account # o2 /\ walletRequest[r].scope = "a2a"
      [] focus = "bindings" ->
             /\ OneAccount /\ transfers = {}
             /\ Cardinality({r \in WalletRequests : walletRequest[r].stage # "away"}) <= 1
             /\ tokenOwner[a1] \in Accounts /\ controller = (a1 :> b1) @@ (a2 :> b1)
      [] focus = "onboarding" ->
             /\ InOrder(Drafts, {d \in Drafts : draft[d] # Undrafted})
             /\ InOrder(Identities, {m \in Identities : mint[m] # Unminted})
             /\ runtimeKey \subseteq {First(Identities)}
             /\ \A f \in ByAccount : form[f].uri # OwnUri
      [] OTHER -> TRUE
=============================================================================
