----------------------------- MODULE AgentWallets -----------------------------
(***************************************************************************)
(* The Circle Agent Wallet of an owner, and what the Console ties to it.   *)
(*                                                                         *)
(*  - arclayer_agent_accounts: one active account per owner, replaced by   *)
(*    disabling the active row and inserting another                       *)
(*    (lib/agent-accounts/store.ts, api/profile/agent-account);            *)
(*  - agent_x402_payers: one active payer per agent and scope, replaced    *)
(*    by select, revoke, insert: under POST x402-payer, after a link, and  *)
(*    when GET a2a-payer finds none (lib/x402/agent-payer.ts);             *)
(*  - arclayer_agent_wallet_bindings: which owner and account a minted     *)
(*    agent belongs to, accepted upon a proof of the mint                  *)
(*    (api/profile/agent-wallet-bindings).                                 *)
(*                                                                         *)
(* Every tab of a browser has a connected wallet of its own, all tabs      *)
(* share one session cookie, and the routes go by the cookie.              *)
(***************************************************************************)
EXTENDS Naturals, FiniteSets

CONSTANTS
    Owners, Accounts, Agents,
    Screens, WalletOf,          \* tabs, and the wallet each is connected to
    WalletRequests, Binders,    \* requests on accounts and payers; on bindings
    PayerRows,
    MintedTo,                   \* the account or owner each agent was minted to
    NoAccount, NoOwner, NoAgent, NoScreen, NoRowOfPayer,
    AutoBind,                   \* isAgentAccountA2aAutoBindEnabled
    MaxWalletTroubles           \* failed statements, deaths and transfers

ASSUME AgentWalletAssumption ==
    /\ WalletOf \in [Screens -> Owners] /\ MintedTo \in [Agents -> Owners \cup Accounts]
    /\ NoAccount \notin Accounts /\ NoOwner \notin Owners /\ NoAgent \notin Agents
    /\ NoScreen \notin Screens /\ NoRowOfPayer \notin PayerRows /\ Owners \cap Accounts = {}
    /\ AutoBind \in BOOLEAN /\ MaxWalletTroubles \in Nat

VARIABLES
    account,        \* active row of each owner
    accountRows,    \* the accounts each owner ever linked (disabled rows stay)
    walletRequest,
    payerRow,
    binder,
    binding,        \* active row of arclayer_agent_wallet_bindings of each agent
    tokenOwner,     \* ownerOf, on chain
    controller,     \* erc8004_agents, which follows the chain
    cookie,         \* whose session the browser's cookie is
    card,           \* the account each tab shows (AgentWalletFundingRailCard)
    transfers,      \* wallet and account of each funding transfer
    walletTroubles

walletVars == <<account, accountRows, walletRequest, payerRow, binder, binding, tokenOwner,
                controller, cookie, card, transfers, walletTroubles>>

Scopes  == {"homepage", "a2a"}
Payers  == Owners \cup Accounts
Kinds   == {"none", "link", "repair", "register"}
NoLink  == [kind |-> "none", stage |-> "away", screen |-> NoScreen, owner |-> NoOwner,
            account |-> NoAccount, todo |-> {}, agent |-> NoAgent, scope |-> "a2a", old |-> NoRowOfPayer]
NoBind  == [stage |-> "away", owner |-> NoOwner, agent |-> NoAgent, account |-> NoAccount]
Unbound == [owner |-> NoOwner, account |-> NoAccount]
Unwritten == [agent |-> NoAgent, scope |-> "a2a", payer |-> NoAccount, state |-> "none"]

AgentWalletsTypeOK ==
    /\ account \in [Owners -> Accounts \cup {NoAccount}]
    /\ accountRows \in [Owners -> SUBSET Accounts]
    /\ walletRequest \in [WalletRequests -> [
           kind : Kinds, stage : {"away", "post", "insert", "pick", "read", "revoke", "put", "told"},
           screen : Screens \cup {NoScreen}, owner : Owners \cup {NoOwner},
           account : Payers \cup {NoAccount}, todo : SUBSET Agents,
           agent : Agents \cup {NoAgent}, scope : Scopes, old : PayerRows \cup {NoRowOfPayer}]]
    /\ payerRow \in [PayerRows -> [agent : Agents \cup {NoAgent}, scope : Scopes,
                                   payer : Payers \cup {NoAccount},
                                   state : {"none", "active", "revoked"}]]
    /\ binder \in [Binders -> [stage : {"away", "proof", "read", "insert", "conflict", "update"},
                               owner : Owners \cup {NoOwner}, agent : Agents \cup {NoAgent},
                               account : Accounts \cup {NoAccount}]]
    /\ binding \in [Agents -> [owner : Owners \cup {NoOwner}, account : Accounts \cup {NoAccount}]]
    /\ tokenOwner \in [Agents -> Payers] /\ controller \in [Agents -> Payers]
    /\ cookie \in Owners \cup {NoOwner} /\ card \in [Screens -> Accounts \cup {NoAccount}]
    /\ transfers \subseteq Owners \X Accounts /\ walletTroubles \in 0 .. MaxWalletTroubles

\* The agents may have changed hands since they were minted.
AgentWalletsInit ==
    /\ account = [o \in Owners |-> NoAccount] /\ accountRows = [o \in Owners |-> {}]
    /\ walletRequest = [r \in WalletRequests |-> NoLink]
    /\ payerRow = [i \in PayerRows |-> Unwritten]
    /\ binder = [b \in Binders |-> NoBind] /\ binding = [a \in Agents |-> Unbound]
    /\ tokenOwner \in [Agents -> Payers] /\ controller = tokenOwner
    /\ cookie \in Owners \cup {NoOwner} /\ card = [t \in Screens |-> NoAccount]
    /\ transfers = {} /\ walletTroubles = 0

OfPayers   == <<payerRow>>
OfBindings == <<binder, binding>>
OfTheChain == <<tokenOwner, controller>>
OfScreens  == <<cookie, card, transfers>>
OfAccounts == <<account, accountRows>>

WalletTrouble == walletTroubles < MaxWalletTroubles /\ walletTroubles' = walletTroubles + 1

Becomes(r, q) == walletRequest' = [walletRequest EXCEPT ![r] = q]
StageOf(r)    == walletRequest[r].stage

\* verifyOwnership: the session's wallet, or its active account, is the controller.
Owns(o, a) == controller[a] \in {o, account[o]}

-----------------------------------------------------------------------------
(***************************************************************************)
(* Linking an account.                                                     *)
(***************************************************************************)
\* ensureWalletSession: a tab signs in unless the cookie is of its wallet.
EnsureSession(t) ==
    /\ cookie # WalletOf[t]
    /\ cookie' = WalletOf[t]
    /\ UNCHANGED <<OfAccounts, walletRequest, OfPayers, OfBindings, OfTheChain, card, transfers,
                   walletTroubles>>

\* linkAgentWallet, with a session for the tab's wallet; the passkey is
\* registered or logged in and names the account.
AsksToLink(r, t, k) ==
    /\ StageOf(r) = "away" /\ cookie = WalletOf[t]
    /\ Becomes(r, [NoLink EXCEPT !.kind = "link", !.stage = "post",
                                 !.screen = t, !.account = k])
    /\ UNCHANGED <<OfAccounts, OfPayers, OfBindings, OfTheChain, OfScreens, walletTroubles>>

\* POST agent-account: the owner is the cookie's; its active row is disabled.
DeactivateAccount(r) ==
    /\ StageOf(r) = "post" /\ cookie # NoOwner
    /\ account' = [account EXCEPT ![cookie] = NoAccount]
    /\ Becomes(r, [walletRequest[r] EXCEPT !.stage = "insert", !.owner = cookie])
    /\ UNCHANGED <<accountRows, OfPayers, OfBindings, OfTheChain, OfScreens, walletTroubles>>

\* The insert, which the index of active rows may refuse; after it the owner's
\* agents are bound to the account one after the other, errors being ignored.
InsertAccount(r) ==
    LET q == walletRequest[r] IN
    /\ q.stage = "insert"
    /\ IF account[q.owner] = NoAccount
       THEN /\ account' = [account EXCEPT ![q.owner] = q.account]
            /\ accountRows' = [accountRows EXCEPT ![q.owner] = @ \cup {q.account}]
            /\ Becomes(r, [q EXCEPT !.stage = "pick",
                                    !.todo = {a \in Agents : AutoBind /\ controller[a] = q.owner}])
       ELSE Becomes(r, NoLink) /\ UNCHANGED OfAccounts
    /\ UNCHANGED <<OfPayers, OfBindings, OfTheChain, OfScreens, walletTroubles>>

\* The answer of a link is shown whatever the row says by then.
LinkIsShown(r) ==
    LET q == walletRequest[r] IN
    /\ q.kind = "link" /\ q.stage \in {"pick", "told"} /\ q.todo = {}
    /\ card' = [card EXCEPT ![q.screen] = q.account]
    /\ Becomes(r, NoLink)
    /\ UNCHANGED <<OfAccounts, OfPayers, OfBindings, OfTheChain, cookie, transfers, walletTroubles>>

\* loadAgentAccount asks for the account of the cookie.
LoadCard(t) ==
    /\ cookie # NoOwner
    /\ card' = [card EXCEPT ![t] = account[cookie]]
    /\ UNCHANGED <<OfAccounts, walletRequest, OfPayers, OfBindings, OfTheChain, cookie, transfers,
                   walletTroubles>>

\* useFundAgentAccount: the connected wallet transfers to the account shown.
Fund(t) ==
    /\ card[t] # NoAccount
    /\ transfers' = transfers \cup {<<WalletOf[t], card[t]>>}
    /\ UNCHANGED <<OfAccounts, walletRequest, OfPayers, OfBindings, OfTheChain, cookie, card,
                   walletTroubles>>

-----------------------------------------------------------------------------
(***************************************************************************)
(* Payers.                                                                 *)
(***************************************************************************)
ActivePayers(a, s) ==
    {i \in PayerRows : payerRow[i].state = "active" /\ payerRow[i].agent = a /\ payerRow[i].scope = s}

InForce(a, s, p) == \E i \in ActivePayers(a, s) : payerRow[i].payer = p

\* The loop over the owner's agents.
NextAgent(r, a) ==
    LET q == walletRequest[r] IN
    /\ q.kind = "link" /\ q.stage \in {"pick", "told"} /\ a \in q.todo
    /\ Becomes(r, [q EXCEPT !.stage = "read", !.agent = a, !.todo = @ \ {a}])
    /\ UNCHANGED <<OfAccounts, OfPayers, OfBindings, OfTheChain, OfScreens, walletTroubles>>

\* GET a2a-payer: no active payer though the owner has an account.
RepairPayer(r, a) ==
    /\ StageOf(r) = "away" /\ cookie # NoOwner
    /\ Owns(cookie, a) /\ account[cookie] # NoAccount /\ AutoBind
    /\ ActivePayers(a, "a2a") = {}
    /\ Becomes(r, [NoLink EXCEPT !.kind = "repair", !.stage = "read", !.owner = cookie,
                                 !.account = account[cookie], !.agent = a])
    /\ UNCHANGED <<OfAccounts, OfPayers, OfBindings, OfTheChain, OfScreens, walletTroubles>>

\* POST x402-payer: any payer, but not the linked account for scope a2a.
RegisterPayer(r, a, s, p) ==
    /\ StageOf(r) = "away" /\ cookie # NoOwner
    /\ Owns(cookie, a) /\ ~(s = "a2a" /\ account[cookie] = p)
    /\ Becomes(r, [NoLink EXCEPT !.kind = "register", !.stage = "read", !.owner = cookie,
                                 !.account = p, !.agent = a, !.scope = s])
    /\ UNCHANGED <<OfAccounts, OfPayers, OfBindings, OfTheChain, OfScreens, walletTroubles>>

\* ensureA2aPayerBinding stops when the active row names its payer.
ReadPayer(r) ==
    LET q == walletRequest[r]
        found == ActivePayers(q.agent, q.scope)
    IN
    /\ q.stage = "read"
    /\ IF q.kind # "register" /\ InForce(q.agent, q.scope, q.account)
       THEN Becomes(r, [q EXCEPT !.stage = "told"])
       ELSE IF found = {}
            THEN Becomes(r, [q EXCEPT !.stage = "put"])
            ELSE \E i \in found : Becomes(r, [q EXCEPT !.stage = "revoke", !.old = i])
    /\ UNCHANGED <<OfAccounts, OfPayers, OfBindings, OfTheChain, OfScreens, walletTroubles>>

\* The update goes by the row's id; its error is not looked at.
RevokeRead(r) ==
    LET q == walletRequest[r] IN
    /\ q.stage = "revoke"
    /\ \/ /\ payerRow' = [payerRow EXCEPT ![q.old].state = "revoked"]
          /\ UNCHANGED walletTroubles
       \/ WalletTrouble /\ UNCHANGED payerRow
    /\ Becomes(r, [q EXCEPT !.stage = "put", !.old = NoRowOfPayer])
    /\ UNCHANGED <<OfAccounts, OfBindings, OfTheChain, OfScreens>>

\* The index admits one active row: the route answers 409, the helper answers
\* with its own payer as if it had been inserted.
InsertPayer(r) ==
    LET q == walletRequest[r] IN
    /\ q.stage = "put"
    /\ IF ActivePayers(q.agent, q.scope) = {}
       THEN \E i \in PayerRows :
                /\ payerRow[i].state = "none"
                /\ payerRow' = [payerRow EXCEPT ![i] = [agent |-> q.agent, scope |-> q.scope,
                                                        payer |-> q.account, state |-> "active"]]
                /\ Becomes(r, [q EXCEPT !.stage = "told"])
       ELSE /\ Becomes(r, IF q.kind = "register" THEN NoLink ELSE [q EXCEPT !.stage = "told"])
            /\ UNCHANGED payerRow
    /\ UNCHANGED <<OfAccounts, OfBindings, OfTheChain, OfScreens, walletTroubles>>

PayerAnswered(r) ==
    /\ StageOf(r) = "told" /\ walletRequest[r].kind # "link"
    /\ Becomes(r, NoLink)
    /\ UNCHANGED <<OfAccounts, OfPayers, OfBindings, OfTheChain, OfScreens, walletTroubles>>

\* DELETE x402-payer: one update that names the active row.
RevokePayer(a, s) ==
    /\ cookie # NoOwner /\ Owns(cookie, a)
    /\ \E i \in ActivePayers(a, s) : payerRow' = [payerRow EXCEPT ![i].state = "revoked"]
    /\ UNCHANGED <<OfAccounts, walletRequest, OfBindings, OfTheChain, OfScreens, walletTroubles>>

\* A statement fails or the function dies: the request ends where it stands.
RequestDies(r) ==
    /\ StageOf(r) # "away" /\ WalletTrouble
    /\ Becomes(r, NoLink)
    /\ UNCHANGED <<OfAccounts, OfPayers, OfBindings, OfTheChain, OfScreens>>

-----------------------------------------------------------------------------
(***************************************************************************)
(* Bindings.                                                               *)
(***************************************************************************)
BindGoes(b, stage) == binder' = [binder EXCEPT ![b].stage = stage]
BindEnds(b)        == binder' = [binder EXCEPT ![b] = NoBind]

\* The submitted account must be the active one of the cookie's owner.
AsksToBind(b, a, k) ==
    /\ binder[b].stage = "away" /\ cookie # NoOwner /\ account[cookie] = k
    /\ binder' = [binder EXCEPT ![b] = [stage |-> "proof", owner |-> cookie, agent |-> a,
                                        account |-> k]]
    /\ UNCHANGED <<OfAccounts, walletRequest, OfPayers, binding, OfTheChain, OfScreens,
                   walletTroubles>>

\* Mutant: the owner on chain is proof enough.
OwnerIsProof(b) == tokenOwner[binder[b].agent] = binder[b].account

\* verifyAgentWalletMintProof: the transaction minted the agent to the
\* account, and the account owns it now.
MintProven(b) ==
    LET q == binder[b] IN MintedTo[q.agent] = q.account /\ tokenOwner[q.agent] = q.account

ProveMint(b) ==
    /\ binder[b].stage = "proof"
    /\ IF MintProven(b) THEN BindGoes(b, "read") ELSE BindEnds(b)
    /\ UNCHANGED <<OfAccounts, walletRequest, OfPayers, binding, OfTheChain, OfScreens,
                   walletTroubles>>

\* Mutant: whoever's row it is.
AnyOwnersRow(b) == binding[binder[b].agent] # Unbound

\* Not agent_already_bound_to_different_owner.
OwnRow(b) == binding[binder[b].agent].owner = binder[b].owner

\* upsertActiveAgentWalletBinding reads, then updates or inserts; after a
\* conflict it reads once more, and does not insert again.
ReadBinding(b) ==
    LET q == binder[b] IN
    /\ q.stage \in {"read", "conflict"}
    /\ CASE OwnRow(b) -> BindGoes(b, "update")
         [] q.stage = "read" /\ binding[q.agent] = Unbound -> BindGoes(b, "insert")
         [] OTHER -> BindEnds(b)
    /\ UNCHANGED <<OfAccounts, walletRequest, OfPayers, binding, OfTheChain, OfScreens,
                   walletTroubles>>

InsertBinding(b) ==
    LET q == binder[b] IN
    /\ q.stage = "insert"
    /\ IF binding[q.agent] = Unbound
       THEN /\ binding' = [binding EXCEPT ![q.agent] = [owner |-> q.owner, account |-> q.account]]
            /\ BindEnds(b)
       ELSE BindGoes(b, "conflict") /\ UNCHANGED binding
    /\ UNCHANGED <<OfAccounts, walletRequest, OfPayers, OfTheChain, OfScreens, walletTroubles>>

\* The update sets every column, the owner's too, of the row with that id.
UpdateBinding(b) ==
    LET q == binder[b] IN
    /\ q.stage = "update"
    /\ binding' = [binding EXCEPT ![q.agent] = [owner |-> q.owner, account |-> q.account]]
    /\ BindEnds(b)
    /\ UNCHANGED <<OfAccounts, walletRequest, OfPayers, OfTheChain, OfScreens, walletTroubles>>

\* The token is transferred; erc8004_agents follows later.
TransferAgent(a, p) ==
    /\ tokenOwner[a] # p /\ WalletTrouble
    /\ tokenOwner' = [tokenOwner EXCEPT ![a] = p]
    /\ UNCHANGED <<OfAccounts, walletRequest, OfPayers, OfBindings, controller, OfScreens>>

IndexAgent(a) ==
    /\ controller[a] # tokenOwner[a]
    /\ controller' = [controller EXCEPT ![a] = tokenOwner[a]]
    /\ UNCHANGED <<OfAccounts, walletRequest, OfPayers, OfBindings, tokenOwner, OfScreens,
                   walletTroubles>>

-----------------------------------------------------------------------------
LinkNext ==
    \/ \E t \in Screens : EnsureSession(t) \/ LoadCard(t) \/ Fund(t)
    \/ \E r \in WalletRequests :
           \/ \E t \in Screens, k \in Accounts : AsksToLink(r, t, k)
           \/ DeactivateAccount(r) \/ InsertAccount(r) \/ LinkIsShown(r) \/ RequestDies(r)

PayerNext ==
    \/ \E r \in WalletRequests : ReadPayer(r) \/ RevokeRead(r) \/ InsertPayer(r) \/ PayerAnswered(r)
    \/ \E r \in WalletRequests, a \in Agents :
           \/ NextAgent(r, a) \/ RepairPayer(r, a)
           \/ \E s \in Scopes, p \in Payers : RegisterPayer(r, a, s, p)
    \/ \E a \in Agents, s \in Scopes : RevokePayer(a, s)

BindNext ==
    \/ \E b \in Binders :
           \/ \E a \in Agents, k \in Accounts : AsksToBind(b, a, k)
           \/ ProveMint(b) \/ ReadBinding(b) \/ InsertBinding(b) \/ UpdateBinding(b)
    \/ \E a \in Agents : IndexAgent(a) \/ \E p \in Payers : TransferAgent(a, p)

AgentWalletsNext == LinkNext \/ PayerNext \/ BindNext

AgentWalletsSpec == AgentWalletsInit /\ [][AgentWalletsNext]_walletVars

-----------------------------------------------------------------------------
\* A binding names the account the agent was minted to, whatever was linked,
\* transferred or submitted by others since (agent-wallet-bindings/route.ts).
BindingIsOfTheMint ==
    \A a \in Agents : binding[a] # Unbound => binding[a].account = MintedTo[a]

\* No request takes an agent's binding over from another owner, although two
\* owners may link one account and race for its agents (store.ts,
\* upsertActiveAgentWalletBinding).
BindingKeepsOwner ==
    [][\A a \in Agents : binding[a] # Unbound => binding'[a].owner = binding[a].owner]_walletVars

\* Short of a failed statement, an owner who linked an account and has no
\* request under way has an active one: the request that disabled the last
\* row inserts its own or finds another's (upsertAgentAccountForOwner).
LinkLeavesAccount ==
    \A o \in Owners :
        /\ walletTroubles = 0 /\ accountRows[o] # {}
        /\ \A r \in WalletRequests : ~(StageOf(r) = "insert" /\ walletRequest[r].owner = o)
        => account[o] # NoAccount

\* Does not hold: what ensureA2aPayerBinding returns, "The active A2A payer
\* binding", may be another request's after a unique violation.
BoundAsTold ==
    [][\A r \in WalletRequests :
           StageOf(r) # "told" /\ walletRequest'[r].stage = "told"
           => InForce(walletRequest[r].agent, walletRequest[r].scope, walletRequest[r].account)'
      ]_walletVars

\* Does not hold: the card shows the account of the cookie's owner, whichever
\* wallet the tab is connected to and transfers from.
FundsReachOwn == \A p \in transfers : p[2] \in accountRows[p[1]]
=============================================================================
