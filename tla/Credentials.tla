----------------------------- MODULE Credentials -----------------------------
(***************************************************************************)
(* What a caller of the Console shows to be let in, and how it gets it.    *)
(*                                                                         *)
(*  - a wallet signs a nonce and the browser holds a session cookie        *)
(*    (lib/auth/wallet-session.ts, ensureWalletSession.ts, api/auth/...);  *)
(*  - an OAuth client exchanges a code, and later each refresh token, for  *)
(*    a pair of an access and a refresh token (lib/oauth, app/oauth);      *)
(*  - an API key or an MCP session is created under a cookie, shown once,  *)
(*    rotated and revoked (lib/a2a/auth.ts, lib/agent-accounts/store.ts,   *)
(*    lib/mcp/api-key-tools.ts, AgentApiKeysSection.tsx).                  *)
(*                                                                         *)
(* A nonce, a code and a refresh token are good once: the handlers read    *)
(* the row, check it, and consume it with an update that names the state   *)
(* it was read in.  One owner, one OAuth client.                           *)
(***************************************************************************)
EXTENDS Naturals, FiniteSets

CONSTANTS
    Nonces, SignIns, Logins,        \* nonces, verify requests, session cookies
    Consents, Codes, Exchanges,     \* approvals of a client, codes, token requests
    Pairs,                          \* access and refresh token
    ApiKeys, SessionKeys,              \* durable bearers; those that are MCP sessions
    Callers,                        \* requests that show a bearer
    NoNonce, NoLogin, NoGrant, NoPair, NoBearer,
    MaxConnections, MaxCredentialTroubles

ASSUME CredentialAssumption ==
    /\ SessionKeys \subseteq ApiKeys
    /\ NoNonce \notin Nonces /\ NoLogin \notin Logins /\ NoPair \notin Pairs
    /\ NoGrant \notin Codes \cup Pairs /\ NoBearer \notin Logins \cup Pairs \cup ApiKeys
    /\ MaxConnections \in Nat /\ MaxCredentialTroubles \in Nat

VARIABLES
    nonceRow,     \* wallet_auth_nonces
    session,      \* wallet_sessions: the nonce each came from, and its state
    signIn,       \* verify requests
    jar,          \* the session cookie of the browser
    connections,  \* active rows of mcp_oauth_connections
    consent, code, exchange,
    pair,         \* oauth_access_tokens and oauth_refresh_tokens
    key,          \* a2a_api_keys, mcp_sessions
    rotating,     \* has the page revoked a key it has yet to replace?
    call,         \* requests that show a bearer
    servedLate,   \* was a request served that arrived after its bearer was dead?
    credentialTroubles

credentialVars == <<nonceRow, session, signIn, jar, connections, consent, code, exchange, pair,
                    key, rotating, call, servedLate, credentialTroubles>>

Grants    == Codes \cup Pairs
Bearers   == Logins \cup Pairs \cup ApiKeys
Lives     == {"none", "live", "dead"}
OnceState == {"none", "fresh", "used", "expired"}

Unopened  == [nonce |-> NoNonce, state |-> "none"]
Unissued  == [from |-> NoGrant, access |-> "none", refresh |-> "none"]
AtRest    == [stage |-> "away", nonce |-> NoNonce]
Unasked   == [stage |-> "away", grant |-> NoGrant, pair |-> NoPair]
Uncalled  == [stage |-> "away", bearer |-> NoBearer, late |-> FALSE]

CredentialTypeOK ==
    /\ nonceRow \in [Nonces -> OnceState]
    /\ session \in [Logins -> [nonce : Nonces \cup {NoNonce}, state : Lives]]
    /\ signIn \in [SignIns -> [stage : {"away", "valid", "insert"}, nonce : Nonces \cup {NoNonce}]]
    /\ jar \in Logins \cup {NoLogin}
    /\ connections \in 0 .. MaxConnections
    /\ consent \in [Consents -> {"away", "connect", "code"}]
    /\ code \in [Codes -> OnceState]
    /\ exchange \in [Exchanges -> [stage : {"away", "found", "consume", "access", "refresh"},
                                   grant : Grants \cup {NoGrant}, pair : Pairs \cup {NoPair}]]
    /\ pair \in [Pairs -> [from : Grants \cup {NoGrant}, access : Lives,
                           refresh : Lives \cup {"rotated"}]]
    /\ key \in [ApiKeys -> Lives] /\ rotating \in BOOLEAN
    /\ call \in [Callers -> [stage : {"away", "check", "serve"}, bearer : Bearers \cup {NoBearer},
                             late : BOOLEAN]]
    /\ servedLate \in BOOLEAN /\ credentialTroubles \in 0 .. MaxCredentialTroubles

\* The browser may hold a session from before.
CredentialInit ==
    /\ nonceRow = [n \in Nonces |-> "none"] /\ signIn = [v \in SignIns |-> AtRest]
    /\ jar \in Logins \cup {NoLogin}
    /\ session = [s \in Logins |-> IF s = jar THEN [Unopened EXCEPT !.state = "live"] ELSE Unopened]
    /\ connections = 0 /\ consent = [a \in Consents |-> "away"]
    /\ code = [c \in Codes |-> "none"] /\ exchange = [x \in Exchanges |-> Unasked]
    /\ pair = [p \in Pairs |-> Unissued]
    /\ key = [k \in ApiKeys |-> "none"] /\ rotating = FALSE
    /\ call = [r \in Callers |-> Uncalled] /\ servedLate = FALSE /\ credentialTroubles = 0

OfSessions == <<nonceRow, session, signIn, jar>>
OfGrants   == <<connections, consent, code, exchange, pair>>
OfKeys     == <<key, rotating>>
OfCalls    == <<call, servedLate>>

Mishap == credentialTroubles < MaxCredentialTroubles /\ credentialTroubles' = credentialTroubles + 1

\* resolveSessionFromCookie: neither expired nor revoked.
SessionIsLive(s) == session[s].state = "live"
SignedIn         == jar # NoLogin /\ SessionIsLive(jar)

-----------------------------------------------------------------------------
(***************************************************************************)
(* Wallet sessions.                                                        *)
(***************************************************************************)
\* ensureWalletSession asks for a nonce only when the cookie names no
\* session of the wallet; the wallet then signs the message.
RequestNonce(n) ==
    /\ nonceRow[n] = "none" /\ ~SignedIn
    /\ nonceRow' = [nonceRow EXCEPT ![n] = "fresh"]
    /\ UNCHANGED <<session, signIn, jar, OfGrants, OfKeys, OfCalls, credentialTroubles>>

NonceExpires(n) ==
    /\ nonceRow[n] = "fresh"
    /\ nonceRow' = [nonceRow EXCEPT ![n] = "expired"]
    /\ UNCHANGED <<session, signIn, jar, OfGrants, OfKeys, OfCalls, credentialTroubles>>

\* POST verify, which a client may send again: the row is read and the
\* signature recovered.
VerifySignature(v, n) ==
    /\ signIn[v].stage = "away"
    /\ nonceRow[n] = "fresh"
    /\ signIn' = [signIn EXCEPT ![v] = [stage |-> "valid", nonce |-> n]]
    /\ UNCHANGED <<nonceRow, session, jar, OfGrants, OfKeys, OfCalls, credentialTroubles>>

\* Mutant: the update does not ask that used_at be null.
ConsumableTwice(n) == nonceRow[n] # "none"

\* UPDATE ... WHERE used_at IS NULL; the expiry is not looked at again.
NonceConsumable(n) == nonceRow[n] \in {"fresh", "expired"}

ConsumeNonce(v) ==
    LET n == signIn[v].nonce IN
    /\ signIn[v].stage = "valid"
    /\ IF NonceConsumable(n)
       THEN /\ nonceRow' = [nonceRow EXCEPT ![n] = "used"]
            /\ signIn' = [signIn EXCEPT ![v].stage = "insert"]
       ELSE signIn' = [signIn EXCEPT ![v] = AtRest] /\ UNCHANGED nonceRow
    /\ UNCHANGED <<session, jar, OfGrants, OfKeys, OfCalls, credentialTroubles>>

\* The answer carries the cookie.
OpenSession(v, s) ==
    /\ signIn[v].stage = "insert" /\ session[s].state = "none"
    /\ session' = [session EXCEPT ![s] = [nonce |-> signIn[v].nonce, state |-> "live"]]
    /\ jar' = s
    /\ signIn' = [signIn EXCEPT ![v] = AtRest]
    /\ UNCHANGED <<nonceRow, OfGrants, OfKeys, OfCalls, credentialTroubles>>

\* The insert fails or the function dies: the nonce is spent.
SignInDies(v) ==
    /\ signIn[v].stage # "away"
    /\ signIn' = [signIn EXCEPT ![v] = AtRest] /\ Mishap
    /\ UNCHANGED <<nonceRow, session, jar, OfGrants, OfKeys, OfCalls>>

SessionEnds(s) ==
    /\ SessionIsLive(s)
    /\ session' = [session EXCEPT ![s].state = "dead"]
    /\ UNCHANGED <<nonceRow, signIn, jar, OfGrants, OfKeys, OfCalls, credentialTroubles>>

\* The cookie is cleared whether or not the update of destroySession fails.
LogOut ==
    /\ jar # NoLogin
    /\ \/ session' = [session EXCEPT ![jar].state = "dead"] /\ UNCHANGED credentialTroubles
       \/ Mishap /\ UNCHANGED session
    /\ jar' = NoLogin
    /\ UNCHANGED <<nonceRow, signIn, OfGrants, OfKeys, OfCalls>>

SessionNext ==
    \/ LogOut
    \/ \E n \in Nonces : RequestNonce(n) \/ NonceExpires(n)
    \/ \E s \in Logins : SessionEnds(s)
    \/ \E v \in SignIns :
         \/ \E n \in Nonces : VerifySignature(v, n)
         \/ ConsumeNonce(v) \/ SignInDies(v)
         \/ \E s \in Logins : OpenSession(v, s)

-----------------------------------------------------------------------------
(***************************************************************************)
(* OAuth: the owner approves a client, the client exchanges its grants.    *)
(***************************************************************************)
\* findActiveConnection: maybeSingle answers nothing when two rows match.
ConnectionFound == connections = 1

Approve(a) ==
    /\ consent[a] = "away" /\ SignedIn
    /\ consent' = [consent EXCEPT ![a] = IF ConnectionFound THEN "code" ELSE "connect"]
    /\ UNCHANGED <<OfSessions, connections, code, exchange, pair, OfKeys, OfCalls, credentialTroubles>>

InsertConnection(a) ==
    /\ consent[a] = "connect" /\ connections < MaxConnections
    /\ connections' = connections + 1
    /\ consent' = [consent EXCEPT ![a] = "code"]
    /\ UNCHANGED <<OfSessions, code, exchange, pair, OfKeys, OfCalls, credentialTroubles>>

IssueCode(a, c) ==
    /\ consent[a] = "code" /\ code[c] = "none"
    /\ code' = [code EXCEPT ![c] = "fresh"]
    /\ consent' = [consent EXCEPT ![a] = "away"]
    /\ UNCHANGED <<OfSessions, connections, exchange, pair, OfKeys, OfCalls, credentialTroubles>>

CodeExpires(c) ==
    /\ code[c] = "fresh"
    /\ code' = [code EXCEPT ![c] = "expired"]
    /\ UNCHANGED <<OfSessions, connections, consent, exchange, pair, OfKeys, OfCalls, credentialTroubles>>

GrantIsGood(g) == IF g \in Codes THEN code[g] = "fresh" ELSE pair[g].refresh = "live"

ExchangeGoes(x, stage) == exchange' = [exchange EXCEPT ![x].stage = stage]
ExchangeEnds(x)        == exchange' = [exchange EXCEPT ![x] = Unasked]

\* The row of the code or of the refresh token passes every check.
PresentGrant(x, g) ==
    /\ exchange[x].stage = "away" /\ GrantIsGood(g)
    /\ exchange' = [exchange EXCEPT ![x] = [stage |-> "found", grant |-> g, pair |-> NoPair]]
    /\ UNCHANGED <<OfSessions, connections, consent, code, pair, OfKeys, OfCalls, credentialTroubles>>

\* A code looks its connection up by client and wallet, a refresh token by
\* its id; no code of the repository deactivates a connection.
FindConnection(x) ==
    /\ exchange[x].stage = "found"
    /\ IF exchange[x].grant \in Pairs \/ ConnectionFound THEN ExchangeGoes(x, "consume") ELSE ExchangeEnds(x)
    /\ UNCHANGED <<OfSessions, connections, consent, code, pair, OfKeys, OfCalls, credentialTroubles>>

\* Mutant: the update does not name the state the row was read in.
ConsumableAgain(g) == TRUE

\* consumeAuthorizationCode: consumed_at is null; rotateRefreshToken:
\* neither revoked nor rotated.  Neither looks at the expiry again.
GrantConsumable(g) == IF g \in Codes THEN code[g] \in {"fresh", "expired"} ELSE pair[g].refresh = "live"

ConsumeGrant(x) ==
    LET g == exchange[x].grant IN
    /\ exchange[x].stage = "consume"
    /\ IF GrantConsumable(g)
       THEN /\ IF g \in Codes
               THEN code' = [code EXCEPT ![g] = "used"] /\ UNCHANGED pair
               ELSE pair' = [pair EXCEPT ![g].refresh = "rotated"] /\ UNCHANGED code
            /\ ExchangeGoes(x, "access")
       ELSE ExchangeEnds(x) /\ UNCHANGED <<code, pair>>
    /\ UNCHANGED <<OfSessions, connections, consent, OfKeys, OfCalls, credentialTroubles>>

IssueAccess(x, p) ==
    /\ exchange[x].stage = "access" /\ pair[p].access = "none"
    /\ pair' = [pair EXCEPT ![p] = [from |-> exchange[x].grant, access |-> "live", refresh |-> "none"]]
    /\ exchange' = [exchange EXCEPT ![x].stage = "refresh", ![x].pair = p]
    /\ UNCHANGED <<OfSessions, connections, consent, code, OfKeys, OfCalls, credentialTroubles>>

IssueRefresh(x) ==
    /\ exchange[x].stage = "refresh"
    /\ pair' = [pair EXCEPT ![exchange[x].pair].refresh = "live"]
    /\ ExchangeEnds(x)
    /\ UNCHANGED <<OfSessions, connections, consent, code, OfKeys, OfCalls, credentialTroubles>>

\* An insert fails, or the function dies, and the grant is gone.
ExchangeDies(x) ==
    /\ exchange[x].stage # "away"
    /\ ExchangeEnds(x) /\ Mishap
    /\ UNCHANGED <<OfSessions, connections, consent, code, pair, OfKeys, OfCalls>>

\* POST /oauth/revoke of one token, or its hour or its month is over.
TokenEnds(p) ==
    /\ \/ pair[p].access = "live" /\ pair' = [pair EXCEPT ![p].access = "dead"]
       \/ pair[p].refresh = "live" /\ pair' = [pair EXCEPT ![p].refresh = "dead"]
    /\ UNCHANGED <<OfSessions, connections, consent, code, exchange, OfKeys, OfCalls, credentialTroubles>>

GrantNext ==
    \/ \E a \in Consents :
         Approve(a) \/ InsertConnection(a) \/ \E c \in Codes : IssueCode(a, c)
    \/ \E c \in Codes : CodeExpires(c)
    \/ \E p \in Pairs : TokenEnds(p)
    \/ \E x \in Exchanges :
         \/ \E g \in Grants : PresentGrant(x, g)
         \/ FindConnection(x) \/ ConsumeGrant(x) \/ IssueRefresh(x) \/ ExchangeDies(x)
         \/ \E p \in Pairs : IssueAccess(x, p)

-----------------------------------------------------------------------------
(***************************************************************************)
(* API keys and MCP sessions, and the requests that show a bearer.         *)
(***************************************************************************)
CreateKey(k) ==
    /\ key[k] = "none"
    /\ k \in SessionKeys => SignedIn
    /\ key' = [key EXCEPT ![k] = "live"] /\ rotating' = FALSE
    /\ UNCHANGED <<OfSessions, OfGrants, OfCalls, credentialTroubles>>

RevokeKey(k) ==
    /\ key[k] = "live"
    /\ key' = [key EXCEPT ![k] = "dead"]
    /\ UNCHANGED <<OfSessions, OfGrants, rotating, OfCalls, credentialTroubles>>

\* The page revokes first, and creates only when that has succeeded.
RotateKey(k) ==
    /\ key[k] = "live" /\ k \notin SessionKeys /\ SignedIn /\ ~rotating
    /\ key' = [key EXCEPT ![k] = "dead"] /\ rotating' = TRUE
    /\ UNCHANGED <<OfSessions, OfGrants, OfCalls, credentialTroubles>>

RevokeAllSessions ==
    /\ SignedIn /\ \E k \in SessionKeys : key[k] = "live"
    /\ key' = [k \in ApiKeys |-> IF k \in SessionKeys /\ key[k] = "live" THEN "dead" ELSE key[k]]
    /\ UNCHANGED <<OfSessions, OfGrants, rotating, OfCalls, credentialTroubles>>

StateOf(b) ==
    IF b \in Logins THEN session[b].state ELSE IF b \in Pairs THEN pair[b].access ELSE key[b]

Arrive(r, b) ==
    /\ call[r].stage = "away" /\ StateOf(b) # "none"
    /\ call' = [call EXCEPT ![r] = [stage |-> "check", bearer |-> b, late |-> StateOf(b) = "dead"]]
    /\ UNCHANGED <<OfSessions, OfGrants, OfKeys, servedLate, credentialTroubles>>

\* Mutant: verifyApiKey looks for the prefix of the key alone.
AnyKnownKey(b) == IF b \in ApiKeys THEN key[b] # "none" ELSE StateOf(b) = "live"

BearerAccepted(b) == StateOf(b) = "live"

\* requireApiKey, resolveMcpBearerAuth, authenticateWalletRequest.
Authenticate(r) ==
    /\ call[r].stage = "check"
    /\ call' = [call EXCEPT ![r] = IF BearerAccepted(call[r].bearer) THEN [@ EXCEPT !.stage = "serve"]
                                                                     ELSE Uncalled]
    /\ UNCHANGED <<OfSessions, OfGrants, OfKeys, servedLate, credentialTroubles>>

Serve(r) ==
    /\ call[r].stage = "serve"
    /\ servedLate' = (servedLate \/ call[r].late)
    /\ call' = [call EXCEPT ![r] = Uncalled]
    /\ UNCHANGED <<OfSessions, OfGrants, OfKeys, credentialTroubles>>

KeyNext ==
    \/ RevokeAllSessions
    \/ \E k \in ApiKeys : CreateKey(k) \/ RevokeKey(k) \/ RotateKey(k)
    \/ \E r \in Callers :
         \/ \E b \in Bearers : Arrive(r, b)
         \/ Authenticate(r) \/ Serve(r)

CredentialNext == SessionNext \/ GrantNext \/ KeyNext

CredentialSpec == CredentialInit /\ [][CredentialNext]_credentialVars

-----------------------------------------------------------------------------
(***************************************************************************)
(* Properties.                                                             *)
(***************************************************************************)

(* A nonce opens one session, and a code or a refresh token is exchanged   *)
(* for one pair, however many requests present it at once ("Nonce already  *)
(* consumed (concurrent replay)"): refresh tokens form a line of which one *)
(* at most is good.                                                        *)
OneHeir ==
    /\ \A n \in Nonces : Cardinality({s \in Logins : session[s].nonce = n}) <= 1
    /\ \A g \in Grants : Cardinality({p \in Pairs : pair[p].from = g}) <= 1

(* A request that comes in after its bearer has been revoked or has        *)
(* expired is refused, whatever is under way.                              *)
RevokedIsRefused == ~servedLate

(* An owner and a client have one connection (two make every later code    *)
(* impossible to exchange).                                                *)
SingleConnection == connections <= 1
=============================================================================
