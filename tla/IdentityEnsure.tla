---------------------------- MODULE IdentityEnsure ----------------------------
(***************************************************************************)
(* "identity ensure --auto-register" of the runner (identity-ensure.ts):   *)
(* the command finds the wallet's ERC-8004 identity or registers one.      *)
(* Several commands may run at once; they share identity.json,             *)
(* identity-registration.json and a lock file that any of them may take    *)
(* over after ten minutes.  The Console's roster is the one that           *)
(* api/erc8004/register/sync writes.                                       *)
(*                                                                         *)
(* A registration mints the token named after its transaction; the wallet  *)
(* service answers a repeated idempotency key with the transaction it has. *)
(***************************************************************************)
EXTENDS Naturals, FiniteSets

CONSTANTS
    Ensures,       \* commands under way
    Tokens,        \* registrations, and the tokens they mint
    NoToken,
    NoEnsure,
    Metas,         \* metadata the commands may be given
    MetaOf,        \* the metadata of a command
    SecondMint,    \* commands given --confirm-second-mint
    Selected,      \* ARCLAYER_AGENT_ID, or NoToken
    Older,         \* tokens minted to the wallet before the scanned blocks
    MaxSlips       \* bound: crashes, late errors and locks that age

NoMeta == "none"

ASSUME EnsureAssumption ==
    /\ NoToken \notin Tokens /\ NoEnsure \notin Ensures /\ NoMeta \notin Metas
    /\ MetaOf \in [Ensures -> Metas] /\ SecondMint \subseteq Ensures
    /\ Selected \in Tokens \cup {NoToken} /\ Older \subseteq Tokens
    /\ MaxSlips \in Nat

VARIABLES
    minting,    \* the registrations: state, idempotency key, owner
    identity,   \* identity.json
    registration, \* identity-registration.json
    lockFile,   \* identity.lock
    roster,     \* erc8004_agents: the tokens it gives to the wallet
    ensure,     \* the commands
    slips

ensureVars == <<minting, identity, registration, lockFile, roster, ensure, slips>>

Absent == [holder |-> NoEnsure, stale |-> FALSE]
Out    == [stage |-> "out", found |-> {}, token |-> NoToken]
EnsureStages == {"out", "resync", "finalize", "sync", "scan", "roster", "lock", "stale", "retry lock",
           "write", "register", "store hash", "sync new", "release"}

EnsureTypeOK ==
    /\ minting \in [Tokens -> [state : {"unsent", "live", "minted", "reverted"},
                               key : Metas \cup {NoMeta}, ours : BOOLEAN]]
    /\ identity \in [status : {"none", "pending", "confirmed"}, token : Tokens \cup {NoToken},
                     unsynced : BOOLEAN]
    /\ registration \in [status : {"none", "submitted", "failed", "confirmed"},
                         token : Tokens \cup {NoToken}]
    /\ lockFile \in [holder : Ensures \cup {NoEnsure}, stale : BOOLEAN]
    /\ roster \subseteq Tokens
    /\ ensure \in [Ensures -> [stage : EnsureStages, found : SUBSET Tokens, token : Tokens \cup {NoToken}]]
    /\ slips \in 0 .. MaxSlips

EnsureInit ==
    /\ minting = [t \in Tokens |-> IF t \in Older
                     THEN [state |-> "minted", key |-> NoMeta, ours |-> TRUE]
                     ELSE [state |-> "unsent", key |-> NoMeta, ours |-> FALSE]]
    /\ identity = [status |-> "none", token |-> NoToken, unsynced |-> FALSE]
    /\ registration = [status |-> "none", token |-> NoToken]
    /\ lockFile = Absent /\ roster = {}
    /\ ensure = [e \in Ensures |-> Out] /\ slips = 0

Slip == slips < MaxSlips /\ slips' = slips + 1

To(e, s)    == ensure' = [ensure EXCEPT ![e].stage = s]
Over(e)     == ensure' = [ensure EXCEPT ![e] = Out]
With(e, s, t) == ensure' = [ensure EXCEPT ![e].stage = s, ![e].token = t]
Confirmed(t) == identity' = [status |-> "confirmed", token |-> t, unsynced |-> FALSE]

Mined(t) == minting[t].state = "minted"
Owned    == {t \in Tokens : Mined(t) /\ minting[t].ours}
------------------------------------------------------------------------------
\* The files are read: a confirmed identity ends the command, unless the
\* Console has still to be told; a registration whose hash is known is looked up.
BeginEnsure(e) ==
    /\ ensure[e] = Out
    /\ IF identity.status = "confirmed"
       THEN identity.unsynced /\ With(e, "resync", identity.token)
       ELSE IF registration.status = "submitted" /\ registration.token # NoToken
            THEN With(e, "finalize", registration.token)
            ELSE To(e, "scan")
    /\ UNCHANGED <<minting, identity, registration, lockFile, roster, slips>>

\* The Console's sync route: a receipt of success that mints a token, and an
\* upsert; then the row gets its metadata and is read back.
SyncIdentity(t) == Mined(t) /\ roster' = roster \cup {t}

\* An answer that is not ok, or no answer, may follow an upsert all the same.
Syncs(t)   == SyncIdentity(t)
SyncsNot(t) == SyncIdentity(t) \/ UNCHANGED roster

Resync(e) ==
    LET t == ensure[e].token IN
    /\ ensure[e].stage = "resync"
    /\ \/ Syncs(t) /\ Confirmed(t)
       \/ SyncsNot(t) /\ UNCHANGED identity
    /\ Over(e)
    /\ UNCHANGED <<minting, registration, lockFile, slips>>

AnyReceipt(t) == TRUE     \* a mutant

\* A mint to the wallet, which still owns the token.
ReceiptConfirms(t) == t \in Owned

\* finalizePendingIdentity: what it does not know counts as pending.
Finalize(e) ==
    LET t == ensure[e].token IN
    /\ ensure[e].stage = "finalize"
    /\ \/ /\ ReceiptConfirms(t)
          /\ Confirmed(t) /\ registration' = [status |-> "confirmed", token |-> t]
          /\ To(e, "sync")
       \/ /\ minting[t].state = "reverted"
          /\ registration' = [status |-> "failed", token |-> t]
          /\ To(e, "scan") /\ UNCHANGED identity
       \/ Over(e) /\ UNCHANGED <<identity, registration>>
    /\ UNCHANGED <<minting, lockFile, roster, slips>>

\* The sync after it; a retryable failure is kept in identity.json.
SyncFinalized(e) ==
    LET t == ensure[e].token IN
    /\ ensure[e].stage = "sync"
    /\ \/ SyncsNot(t) /\ UNCHANGED identity
       \/ identity' = [identity EXCEPT !.unsynced = TRUE] /\ UNCHANGED roster
    /\ Over(e)
    /\ UNCHANGED <<minting, registration, lockFile, slips>>

\* scanExistingIdentityOnChain: with a balance, the tokens of the logs that the
\* wallet still owns; it fails when the logs name tokens and none is owned.
Scan(e) ==
    LET logged == {t \in Tokens \ Older : Mined(t)}
        found == IF Owned = {} THEN {} ELSE logged \cap Owned
    IN
    /\ ensure[e].stage = "scan"
    /\ \/ /\ Owned = {} \/ found # {} \/ logged = {}
          /\ ensure' = [ensure EXCEPT ![e].stage = "roster", ![e].found = found]
       \/ Over(e)
    /\ UNCHANGED <<minting, identity, registration, lockFile, roster, slips>>

\* The Console's roster is added, when it answers, and the two are merged: one
\* identity is reused, one of several must have been selected.
MergeRoster(e) ==
    /\ ensure[e].stage = "roster"
    /\ \E entries \in {{}, roster} :
        LET all == ensure[e].found \cup entries IN
        \/ /\ Cardinality(all) = 1 /\ e \notin SecondMint
           /\ \E t \in all :
                 IF Selected \in {NoToken, t} THEN Confirmed(t) ELSE UNCHANGED identity
           /\ Over(e)
        \/ /\ Cardinality(all) > 1
           /\ IF Selected \in all THEN Confirmed(Selected) ELSE UNCHANGED identity
           /\ Over(e)
        \/ /\ all = {} \/ (Cardinality(all) = 1 /\ e \in SecondMint)
           /\ UNCHANGED identity
           /\ IF ensure[e].found = {} /\ registration.status = "submitted"
                                      /\ registration.token # NoToken
              THEN Over(e) ELSE To(e, "lock")
    /\ UNCHANGED <<minting, registration, lockFile, roster, slips>>
------------------------------------------------------------------------------
\* acquireLock: an exclusive create; a lock of ten minutes is unlinked first,
\* and by then it may be another's.
NotExclusive(e) == lockFile.holder # e      \* a mutant
Creatable(e) == lockFile.holder = NoEnsure

AcquireLock(e) ==
    /\ ensure[e].stage = "lock"
    /\ \/ /\ Creatable(e)
          /\ lockFile' = [holder |-> e, stale |-> FALSE] /\ To(e, "write")
       \/ /\ ~Creatable(e) /\ UNCHANGED lockFile
          /\ IF lockFile.stale THEN To(e, "stale") ELSE Over(e)
    /\ UNCHANGED <<minting, identity, registration, roster, slips>>

UnlinkStale(e) ==
    /\ ensure[e].stage = "stale"
    /\ lockFile' = Absent /\ To(e, "retry lock")
    /\ UNCHANGED <<minting, identity, registration, roster, slips>>

RetryLock(e) ==
    /\ ensure[e].stage = "retry lock"
    /\ IF Creatable(e) THEN lockFile' = [holder |-> e, stale |-> FALSE] /\ To(e, "write")
       ELSE Over(e) /\ UNCHANGED lockFile
    /\ UNCHANGED <<minting, identity, registration, roster, slips>>

LockAges ==
    /\ lockFile.holder # NoEnsure /\ ~lockFile.stale
    /\ lockFile' = [lockFile EXCEPT !.stale = TRUE]
    /\ Slip
    /\ UNCHANGED <<minting, identity, registration, roster, ensure>>

\* The registration is on file before it is sent, without a hash.
WriteSubmitted(e) ==
    /\ ensure[e].stage = "write"
    /\ registration' = [status |-> "submitted", token |-> NoToken]
    /\ To(e, "register")
    /\ UNCHANGED <<minting, identity, lockFile, roster, slips>>

FreshKey(e)       == {}     \* a mutant: a key of its own for each call
SameRegistration(e) == {t \in Tokens : minting[t].key = MetaOf[e]}

\* registerIdentityViaWallet: sent once for a key.  The hash comes back, or (a
\* timeout of the wallet service) does not, or the call throws.
Register(e) ==
    /\ ensure[e].stage = "register"
    /\ \E t \in Tokens :
        /\ IF SameRegistration(e) # {}
           THEN t \in SameRegistration(e) /\ UNCHANGED minting
           ELSE /\ minting[t].state = "unsent"
                /\ minting' = [minting EXCEPT ![t] = [state |-> "live", key |-> MetaOf[e], ours |-> FALSE]]
        /\ \/ With(e, "store hash", t) /\ UNCHANGED slips
           \/ Slip /\ \E s \in {"store hash", "release"} : With(e, s, NoToken)
    /\ UNCHANGED <<identity, registration, lockFile, roster>>

RegisterRefused(e) ==
    /\ ensure[e].stage = "register"
    /\ registration' \in {registration, [status |-> "failed", token |-> NoToken]}
    /\ To(e, "release")
    /\ UNCHANGED <<minting, identity, lockFile, roster, slips>>

StoreIdentityHash(e) ==
    LET t == ensure[e].token IN
    /\ ensure[e].stage = "store hash"
    /\ registration' = [status |-> "submitted", token |-> t]
    /\ identity' = [status |-> "pending", token |-> t, unsynced |-> FALSE]
    /\ To(e, IF t = NoToken THEN "release" ELSE "sync new")
    /\ UNCHANGED <<minting, lockFile, roster, slips>>

SyncNew(e) ==
    LET t == ensure[e].token IN
    /\ ensure[e].stage = "sync new"
    /\ \/ Syncs(t) /\ Confirmed(t) /\ registration' = [status |-> "confirmed", token |-> t]
       \/ SyncsNot(t) /\ UNCHANGED <<identity, registration>>
    /\ To(e, "release")
    /\ UNCHANGED <<minting, lockFile, slips>>

\* releaseLock unlinks whatever lock there is.
ReleaseLock(e) ==
    /\ ensure[e].stage = "release"
    /\ lockFile' = Absent /\ Over(e)
    /\ UNCHANGED <<minting, identity, registration, roster, slips>>

EnsureCrash(e) ==
    /\ ensure[e] # Out /\ Slip
    /\ Over(e)
    /\ UNCHANGED <<minting, identity, registration, lockFile, roster>>

\* The chain: a registration is mined or reverts, the wallet gives a token away.
RegistrationMined(t) ==
    /\ minting[t].state = "live"
    /\ \E s \in {"minted", "reverted"} :
          minting' = [minting EXCEPT ![t].state = s, ![t].ours = (s = "minted")]
    /\ UNCHANGED <<identity, registration, lockFile, roster, ensure, slips>>

TokenGivenAway(t) ==
    /\ t \in Owned
    /\ minting' = [minting EXCEPT ![t].ours = FALSE]
    /\ UNCHANGED <<identity, registration, lockFile, roster, ensure, slips>>

EnsureNext ==
    \/ LockAges
    \/ \E t \in Tokens : RegistrationMined(t) \/ TokenGivenAway(t)
    \/ \E e \in Ensures :
          \/ BeginEnsure(e) \/ Resync(e) \/ Finalize(e) \/ SyncFinalized(e) \/ Scan(e) \/ MergeRoster(e)
          \/ AcquireLock(e) \/ UnlinkStale(e) \/ RetryLock(e) \/ WriteSubmitted(e)
          \/ Register(e) \/ RegisterRefused(e) \/ StoreIdentityHash(e) \/ SyncNew(e)
          \/ ReleaseLock(e) \/ EnsureCrash(e)

EnsureSpec == EnsureInit /\ [][EnsureNext]_ensureVars
------------------------------------------------------------------------------
Registering == {e \in Ensures : ensure[e].stage \in {"write", "register", "store hash", "sync new", "release"}}

(***************************************************************************)
(* Until a lock has been taken over for its age, or a command has died,    *)
(* the lock admits one registration at a time (identity-ensure.ts:822).    *)
(***************************************************************************)
RegistrationsAreSerial == slips = 0 => Cardinality(Registering) <= 1

(***************************************************************************)
(* What identity.json and the roster call an identity of the wallet was    *)
(* minted to it, whichever of the commands wrote it, from a receipt, the   *)
(* logs or the roster, and whatever the others wrote in between.           *)
(***************************************************************************)
IdentityIsReal ==
    /\ identity.status = "confirmed" => Mined(identity.token)
    /\ \A t \in roster : Mined(t)

(***************************************************************************)
(* A command repeated with the same metadata, concurrently, after a crash  *)
(* or after its answer was lost, does not register twice.                  *)
(***************************************************************************)
OneRegistrationPerKey ==
    \A m \in Metas : Cardinality({t \in Tokens : minting[t].key = m}) <= 1

(***************************************************************************)
(* "mint events outside scan range ... would risk duplicate mint, so       *)
(* throw" (identity-ensure.ts:368): a wallet that owns an identity does    *)
(* not get a second one unless that was asked for.                         *)
(***************************************************************************)
OneIdentity ==
    SecondMint = {} /\ slips = 0 => Cardinality(Owned) <= 1
==============================================================================
