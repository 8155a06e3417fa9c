-------------------------- MODULE OperationJournal --------------------------
(***************************************************************************)
(* The runner's SQLite operation journal                                   *)
(* (apps/arclayer-runner/src/operation-journal.ts).                        *)
(*                                                                         *)
(* Every public method of the class is one IMMEDIATE transaction, so each  *)
(* is one operator on the journal's tables here and the modules that use   *)
(* the journal conjoin it to the step that calls it.  The journal survives *)
(* a crash of the process that wrote it, and several processes may have    *)
(* the same file open.                                                     *)
(*                                                                         *)
(* A request stands for a composite key, that is for one idempotency key   *)
(* together with one hash of the parameters; two requests with the same    *)
(* KeyOf are the same idempotency key used with different parameters.      *)
(* Columns the properties do not tell apart (hashes, error texts, results, *)
(* receipts, time stamps) are left out.                                    *)
(***************************************************************************)
EXTENDS Naturals, FiniteSets

CONSTANTS
    Ops,        \* operation ids (random UUIDs, so never used twice)
    Requests,   \* composite keys: idempotency key + parameters hash
    Keys,       \* idempotency keys
    Wallets,    \* wallet addresses
    Jobs,       \* ERC-8183 job ids
    KeyOf,      \* the idempotency key of a request
    WalletOf,   \* the wallet a request writes with, or NoWallet
    JobOf,      \* the job a request is about, or NoJob
    NoOp, NoRequest, NoWallet, NoJob

ASSUME JournalAssumption ==
    /\ NoOp \notin Ops
    /\ NoRequest \notin Requests
    /\ NoWallet \notin Wallets
    /\ NoJob \notin Jobs
    /\ KeyOf \in [Requests -> Keys]
    /\ WalletOf \in [Requests -> Wallets \cup {NoWallet}]
    /\ JobOf \in [Requests -> Jobs \cup {NoJob}]

VARIABLES
    row,        \* operations.state of each operation, "none" when it has no row
    reqOf,      \* the request an operation id was minted for
    keyTab,     \* idempotency_keys: composite key -> operation
    walletLock, \* wallet_locks: wallet address -> operation
    jobLock     \* job_locks: job id -> operation

journalVars == <<row, reqOf, keyTab, walletLock, jobLock>>

-----------------------------------------------------------------------------
\* Rows that may still reach the chain, and rows whose locks are released.
Reconcilable == {"broadcast", "unknown"}
Retryable    == {"failed", "cancelled"}
Terminal     == Retryable \cup {"confirmed"}
Active       == {"created"} \cup Reconcilable
RowState     == Active \cup Terminal \cup {"none"}

JournalTypeOK ==
    /\ row \in [Ops -> RowState]
    /\ reqOf \in [Ops -> Requests \cup {NoRequest}]
    /\ keyTab \in [Requests -> Ops \cup {NoOp}]
    /\ walletLock \in [Wallets -> Ops \cup {NoOp}]
    /\ jobLock \in [Jobs -> Ops \cup {NoOp}]

JournalInit ==
    /\ row = [o \in Ops |-> "none"]
    /\ reqOf = [o \in Ops |-> NoRequest]
    /\ keyTab = [r \in Requests |-> NoOp]
    /\ walletLock = [w \in Wallets |-> NoOp]
    /\ jobLock = [j \in Jobs |-> NoOp]

-----------------------------------------------------------------------------
\* The four checks of createOperationWithLocks, in the order of the code.
KeyExists(r)    == keyTab[r] # NoOp
KeyConflicts(r) == \E s \in Requests \ {r} : KeyOf[s] = KeyOf[r] /\ KeyExists(s)
WalletLocked(r) == WalletOf[r] # NoWallet /\ walletLock[WalletOf[r]] # NoOp
JobLocked(r)    == JobOf[r] # NoJob /\ jobLock[JobOf[r]] # NoOp

\* Mutants: a creation that forgets one of the two lock checks.
CanCreateWithoutWalletCheck(r) == ~KeyExists(r) /\ ~KeyConflicts(r) /\ ~JobLocked(r)
CanCreateWithoutJobCheck(r)    == ~KeyExists(r) /\ ~KeyConflicts(r) /\ ~WalletLocked(r)

CanCreate(r) ==
    ~KeyExists(r) /\ ~KeyConflicts(r) /\ ~WalletLocked(r) /\ ~JobLocked(r)

\* Mutant: the job lock is checked but never taken.
CreateWithoutJobLock(o, r) ==
    /\ CanCreate(r)
    /\ row' = [row EXCEPT ![o] = "created"]
    /\ keyTab' = [keyTab EXCEPT ![r] = o]
    /\ walletLock' = [w \in Wallets |-> IF w = WalletOf[r] THEN o ELSE walletLock[w]]
    /\ UNCHANGED jobLock

\* createOperationWithLocks, all checks passed: row, key and both locks at once.
CreateOperation(o, r) ==
    /\ CanCreate(r)
    /\ row' = [row EXCEPT ![o] = "created"]
    /\ keyTab' = [keyTab EXCEPT ![r] = o]
    /\ walletLock' = [w \in Wallets |-> IF w = WalletOf[r] THEN o ELSE walletLock[w]]
    /\ jobLock' = [j \in Jobs |-> IF j = JobOf[r] THEN o ELSE jobLock[j]]

\* DELETE FROM wallet_locks / job_locks WHERE operation_id is one of released.
ReleaseLocks(released) ==
    /\ walletLock' = [w \in Wallets |->
                        IF walletLock[w] \in released THEN NoOp ELSE walletLock[w]]
    /\ jobLock' = [j \in Jobs |->
                     IF jobLock[j] \in released THEN NoOp ELSE jobLock[j]]

\* UPDATE operations SET state: no effect when the operation has no row.
SetState(o, s) ==
    row' = [x \in Ops |-> IF x = o /\ row[x] # "none" THEN s ELSE row[x]]

\* Mutants: the locks of a confirmed operation are kept, or those of an unknown
\* one released.
SettleKeepingConfirmedLocks(o, s) ==
    /\ SetState(o, s)
    /\ IF s \in Retryable THEN ReleaseLocks({o}) ELSE UNCHANGED <<walletLock, jobLock>>
    /\ UNCHANGED keyTab

SettleReleasingUnknown(o, s) == SetState(o, s) /\ ReleaseLocks({o}) /\ UNCHANGED keyTab

\* finalizeOperation and reconcileOperation: the new state, and the locks
\* when that state is terminal.  Neither looks at the state it overwrites.
Settle(o, s) ==
    /\ SetState(o, s)
    /\ IF s \in Terminal THEN ReleaseLocks({o})
                         ELSE UNCHANGED <<walletLock, jobLock>>
    /\ UNCHANGED keyTab

\* Mutant: the idempotency key outlives the row.
DeleteKeepingKey(o) ==
    row' = [row EXCEPT ![o] = "none"] /\ ReleaseLocks({o}) /\ UNCHANGED keyTab

\* deleteOperation: the row with its key and its locks.
DeleteOperation(o) ==
    /\ row' = [row EXCEPT ![o] = "none"]
    /\ keyTab' = [r \in Requests |-> IF keyTab[r] = o THEN NoOp ELSE keyTab[r]]
    /\ ReleaseLocks({o})

\* Mutants: recovery forgets the locks, or is not run.
RecoverKeepingLocks ==
    /\ row' = [o \in Ops |-> IF row[o] = "created" THEN "failed" ELSE row[o]]
    /\ UNCHANGED <<keyTab, walletLock, jobLock>>

RecoverNothing == UNCHANGED <<row, keyTab, walletLock, jobLock>>

\* recoverNonTerminalOperations: a row in a state the code calls
\* pre-broadcast is failed and its locks released.  (The code also knows the
\* states prepared, reserved and executing, which no caller ever stores.)
RecoverNonTerminalOperations ==
    LET interrupted == {o \in Ops : row[o] = "created"} IN
    /\ row' = [o \in Ops |-> IF o \in interrupted THEN "failed" ELSE row[o]]
    /\ ReleaseLocks(interrupted)
    /\ UNCHANGED keyTab

-----------------------------------------------------------------------------
(***************************************************************************)
(* What the tables promise whoever uses the journal.                       *)
(***************************************************************************)

\* The key table and the rows describe each other, and an idempotency key is
\* used with one set of parameters at a time: "No stale operation/idempotency
\* rows remain" (createOperationWithLocks).
KeysConsistent ==
    /\ \A o \in Ops : row[o] # "none" => reqOf[o] \in Requests /\ keyTab[reqOf[o]] = o
    /\ \A r \in Requests : KeyExists(r) => row[keyTab[r]] # "none" /\ reqOf[keyTab[r]] = r
    /\ \A r, s \in Requests :
          KeyExists(r) /\ KeyExists(s) /\ KeyOf[r] = KeyOf[s] => r = s

\* A lock never outlives the operation it protects: its holder has a row, is
\* not settled, and asked for that very wallet or job.
NoLeakedLock ==
    /\ \A w \in Wallets : walletLock[w] # NoOp =>
          row[walletLock[w]] \in Active /\ WalletOf[reqOf[walletLock[w]]] = w
    /\ \A j \in Jobs : jobLock[j] # NoOp =>
          row[jobLock[j]] \in Active /\ JobOf[reqOf[jobLock[j]]] = j

\* An unsettled operation holds the locks of its wallet and of its job.
ActiveHoldsLocks ==
    \A o \in Ops : row[o] \in Active =>
        /\ WalletOf[reqOf[o]] # NoWallet => walletLock[WalletOf[reqOf[o]]] = o
        /\ JobOf[reqOf[o]] # NoJob => jobLock[JobOf[reqOf[o]]] = o
=============================================================================
