-------------------------- MODULE ExecutionGateway --------------------------
(***************************************************************************)
(* The single boundary for wallet writes of the runner                     *)
(* (apps/arclayer-runner/src/execution-gateway.ts) over the shared journal.*)
(*                                                                         *)
(* A process (the HTTP runner, the provider worker, the evaluator worker,  *)
(* the MCP server: each builds its own gateway over the same data          *)
(* directory) runs JavaScript: what lies between two awaits is not         *)
(* interleaved with other work of the same process, but every journal      *)
(* transaction is visible to the other processes at once and the process   *)
(* can be killed between any two of them.  pc[p] says where the synchronous*)
(* part of execute() stands; p does nothing else until it is idle again.   *)
(*                                                                         *)
(* tx is the wallet service and the chain behind the wallet adapter, which *)
(* are outside the repository: a submission is live until it lands or is   *)
(* dropped, whether or not anybody still waits for it.                     *)
(***************************************************************************)
EXTENDS OperationJournal

CONSTANTS
    Procs,          \* runner processes that share the journal file
    NoProc,
    RefusedByPolicy,\* requests the spend policy may refuse
    SetBudget,      \* requests of kind setBudget
    LateErrors,     \* may the adapter throw after the service took the write?
    CacheCap,       \* MAX_RESULT_CACHE_ENTRIES
    MaxLooks,       \* bound: chain lookups one process has outstanding
    MaxCrashes      \* bound: process deaths considered

ASSUME GatewayAssumption ==
    /\ NoProc \notin Procs
    /\ RefusedByPolicy \subseteq Requests
    /\ SetBudget \subseteq Requests
    /\ LateErrors \in BOOLEAN
    /\ CacheCap \in Nat
    /\ MaxLooks \in Nat
    /\ MaxCrashes \in Nat

VARIABLES
    pc,      \* where the synchronous section of each process stands
    arg,     \* the operation that section works on
    victim,  \* the stale operation it is about to delete
    mem,     \* operations: the in-memory state of each operation
    index,   \* idempotencyIndex: composite key -> operation
    caller,  \* the process awaiting the wallet call of an operation
    tx,      \* the write as the wallet service and the chain know it
    looked,  \* per process: operations looked up on chain, with the verdict
    crashes

procVars == <<pc, arg, victim>>
memVars == <<mem, index>>
vars == <<journalVars, procVars, memVars, caller, tx, looked, crashes>>

MemState == RowState \cup {"executing"}
Outcome  == {"confirmed", "failed", "unknown"}

TypeOK ==
    /\ JournalTypeOK
    /\ pc \in [Procs -> {"down", "loading", "idle", "creating", "purging",
                         "recreating", "created"}]
    /\ arg \in [Procs -> Ops \cup {NoOp}]
    /\ victim \in [Procs -> Ops \cup {NoOp}]
    /\ mem \in [Procs -> [Ops -> MemState]]
    /\ index \in [Procs -> [Requests -> Ops \cup {NoOp}]]
    /\ caller \in [Ops -> Procs \cup {NoProc}]
    /\ tx \in [Ops -> {"none", "live", "landed", "dropped"}]
    /\ looked \in [Procs -> SUBSET (Ops \X Outcome)]
    /\ crashes \in Nat

Forgotten == [o \in Ops |-> "none"]
NoIndex   == [r \in Requests |-> NoOp]

Init ==
    /\ JournalInit
    /\ pc = [p \in Procs |-> "down"]
    /\ arg = [p \in Procs |-> NoOp]
    /\ victim = [p \in Procs |-> NoOp]
    /\ mem = [p \in Procs |-> Forgotten]
    /\ index = [p \in Procs |-> NoIndex]
    /\ caller = [o \in Ops |-> NoProc]
    /\ tx = [o \in Ops |-> "none"]
    /\ looked = [p \in Procs |-> {}]
    /\ crashes = 0

-----------------------------------------------------------------------------
(***************************************************************************)
(* Construction of a gateway: recover the journal, then load it.           *)
(***************************************************************************)
Recover(p) ==
    /\ pc[p] = "down"
    /\ RecoverNonTerminalOperations
    /\ pc' = [pc EXCEPT ![p] = "loading"]
    /\ UNCHANGED <<reqOf, arg, victim, memVars, caller, tx, looked, crashes>>

\* reloadFromJournal: the newest CacheCap confirmed operations and every
\* broadcast or unknown one, read in two queries that are taken as one step.
\* Which confirmed ones are newest is left open.
Load(p) ==
    LET confirmed == {o \in Ops : row[o] = "confirmed"} IN
    /\ pc[p] = "loading"
    /\ \E newest \in SUBSET confirmed :
          /\ newest = confirmed \/ Cardinality(newest) = CacheCap
          /\ Cardinality(newest) <= CacheCap
          /\ LET loaded == newest \cup {o \in Ops : row[o] \in Reconcilable} IN
             /\ mem' = [mem EXCEPT ![p] =
                          [o \in Ops |-> IF o \in loaded THEN row[o] ELSE "none"]]
             /\ index' = [index EXCEPT ![p] =
                            [r \in Requests |->
                               IF keyTab[r] \in loaded THEN keyTab[r] ELSE NoOp]]
    /\ pc' = [pc EXCEPT ![p] = "idle"]
    /\ UNCHANGED <<journalVars, arg, victim, caller, tx, looked, crashes>>

-----------------------------------------------------------------------------
(***************************************************************************)
(* execute(): the synchronous part, up to the wallet call.                 *)
(***************************************************************************)

\* What the in-memory index knows about a request.
Known(p, r) == IF index[p][r] = NoOp THEN "none" ELSE mem[p][index[p][r]]

Mint(p, r, o) ==
    /\ reqOf[o] = NoRequest
    /\ reqOf' = [reqOf EXCEPT ![o] = r]
    /\ arg' = [arg EXCEPT ![p] = o]

\* A request memory does not know (or left in "created") gets a new operation
\* id.  A request memory knows as confirmed is replayed, one in progress or
\* unknown is refused: neither changes the state.
Execute(p, r) ==
    /\ pc[p] = "idle"
    /\ Known(p, r) \in {"none", "created"}
    /\ \E o \in Ops : Mint(p, r, o)
    /\ pc' = [pc EXCEPT ![p] = "creating"]
    /\ UNCHANGED <<row, keyTab, walletLock, jobLock, victim, memVars, caller, tx,
                   looked, crashes>>

\* Mutant: an unknown operation is retried like a failed one.
ExecuteAgainUnknown(p, r) ==
    /\ pc[p] = "idle"
    /\ Known(p, r) \in Retryable \cup {"unknown"}
    /\ \E o \in Ops : Mint(p, r, o)
    /\ DeleteOperation(index[p][r])
    /\ mem' = [mem EXCEPT ![p][index[p][r]] = "none"]
    /\ index' = [index EXCEPT ![p][r] = NoOp]
    /\ pc' = [pc EXCEPT ![p] = "creating"]
    /\ UNCHANGED <<victim, caller, tx, looked, crashes>>

\* "failed/cancelled: safe to re-execute": the old operation is deleted first.
ExecuteAgain(p, r) ==
    /\ pc[p] = "idle"
    /\ Known(p, r) \in Retryable
    /\ \E o \in Ops : Mint(p, r, o)
    /\ DeleteOperation(index[p][r])
    /\ mem' = [mem EXCEPT ![p][index[p][r]] = "none"]
    /\ index' = [index EXCEPT ![p][r] = NoOp]
    /\ pc' = [pc EXCEPT ![p] = "creating"]
    /\ UNCHANGED <<victim, caller, tx, looked, crashes>>

Create(p) ==
    LET o == arg[p]
        r == reqOf[o]
    IN
    /\ pc[p] \in {"creating", "recreating"}
    /\ CreateOperation(o, r)
    /\ mem' = [mem EXCEPT ![p][o] = "created"]
    /\ index' = [index EXCEPT ![p][r] = o]
    /\ pc' = [pc EXCEPT ![p] = "created"]
    /\ UNCHANGED <<reqOf, arg, victim, caller, tx, looked, crashes>>

\* IDEMPOTENCY_KEY_EXISTS on a failed or cancelled operation that memory did
\* not know: it is to be deleted and the creation tried once more.
FoundStale(p) ==
    KeyExists(reqOf[arg[p]]) /\ row[keyTab[reqOf[arg[p]]]] \in Retryable

CreateFindsStale(p) ==
    /\ pc[p] = "creating"
    /\ FoundStale(p)
    /\ victim' = [victim EXCEPT ![p] = keyTab[reqOf[arg[p]]]]
    /\ pc' = [pc EXCEPT ![p] = "purging"]
    /\ UNCHANGED <<journalVars, arg, memVars, caller, tx, looked, crashes>>

DeleteStale(p) ==
    /\ pc[p] = "purging"
    /\ DeleteOperation(victim[p])
    /\ mem' = [mem EXCEPT ![p][victim[p]] = "none"]
    /\ index' = [index EXCEPT ![p][reqOf[arg[p]]] = NoOp]
    /\ victim' = [victim EXCEPT ![p] = NoOp]
    /\ pc' = [pc EXCEPT ![p] = "recreating"]
    /\ UNCHANGED <<reqOf, arg, caller, tx, looked, crashes>>

\* Every other refusal (replay of a confirmed operation, in progress, unknown,
\* key conflict, wallet or job locked) ends the call; the minted id was never
\* seen outside it and counts as unused.
CreateRefused(p) ==
    /\ pc[p] \in {"creating", "recreating"}
    /\ ~CanCreate(reqOf[arg[p]])
    /\ ~(pc[p] = "creating" /\ FoundStale(p))
    /\ reqOf' = [reqOf EXCEPT ![arg[p]] = NoRequest]
    /\ arg' = [arg EXCEPT ![p] = NoOp]
    /\ pc' = [pc EXCEPT ![p] = "idle"]
    /\ UNCHANGED <<row, keyTab, walletLock, jobLock, victim, memVars, caller, tx,
                   looked, crashes>>

\* No wallet configured: failed at once, in memory and in the journal.
FailWithoutWallet(p) ==
    /\ pc[p] = "created"
    /\ WalletOf[reqOf[arg[p]]] = NoWallet
    /\ Settle(arg[p], "failed")
    /\ mem' = [mem EXCEPT ![p][arg[p]] = "failed"]
    /\ arg' = [arg EXCEPT ![p] = NoOp]
    /\ pc' = [pc EXCEPT ![p] = "idle"]
    /\ UNCHANGED <<reqOf, index, victim, caller, tx, looked, crashes>>

\* policyGuard.assertAllowed or reserveSpend throws out of execute(): the row,
\* the key and the locks that were just created stay as they are.
PolicyRefuses(p) ==
    /\ pc[p] = "created"
    /\ reqOf[arg[p]] \in RefusedByPolicy
    /\ WalletOf[reqOf[arg[p]]] # NoWallet
    /\ arg' = [arg EXCEPT ![p] = NoOp]
    /\ pc' = [pc EXCEPT ![p] = "idle"]
    /\ UNCHANGED <<journalVars, memVars, victim, caller, tx, looked, crashes>>

\* The state becomes executing in memory only, and the wallet call is issued.
Send(p) ==
    /\ pc[p] = "created"
    /\ WalletOf[reqOf[arg[p]]] # NoWallet
    /\ mem' = [mem EXCEPT ![p][arg[p]] = "executing"]
    /\ caller' = [caller EXCEPT ![arg[p]] = p]
    /\ tx' = [tx EXCEPT ![arg[p]] = "live"]
    /\ arg' = [arg EXCEPT ![p] = NoOp]
    /\ pc' = [pc EXCEPT ![p] = "idle"]
    /\ UNCHANGED <<journalVars, index, victim, looked, crashes>>

-----------------------------------------------------------------------------
(***************************************************************************)
(* The wallet service and the chain.                                       *)
(***************************************************************************)
Land(o) ==
    /\ tx[o] = "live"
    /\ tx' = [tx EXCEPT ![o] = "landed"]
    /\ UNCHANGED <<journalVars, procVars, memVars, caller, looked, crashes>>

Drop(o) ==
    /\ tx[o] = "live"
    /\ tx' = [tx EXCEPT ![o] = "dropped"]
    /\ UNCHANGED <<journalVars, procVars, memVars, caller, looked, crashes>>

-----------------------------------------------------------------------------
(***************************************************************************)
(* execute(): after the wallet call.  classifyCircleResult turns a returned*)
(* result, or a thrown error, into a state.                                *)
(***************************************************************************)
ClassifiedResult(o) ==
    {"unknown", "broadcast"}
      \cup (IF tx[o] = "landed" THEN {"confirmed"} ELSE {})
      \cup (IF tx[o] = "dropped" THEN {"failed", "cancelled"} ELSE {})

\* Mutant: a timeout counts as a failure.
ClassifiedAsFailed(o) == {"unknown", "failed"}

ClassifiedError(o) ==
    {"unknown"} \cup (IF LateErrors \/ tx[o] = "dropped" THEN {"failed"} ELSE {})

\* Mutant: the journal gets the state memory still has.
FinalizeAsExecuting(p, o, s) ==
    /\ Settle(o, mem[p][o])
    /\ mem' = [mem EXCEPT ![p][o] = s]
    /\ caller' = [caller EXCEPT ![o] = NoProc]
    /\ UNCHANGED <<reqOf, procVars, index, tx, looked, crashes>>

\* finalizeOperation, then the same state in memory.
FinalizeAs(p, o, s) ==
    /\ Settle(o, s)
    /\ mem' = [mem EXCEPT ![p][o] = s]
    /\ caller' = [caller EXCEPT ![o] = NoProc]
    /\ UNCHANGED <<reqOf, procVars, index, tx, looked, crashes>>

\* A result is stored in operation_results, which references the row.
Returns(p, o) ==
    /\ pc[p] = "idle" /\ caller[o] = p
    /\ row[o] # "none"
    /\ \E s \in ClassifiedResult(o) : FinalizeAs(p, o, s)

\* The row is gone: the foreign key aborts the transaction, the exception
\* leaves execute(), and memory keeps saying executing.
ReturnsToNoRow(p, o) ==
    /\ pc[p] = "idle" /\ caller[o] = p
    /\ row[o] = "none"
    /\ caller' = [caller EXCEPT ![o] = NoProc]
    /\ UNCHANGED <<journalVars, procVars, memVars, tx, looked, crashes>>

Throws(p, o) ==
    /\ pc[p] = "idle" /\ caller[o] = p
    /\ \E s \in ClassifiedError(o) : FinalizeAs(p, o, s)

-----------------------------------------------------------------------------
(***************************************************************************)
(* Reconciliation: a worker (or an operator) lists the broadcast and       *)
(* unknown operations, awaits a look at the chain, then calls              *)
(* reconcileBroadcast, which trusts what this process has in memory.       *)
(***************************************************************************)

\* verifyPostcondition: a different budget on chain fails a setBudget, also
\* while the write is still on its way.
Verdicts(o) ==
    {"unknown"}
      \cup (IF tx[o] = "landed" THEN {"confirmed"} ELSE {})
      \cup (IF tx[o] = "dropped" \/ (tx[o] = "live" /\ reqOf[o] \in SetBudget)
              THEN {"failed"} ELSE {})

VerifyPostcondition(p, o, v) ==
    /\ pc[p] = "idle"
    /\ Cardinality(looked[p]) < MaxLooks
    /\ row[o] \in Reconcilable
    /\ v \in Verdicts(o)
    /\ looked' = [looked EXCEPT ![p] = @ \cup {<<o, v>>}]
    /\ UNCHANGED <<journalVars, procVars, memVars, caller, tx, crashes>>

\* Mutants: reconciliation leaves memory alone, or does not look at it.
ReconcileJournalOnly(p, o, v) ==
    /\ pc[p] = "idle"
    /\ <<o, v>> \in looked[p]
    /\ IF mem[p][o] \in Reconcilable THEN Settle(o, v)
                                    ELSE UNCHANGED <<row, keyTab, walletLock, jobLock>>
    /\ looked' = [looked EXCEPT ![p] = @ \ {<<o, v>>}]
    /\ UNCHANGED <<reqOf, procVars, memVars, caller, tx, crashes>>

ReconcileBlindly(p, o, v) ==
    /\ pc[p] = "idle"
    /\ <<o, v>> \in looked[p]
    /\ Settle(o, v)
    /\ mem' = [mem EXCEPT ![p][o] = v]
    /\ looked' = [looked EXCEPT ![p] = @ \ {<<o, v>>}]
    /\ UNCHANGED <<reqOf, procVars, index, caller, tx, crashes>>

ReconcileBroadcast(p, o, v) ==
    /\ pc[p] = "idle"
    /\ <<o, v>> \in looked[p]
    /\ IF mem[p][o] \in Reconcilable
         THEN /\ Settle(o, v)
              /\ mem' = [mem EXCEPT ![p][o] = v]
         ELSE UNCHANGED <<row, keyTab, walletLock, jobLock, mem>>
    /\ looked' = [looked EXCEPT ![p] = @ \ {<<o, v>>}]
    /\ UNCHANGED <<reqOf, procVars, index, caller, tx, crashes>>

-----------------------------------------------------------------------------
\* The process dies: its memory, its calls and its place in execute() are
\* gone; the journal and the wallet service do not notice.
Crash(p) ==
    /\ pc[p] # "down"
    /\ crashes < MaxCrashes
    /\ crashes' = crashes + 1
    /\ pc' = [pc EXCEPT ![p] = "down"]
    /\ arg' = [arg EXCEPT ![p] = NoOp]
    /\ victim' = [victim EXCEPT ![p] = NoOp]
    /\ mem' = [mem EXCEPT ![p] = Forgotten]
    /\ index' = [index EXCEPT ![p] = NoIndex]
    /\ caller' = [o \in Ops |-> IF caller[o] = p THEN NoProc ELSE caller[o]]
    /\ looked' = [looked EXCEPT ![p] = {}]
    /\ UNCHANGED <<journalVars, tx>>

Proceed(p) ==
    \/ Recover(p) \/ Load(p)
    \/ Create(p) \/ CreateFindsStale(p) \/ DeleteStale(p) \/ CreateRefused(p)
    \/ FailWithoutWallet(p) \/ PolicyRefuses(p) \/ Send(p)

Complete(p, o) == Returns(p, o) \/ ReturnsToNoRow(p, o) \/ Throws(p, o)

Next ==
    \/ \E p \in Procs :
          \/ Proceed(p)
          \/ \E r \in Requests : Execute(p, r) \/ ExecuteAgain(p, r)
          \/ \E o \in Ops : Complete(p, o)
          \/ \E o \in Ops, v \in Outcome :
                VerifyPostcondition(p, o, v) \/ ReconcileBroadcast(p, o, v)
          \/ Crash(p)
    \/ \E o \in Ops : Land(o) \/ Drop(o)

Spec == Init /\ [][Next]_vars

\* What the code's scheduling justifies: the process manager restarts a dead
\* process and a synchronous section runs on; the wallet adapter gives up after
\* 120 s, and the event loop serves a settled promise whatever other calls come
\* in between (hence SF); a write lands or is dropped; somebody - a worker when
\* it starts, an operator - looks at an unresolved operation until the chain
\* is conclusive.
Conclusive == {"confirmed", "failed"}

Fairness ==
    /\ \A p \in Procs :
          /\ WF_vars(Proceed(p))
          /\ SF_vars(\E o \in Ops : Complete(p, o))
          /\ SF_vars(\E o \in Ops, v \in Conclusive : VerifyPostcondition(p, o, v))
          /\ SF_vars(\E o \in Ops, v \in Outcome : ReconcileBroadcast(p, o, v))
    /\ WF_vars(\E o \in Ops : Land(o) \/ Drop(o))

FairSpec == Spec /\ Fairness

-----------------------------------------------------------------------------
(***************************************************************************)
(* Properties.                                                             *)
(***************************************************************************)
SameWallet(o, q) ==
    WalletOf[reqOf[o]] = WalletOf[reqOf[q]] /\ WalletOf[reqOf[o]] # NoWallet
SameJob(o, q)    == JobOf[reqOf[o]] = JobOf[reqOf[q]] /\ JobOf[reqOf[o]] # NoJob

\* "One active write per wallet", "one active write per ERC-8183 job": no two
\* wallet calls that concern one wallet or one job are awaited at once.
OneWriteInFlight ==
    \A o, q \in Ops :
        o # q /\ caller[o] # NoProc /\ caller[q] # NoProc
          => ~SameWallet(o, q) /\ ~SameJob(o, q)

\* The maps of a running gateway are a cache of the journal that is never
\* stale, except that an operation being executed is still created on disk.
MemoryAgrees ==
    \A p \in Procs :
        /\ \A o \in Ops : mem[p][o] # "none" =>
              row[o] = IF mem[p][o] = "executing" THEN "created" ELSE mem[p][o]
        /\ \A r \in Requests : index[p][r] # NoOp => keyTab[r] = index[p][r]

\* A confirmed operation stays confirmed and is never deleted, however late a
\* retry, a reconciliation or a recovery comes.
ConfirmedIsFinal ==
    [][\A o \in Ops : row[o] = "confirmed" => row'[o] = "confirmed"]_vars

\* "No rebroadcast while original operation is unknown": no write is sent for
\* a wallet, a job or a request with an operation whose outcome is open.
UnresolvedBlocksSend ==
    [][\A o, q \in Ops :
          tx[o] = "none" /\ tx'[o] = "live" /\ o # q /\ row[q] \in Reconcilable
            => ~SameWallet(o, q) /\ ~SameJob(o, q) /\ reqOf[o] # reqOf[q]]_vars

\* "failed/cancelled: safe to re-execute": what is retried cannot land.
FailedIsSafe ==
    \A o \in Ops : row[o] \in Retryable => tx[o] \in {"none", "dropped"}

\* A request is never on its way, or on chain, twice.
NoDoubleExecution ==
    \A o, q \in Ops :
        o # q /\ reqOf[o] = reqOf[q] /\ tx[o] \in {"live", "landed"}
          => tx[q] \notin {"live", "landed"}

\* "never reached wallet adapter -> safe to fail + release locks": what the
\* recovery at startup fails was never sent.
RecoveryFailsOnlyUnsent ==
    [][\A p \in Procs, o \in Ops :
          pc[p] = "down" /\ pc'[p] = "loading" /\ row[o] # "failed" /\ row'[o] = "failed"
            => tx[o] = "none"]_vars

\* Every write that enters the gateway is finalized.
EveryWriteIsFinalized ==
    \A o \in Ops : row[o] = "created" ~> row[o] # "created"

\* No wallet and no job stays locked for ever.
LocksAreReleased ==
    /\ \A w \in Wallets : walletLock[w] # NoOp ~> walletLock[w] = NoOp
    /\ \A j \in Jobs : jobLock[j] # NoOp ~> jobLock[j] = NoOp
=============================================================================
