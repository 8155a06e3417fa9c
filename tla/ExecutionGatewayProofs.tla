----------------------- MODULE ExecutionGatewayProofs -----------------------
(***************************************************************************)
(* Theorems about ExecutionGateway and its journal, for every value of the *)
(* constants: first what holds for any number of processes, then what one  *)
(* process keeps true, last that the gateway implements the abstract locks.*)
(***************************************************************************)
EXTENDS GatewayRefinement, TLAPS

USE JournalAssumption, GatewayAssumption

(***************************************************************************)
(* What each transaction of the operation journal keeps true.  The lemmas  *)
(* say nothing of who calls: their hypotheses are the conditions under     *)
(* which the gateway calls.                                                *)
(***************************************************************************)
JournalInv == JournalTypeOK /\ KeysConsistent /\ NoLeakedLock

LEMMA InitJournalInv == JournalInit => JournalInv
  BY DEF JournalInit, JournalInv, JournalTypeOK, KeysConsistent, NoLeakedLock,
         RowState, Active, KeyExists

LEMMA UnchangedJournalInv == JournalInv /\ UNCHANGED journalVars => JournalInv'
  BY DEF journalVars, JournalInv, JournalTypeOK, KeysConsistent, NoLeakedLock, KeyExists

\* The row of an operation is created at most once, under its own request.
LEMMA CreateKeepsJournalInv ==
  ASSUME JournalInv, NEW o \in Ops, NEW r \in Requests,
         row[o] = "none", reqOf[o] = r, CreateOperation(o, r), UNCHANGED reqOf
  PROVE  JournalInv'
  <1> USE DEF CreateOperation, CanCreate, KeyExists, JournalInv
  <1>1. JournalTypeOK'
    BY DEF JournalTypeOK, RowState, Active
  <1>2. KeysConsistent'
    BY DEF JournalTypeOK, KeysConsistent, KeyConflicts
  <1>3. NoLeakedLock'
    BY DEF JournalTypeOK, NoLeakedLock, Active
  <1> QED
    BY <1>1, <1>2, <1>3

\* The state written is one of those an operation can settle in.
LEMMA SettleKeepsJournalInv ==
  ASSUME JournalInv, NEW o \in Ops, NEW s \in Reconcilable \cup Terminal,
         Settle(o, s), UNCHANGED reqOf
  PROVE  JournalInv'
  <1> USE DEF Settle, SetState, ReleaseLocks, JournalInv, Active, Terminal, Retryable,
              Reconcilable
  <1>1. JournalTypeOK'
    BY DEF JournalTypeOK, RowState
  <1>2. KeysConsistent'
    BY DEF JournalTypeOK, KeysConsistent, KeyExists
  <1>3. NoLeakedLock'
    BY DEF JournalTypeOK, NoLeakedLock
  <1> QED
    BY <1>1, <1>2, <1>3

\* Ids without a row may be minted for a request, or given up, meanwhile.
LEMMA DeleteKeepsJournalInv ==
  ASSUME JournalInv, NEW o, DeleteOperation(o),
         reqOf' \in [Ops -> Requests \cup {NoRequest}],
         \A x \in Ops : row[x] # "none" => reqOf'[x] = reqOf[x]
  PROVE  JournalInv'
  <1> USE DEF DeleteOperation, ReleaseLocks, JournalInv
  <1>1. JournalTypeOK'
    BY DEF JournalTypeOK, RowState
  <1>2. KeysConsistent'
    BY DEF JournalTypeOK, KeysConsistent, KeyExists
  <1>3. NoLeakedLock'
    BY DEF JournalTypeOK, NoLeakedLock, Active, Reconcilable
  <1> QED
    BY <1>1, <1>2, <1>3

LEMMA RelabelKeepsJournalInv ==
  ASSUME JournalInv, UNCHANGED <<row, keyTab, walletLock, jobLock>>,
         reqOf' \in [Ops -> Requests \cup {NoRequest}],
         \A x \in Ops : row[x] # "none" => reqOf'[x] = reqOf[x]
  PROVE  JournalInv'
  <1> USE DEF JournalInv
  <1>1. JournalTypeOK'
    BY DEF JournalTypeOK
  <1>2. KeysConsistent'
    BY DEF JournalTypeOK, KeysConsistent, KeyExists
  <1>3. NoLeakedLock'
    BY DEF JournalTypeOK, NoLeakedLock, Active, Reconcilable
  <1> QED
    BY <1>1, <1>2, <1>3

LEMMA RecoverKeepsJournalInv ==
  ASSUME JournalInv, RecoverNonTerminalOperations, UNCHANGED reqOf
  PROVE  JournalInv'
  <1> USE DEF RecoverNonTerminalOperations, ReleaseLocks, JournalInv
  <1>1. JournalTypeOK'
    BY DEF JournalTypeOK, RowState, Terminal, Retryable
  <1>2. KeysConsistent'
    BY DEF JournalTypeOK, KeysConsistent, KeyExists
  <1>3. NoLeakedLock'
    BY DEF JournalTypeOK, NoLeakedLock, Active, Reconcilable
  <1> QED
    BY <1>1, <1>2, <1>3

-----------------------------------------------------------------------------
(***************************************************************************)
(* The same for ActiveHoldsLocks, which only holds as long as nobody       *)
(* settles an operation a second time.                                     *)
(***************************************************************************)
LEMMA CreateKeepsLocks ==
  ASSUME JournalInv, ActiveHoldsLocks, NEW o \in Ops, NEW r \in Requests,
         row[o] = "none", reqOf[o] = r, CreateOperation(o, r), UNCHANGED reqOf
  PROVE  ActiveHoldsLocks'
  BY DEF CreateOperation, CanCreate, WalletLocked, JobLocked, JournalInv, JournalTypeOK,
         KeysConsistent, ActiveHoldsLocks, Active, Reconcilable

LEMMA SettleKeepsLocks ==
  ASSUME JournalInv, ActiveHoldsLocks, NEW o \in Ops,
         NEW s \in Reconcilable \cup Terminal,
         row[o] \in Active, Settle(o, s), UNCHANGED reqOf
  PROVE  ActiveHoldsLocks'
  BY DEF Settle, SetState, ReleaseLocks, JournalInv, JournalTypeOK, KeysConsistent,
         ActiveHoldsLocks, Active, Terminal, Retryable, Reconcilable

LEMMA DeleteKeepsLocks ==
  ASSUME JournalInv, ActiveHoldsLocks, NEW o, DeleteOperation(o),
         \A x \in Ops : row[x] # "none" => reqOf'[x] = reqOf[x]
  PROVE  ActiveHoldsLocks'
  BY DEF DeleteOperation, ReleaseLocks, JournalInv, JournalTypeOK, KeysConsistent,
         ActiveHoldsLocks, Active, Reconcilable

LEMMA RelabelKeepsLocks ==
  ASSUME ActiveHoldsLocks, UNCHANGED <<row, keyTab, walletLock, jobLock>>,
         \A x \in Ops : row[x] # "none" => reqOf'[x] = reqOf[x]
  PROVE  ActiveHoldsLocks'
  BY DEF ActiveHoldsLocks, Active, Reconcilable

LEMMA RecoverKeepsLocks ==
  ASSUME JournalInv, ActiveHoldsLocks, RecoverNonTerminalOperations, UNCHANGED reqOf
  PROVE  ActiveHoldsLocks'
  BY DEF RecoverNonTerminalOperations, ReleaseLocks, JournalInv, JournalTypeOK,
         KeysConsistent, ActiveHoldsLocks, Active, Reconcilable

-----------------------------------------------------------------------------
(***************************************************************************)
(* The inductive invariant behind type correctness and the consistency of  *)
(* the journal.  While a process is minting, its new operation id is known *)
(* to nobody else and has no row yet.                                      *)
(***************************************************************************)
Minting(p) == pc[p] \in {"creating", "purging", "recreating"}
Busy(p)    == Minting(p) \/ pc[p] = "created"

MintedIsPrivate ==
    /\ \A p \in Procs : Busy(p) => arg[p] \in Ops /\ reqOf[arg[p]] \in Requests
    /\ \A p \in Procs : Minting(p) => row[arg[p]] = "none"
    /\ \A p, q \in Procs : p # q /\ Minting(p) /\ Busy(q) => arg[p] # arg[q]

GatewayInv == TypeOK /\ JournalInv /\ MintedIsPrivate

LEMMA InitGatewayInv == Init => GatewayInv
  <1> SUFFICES ASSUME Init PROVE GatewayInv
    OBVIOUS
  <1>1. JournalInv
    BY InitJournalInv DEF Init
  <1>2. TypeOK
    BY <1>1 DEF Init, TypeOK, JournalInv, MemState, RowState, Forgotten, NoIndex
  <1>3. MintedIsPrivate
    BY DEF Init, MintedIsPrivate, Minting, Busy
  <1> QED
    BY <1>1, <1>2, <1>3 DEF GatewayInv

\* The states a result, an error or a verdict can be turned into.
LEMMA OutcomeStates ==
  /\ \A o \in Ops : ClassifiedResult(o) \cup ClassifiedError(o)
                      \subseteq Reconcilable \cup Terminal
  /\ Outcome \subseteq Reconcilable \cup Terminal
  /\ "failed" \in Terminal
  /\ Reconcilable \cup Terminal \subseteq MemState
  /\ RowState \subseteq MemState
  /\ {"none", "created", "failed", "executing"} \subseteq MemState
  BY DEF ClassifiedResult, ClassifiedError, Outcome, MemState, RowState, Active,
         Terminal, Retryable, Reconcilable

LEMMA NextGatewayInv == GatewayInv /\ [Next]_vars => GatewayInv'
  <1> SUFFICES ASSUME GatewayInv, [Next]_vars PROVE GatewayInv'
    OBVIOUS
  <1> USE OutcomeStates DEF GatewayInv
  <1>1. ASSUME NEW p \in Procs, Recover(p) PROVE GatewayInv'
    <2>1. JournalInv'
      BY <1>1, RecoverKeepsJournalInv DEF Recover
    <2>2. TypeOK'
      BY <1>1, <2>1 DEF Recover, TypeOK, JournalInv, memVars
    <2>3. MintedIsPrivate'
      BY <1>1 DEF Recover, RecoverNonTerminalOperations, TypeOK, JournalTypeOK,
                  MintedIsPrivate, Minting, Busy
    <2> QED
      BY <2>1, <2>2, <2>3
  <1>2. ASSUME NEW p \in Procs, Load(p) PROVE GatewayInv'
    <2>1. JournalInv'
      BY <1>2, UnchangedJournalInv DEF Load
    <2>2. PICK loaded \in SUBSET Ops :
            /\ mem' = [mem EXCEPT ![p] =
                         [o \in Ops |-> IF o \in loaded THEN row[o] ELSE "none"]]
            /\ index' = [index EXCEPT ![p] =
                           [r \in Requests |->
                              IF keyTab[r] \in loaded THEN keyTab[r] ELSE NoOp]]
      BY <1>2 DEF Load
    <2>3. mem' \in [Procs -> [Ops -> MemState]]
      BY <2>2 DEF TypeOK, JournalTypeOK
    <2>4. index' \in [Procs -> [Requests -> Ops \cup {NoOp}]]
      BY <2>2 DEF TypeOK, JournalTypeOK
    <2>5. TypeOK'
      BY <1>2, <2>1, <2>3, <2>4 DEF Load, TypeOK, JournalInv
    <2>6. MintedIsPrivate'
      BY <1>2 DEF Load, journalVars, TypeOK, MintedIsPrivate, Minting, Busy
    <2> QED
      BY <2>1, <2>5, <2>6
  <1>3. ASSUME NEW p \in Procs, NEW r \in Requests, Execute(p, r) PROVE GatewayInv'
    <2>1. JournalInv'
      BY <1>3, RelabelKeepsJournalInv
      DEF Execute, Mint, JournalInv, KeysConsistent, TypeOK, JournalTypeOK
    <2>2. TypeOK'
      BY <1>3, <2>1 DEF Execute, Mint, TypeOK, JournalInv, memVars
    <2>3. MintedIsPrivate'
      BY <1>3 DEF Execute, Mint, TypeOK, JournalTypeOK, JournalInv, KeysConsistent,
                  MintedIsPrivate, Minting, Busy
    <2> QED
      BY <2>1, <2>2, <2>3
  <1>4. ASSUME NEW p \in Procs, NEW r \in Requests, ExecuteAgain(p, r)
        PROVE  GatewayInv'
    <2>1. PICK o \in Ops : Mint(p, r, o)
      BY <1>4 DEF ExecuteAgain
    <2>2. row[o] = "none" /\ \A q \in Procs : Busy(q) => arg[q] # o
      BY <2>1 DEF Mint, JournalInv, KeysConsistent, MintedIsPrivate
    <2>3. JournalInv'
      BY <1>4, <2>1, <2>2, DeleteKeepsJournalInv
      DEF ExecuteAgain, Mint, TypeOK, JournalTypeOK
    <2>4. mem' \in [Procs -> [Ops -> MemState]]
      BY <1>4 DEF ExecuteAgain, TypeOK
    <2>5. TypeOK'
      BY <1>4, <2>1, <2>3, <2>4 DEF ExecuteAgain, Mint, TypeOK, JournalInv
    <2>6. MintedIsPrivate'
      BY <1>4, <2>1, <2>2
      DEF ExecuteAgain, DeleteOperation, Mint, TypeOK, JournalTypeOK, MintedIsPrivate,
          Minting, Busy
    <2> QED
      BY <2>3, <2>5, <2>6
  <1>5. ASSUME NEW p \in Procs, Create(p) PROVE GatewayInv'
    <2>1. JournalInv'
      BY <1>5, CreateKeepsJournalInv DEF Create, MintedIsPrivate, Minting, Busy
    <2>2. TypeOK'
      BY <1>5, <2>1 DEF Create, TypeOK, JournalInv
    <2>3. MintedIsPrivate'
      BY <1>5
      DEF Create, CreateOperation, TypeOK, JournalTypeOK, MintedIsPrivate, Minting,
          Busy
    <2> QED
      BY <2>1, <2>2, <2>3
  <1>6. ASSUME NEW p \in Procs, CreateFindsStale(p) PROVE GatewayInv'
    <2>1. JournalInv'
      BY <1>6, UnchangedJournalInv DEF CreateFindsStale
    <2>2. TypeOK'
      BY <1>6, <2>1
      DEF CreateFindsStale, memVars, TypeOK, JournalTypeOK, JournalInv,
          MintedIsPrivate, Minting, Busy
    <2>3. MintedIsPrivate'
      BY <1>6
      DEF CreateFindsStale, journalVars, TypeOK, MintedIsPrivate, Minting, Busy
    <2> QED
      BY <2>1, <2>2, <2>3
  <1>7. ASSUME NEW p \in Procs, DeleteStale(p) PROVE GatewayInv'
    <2>1. JournalInv'
      BY <1>7, DeleteKeepsJournalInv DEF DeleteStale, TypeOK, JournalTypeOK
    <2>2. TypeOK'
      BY <1>7, <2>1 DEF DeleteStale, TypeOK, JournalInv
    <2>3. MintedIsPrivate'
      BY <1>7
      DEF DeleteStale, DeleteOperation, TypeOK, JournalTypeOK, MintedIsPrivate,
          Minting, Busy
    <2> QED
      BY <2>1, <2>2, <2>3
  <1>8. ASSUME NEW p \in Procs, CreateRefused(p) PROVE GatewayInv'
    <2>1. JournalInv'
      BY <1>8, RelabelKeepsJournalInv
      DEF CreateRefused, TypeOK, JournalTypeOK, MintedIsPrivate, Minting, Busy
    <2>2. TypeOK'
      BY <1>8, <2>1 DEF CreateRefused, TypeOK, JournalInv, memVars
    <2>3. MintedIsPrivate'
      BY <1>8 DEF CreateRefused, TypeOK, JournalTypeOK, MintedIsPrivate, Minting, Busy
    <2> QED
      BY <2>1, <2>2, <2>3
  <1>9. ASSUME NEW p \in Procs, FailWithoutWallet(p) PROVE GatewayInv'
    <2>1. JournalInv'
      BY <1>9, SettleKeepsJournalInv
      DEF FailWithoutWallet, MintedIsPrivate, Minting, Busy
    <2>2. TypeOK'
      BY <1>9, <2>1 DEF FailWithoutWallet, TypeOK, JournalInv
    <2>3. MintedIsPrivate'
      BY <1>9
      DEF FailWithoutWallet, Settle, SetState, TypeOK, JournalTypeOK, MintedIsPrivate,
          Minting, Busy
    <2> QED
      BY <2>1, <2>2, <2>3
  <1>10. ASSUME NEW p \in Procs, PolicyRefuses(p) PROVE GatewayInv'
    <2>1. JournalInv'
      BY <1>10, UnchangedJournalInv DEF PolicyRefuses
    <2>2. TypeOK'
      BY <1>10, <2>1 DEF PolicyRefuses, TypeOK, JournalInv, memVars
    <2>3. MintedIsPrivate'
      BY <1>10 DEF PolicyRefuses, journalVars, TypeOK, MintedIsPrivate, Minting, Busy
    <2> QED
      BY <2>1, <2>2, <2>3
  <1>11. ASSUME NEW p \in Procs, Send(p) PROVE GatewayInv'
    <2>1. JournalInv'
      BY <1>11, UnchangedJournalInv DEF Send
    <2>2. TypeOK'
      BY <1>11, <2>1 DEF Send, TypeOK, JournalInv
    <2>3. MintedIsPrivate'
      BY <1>11 DEF Send, journalVars, TypeOK, MintedIsPrivate, Minting, Busy
    <2> QED
      BY <2>1, <2>2, <2>3
  <1>12. ASSUME NEW o \in Ops, Land(o) \/ Drop(o) PROVE GatewayInv'
    <2>1. JournalInv'
      BY <1>12, UnchangedJournalInv DEF Land, Drop
    <2>2. TypeOK'
      BY <1>12, <2>1 DEF Land, Drop, TypeOK, JournalInv, procVars, memVars
    <2>3. MintedIsPrivate'
      BY <1>12 DEF Land, Drop, journalVars, procVars, MintedIsPrivate, Minting, Busy
    <2> QED
      BY <2>1, <2>2, <2>3
  <1>13. ASSUME NEW p \in Procs, NEW o \in Ops, Returns(p, o) \/ Throws(p, o)
         PROVE  GatewayInv'
    <2>1. PICK s \in Reconcilable \cup Terminal : FinalizeAs(p, o, s)
      BY <1>13 DEF Returns, Throws
    <2>2. JournalInv'
      BY <2>1, SettleKeepsJournalInv DEF FinalizeAs
    <2>3. TypeOK'
      BY <2>1, <2>2 DEF FinalizeAs, TypeOK, JournalInv, procVars
    <2>4. MintedIsPrivate'
      BY <2>1
      DEF FinalizeAs, Settle, SetState, procVars, TypeOK, JournalTypeOK,
          MintedIsPrivate, Minting, Busy
    <2> QED
      BY <2>2, <2>3, <2>4
  <1>14. ASSUME NEW p \in Procs, NEW o \in Ops, ReturnsToNoRow(p, o) PROVE GatewayInv'
    <2>1. JournalInv'
      BY <1>14, UnchangedJournalInv DEF ReturnsToNoRow
    <2>2. TypeOK'
      BY <1>14, <2>1 DEF ReturnsToNoRow, TypeOK, JournalInv, procVars, memVars
    <2>3. MintedIsPrivate'
      BY <1>14
      DEF ReturnsToNoRow, journalVars, procVars, MintedIsPrivate, Minting, Busy
    <2> QED
      BY <2>1, <2>2, <2>3
  <1>15. ASSUME NEW p \in Procs, NEW o \in Ops, NEW v \in Outcome,
                VerifyPostcondition(p, o, v)
         PROVE  GatewayInv'
    <2>1. JournalInv'
      BY <1>15, UnchangedJournalInv DEF VerifyPostcondition
    <2>2. TypeOK'
      BY <1>15, <2>1 DEF VerifyPostcondition, TypeOK, JournalInv, procVars, memVars
    <2>3. MintedIsPrivate'
      BY <1>15
      DEF VerifyPostcondition, journalVars, procVars, MintedIsPrivate, Minting, Busy
    <2> QED
      BY <2>1, <2>2, <2>3
  <1>16. ASSUME NEW p \in Procs, NEW o \in Ops, NEW v \in Outcome,
                ReconcileBroadcast(p, o, v)
         PROVE  GatewayInv'
    <2>1. \/ Settle(o, v) /\ mem' = [mem EXCEPT ![p][o] = v]
          \/ UNCHANGED <<row, keyTab, walletLock, jobLock, mem>>
      BY <1>16 DEF ReconcileBroadcast
    <2>2. UNCHANGED <<reqOf, procVars, index, caller, tx, crashes>>
          /\ looked' = [looked EXCEPT ![p] = @ \ {<<o, v>>}]
      BY <1>16 DEF ReconcileBroadcast
    <2>3. JournalInv'
      BY <2>1, <2>2, SettleKeepsJournalInv, UnchangedJournalInv DEF journalVars
    <2>4. TypeOK'
      <3>1. mem' \in [Procs -> [Ops -> MemState]]
        <4>1. v \in MemState
          OBVIOUS
        <4>2. mem' = [mem EXCEPT ![p][o] = v] \/ mem' = mem
          BY <2>1
        <4>3. mem \in [Procs -> [Ops -> MemState]]
          BY DEF TypeOK
        <4>4. [mem EXCEPT ![p][o] = v] \in [Procs -> [Ops -> MemState]]
          BY <4>1, <4>3
        <4> QED
          BY <4>2, <4>3, <4>4
      <3>2. looked' \in [Procs -> SUBSET (Ops \X Outcome)]
        <4> DEFINE Lookups == Ops \X Outcome
        <4>1. looked \in [Procs -> SUBSET Lookups]
          BY DEF TypeOK
        <4>2. looked' = [looked EXCEPT ![p] = @ \ {<<o, v>>}]
          BY <2>2
        <4> HIDE DEF Lookups
        <4>3. looked' \in [Procs -> SUBSET Lookups]
          BY <4>1, <4>2
        <4> QED
          BY <4>3 DEF Lookups
      <3> QED
        BY <2>2, <2>3, <3>1, <3>2 DEF TypeOK, JournalInv, procVars
    <2>5. MintedIsPrivate'
      BY <2>1, <2>2
      DEF Settle, SetState, procVars, TypeOK, JournalTypeOK, MintedIsPrivate,
                        Minting, Busy
    <2> QED
      BY <2>3, <2>4, <2>5
  <1>17. ASSUME NEW p \in Procs, Crash(p) PROVE GatewayInv'
    <2>1. JournalInv'
      BY <1>17, UnchangedJournalInv DEF Crash
    <2>2. TypeOK'
      BY <1>17, <2>1 DEF Crash, TypeOK, JournalInv, Forgotten, NoIndex
    <2>3. MintedIsPrivate'
      BY <1>17 DEF Crash, journalVars, TypeOK, MintedIsPrivate, Minting, Busy
    <2> QED
      BY <2>1, <2>2, <2>3
  <1>18. ASSUME UNCHANGED vars PROVE GatewayInv'
    <2>1. JournalInv'
      BY <1>18, UnchangedJournalInv DEF vars
    <2>2. TypeOK'
      BY <1>18, <2>1 DEF vars, TypeOK, JournalInv, procVars, memVars
    <2>3. MintedIsPrivate'
      BY <1>18 DEF vars, journalVars, procVars, MintedIsPrivate, Minting, Busy
    <2> QED
      BY <2>1, <2>2, <2>3
  <1> QED
    BY <1>1, <1>2, <1>3, <1>4, <1>5, <1>6, <1>7, <1>8, <1>9, <1>10, <1>11, <1>12, <1>13,
       <1>14, <1>15, <1>16, <1>17, <1>18
    DEF Next, Proceed, Complete

LEMMA GatewayInvariant == Spec => []GatewayInv
  BY InitGatewayInv, NextGatewayInv, PTL DEF Spec

\* Every variable keeps its type, for any number of processes, operations,
\* requests, wallets and jobs.
THEOREM TypeCorrect == Spec => []TypeOK
  <1>1. GatewayInv => TypeOK
    BY DEF GatewayInv
  <1> QED
    BY <1>1, GatewayInvariant, PTL

\* However many processes share the journal, and wherever each of them stops,
\* its key table and its rows describe each other.
THEOREM JournalConsistent == Spec => []KeysConsistent
  <1>1. GatewayInv => KeysConsistent
    BY DEF GatewayInv, JournalInv
  <1> QED
    BY <1>1, GatewayInvariant, PTL

\* However many processes share the journal, no lock outlives the operation it
\* protects, or protects a wallet or job the operation did not ask for.
THEOREM LocksNeverLeak == Spec => []NoLeakedLock
  <1>1. GatewayInv => NoLeakedLock
    BY DEF GatewayInv, JournalInv
  <1> QED
    BY <1>1, GatewayInvariant, PTL

(***************************************************************************)
(* One process uses the journal at a time, and dies and restarts at any    *)
(* point.  What follows fails with two processes: the start of the second  *)
(* recovers operations the first is executing.  What the journal says of   *)
(* the chain is shown where nothing dies and no error comes late (Benign). *)
(***************************************************************************)
OneProcess == \A p, q \in Procs : p = q

\* An awaited operation is created on disk and executing in the memory of the
\* process that awaits it.
AwaitedIsExecuting ==
    \A o \in Ops : caller[o] # NoProc =>
        /\ row[o] = "created"
        /\ mem[caller[o]][o] = "executing"
        /\ pc[caller[o]] \notin {"down", "loading"}

\* What execute() read before it deletes a stale operation still holds then.
VictimIsStale ==
    \A p \in Procs : pc[p] = "purging" =>
        /\ victim[p] \in Ops
        /\ row[victim[p]] \in Retryable
        /\ keyTab[reqOf[arg[p]]] = victim[p]

\* Between its creation and the wallet call an operation is nobody else's.
CreatedIsHeld ==
    \A p \in Procs : pc[p] = "created" =>
        /\ row[arg[p]] = "created"
        /\ mem[p][arg[p]] = "created"
        /\ caller[arg[p]] = NoProc

StartsEmpty ==
    \A p \in Procs : pc[p] \in {"down", "loading"} =>
        mem[p] = Forgotten /\ index[p] = NoIndex

SafeInv ==
    /\ OneProcess
    /\ GatewayInv
    /\ ActiveHoldsLocks
    /\ MemoryAgrees
    /\ AwaitedIsExecuting
    /\ VictimIsStale
    /\ CreatedIsHeld
    /\ StartsEmpty
LEMMA InitSafeInv == OneProcess /\ Init => SafeInv
  <1> SUFFICES ASSUME OneProcess, Init PROVE SafeInv
    OBVIOUS
  <1>1. ActiveHoldsLocks /\ AwaitedIsExecuting
    BY
    DEF Init, JournalInit, ActiveHoldsLocks, AwaitedIsExecuting, Active, Reconcilable
  <1>2. MemoryAgrees
    BY DEF Init, MemoryAgrees, Forgotten, NoIndex
  <1>3. VictimIsStale /\ CreatedIsHeld /\ StartsEmpty
    BY DEF Init, VictimIsStale, CreatedIsHeld, StartsEmpty
  <1> QED
    BY <1>1, <1>2, <1>3, InitGatewayInv DEF SafeInv

LEMMA NextSafeInv == SafeInv /\ [Next]_vars => SafeInv'
  <1> SUFFICES ASSUME SafeInv, [Next]_vars PROVE SafeInv'
    OBVIOUS
  <1>0. OneProcess' /\ GatewayInv'
    BY NextGatewayInv DEF SafeInv, OneProcess
  <1> USE OutcomeStates DEF SafeInv, GatewayInv
  <1> DEFINE Local == AwaitedIsExecuting /\ VictimIsStale /\ CreatedIsHeld /\ StartsEmpty
  <1>1. ASSUME NEW p \in Procs, Recover(p) PROVE SafeInv'
    <2>1. ActiveHoldsLocks'
      BY <1>1, RecoverKeepsLocks DEF Recover
    <2>2. MemoryAgrees'
      BY <1>1
      DEF Recover, MemoryAgrees, StartsEmpty, Forgotten, NoIndex, memVars, OneProcess
    <2>3. Local'
      BY <1>1
      DEF Recover, RecoverNonTerminalOperations, memVars, OneProcess, TypeOK,
          JournalTypeOK, AwaitedIsExecuting, VictimIsStale, CreatedIsHeld, StartsEmpty
    <2> QED
      BY <1>0, <2>1, <2>2, <2>3
  <1>2. ASSUME NEW p \in Procs, Load(p) PROVE SafeInv'
    <2>1. ActiveHoldsLocks'
      BY <1>2 DEF Load, ActiveHoldsLocks, journalVars
    <2>2. MemoryAgrees'
      BY <1>2
      DEF Load, MemoryAgrees, journalVars, OneProcess, TypeOK, JournalTypeOK,
          Reconcilable
    <2>3. Local'
      BY <1>2
      DEF Load, journalVars, OneProcess, TypeOK, AwaitedIsExecuting, VictimIsStale,
          CreatedIsHeld, StartsEmpty
    <2> QED
      BY <1>0, <2>1, <2>2, <2>3
  <1>3. ASSUME NEW p \in Procs, NEW r \in Requests, Execute(p, r) PROVE SafeInv'
    <2>1. ActiveHoldsLocks'
      BY <1>3, RelabelKeepsLocks
      DEF Execute, Mint, JournalInv, KeysConsistent, TypeOK, JournalTypeOK
    <2>2. MemoryAgrees'
      BY <1>3 DEF Execute, memVars, MemoryAgrees
    <2>3. Local'
      BY <1>3
      DEF Execute, Mint, memVars, OneProcess, TypeOK, JournalTypeOK,
          AwaitedIsExecuting, VictimIsStale, CreatedIsHeld, StartsEmpty
    <2> QED
      BY <1>0, <2>1, <2>2, <2>3
  <1>4. ASSUME NEW p \in Procs, NEW r \in Requests, ExecuteAgain(p, r) PROVE SafeInv'
    <2>1. ActiveHoldsLocks'
      BY <1>4, DeleteKeepsLocks
      DEF ExecuteAgain, Mint, JournalInv, KeysConsistent, TypeOK, JournalTypeOK
    <2>2. MemoryAgrees'
      BY <1>4
      DEF ExecuteAgain, DeleteOperation, Known, MemoryAgrees, JournalInv,
          KeysConsistent, KeyExists, OneProcess, TypeOK, JournalTypeOK
    <2>3. Local'
      BY <1>4
      DEF ExecuteAgain, DeleteOperation, Known, Mint, MemoryAgrees, OneProcess,
          Retryable, TypeOK, JournalTypeOK, AwaitedIsExecuting, VictimIsStale,
          CreatedIsHeld, StartsEmpty
    <2> QED
      BY <1>0, <2>1, <2>2, <2>3
  <1>5. ASSUME NEW p \in Procs, Create(p) PROVE SafeInv'
    <2>1. ActiveHoldsLocks'
      BY <1>5, CreateKeepsLocks DEF Create, MintedIsPrivate, Minting, Busy
    <2>2. MemoryAgrees'
      BY <1>5
      DEF Create, CreateOperation, CanCreate, KeyExists, MemoryAgrees,
          MintedIsPrivate, Minting, Busy, OneProcess, TypeOK, JournalTypeOK
    <2>3. Local'
      BY <1>5
      DEF Create, CreateOperation, MintedIsPrivate, Minting, Busy, OneProcess, TypeOK,
          JournalTypeOK, AwaitedIsExecuting, VictimIsStale, CreatedIsHeld, StartsEmpty
    <2> QED
      BY <1>0, <2>1, <2>2, <2>3
  <1>6. ASSUME NEW p \in Procs, CreateFindsStale(p) PROVE SafeInv'
    <2>1. ActiveHoldsLocks'
      BY <1>6 DEF CreateFindsStale, ActiveHoldsLocks, journalVars
    <2>2. MemoryAgrees'
      BY <1>6 DEF CreateFindsStale, memVars, MemoryAgrees, journalVars
    <2>3. Local'
      BY <1>6
      DEF CreateFindsStale, FoundStale, KeyExists, MintedIsPrivate, Minting, Busy,
          memVars, journalVars, OneProcess, TypeOK, JournalTypeOK, AwaitedIsExecuting,
          VictimIsStale, CreatedIsHeld, StartsEmpty
    <2> QED
      BY <1>0, <2>1, <2>2, <2>3
  <1>7. ASSUME NEW p \in Procs, DeleteStale(p) PROVE SafeInv'
    <2>1. ActiveHoldsLocks'
      BY <1>7, DeleteKeepsLocks DEF DeleteStale
    <2>2. MemoryAgrees'
      BY <1>7
      DEF DeleteStale, DeleteOperation, VictimIsStale, MintedIsPrivate, Minting, Busy,
          MemoryAgrees, JournalInv, KeysConsistent, KeyExists, OneProcess, TypeOK,
          JournalTypeOK
    <2>3. Local'
      BY <1>7
      DEF DeleteStale, DeleteOperation, OneProcess, Retryable, TypeOK, JournalTypeOK,
          AwaitedIsExecuting, VictimIsStale, CreatedIsHeld, StartsEmpty
    <2> QED
      BY <1>0, <2>1, <2>2, <2>3
  <1>8. ASSUME NEW p \in Procs, CreateRefused(p) PROVE SafeInv'
    <2>1. ActiveHoldsLocks'
      BY <1>8, RelabelKeepsLocks
      DEF CreateRefused, MintedIsPrivate, Minting, Busy, TypeOK, JournalTypeOK
    <2>2. MemoryAgrees'
      BY <1>8 DEF CreateRefused, memVars, MemoryAgrees
    <2>3. Local'
      BY <1>8
      DEF CreateRefused, memVars, OneProcess, TypeOK, JournalTypeOK,
          AwaitedIsExecuting, VictimIsStale, CreatedIsHeld, StartsEmpty
    <2> QED
      BY <1>0, <2>1, <2>2, <2>3
  <1>9. ASSUME NEW p \in Procs, FailWithoutWallet(p) PROVE SafeInv'
    <2>1. ActiveHoldsLocks'
      BY <1>9, SettleKeepsLocks
      DEF FailWithoutWallet, CreatedIsHeld, MintedIsPrivate, Busy, Active
    <2>2. MemoryAgrees'
      BY <1>9
      DEF FailWithoutWallet, Settle, SetState, CreatedIsHeld, MintedIsPrivate, Busy,
          MemoryAgrees, OneProcess, TypeOK, JournalTypeOK
    <2>3. Local'
      BY <1>9
      DEF FailWithoutWallet, Settle, SetState, OneProcess, TypeOK, JournalTypeOK,
          AwaitedIsExecuting, VictimIsStale, CreatedIsHeld, StartsEmpty
    <2> QED
      BY <1>0, <2>1, <2>2, <2>3
  <1>10. ASSUME NEW p \in Procs, PolicyRefuses(p) PROVE SafeInv'
    <2>1. ActiveHoldsLocks'
      BY <1>10 DEF PolicyRefuses, ActiveHoldsLocks, journalVars
    <2>2. MemoryAgrees'
      BY <1>10 DEF PolicyRefuses, memVars, MemoryAgrees, journalVars
    <2>3. Local'
      BY <1>10
      DEF PolicyRefuses, memVars, journalVars, OneProcess, TypeOK, AwaitedIsExecuting,
          VictimIsStale, CreatedIsHeld, StartsEmpty
    <2> QED
      BY <1>0, <2>1, <2>2, <2>3
  <1>11. ASSUME NEW p \in Procs, Send(p) PROVE SafeInv'
    <2>1. ActiveHoldsLocks'
      BY <1>11 DEF Send, ActiveHoldsLocks, journalVars
    <2>2. MemoryAgrees'
      BY <1>11
      DEF Send, CreatedIsHeld, MintedIsPrivate, Busy, MemoryAgrees, journalVars,
          OneProcess, TypeOK
    <2>3. Local'
      BY <1>11
      DEF Send, MintedIsPrivate, Busy, journalVars, OneProcess, TypeOK,
          AwaitedIsExecuting, VictimIsStale, CreatedIsHeld, StartsEmpty
    <2> QED
      BY <1>0, <2>1, <2>2, <2>3
  <1>12. ASSUME NEW o \in Ops, Land(o) \/ Drop(o) PROVE SafeInv'
    <2>1. ActiveHoldsLocks'
      BY <1>12 DEF Land, Drop, ActiveHoldsLocks, journalVars
    <2>2. MemoryAgrees'
      BY <1>12 DEF Land, Drop, memVars, journalVars, MemoryAgrees
    <2>3. Local'
      BY <1>12
      DEF Land, Drop, memVars, journalVars, procVars, AwaitedIsExecuting,
          VictimIsStale, CreatedIsHeld, StartsEmpty
    <2> QED
      BY <1>0, <2>1, <2>2, <2>3
  <1>13. ASSUME NEW p \in Procs, NEW o \in Ops, Returns(p, o) \/ Throws(p, o)
         PROVE  SafeInv'
    <2>0. PICK s \in Reconcilable \cup Terminal : FinalizeAs(p, o, s)
      BY <1>13 DEF Returns, Throws
    <2>1. pc[p] = "idle" /\ caller[o] = p /\ p # NoProc
      BY <1>13 DEF Returns, Throws
    <2>2. row[o] = "created"
      BY <2>1 DEF AwaitedIsExecuting
    <2>3. ActiveHoldsLocks'
      BY <2>0, <2>2, SettleKeepsLocks DEF FinalizeAs, Active
    <2>4. MemoryAgrees'
      BY <2>0, <2>2
      DEF FinalizeAs, Settle, SetState, MemoryAgrees, OneProcess, Reconcilable,
          Terminal, Retryable, TypeOK, JournalTypeOK
    <2>5. Local'
      BY <2>0, <2>1
      DEF FinalizeAs, Settle, SetState, procVars, OneProcess, TypeOK, JournalTypeOK,
          AwaitedIsExecuting, VictimIsStale, CreatedIsHeld, StartsEmpty
    <2> QED
      BY <1>0, <2>3, <2>4, <2>5
  <1>14. ASSUME NEW p \in Procs, NEW o \in Ops, ReturnsToNoRow(p, o) PROVE SafeInv'
    <2>1. ActiveHoldsLocks'
      BY <1>14 DEF ReturnsToNoRow, ActiveHoldsLocks, journalVars
    <2>2. MemoryAgrees'
      BY <1>14 DEF ReturnsToNoRow, memVars, journalVars, MemoryAgrees
    <2>3. Local'
      BY <1>14
      DEF ReturnsToNoRow, memVars, journalVars, procVars, TypeOK, AwaitedIsExecuting,
          VictimIsStale, CreatedIsHeld, StartsEmpty
    <2> QED
      BY <1>0, <2>1, <2>2, <2>3
  <1>15. ASSUME NEW p \in Procs, NEW o \in Ops, NEW v \in Outcome,
                VerifyPostcondition(p, o, v) PROVE SafeInv'
    <2>1. ActiveHoldsLocks'
      BY <1>15 DEF VerifyPostcondition, ActiveHoldsLocks, journalVars
    <2>2. MemoryAgrees'
      BY <1>15 DEF VerifyPostcondition, memVars, journalVars, MemoryAgrees
    <2>3. Local'
      BY <1>15
      DEF VerifyPostcondition, memVars, journalVars, procVars, AwaitedIsExecuting,
          VictimIsStale, CreatedIsHeld, StartsEmpty
    <2> QED
      BY <1>0, <2>1, <2>2, <2>3
  <1>16. ASSUME NEW p \in Procs, NEW o \in Ops, NEW v \in Outcome,
                ReconcileBroadcast(p, o, v)
         PROVE  SafeInv'
    <2>0. UNCHANGED <<reqOf, procVars, index, caller>>
      BY <1>16 DEF ReconcileBroadcast
    <2>1. CASE mem[p][o] \in Reconcilable
      <3>1. row[o] = mem[p][o]
        BY <2>1 DEF MemoryAgrees, Reconcilable
      <3>2. Settle(o, v) /\ mem' = [mem EXCEPT ![p][o] = v]
        BY <1>16, <2>1 DEF ReconcileBroadcast
      <3>3. ActiveHoldsLocks'
        BY <2>0, <2>1, <3>1, <3>2, SettleKeepsLocks DEF Active
      <3>4. MemoryAgrees'
        BY <2>0, <2>1, <3>1, <3>2
        DEF Settle, SetState, MemoryAgrees, OneProcess, Outcome, Reconcilable, TypeOK,
            JournalTypeOK
      <3>5. Local'
        BY <1>16, <2>0, <2>1, <3>1, <3>2
        DEF ReconcileBroadcast, Settle, SetState, procVars, OneProcess, Reconcilable,
            Retryable, TypeOK, JournalTypeOK, AwaitedIsExecuting, VictimIsStale,
            CreatedIsHeld, StartsEmpty
      <3> QED
        BY <1>0, <3>3, <3>4, <3>5
    <2>2. CASE mem[p][o] \notin Reconcilable
      <3>1. UNCHANGED <<row, keyTab, walletLock, jobLock, mem>>
        BY <1>16, <2>2 DEF ReconcileBroadcast
      <3>2. ActiveHoldsLocks' /\ MemoryAgrees'
        BY <2>0, <3>1 DEF ActiveHoldsLocks, MemoryAgrees
      <3>3. Local'
        BY <2>0, <3>1
        DEF procVars, AwaitedIsExecuting, VictimIsStale, CreatedIsHeld, StartsEmpty
      <3> QED
        BY <1>0, <3>2, <3>3
    <2> QED
      BY <2>1, <2>2
  <1>17. ASSUME NEW p \in Procs, Crash(p) PROVE SafeInv'
    <2>1. ActiveHoldsLocks'
      BY <1>17 DEF Crash, ActiveHoldsLocks, journalVars
    <2>2. MemoryAgrees'
      BY <1>17
      DEF Crash, journalVars, MemoryAgrees, OneProcess, Forgotten, NoIndex, TypeOK
    <2>3. Local'
      BY <1>17
      DEF Crash, journalVars, OneProcess, TypeOK, AwaitedIsExecuting, VictimIsStale,
          CreatedIsHeld, StartsEmpty
    <2> QED
      BY <1>0, <2>1, <2>2, <2>3
  <1>18. ASSUME UNCHANGED vars PROVE SafeInv'
    <2>1. ActiveHoldsLocks'
      BY <1>18 DEF vars, ActiveHoldsLocks, journalVars
    <2>2. MemoryAgrees'
      BY <1>18 DEF vars, memVars, journalVars, MemoryAgrees
    <2>3. Local'
      BY <1>18
      DEF vars, memVars, journalVars, procVars, AwaitedIsExecuting, VictimIsStale,
          CreatedIsHeld, StartsEmpty
    <2> QED
      BY <1>0, <2>1, <2>2, <2>3
  <1> QED
    BY <1>1, <1>2, <1>3, <1>4, <1>5, <1>6, <1>7, <1>8, <1>9, <1>10, <1>11, <1>12, <1>13,
       <1>14, <1>15, <1>16, <1>17, <1>18
    DEF Next, Proceed, Complete

LEMMA SafeInvariant == OneProcess /\ Spec => []SafeInv
  BY InitSafeInv, NextSafeInv, PTL DEF Spec

-----------------------------------------------------------------------------
\* An unsettled operation holds the locks of its wallet and its job.
THEOREM UnsettledHoldsLocks == OneProcess /\ Spec => []ActiveHoldsLocks
  <1>1. SafeInv => ActiveHoldsLocks
    BY DEF SafeInv
  <1> QED
    BY <1>1, SafeInvariant, PTL

\* What the gateway has in memory is what the journal says.
THEOREM CacheAgrees == OneProcess /\ Spec => []MemoryAgrees
  <1>1. SafeInv => MemoryAgrees
    BY DEF SafeInv
  <1> QED
    BY <1>1, SafeInvariant, PTL

\* Two awaited wallet calls never share a wallet or a job: both operations are
\* created on disk, so both would hold the same lock.
THEOREM WritesAreExclusive == OneProcess /\ Spec => []OneWriteInFlight
  <1>1. SafeInv => OneWriteInFlight
    BY DEF SafeInv, AwaitedIsExecuting, ActiveHoldsLocks, OneWriteInFlight, Active,
           SameWallet, SameJob
  <1> QED
    BY <1>1, SafeInvariant, PTL

\* No retry, reconciliation or recovery touches a confirmed operation.
THEOREM ConfirmedStays == OneProcess /\ Spec => ConfirmedIsFinal
  <1>1. ASSUME SafeInv, [Next]_vars, NEW o \in Ops, row[o] = "confirmed"
        PROVE  row'[o] = "confirmed"
    <2> USE <1>1 DEF SafeInv, GatewayInv
    <2>1. ASSUME NEW p \in Procs, Recover(p) PROVE row'[o] = "confirmed"
      BY <2>1 DEF Recover, RecoverNonTerminalOperations
    <2>2. ASSUME NEW p \in Procs, NEW r \in Requests, ExecuteAgain(p, r)
          PROVE  row'[o] = "confirmed"
      BY <2>2 DEF ExecuteAgain, Known, DeleteOperation, MemoryAgrees, Retryable, TypeOK,
                  JournalTypeOK
    <2>3. ASSUME NEW p \in Procs, Create(p) PROVE row'[o] = "confirmed"
      BY <2>3 DEF Create, CreateOperation, MintedIsPrivate, Minting, TypeOK, JournalTypeOK
    <2>4. ASSUME NEW p \in Procs, DeleteStale(p) PROVE row'[o] = "confirmed"
      BY <2>4 DEF DeleteStale, DeleteOperation, VictimIsStale, Retryable, TypeOK,
                  JournalTypeOK
    <2>5. ASSUME NEW p \in Procs, FailWithoutWallet(p) PROVE row'[o] = "confirmed"
      BY <2>5 DEF FailWithoutWallet, Settle, SetState, CreatedIsHeld
    <2>6. ASSUME NEW p \in Procs, NEW q \in Ops, Returns(p, q) \/ Throws(p, q)
          PROVE  row'[o] = "confirmed"
      BY <2>6 DEF Returns, Throws, FinalizeAs, Settle, SetState, AwaitedIsExecuting
    <2>7. ASSUME NEW p \in Procs, NEW q \in Ops, NEW v \in Outcome,
                 ReconcileBroadcast(p, q, v)
          PROVE  row'[o] = "confirmed"
      BY <2>7 DEF ReconcileBroadcast, Settle, SetState, MemoryAgrees, Reconcilable
    <2>8. CASE UNCHANGED row
      BY <2>8
    <2> QED
      BY <2>1, <2>2, <2>3, <2>4, <2>5, <2>6, <2>7, <2>8
      DEF Next, Proceed, Complete, Load, Execute, CreateFindsStale, CreateRefused,
          PolicyRefuses, Send, Land, Drop, ReturnsToNoRow, VerifyPostcondition, Crash,
          vars, journalVars
  <1>2. SafeInv /\ [Next]_vars =>
          [\A o \in Ops : row[o] = "confirmed" => row'[o] = "confirmed"]_vars
    BY <1>1
  <1> QED
    BY <1>2, SafeInvariant, PTL DEF Spec, ConfirmedIsFinal

\* While an operation is broadcast or unknown nothing is sent for its wallet,
\* its job or its request: it holds both locks and its key.
THEOREM UnresolvedBlocks == OneProcess /\ Spec => UnresolvedBlocksSend
  <1> DEFINE Blocked ==
        \A o, q \in Ops :
          tx[o] = "none" /\ tx'[o] = "live" /\ o # q /\ row[q] \in Reconcilable
            => ~SameWallet(o, q) /\ ~SameJob(o, q) /\ reqOf[o] # reqOf[q]
  <1>1. ASSUME SafeInv, [Next]_vars, NEW o \in Ops, NEW q \in Ops,
               tx[o] = "none", tx'[o] = "live", o # q, row[q] \in Reconcilable
        PROVE  ~SameWallet(o, q) /\ ~SameJob(o, q) /\ reqOf[o] # reqOf[q]
    <2>1. PICK p \in Procs : Send(p)
      <3>1. ASSUME NEW p \in Procs, Proceed(p) PROVE Send(p) \/ UNCHANGED tx
        BY <3>1 DEF Proceed, Recover, Load, Create, CreateFindsStale, DeleteStale,
                    CreateRefused, FailWithoutWallet, PolicyRefuses
      <3>2. ASSUME NEW p \in Procs, NEW r \in Requests, Execute(p, r) \/ ExecuteAgain(p, r)
            PROVE  UNCHANGED tx
        BY <3>2 DEF Execute, ExecuteAgain
      <3>3. ASSUME NEW p \in Procs, NEW x \in Ops, Complete(p, x) PROVE UNCHANGED tx
        BY <3>3 DEF Complete, Returns, ReturnsToNoRow, Throws, FinalizeAs
      <3>4. ASSUME NEW p \in Procs, NEW x \in Ops, NEW v \in Outcome,
                   VerifyPostcondition(p, x, v) \/ ReconcileBroadcast(p, x, v)
            PROVE  UNCHANGED tx
        BY <3>4 DEF VerifyPostcondition, ReconcileBroadcast
      <3>5. ASSUME NEW p \in Procs, Crash(p) PROVE UNCHANGED tx
        BY <3>5 DEF Crash
      <3>6. ASSUME NEW x \in Ops, Land(x) \/ Drop(x) PROVE tx'[o] \in {tx[o], "landed", "dropped"}
        BY <3>6, <1>1 DEF Land, Drop, SafeInv, GatewayInv, TypeOK
      <3>7. ~UNCHANGED tx /\ tx'[o] \notin {tx[o], "landed", "dropped"}
        BY <1>1
      <3>8. CASE Next
        BY <3>1, <3>2, <3>3, <3>4, <3>5, <3>6, <3>7, <3>8 DEF Next
      <3> QED
        BY <3>7, <3>8, <1>1 DEF vars
    <2>2. o = arg[p]
      BY <1>1, <2>1 DEF Send, SafeInv, GatewayInv, TypeOK
    <2>3. row[o] = "created"
      BY <1>1, <2>1, <2>2 DEF Send, SafeInv, CreatedIsHeld
    <2> QED
      BY <1>1, <2>3 DEF SafeInv, GatewayInv, JournalInv, KeysConsistent, ActiveHoldsLocks,
                        Active, Reconcilable, SameWallet, SameJob
  <1>2. SafeInv /\ [Next]_vars => [Blocked]_vars
    BY <1>1
  <1> QED
    BY <1>2, SafeInvariant, PTL DEF Spec, UnresolvedBlocksSend

-----------------------------------------------------------------------------
(***************************************************************************)
(* What the write itself does is the journal's business only as long as    *)
(* nobody gets it wrong: the adapter reports no failure after the service  *)
(* took the write, no verdict is premature and the process does not die.   *)
(***************************************************************************)
Benign == OneProcess /\ ~LateErrors /\ SetBudget = {} /\ MaxCrashes = 0

Sent(o) == tx[o] \in {"live", "landed"}

\* A write that is on its way or on chain is awaited, to be reconciled, or
\* confirmed.
SentIsProtected ==
    \A o \in Ops : Sent(o) =>
        \/ row[o] = "created" /\ caller[o] # NoProc
        \/ row[o] \in Reconcilable \cup {"confirmed"}

\* A failure seen on chain is still one when it is recorded.
VerdictsHold ==
    \A p \in Procs : \A o \in Ops : <<o, "failed">> \in looked[p] => tx[o] = "dropped"

\* The process starts once, before it has sent anything.
StartsUnsent == \A p \in Procs : pc[p] = "down" => \A o \in Ops : tx[o] = "none"

\* Nothing has been sent under an operation id that is not in use, or that
\* execute() has not come to send yet.
FreshIsUnsent ==
    /\ \A o \in Ops : reqOf[o] = NoRequest => tx[o] = "none"
    /\ \A p \in Procs : Busy(p) => tx[arg[p]] = "none"

BenignInv ==
    /\ Benign /\ SafeInv
    /\ SentIsProtected /\ VerdictsHold /\ StartsUnsent /\ FreshIsUnsent

LEMMA InitBenignInv == Benign /\ Init => BenignInv
  BY InitSafeInv
  DEF Benign, BenignInv, Init, SentIsProtected, Sent, VerdictsHold, StartsUnsent,
      FreshIsUnsent, Busy, Minting

LEMMA NextFreshIsUnsent == BenignInv /\ [Next]_vars => FreshIsUnsent'
  <1> SUFFICES ASSUME BenignInv, [Next]_vars PROVE FreshIsUnsent'
    OBVIOUS
  <1>1. /\ TypeOK /\ JournalTypeOK /\ OneProcess
        /\ \A p \in Procs : Busy(p) => arg[p] \in Ops /\ reqOf[arg[p]] \in Requests
    BY DEF BenignInv, Benign, SafeInv, GatewayInv, MintedIsPrivate, TypeOK
  <1> USE DEF BenignInv, FreshIsUnsent, Busy, Minting
  <1>2. CASE /\ UNCHANGED <<reqOf, tx>>
             /\ \A q \in Procs : pc'[q] \in {"creating", "purging", "recreating", "created"} =>
                   Busy(q) /\ arg'[q] = arg[q]
    BY <1>2
  <1>3. ASSUME NEW p \in Procs, Proceed(p), ~CreateRefused(p), ~Send(p) PROVE FreshIsUnsent'
    BY <1>1, <1>2, <1>3
    DEF Proceed, Recover, Load, Create, CreateFindsStale, DeleteStale, FailWithoutWallet,
        PolicyRefuses, journalVars, TypeOK
  <1>4. ASSUME NEW p \in Procs, NEW r \in Requests, Execute(p, r) \/ ExecuteAgain(p, r)
        PROVE  FreshIsUnsent'
    <2>1. PICK o \in Ops : Mint(p, r, o)
      BY <1>4 DEF Execute, ExecuteAgain
    <2>2. tx' = tx /\ arg'[p] = o /\ \A q \in Procs : q = p
      BY <1>1, <1>4, <2>1 DEF Execute, ExecuteAgain, Mint, TypeOK, OneProcess
    <2>3. \A x \in Ops : reqOf'[x] = NoRequest => reqOf[x] = NoRequest
      BY <1>1, <2>1 DEF Mint, JournalTypeOK
    <2> QED
      BY <2>1, <2>2, <2>3 DEF Mint
  <1>5. ASSUME NEW p \in Procs, CreateRefused(p) PROVE FreshIsUnsent'
    BY <1>1, <1>5 DEF CreateRefused, TypeOK, JournalTypeOK, OneProcess
  <1>6. ASSUME NEW p \in Procs, Send(p) PROVE FreshIsUnsent'
    BY <1>1, <1>6 DEF Send, journalVars, TypeOK, OneProcess
  <1>7. ASSUME NEW o \in Ops, Land(o) \/ Drop(o) PROVE FreshIsUnsent'
    BY <1>1, <1>7 DEF Land, Drop, journalVars, procVars, TypeOK
  <1>8. ASSUME NEW p \in Procs, NEW o \in Ops, Complete(p, o) PROVE FreshIsUnsent'
    BY <1>2, <1>8
    DEF Complete, Returns, ReturnsToNoRow, Throws, FinalizeAs, journalVars, procVars
  <1>9. ASSUME NEW p \in Procs, NEW o \in Ops, NEW v \in Outcome,
               VerifyPostcondition(p, o, v) \/ ReconcileBroadcast(p, o, v)
        PROVE  FreshIsUnsent'
    BY <1>2, <1>9 DEF VerifyPostcondition, ReconcileBroadcast, journalVars, procVars
  <1>10. ASSUME NEW p \in Procs, Crash(p) PROVE FreshIsUnsent'
    BY <1>1, <1>10 DEF Crash, Benign, TypeOK
  <1>11. CASE UNCHANGED vars
    BY <1>2, <1>11 DEF vars, journalVars, procVars
  <1> QED
    BY <1>3, <1>4, <1>5, <1>6, <1>7, <1>8, <1>9, <1>10, <1>11 DEF Next

LEMMA NextBenignInv == BenignInv /\ [Next]_vars => BenignInv'
  <1> SUFFICES ASSUME BenignInv, [Next]_vars PROVE BenignInv'
    OBVIOUS
  <1> DEFINE Rest == SentIsProtected' /\ VerdictsHold' /\ StartsUnsent'
  <1>0. SafeInv' /\ Benign' /\ FreshIsUnsent'
    BY NextSafeInv, NextFreshIsUnsent DEF BenignInv, Benign, OneProcess
  <1>1. TypeOK /\ JournalTypeOK
    BY DEF BenignInv, SafeInv, GatewayInv, TypeOK
  <1> USE DEF BenignInv
  <1>2. ASSUME NEW p \in Procs, Recover(p) PROVE Rest
    BY <1>1, <1>2
    DEF Recover, RecoverNonTerminalOperations, TypeOK, JournalTypeOK, SentIsProtected, Sent,
        VerdictsHold, StartsUnsent
  <1>3. ASSUME NEW p \in Procs, Load(p) \/ CreateFindsStale(p) \/ PolicyRefuses(p) PROVE Rest
    <2>1. UNCHANGED <<journalVars, caller, tx, looked>>
      BY <1>3 DEF Load, CreateFindsStale, PolicyRefuses
    <2>2. \A q \in Procs : pc'[q] = "down" => pc[q] = "down"
      BY <1>1, <1>3 DEF Load, CreateFindsStale, PolicyRefuses, TypeOK
    <2> QED
      BY <2>1, <2>2 DEF journalVars, SentIsProtected, Sent, VerdictsHold, StartsUnsent
  <1>4. ASSUME NEW p \in Procs, NEW r \in Requests, Execute(p, r) PROVE Rest
    BY <1>1, <1>4 DEF Execute, TypeOK, SentIsProtected, Sent, VerdictsHold, StartsUnsent
  <1>5. ASSUME NEW p \in Procs, NEW r \in Requests, ExecuteAgain(p, r) PROVE Rest
    <2>1. row[index[p][r]] \in Retryable
      <3>1. index[p][r] \in Ops /\ mem[p][index[p][r]] \in {"failed", "cancelled"}
        BY <1>1, <1>5 DEF ExecuteAgain, Known, Retryable, TypeOK
      <3> QED
        BY <3>1 DEF SafeInv, MemoryAgrees, Retryable
    <2>2. /\ row' = [row EXCEPT ![index[p][r]] = "none"]
          /\ UNCHANGED <<caller, tx, looked>> /\ pc' = [pc EXCEPT ![p] = "creating"]
      BY <1>5 DEF ExecuteAgain, DeleteOperation
    <2> QED
      BY <1>1, <2>1, <2>2
      DEF TypeOK, JournalTypeOK, Retryable, Reconcilable, SentIsProtected, Sent, VerdictsHold,
          StartsUnsent
  <1>6. ASSUME NEW p \in Procs, Create(p) PROVE Rest
    <2>1. row[arg[p]] = "none"
      BY <1>6 DEF Create, SafeInv, GatewayInv, MintedIsPrivate, Minting, Busy
    <2>2. /\ row' = [row EXCEPT ![arg[p]] = "created"]
          /\ UNCHANGED <<caller, tx, looked>> /\ pc' = [pc EXCEPT ![p] = "created"]
      BY <1>6 DEF Create, CreateOperation
    <2> QED
      BY <1>1, <2>1, <2>2
      DEF TypeOK, JournalTypeOK, Reconcilable, SentIsProtected, Sent, VerdictsHold, StartsUnsent
  <1>7. ASSUME NEW p \in Procs, DeleteStale(p) PROVE Rest
    <2>1. row[victim[p]] \in Retryable
      BY <1>7 DEF DeleteStale, SafeInv, VictimIsStale
    <2>2. /\ row' = [row EXCEPT ![victim[p]] = "none"]
          /\ UNCHANGED <<caller, tx, looked>> /\ pc' = [pc EXCEPT ![p] = "recreating"]
      BY <1>7 DEF DeleteStale, DeleteOperation
    <2> QED
      BY <1>1, <2>1, <2>2
      DEF TypeOK, JournalTypeOK, Retryable, Reconcilable, SentIsProtected, Sent, VerdictsHold,
          StartsUnsent
  <1>8. ASSUME NEW p \in Procs, CreateRefused(p) PROVE Rest
    BY <1>1, <1>8 DEF CreateRefused, TypeOK, SentIsProtected, Sent, VerdictsHold, StartsUnsent
  <1>9. ASSUME NEW p \in Procs, FailWithoutWallet(p) PROVE Rest
    <2>1. row[arg[p]] = "created" /\ caller[arg[p]] = NoProc
      BY <1>9 DEF FailWithoutWallet, SafeInv, CreatedIsHeld
    <2>2. /\ \A o \in Ops : row'[o] = IF o = arg[p] /\ row[o] # "none" THEN "failed" ELSE row[o]
          /\ UNCHANGED <<caller, tx, looked>> /\ pc' = [pc EXCEPT ![p] = "idle"]
      BY <1>9 DEF FailWithoutWallet, Settle, SetState
    <2> QED
      BY <1>1, <2>1, <2>2
      DEF TypeOK, Reconcilable, SentIsProtected, Sent, VerdictsHold, StartsUnsent
  <1>10. ASSUME NEW p \in Procs, Send(p) PROVE Rest
    <2>1. /\ arg[p] \in Ops /\ row[arg[p]] = "created" /\ tx[arg[p]] = "none" /\ p # NoProc
      BY <1>10
      DEF Send, SafeInv, CreatedIsHeld, GatewayInv, MintedIsPrivate, Busy, FreshIsUnsent
    <2>2. \A q \in Procs : <<arg[p], "failed">> \notin looked[q]
      BY <2>1 DEF VerdictsHold
    <2> QED
      BY <1>1, <1>10, <2>1, <2>2
      DEF Send, journalVars, TypeOK, Benign, OneProcess, SentIsProtected, Sent, VerdictsHold,
          StartsUnsent
  <1>11. ASSUME NEW o \in Ops, Land(o) \/ Drop(o) PROVE Rest
    BY <1>1, <1>11
    DEF Land, Drop, journalVars, procVars, TypeOK, SentIsProtected, Sent, VerdictsHold, StartsUnsent
  <1>12. ASSUME NEW p \in Procs, NEW o \in Ops, Complete(p, o) PROVE Rest
    <2>1. row[o] = "created"
      BY <1>12 DEF Complete, Returns, ReturnsToNoRow, Throws, SafeInv, AwaitedIsExecuting
    <2>2. PICK s \in Reconcilable \cup Terminal :
             FinalizeAs(p, o, s) /\ (s \in Retryable => tx[o] = "dropped")
      BY <1>12, <2>1
      DEF Complete, Returns, ReturnsToNoRow, Throws, ClassifiedResult, ClassifiedError, Benign,
          Reconcilable, Terminal, Retryable
    <2>3. /\ \A x \in Ops : row'[x] = IF x = o /\ row[x] # "none" THEN s ELSE row[x]
          /\ caller' = [caller EXCEPT ![o] = NoProc] /\ UNCHANGED <<tx, looked, pc>>
      BY <2>2 DEF FinalizeAs, Settle, SetState, procVars
    <2> QED
      BY <1>1, <2>1, <2>2, <2>3
      DEF TypeOK, Reconcilable, Terminal, SentIsProtected, Sent, VerdictsHold, StartsUnsent
  <1>13. ASSUME NEW p \in Procs, NEW o \in Ops, NEW v \in Outcome, VerifyPostcondition(p, o, v)
         PROVE  Rest
    <2>1. v = "failed" => tx[o] = "dropped"
      BY <1>13 DEF VerifyPostcondition, Verdicts, Benign
    <2>2. looked' = [looked EXCEPT ![p] = @ \cup {<<o, v>>}]
      BY <1>13 DEF VerifyPostcondition
    <2>3. VerdictsHold'
      BY <1>1, <1>13, <2>1, <2>2 DEF VerifyPostcondition, TypeOK, VerdictsHold
    <2> QED
      BY <1>13, <2>3
      DEF VerifyPostcondition, journalVars, procVars, SentIsProtected, Sent, StartsUnsent
  <1>14. ASSUME NEW p \in Procs, NEW o \in Ops, NEW v \in Outcome, ReconcileBroadcast(p, o, v)
         PROVE  Rest
    <2>1. v = "failed" => tx[o] = "dropped"
      BY <1>14 DEF ReconcileBroadcast, VerdictsHold
    <2>2. VerdictsHold' /\ StartsUnsent'
      BY <1>1, <1>14 DEF ReconcileBroadcast, procVars, TypeOK, VerdictsHold, StartsUnsent
    <2>3. \A x \in Ops : \/ row'[x] = row[x]
                         \/ x = o /\ row'[x] = v /\ row[x] # "none"
      BY <1>14 DEF ReconcileBroadcast, Settle, SetState
    <2>4. UNCHANGED <<caller, tx>>
      BY <1>14 DEF ReconcileBroadcast
    <2> QED
      BY <2>1, <2>2, <2>3, <2>4 DEF Outcome, Reconcilable, SentIsProtected, Sent
  <1>15. ASSUME NEW p \in Procs, Crash(p) PROVE Rest
    BY <1>1, <1>15 DEF Crash, Benign, TypeOK
  <1>16. ASSUME UNCHANGED vars PROVE Rest
    BY <1>16
    DEF vars, journalVars, procVars, SentIsProtected, Sent, VerdictsHold, StartsUnsent
  <1>17. Rest
    BY <1>2, <1>3, <1>4, <1>5, <1>6, <1>7, <1>8, <1>9, <1>10, <1>11, <1>12, <1>13, <1>14, <1>15,
       <1>16
    DEF Next, Proceed
  <1> QED
    BY <1>0, <1>17

LEMMA BenignInvariant == Benign /\ Spec => []BenignInv
  BY InitBenignInv, NextBenignInv, PTL DEF Spec

\* "failed/cancelled: safe to re-execute": whatever execute() finds failed or
\* cancelled, and deletes to send the request again, will never land.
THEOREM FailedStaysOffChain == Benign /\ Spec => []FailedIsSafe
  <1>1. BenignInv => FailedIsSafe
    BY DEF BenignInv, SafeInv, GatewayInv, TypeOK, SentIsProtected, Sent, FailedIsSafe, Retryable,
           Reconcilable
  <1> QED
    BY <1>1, BenignInvariant, PTL

\* A request is never executed twice, however often it is retried and whatever
\* is deleted, reconciled or replayed in between: a write that may land keeps
\* its row, and a request has one row.
THEOREM RequestsAreExecutedOnce == Benign /\ Spec => []NoDoubleExecution
  <1>1. BenignInv => NoDoubleExecution
    BY DEF BenignInv, SafeInv, GatewayInv, JournalInv, KeysConsistent, SentIsProtected, Sent,
           NoDoubleExecution, Reconcilable
  <1> QED
    BY <1>1, BenignInvariant, PTL

-----------------------------------------------------------------------------
(***************************************************************************)
(* One gateway process over its journal implements WriteLocks: initial     *)
(* states map to initial states and every step to a step or a stutter.     *)
(***************************************************************************)
USE DisjointResources

locksVars == <<Needs, ActiveWrites, Owner>>

LEMMA LocksDoNotChange ==
  UNCHANGED journalVars => UNCHANGED locksVars
  BY DEF journalVars, locksVars, Needs, ActiveWrites, Owner

(***************************************************************************)
(* The journal's transactions as steps of WriteLocks.                      *)
(***************************************************************************)
LEMMA CreateBegins ==
  ASSUME JournalInv, NEW o \in Ops, NEW r \in Requests,
         row[o] = "none", reqOf[o] = r, CreateOperation(o, r), UNCHANGED reqOf
  PROVE  Locks!Begin(o)
  <1> USE DEF JournalInv, JournalTypeOK, CreateOperation, CanCreate
  <1>1. o \notin ActiveWrites /\ ActiveWrites' = ActiveWrites \cup {o}
    BY DEF ActiveWrites, Active, Reconcilable
  <1>2. Needs[o] = ({WalletOf[r]} \cap Wallets) \cup ({JobOf[r]} \cap Jobs)
    BY DEF Needs, Footprint
  <1>3. \A x \in Needs[o] : Owner[x] = NoOp
    BY <1>2 DEF Owner, Resources, WalletLocked, JobLocked
  <1>4. Owner' = [x \in Resources |-> IF x \in Needs[o] THEN o ELSE Owner[x]]
    BY <1>2 DEF Owner, Resources
  <1>5. UNCHANGED Needs
    BY DEF Needs
  <1> QED
    BY <1>1, <1>3, <1>4, <1>5 DEF Locks!Begin

LEMMA SettleEnds ==
  ASSUME JournalInv, NEW o \in Ops, NEW s \in Reconcilable \cup Terminal,
         row[o] \in Active, Settle(o, s), UNCHANGED reqOf
  PROVE  Locks!End({o}) \/ UNCHANGED locksVars
  <1> USE DEF JournalInv, JournalTypeOK, Settle, SetState
  <1>1. UNCHANGED Needs
    BY DEF Needs
  <1>2. CASE s \in Terminal
    <2>1. ActiveWrites' = ActiveWrites \ {o} /\ {o} \subseteq ActiveWrites
      BY <1>2 DEF ActiveWrites, Active, Reconcilable, Terminal, Retryable
    <2>2. Owner' = [x \in Resources |-> IF Owner[x] \in {o} THEN NoOp ELSE Owner[x]]
      BY <1>2 DEF Owner, Resources, ReleaseLocks
    <2> QED
      BY <1>1, <2>1, <2>2 DEF Locks!End
  <1>3. CASE s \notin Terminal
    <2>1. ActiveWrites' = ActiveWrites
      BY <1>3 DEF ActiveWrites, Active, Reconcilable
    <2>2. Owner' = Owner
      BY <1>3 DEF Owner
    <2> QED
      BY <1>1, <2>1, <2>2 DEF locksVars
  <1> QED
    BY <1>2, <1>3

\* A settled operation holds no lock, so its deletion releases none.
LEMMA DeleteIsSilent ==
  ASSUME JournalInv, NEW o \in Ops, row[o] \notin Active, DeleteOperation(o)
  PROVE  UNCHANGED <<ActiveWrites, Owner>>
  <1> USE DEF JournalInv, JournalTypeOK, DeleteOperation, ReleaseLocks
  <1>1. ActiveWrites' = ActiveWrites
    BY DEF ActiveWrites, Active, Reconcilable
  <1>2. /\ \A w \in Wallets : walletLock[w] # o
        /\ \A j \in Jobs : jobLock[j] # o
    BY DEF NoLeakedLock
  <1>3. walletLock' = walletLock /\ jobLock' = jobLock
    BY <1>2
  <1> QED
    BY <1>1, <1>3 DEF Owner

LEMMA RecoverEnds ==
  ASSUME JournalInv, RecoverNonTerminalOperations, UNCHANGED reqOf
  PROVE  \E S \in SUBSET ActiveWrites : Locks!End(S)
  <1> DEFINE interrupted == {o \in Ops : row[o] = "created"}
  <1> USE DEF JournalInv, JournalTypeOK, RecoverNonTerminalOperations, ReleaseLocks
  <1>1. interrupted \subseteq ActiveWrites
    BY DEF ActiveWrites, Active
  <1>2. ActiveWrites' = ActiveWrites \ interrupted
    BY DEF ActiveWrites, Active, Reconcilable
  <1>3. Owner' = [x \in Resources |-> IF Owner[x] \in interrupted THEN NoOp ELSE Owner[x]]
    BY DEF Owner, Resources
  <1>4. UNCHANGED Needs
    BY DEF Needs
  <1>5. Locks!End(interrupted)
    BY <1>1, <1>2, <1>3, <1>4 DEF Locks!End
  <1> QED
    BY <1>1, <1>5

\* Minting an id, and giving one up, changes what an inactive write needs.
LEMMA RelabelAnnounces ==
  ASSUME JournalInv, NEW o \in Ops, NEW r \in Requests \cup {NoRequest},
         row[o] \notin Active, reqOf' = [reqOf EXCEPT ![o] = r],
         UNCHANGED <<ActiveWrites, Owner>>
  PROVE  Locks!Announce(o)
  <1> USE DEF JournalInv, JournalTypeOK
  <1>1. Needs' = [Needs EXCEPT ![o] = Footprint(r)]
    BY DEF Needs
  <1>2. Footprint(r) \in SUBSET Resources
    BY DEF Footprint, Resources
  <1>3. o \notin ActiveWrites
    BY DEF ActiveWrites
  <1> QED
    BY <1>1, <1>2, <1>3 DEF Locks!Announce

-----------------------------------------------------------------------------
LEMMA RefinesInit == Init => Locks!Init
  BY DEF Init, JournalInit, Locks!Init, Needs, ActiveWrites, Owner, Footprint, Active,
         Reconcilable, Resources

LEMMA RefinesNext == SafeInv /\ [Next]_vars => [Locks!Next]_(Locks!vars)
  <1> SUFFICES ASSUME SafeInv, [Next]_vars
               PROVE  Locks!Next \/ UNCHANGED locksVars
    BY DEF Locks!vars, locksVars
  <1> USE OutcomeStates DEF SafeInv, GatewayInv
  <1> DEFINE Refined == Locks!Next \/ UNCHANGED locksVars
  <1>0. /\ \A o \in Ops : Locks!Announce(o) \/ Locks!Begin(o) => Refined
        /\ \A S \in SUBSET ActiveWrites : Locks!End(S) => Refined
    BY DEF Locks!Next
  <1>1. ASSUME NEW p \in Procs, Recover(p) PROVE Refined
    BY <1>0, <1>1, RecoverEnds DEF Recover
  <1>2. ASSUME NEW p \in Procs, NEW r \in Requests, Execute(p, r) PROVE Refined
    <2>1. PICK o \in Ops : Mint(p, r, o)
      BY <1>2 DEF Execute
    <2>2. row[o] \notin Active
      BY <2>1 DEF Mint, JournalInv, KeysConsistent, Active, Reconcilable
    <2>3. UNCHANGED <<ActiveWrites, Owner>>
      BY <1>2 DEF Execute, ActiveWrites, Owner
    <2> QED
      BY <1>0, <2>1, <2>2, <2>3, RelabelAnnounces DEF Mint
  <1>3. ASSUME NEW p \in Procs, NEW r \in Requests, ExecuteAgain(p, r) PROVE Refined
    <2>1. PICK o \in Ops : Mint(p, r, o)
      BY <1>3 DEF ExecuteAgain
    <2>2. row[o] \notin Active
      BY <2>1 DEF Mint, JournalInv, KeysConsistent, Active, Reconcilable
    <2>3. index[p][r] \in Ops /\ row[index[p][r]] \in Retryable
      BY <1>3, SMTT(30) DEF ExecuteAgain, Known, MemoryAgrees, Retryable, TypeOK
    <2>4. UNCHANGED <<ActiveWrites, Owner>>
      BY <1>3, <2>3, DeleteIsSilent DEF ExecuteAgain, Active, Reconcilable, Retryable
    <2> QED
      BY <1>0, <2>1, <2>2, <2>4, RelabelAnnounces DEF Mint
  <1>4. ASSUME NEW p \in Procs, Create(p) PROVE Refined
    BY <1>0, <1>4, CreateBegins DEF Create, MintedIsPrivate, Minting, Busy
  <1>5. ASSUME NEW p \in Procs, DeleteStale(p) PROVE Refined
    <2>1. victim[p] \in Ops /\ row[victim[p]] \notin Active
      BY <1>5 DEF DeleteStale, VictimIsStale, Active, Reconcilable, Retryable
    <2>2. UNCHANGED <<ActiveWrites, Owner>>
      BY <1>5, <2>1, DeleteIsSilent DEF DeleteStale
    <2>3. UNCHANGED Needs
      BY <1>5 DEF DeleteStale, Needs
    <2> QED
      BY <2>2, <2>3 DEF locksVars
  <1>6. ASSUME NEW p \in Procs, CreateRefused(p) PROVE Refined
    <2>1. arg[p] \in Ops /\ row[arg[p]] \notin Active
      BY <1>6 DEF CreateRefused, MintedIsPrivate, Minting, Busy, Active, Reconcilable
    <2>2. UNCHANGED <<ActiveWrites, Owner>>
      BY <1>6 DEF CreateRefused, ActiveWrites, Owner
    <2> QED
      BY <1>0, <1>6, <2>1, <2>2, RelabelAnnounces DEF CreateRefused
  <1>7. ASSUME NEW o \in Ops, NEW s \in Reconcilable \cup Terminal,
               row[o] \in Active, Settle(o, s), UNCHANGED reqOf
        PROVE  Refined
    <2>1. {o} \in SUBSET ActiveWrites
      BY <1>7 DEF ActiveWrites
    <2> QED
      BY <1>0, <1>7, <2>1, SettleEnds
  <1>8. ASSUME NEW p \in Procs, FailWithoutWallet(p) PROVE Refined
    BY <1>7, <1>8 DEF FailWithoutWallet, CreatedIsHeld, MintedIsPrivate, Busy, Active
  <1>9. ASSUME NEW p \in Procs, NEW o \in Ops, Returns(p, o) \/ Throws(p, o)
        PROVE  Refined
    <2>1. PICK s \in Reconcilable \cup Terminal : FinalizeAs(p, o, s)
      BY <1>9 DEF Returns, Throws
    <2>2. row[o] \in Active
      BY <1>9 DEF Returns, Throws, AwaitedIsExecuting, Active
    <2> QED
      BY <1>7, <2>1, <2>2 DEF FinalizeAs
  <1>10. ASSUME NEW p \in Procs, NEW o \in Ops, NEW v \in Outcome,
                ReconcileBroadcast(p, o, v)
         PROVE  Refined
    <2>1. CASE mem[p][o] \in Reconcilable
      <3>1. row[o] \in Active
        BY <2>1 DEF MemoryAgrees, Active, Reconcilable
      <3> QED
        BY <1>7, <1>10, <2>1, <3>1 DEF ReconcileBroadcast
    <2>2. CASE mem[p][o] \notin Reconcilable
      BY <1>10, <2>2, LocksDoNotChange DEF ReconcileBroadcast, journalVars
    <2> QED
      BY <2>1, <2>2
  <1>11. CASE UNCHANGED journalVars
    BY <1>11, LocksDoNotChange
  <1> QED
    BY <1>1, <1>2, <1>3, <1>4, <1>5, <1>6, <1>8, <1>9, <1>10, <1>11
    DEF Next, Proceed, Complete, Load, CreateFindsStale, PolicyRefuses, Send, Land, Drop,
        ReturnsToNoRow, VerifyPostcondition, Crash, vars

\* Locks are taken all at once when all are free, held until the operation is
\* settled and never stolen, across crashes and recoveries.
THEOREM GatewayImplementsWriteLocks == OneProcess /\ Spec => ImplementsWriteLocks
  BY RefinesInit, RefinesNext, SafeInvariant, PTL
  DEF Spec, ImplementsWriteLocks, Locks!Spec
=============================================================================
