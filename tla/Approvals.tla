------------------------------ MODULE Approvals -------------------------------
(***************************************************************************)
(* The approvals a client gives before a write of the runner, and the      *)
(* ERC-8004 registrations that need one                                    *)
(* (apps/arclayer-runner/src/approval-manager.ts over approval-store.ts).  *)
(*                                                                         *)
(* approvals.db is shared by the processes of one data directory.  Each    *)
(* statement on it is atomic, and a handler runs to its first await        *)
(* without other work of its own process; so a step of another process may *)
(* come between the read at the start of a handler and the guarded UPDATE  *)
(* that follows it.                                                        *)
(*                                                                         *)
(* An approval stands for an idempotency key (a second creation under the  *)
(* key returns the first row and changes nothing).  The checks of role,    *)
(* wallet, chain and hash, which only refuse, are left out.                *)
(***************************************************************************)
EXTENDS Naturals

CONSTANTS
    Approvals,
    Calls,       \* approve and execute calls that may be under way at once
    Procs,       \* processes that have approvals.db open
    ProcOf,      \* the process that serves a call
    CreatorOf,   \* the process that creates an approval
    Signatures,  \* registrations: controller + metadata URI + role
    SignatureOf, \* what an approval registers; NoSignature for another action
    NoApproval, NoSignature,
    MaxCrashes   \* bound: process deaths considered

ASSUME ApprovalsAssumption ==
    /\ NoApproval \notin Approvals
    /\ NoSignature \notin Signatures
    /\ ProcOf \in [Calls -> Procs]
    /\ CreatorOf \in [Approvals -> Procs]
    /\ SignatureOf \in [Approvals -> Signatures \cup {NoSignature}]
    /\ MaxCrashes \in Nat

VARIABLES
    state,     \* approvals.state, "none" before the row exists
    due,       \* approvals whose expires_at has passed
    hash,      \* rows that carry a tx hash (while executing: sync_pending_retryable)
    creating,  \* approvals whose creation is between its check and its INSERT
    at,        \* where each call stands
    on,        \* the approval it is about
    sent,      \* how often the wallet was called for each approval
    synced,    \* registrations whose transaction was reported to the Console
    crashes

vars == <<state, due, hash, creating, at, on, sent, synced, crashes>>

Blocked == {"rejected", "cancelled", "expired"}
Settled == Blocked \cup {"executed", "failed"}
Open    == {"pending", "approved"}

TypeOK ==
    /\ state \in [Approvals -> Open \cup Settled \cup {"none", "executing"}]
    /\ due \subseteq Approvals
    /\ hash \subseteq Approvals
    /\ creating \subseteq Approvals
    /\ at \in [Calls -> {"idle", "approve", "execute", "unsupported", "running", "sent",
                         "syncing"}]
    /\ on \in [Calls -> Approvals \cup {NoApproval}]
    /\ sent \in [Approvals -> Nat]
    /\ synced \subseteq Approvals
    /\ crashes \in Nat

Init ==
    /\ state = [a \in Approvals |-> "none"]
    /\ due = {}
    /\ hash = {}
    /\ creating = {}
    /\ at = [c \in Calls |-> "idle"]
    /\ on = [c \in Calls |-> NoApproval]
    /\ sent = [a \in Approvals |-> 0]
    /\ synced = {}
    /\ crashes = 0

IsRegistration(a) == SignatureOf[a] # NoSignature

\* A process in the synchronous part of a handler does nothing else.
Busy(p) ==
    \/ \E c \in Calls : ProcOf[c] = p /\ at[c] \in {"approve", "execute"}
    \/ \E a \in creating : CreatorOf[a] = p

\* checkAndExpire: every read of a row that is still open looks at the clock.
Expire(a) == IF state[a] \in Open /\ a \in due THEN "expired" ELSE state[a]

-----------------------------------------------------------------------------
\* listErc8004DuplicateCandidatesByWallet and findExistingByErc8004Signature:
\* open, executing and executed approvals, and failed ones with a tx hash.
Blocks(b) ==
    \/ Expire(b) \in Open \cup {"executing", "executed"}
    \/ state[b] = "failed" /\ b \in hash

IsDuplicate(a) ==
    IsRegistration(a) /\ \E b \in Approvals : SignatureOf[b] = SignatureOf[a] /\ Blocks(b)

CheckDuplicate(a) ==
    /\ state[a] = "none" /\ a \notin creating
    /\ ~Busy(CreatorOf[a])
    /\ ~IsDuplicate(a)
    /\ creating' = creating \cup {a}
    /\ state' = IF IsRegistration(a) THEN [b \in Approvals |-> Expire(b)] ELSE state
    /\ UNCHANGED <<due, hash, at, on, sent, synced, crashes>>

\* The mutant stores a state that is not one.
CreateAsNew(a) ==
    /\ a \in creating
    /\ state' = [state EXCEPT ![a] = "new"]
    /\ creating' = creating \ {a}
    /\ UNCHANGED <<due, hash, at, on, sent, synced, crashes>>

CreateApproval(a) ==
    /\ a \in creating
    /\ state' = [state EXCEPT ![a] = "pending"]
    /\ creating' = creating \ {a}
    /\ UNCHANGED <<due, hash, at, on, sent, synced, crashes>>

\* The clock passes expires_at; whoever reads the row next expires it.
PassDeadline(a) ==
    /\ state[a] # "none" /\ a \notin due
    /\ due' = due \cup {a}
    /\ UNCHANGED <<state, hash, creating, at, on, sent, synced, crashes>>

ReadExpired(a) ==
    /\ Expire(a) # state[a]
    /\ state' = [state EXCEPT ![a] = "expired"]
    /\ UNCHANGED <<due, hash, creating, at, on, sent, synced, crashes>>

\* approveById, reject and rejectById, cancel: one UPDATE ... WHERE state =
\* 'pending'.  It does not look at the clock, the read before it does.
FromPending(a, s) ==
    /\ state[a] = "pending"
    /\ state' = [state EXCEPT ![a] = s]
    /\ UNCHANGED <<due, hash, creating, at, on, sent, synced, crashes>>

\* Mutant: the WHERE clause names the approval only.
RejectRegardless(a) ==
    /\ state[a] # "none"
    /\ state' = [state EXCEPT ![a] = "rejected"]
    /\ UNCHANGED <<due, hash, creating, at, on, sent, synced, crashes>>

Reject(a) == FromPending(a, "rejected")

Cancel(a) == FromPending(a, "cancelled")

ApproveById(a) == IsRegistration(a) /\ FromPending(a, "approved")

-----------------------------------------------------------------------------
(***************************************************************************)
(* approve() and executeErc8004Registration(): the read, then the guarded  *)
(* transition to executing.  (approveAndExecuteErc8004 is ApproveById and  *)
(* then Execute.)                                                          *)
(***************************************************************************)
Begin(c, a, step) ==
    /\ at' = [at EXCEPT ![c] = step]
    /\ on' = [on EXCEPT ![c] = a]
    /\ UNCHANGED <<state, due, hash, creating, sent, synced, crashes>>

Approve(c, a) ==
    /\ at[c] = "idle" /\ ~Busy(ProcOf[c])
    /\ state[a] = "pending" /\ a \notin due
    /\ Begin(c, a, "approve")

Execute(c, a) ==
    /\ at[c] = "idle" /\ ~Busy(ProcOf[c])
    /\ IsRegistration(a)
    /\ state[a] = "approved" /\ a \notin due
    /\ Begin(c, a, "execute")

\* An executing registration with retry metadata skips the wallet and reports
\* the transaction on record once more.
RetrySync(c, a) ==
    /\ at[c] = "idle" /\ ~Busy(ProcOf[c])
    /\ IsRegistration(a)
    /\ state[a] = "executing" /\ a \in hash
    /\ Begin(c, a, "syncing")

Leave(c) ==
    /\ at' = [at EXCEPT ![c] = "idle"]
    /\ on' = [on EXCEPT ![c] = NoApproval]

\* UPDATE ... SET state = 'executing' WHERE state = from AND expires_at > now;
\* when it changes no row the row is read again and the call ends.
StartIfIn(c, from, next) ==
    LET a == on[c] IN
    /\ IF state[a] = from /\ a \notin due
         THEN /\ state' = [state EXCEPT ![a] = "executing"]
              /\ at' = [at EXCEPT ![c] = next]
              /\ UNCHANGED on
         ELSE /\ state' = [state EXCEPT ![a] = Expire(a)]
              /\ Leave(c)
    /\ UNCHANGED <<due, hash, creating, sent, synced, crashes>>

\* Mutant: the transition trusts the read.
StartRegardless(c) ==
    /\ at[c] = "approve"
    /\ state' = [state EXCEPT ![on[c]] = "executing"]
    /\ at' = [at EXCEPT ![c] = IF IsRegistration(on[c]) THEN "unsupported" ELSE "running"]
    /\ UNCHANGED <<due, hash, creating, on, sent, synced, crashes>>

\* The generic path refuses a registration only once it is executing.
TransitionToExecuting(c) ==
    /\ at[c] = "approve"
    /\ StartIfIn(c, "pending", IF IsRegistration(on[c]) THEN "unsupported" ELSE "running")

TransitionFromApprovedToExecuting(c) ==
    /\ at[c] = "execute"
    /\ StartIfIn(c, "approved", "running")

-----------------------------------------------------------------------------
(***************************************************************************)
(* The execution of the action.  Every UPDATE that ends it says WHERE      *)
(* state = 'executing'.                                                    *)
(***************************************************************************)
CallWallet(c) ==
    /\ at[c] = "running"
    /\ sent' = [sent EXCEPT ![on[c]] = @ + 1]
    /\ at' = [at EXCEPT ![c] = "sent"]
    /\ UNCHANGED <<state, due, hash, creating, on, synced, crashes>>

\* registerErc8004WithApproval got a tx hash and reports it to the Console.
ReportToConsole(c) ==
    /\ at[c] = "sent" /\ IsRegistration(on[c])
    /\ synced' = synced \cup {on[c]}
    /\ at' = [at EXCEPT ![c] = "syncing"]
    /\ UNCHANGED <<state, due, hash, creating, on, sent, crashes>>

\* The end of a call: its verdict, and whether that carries the tx hash.
Finish(c, s, withHash) ==
    LET a == on[c] IN
    /\ state' = IF state[a] = "executing" THEN [state EXCEPT ![a] = s] ELSE state
    /\ hash' = IF state[a] = "executing" /\ withHash THEN hash \cup {a} ELSE hash
    /\ Leave(c)
    /\ UNCHANGED <<due, creating, sent, synced, crashes>>

Succeed(c) ==
    /\ at[c] \in {"sent", "syncing"}
    /\ IsRegistration(on[c]) <=> at[c] = "syncing"
    /\ Finish(c, "executed", IsRegistration(on[c]))

\* transitionToFailed: nothing was sent, or the wallet (or the gateway before
\* it) threw, or the bookkeeping after it did, or a retry was aborted.
Fail(c) ==
    /\ \/ at[c] \in {"unsupported", "running", "sent"}
       \/ at[c] = "syncing" /\ on[c] \in hash
    /\ Finish(c, "failed", FALSE)

\* Mutants: the result is not stored with the failure; the failure is stored
\* whatever the row says by now.
SyncFailsWithoutResult(c) == at[c] = "syncing" /\ Finish(c, "failed", FALSE)

SyncFailsRegardless(c) ==
    /\ at[c] = "syncing"
    /\ state' = [state EXCEPT ![on[c]] = "failed"]
    /\ hash' = hash \cup {on[c]}
    /\ Leave(c)
    /\ UNCHANGED <<due, creating, sent, synced, crashes>>

\* The Console refused it, or the agent is not visible:
\* transitionToFailedWithResult.
SyncFails(c) == at[c] = "syncing" /\ Finish(c, "failed", TRUE)

\* Not mined yet, or the Console could not be reached:
\* saveExecutingRetryMetadata.
SyncPending(c) == at[c] = "syncing" /\ Finish(c, "executing", TRUE)

\* A process dies; nothing recovers what it left executing.
Crash(p) ==
    /\ crashes < MaxCrashes
    /\ crashes' = crashes + 1
    /\ at' = [c \in Calls |-> IF ProcOf[c] = p THEN "idle" ELSE at[c]]
    /\ on' = [c \in Calls |-> IF ProcOf[c] = p THEN NoApproval ELSE on[c]]
    /\ creating' = {a \in creating : CreatorOf[a] # p}
    /\ UNCHANGED <<state, due, hash, sent, synced>>

Continue(c) ==
    \/ TransitionToExecuting(c) \/ TransitionFromApprovedToExecuting(c)
    \/ CallWallet(c) \/ ReportToConsole(c)
    \/ Succeed(c) \/ Fail(c) \/ SyncFails(c) \/ SyncPending(c)

Next ==
    \/ \E a \in Approvals :
          \/ CheckDuplicate(a) \/ CreateApproval(a)
          \/ PassDeadline(a) \/ ReadExpired(a)
          \/ Reject(a) \/ Cancel(a) \/ ApproveById(a)
          \/ \E c \in Calls : Approve(c, a) \/ Execute(c, a) \/ RetrySync(c, a)
    \/ \E c \in Calls : Continue(c)
    \/ \E p \in Procs : Crash(p)

Spec == Init /\ [][Next]_vars

-----------------------------------------------------------------------------
(***************************************************************************)
(* Properties.                                                             *)
(***************************************************************************)

\* "Duplicate approve returns existing state, never creates duplicate tx": the
\* wallet is called at most once for an approval, whatever processes approve,
\* execute and retry it.
SingleUse == \A a \in Approvals : sent[a] <= 1

\* "rejected/cancelled/expired: blocked": no write was or is sent for them.
BlockedIsNeverSent ==
    \A a \in Approvals : state[a] \in Blocked =>
        /\ sent[a] = 0
        /\ \A c \in Calls : on[c] = a => at[c] \notin {"running", "sent", "syncing"}

\* The first verdict on an approval stays, however many executions, retries,
\* rejections and deadlines race for it.
SettledIsFinal ==
    [][\A a \in Approvals : state[a] \in Settled => state'[a] = state[a]]_vars

\* "Prevents creating duplicate on-chain registrations when a previous attempt
\* succeeded on-chain but failed during Console sync": once a registration was
\* reported to the Console, no other approval that the same process made for
\* that agent calls the wallet.
SyncedBlocksDuplicate ==
    [][\A a, b \in Approvals :
          a # b /\ SignatureOf[a] = SignatureOf[b] /\ CreatorOf[a] = CreatorOf[b]
            /\ a \in synced
          => sent'[b] = sent[b]]_vars
=============================================================================
