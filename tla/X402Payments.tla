---------------------------- MODULE X402Payments ----------------------------
(***************************************************************************)
(* Paying an x402 service (payX402 in apps/arclayer-runner/src/services.ts)*)
(* under the lock per idempotency key, with the append-only spending ledger*)
(* (packages/runner-core/src/ledger.ts), which survives a crash.           *)
(*                                                                         *)
(* Every await of payX402 ends a step; step[c] names the next one.  The    *)
(* queries of the ledger do not look at the order of its events, so it is  *)
(* three sets.  bill is the payment of a call as the paid server sees it:  *)
(* outside the repository, and without idempotency, since the adapter's    *)
(* payService never sends the key.  All attempts fall on one day.          *)
(***************************************************************************)
EXTENDS KeyLock, FiniteSets, Functions

CONSTANTS
    AmountOf,          \* maxAmountUsdc of a call, in some unit
    DailyLimit,
    LateErrors,        \* may payService throw after the server took the payment?
    BookkeepingFails,  \* calls whose appends to the ledger and the receipts may fail
    MaxCrashes         \* bound: process deaths considered

ASSUME PaymentsAssumption ==
    /\ IsFiniteSet(Calls)
    /\ AmountOf \in [Calls -> Nat]
    /\ DailyLimit \in Nat
    /\ LateErrors \in BOOLEAN
    /\ BookkeepingFails \subseteq Calls
    /\ MaxCrashes \in Nat

VARIABLES
    attempts,   \* attempt events: the calls that recorded one
    succeeded,  \* keys with a success event
    failed,     \* keys with a failure event
    step,       \* the next step of each call
    bill,       \* the payment of each call
    crashes

ledgerVars == <<attempts, succeeded, failed>>
vars == <<lockVars, ledgerVars, step, bill, crashes>>

TypeOK ==
    /\ LockTypeOK
    /\ attempts \subseteq Calls
    /\ succeeded \subseteq Keys
    /\ failed \subseteq Keys
    /\ step \in [Calls -> {"succeeded", "pending", "limit", "attempt", "pay", "paying",
                           "success", "already", "failure"}]
    /\ bill \in [Calls -> {"none", "live", "settled", "void"}]
    /\ crashes \in Nat

Init ==
    /\ LockInit
    /\ attempts = {}
    /\ succeeded = {}
    /\ failed = {}
    /\ step = [c \in Calls |-> "succeeded"]
    /\ bill = [c \in Calls |-> "none"]
    /\ crashes = 0

-----------------------------------------------------------------------------
\* The queries of the ledger.
HasSucceeded(k) == k \in succeeded

HasPendingAttempt(k) ==
    /\ \E d \in attempts : KeyOf[d] = k
    /\ k \notin succeeded \cup failed

\* Every attempt of a key that has a success event counts.
SumSuccessful ==
    FoldFunctionOnSet(+, 0, AmountOf, {d \in attempts : KeyOf[d] \in succeeded})

-----------------------------------------------------------------------------
At(c, s) == place[c] = "inside" /\ step[c] = s

GoTo(c, s) == step' = [step EXCEPT ![c] = s]

Request(c) ==
    /\ Enter(c)
    /\ UNCHANGED <<ledgerVars, step, bill, crashes>>

\* The call ends without another event: its result, or the error it throws,
\* goes to the caller.
End(c) ==
    /\ Leave(c)
    /\ UNCHANGED <<ledgerVars, step, bill, crashes>>

CheckSucceeded(c) ==
    /\ At(c, "succeeded")
    /\ IF HasSucceeded(KeyOf[c])
         THEN End(c)
         ELSE GoTo(c, "pending") /\ UNCHANGED <<lockVars, ledgerVars, bill, crashes>>

\* Mutant: a pending attempt is not looked for.
PendingUnchecked(c) ==
    /\ At(c, "pending")
    /\ GoTo(c, "limit") /\ UNCHANGED <<lockVars, ledgerVars, bill, crashes>>

CheckPending(c) ==
    /\ At(c, "pending")
    /\ IF HasPendingAttempt(KeyOf[c])
         THEN End(c)
         ELSE GoTo(c, "limit") /\ UNCHANGED <<lockVars, ledgerVars, bill, crashes>>

\* assertDailyLimit; assertMonthlyLimit is the same check over another bucket.
CheckLimit(c) ==
    /\ At(c, "limit")
    /\ IF SumSuccessful + AmountOf[c] > DailyLimit
         THEN End(c)
         ELSE GoTo(c, "attempt") /\ UNCHANGED <<lockVars, ledgerVars, bill, crashes>>

\* Mutant: the payment is started before the attempt is on record.
PayBeforeRecord(c) ==
    /\ At(c, "attempt")
    /\ bill' = [bill EXCEPT ![c] = "live"]
    /\ GoTo(c, "pay")
    /\ UNCHANGED <<lockVars, ledgerVars, crashes>>

RecordAttempt(c) ==
    /\ At(c, "attempt")
    /\ attempts' = attempts \cup {c}
    /\ GoTo(c, "pay")
    /\ UNCHANGED <<lockVars, succeeded, failed, bill, crashes>>

\* payService sends the signed payment.
Submit(c) ==
    /\ At(c, "pay")
    /\ bill' = [bill EXCEPT ![c] = "live"]
    /\ GoTo(c, "paying")
    /\ UNCHANGED <<lockVars, ledgerVars, crashes>>

\* It returns before that when the server asks for no payment, and throws when
\* it cannot make one.
NothingToPay(c) ==
    /\ At(c, "pay")
    /\ GoTo(c, "success")
    /\ UNCHANGED <<lockVars, ledgerVars, bill, crashes>>

CannotPay(c) ==
    /\ At(c, "pay")
    /\ GoTo(c, "failure")
    /\ UNCHANGED <<lockVars, ledgerVars, bill, crashes>>

\* Any response is a result, also one that is not ok; nobody looks.
PayReturns(c) ==
    /\ At(c, "paying")
    /\ GoTo(c, "success")
    /\ UNCHANGED <<lockVars, ledgerVars, bill, crashes>>

PayThrows(c) ==
    /\ At(c, "paying")
    /\ LateErrors \/ bill[c] = "void"
    /\ GoTo(c, "failure")
    /\ UNCHANGED <<lockVars, ledgerVars, bill, crashes>>

\* A 409: the server has been paid under this key before.
PayThrowsAlreadyPaid(c) ==
    /\ At(c, "paying")
    /\ \E d \in Calls : KeyOf[d] = KeyOf[c] /\ bill[d] = "settled"
    /\ GoTo(c, "already")
    /\ UNCHANGED <<lockVars, ledgerVars, bill, crashes>>

\* The broker's timeout or an abort: the attempt is left pending.
PayTimesOut(c) ==
    /\ At(c, "pay") \/ At(c, "paying")
    /\ End(c)

\* Mutant: the success is recorded under the wrong identifier.
RecordSuccessOfCall(c) ==
    /\ At(c, "success") \/ At(c, "already")
    /\ succeeded' = succeeded \cup {c}
    /\ Leave(c)
    /\ UNCHANGED <<attempts, failed, step, bill, crashes>>

\* receipts.append and recordSuccess.
RecordSuccess(c) ==
    /\ At(c, "success") \/ At(c, "already")
    /\ succeeded' = succeeded \cup {KeyOf[c]}
    /\ Leave(c)
    /\ UNCHANGED <<attempts, failed, step, bill, crashes>>

\* A failed append inside the try block ends up in its catch block, which
\* records a failure.
RecordSuccessFails(c) ==
    /\ c \in BookkeepingFails
    /\ At(c, "success")
    /\ GoTo(c, "failure")
    /\ UNCHANGED <<lockVars, ledgerVars, bill, crashes>>

RecordFailure(c) ==
    /\ At(c, "failure")
    /\ failed' = failed \cup {KeyOf[c]}
    /\ Leave(c)
    /\ UNCHANGED <<attempts, succeeded, step, bill, crashes>>

\* Outside the try block, or in its catch block, it just ends the call; so it
\* does in the try block once the broker has aborted the call.
RecordFails(c) ==
    /\ c \in BookkeepingFails
    /\ At(c, "attempt") \/ At(c, "success") \/ At(c, "already") \/ At(c, "failure")
    /\ End(c)

-----------------------------------------------------------------------------
\* The paid server and the facilitator behind it.
Settle(c) ==
    /\ bill[c] = "live"
    /\ bill' = [bill EXCEPT ![c] = "settled"]
    /\ UNCHANGED <<lockVars, ledgerVars, step, crashes>>

Void(c) ==
    /\ bill[c] = "live"
    /\ bill' = [bill EXCEPT ![c] = "void"]
    /\ UNCHANGED <<lockVars, ledgerVars, step, crashes>>

Crash ==
    /\ crashes < MaxCrashes
    /\ crashes' = crashes + 1
    /\ ForgetCalls
    /\ UNCHANGED <<ledgerVars, step, bill>>

Proceed(c) ==
    \/ CheckSucceeded(c) \/ CheckPending(c) \/ CheckLimit(c) \/ RecordAttempt(c)
    \/ Submit(c) \/ NothingToPay(c) \/ CannotPay(c)
    \/ PayReturns(c) \/ PayThrows(c) \/ PayThrowsAlreadyPaid(c) \/ PayTimesOut(c)
    \/ RecordSuccess(c) \/ RecordSuccessFails(c) \/ RecordFailure(c) \/ RecordFails(c)

Next ==
    \/ \E c \in Calls : Request(c) \/ Proceed(c) \/ Settle(c) \/ Void(c)
    \/ Crash

Spec == Init /\ [][Next]_vars

\* Every await of a call ends (payService is aborted by the broker's timeout at
\* the latest) and a submitted payment is settled or void in the end.
Fairness ==
    \A c \in Calls : WF_vars(Proceed(c)) /\ WF_vars(Settle(c) \/ Void(c))

FairSpec == Spec /\ Fairness

-----------------------------------------------------------------------------
(***************************************************************************)
(* Properties.                                                             *)
(***************************************************************************)

\* "Prevents concurrent requests with the same key from double-paying": at most
\* one payment per idempotency key.
NoDoublePay ==
    \A c, d \in Calls :
        c # d /\ KeyOf[c] = KeyOf[d] /\ bill[c] \in {"live", "settled"}
          => bill[d] \notin {"live", "settled"}

\* No money moves that the ledger has not an attempt of: a crash at any point
\* leaves every payment on record.
PaidIsOnRecord ==
    \A c \in Calls : bill[c] # "none" => c \in attempts

\* "persistent spending limits": what has been paid never exceeds the daily
\* limit.
PaidWithinLimit ==
    FoldFunctionOnSet(+, 0, AmountOf, {c \in Calls : bill[c] = "settled"}) <= DailyLimit

\* Every queued call gets its turn.
QueuedIsServed ==
    \A c \in Calls : place[c] = "queued" ~> place[c] # "queued"
=============================================================================
