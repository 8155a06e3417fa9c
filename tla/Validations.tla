----------------------------- MODULE Validations -----------------------------
(***************************************************************************)
(* ERC-8004 validations (lib/a2a/validation.ts): the server's two keys     *)
(* send a validation request and its response to the registry, and a row   *)
(* of a2a_validations keeps each from being sent twice.                    *)
(*                                                                         *)
(* One request hash.  A transaction may be sent although the call that     *)
(* sends it throws.                                                        *)
(***************************************************************************)
EXTENDS Naturals, FiniteSets

CONSTANTS
    Validators,   \* requests of the API under way
    Sends,        \* transactions the keys may send
    NoSend,
    Verdicts,     \* passed, failed
    MaxLateErrors \* bound: calls that throw after sending

ASSUME ValidationsAssumption ==
    NoSend \notin Sends /\ Verdicts \subseteq 1 .. 2 /\ MaxLateErrors \in Nat

VARIABLES
    vrow,        \* the row of a2a_validations
    registry,    \* the registry's record of the hash
    sent,        \* the transactions
    worker,      \* calls of createValidationRequest and createValidationResponse
    lateErrors

validationVars == <<vrow, registry, sent, worker, lateErrors>>

Unsent == [kind |-> "none", state |-> "unsent", verdict |-> 0]
Free   == [stage |-> "free", kind |-> "none", send |-> NoSend, verdict |-> 0]
NoVrow == [there |-> FALSE, requestTx |-> NoSend, responseTx |-> NoSend, locked |-> FALSE, response |-> 0]

ValidationTypeOK ==
    /\ vrow \in [there : BOOLEAN, requestTx : Sends \cup {NoSend}, responseTx : Sends \cup {NoSend},
                 locked : BOOLEAN, response : {0} \cup Verdicts]
    /\ registry \in [requested : BOOLEAN, response : {0} \cup Verdicts]
    /\ sent \in [Sends -> [kind : {"none", "request", "response"}, verdict : {0} \cup Verdicts,
                           state : {"unsent", "live", "success", "reverted"}]]
    /\ worker \in [Validators -> [stage : {"free", "claim", "write", "undo", "store", "await", "record"},
                                  kind : {"none", "request", "response"},
                                  send : Sends \cup {NoSend}, verdict : {0} \cup Verdicts]]
    /\ lateErrors \in 0 .. MaxLateErrors

ValidationInit ==
    /\ vrow = NoVrow /\ registry = [requested |-> FALSE, response |-> 0]
    /\ sent = [t \in Sends |-> Unsent]
    /\ worker = [v \in Validators |-> Free]
    /\ lateErrors = 0

WorkerOnly == UNCHANGED <<vrow, registry, sent, lateErrors>>
RowOnlyV   == UNCHANGED <<registry, sent, lateErrors>>
Turns(v, s) == worker' = [worker EXCEPT ![v].stage = s]
Ends(v)     == worker' = [worker EXCEPT ![v] = Free]

InsertedAnyway == vrow.requestTx = NoSend     \* a mutant: an upsert

\* The primary key lets one call insert the row; the others return what is there.
Insertable == ~vrow.there

AskForValidation(v) ==
    /\ worker[v] = Free
    /\ Insertable
    /\ vrow' = [vrow EXCEPT !.there = TRUE]
    /\ worker' = [worker EXCEPT ![v].stage = "write", ![v].kind = "request"]
    /\ RowOnlyV

\* createValidationResponse: the row and the registry are read ...
Respond(v, verdict) ==
    /\ worker[v] = Free
    /\ vrow.there /\ vrow.response = 0 /\ vrow.responseTx = NoSend
    /\ registry.requested /\ registry.response = 0
    /\ worker' = [worker EXCEPT ![v] = [stage |-> "claim", kind |-> "response", send |-> NoSend,
                                        verdict |-> verdict]]
    /\ WorkerOnly

\* ... and the lock is taken where none is.
LockableAgain == vrow.there /\ vrow.response = 0 /\ vrow.responseTx = NoSend    \* a mutant
Lockable      == vrow.there /\ vrow.response = 0 /\ vrow.responseTx = NoSend /\ ~vrow.locked

LockResponse(v) ==
    /\ worker[v].stage = "claim"
    /\ IF Lockable THEN vrow' = [vrow EXCEPT !.locked = TRUE] /\ Turns(v, "write")
       ELSE Ends(v) /\ UNCHANGED vrow
    /\ RowOnlyV

\* writeContract: sent, refused, or sent and yet thrown.
Write(v) ==
    /\ worker[v].stage = "write"
    /\ \/ \E t \in Sends : \E told \in BOOLEAN :
             /\ sent[t] = Unsent
             /\ sent' = [sent EXCEPT ![t] = [kind |-> worker[v].kind, state |-> "live",
                                             verdict |-> worker[v].verdict]]
             /\ IF told THEN /\ worker' = [worker EXCEPT ![v].stage = "store", ![v].send = t]
                             /\ UNCHANGED lateErrors
                ELSE /\ lateErrors < MaxLateErrors /\ lateErrors' = lateErrors + 1
                     /\ Turns(v, "undo")
       \/ Turns(v, "undo") /\ UNCHANGED <<sent, lateErrors>>
    /\ UNCHANGED <<vrow, registry>>

\* The error path: the row, or the lock, is given back.
Undo(v) ==
    /\ worker[v].stage = "undo"
    /\ vrow' = IF worker[v].kind = "request"
               THEN IF vrow.requestTx = NoSend THEN NoVrow ELSE vrow
               ELSE IF vrow.responseTx = NoSend THEN [vrow EXCEPT !.locked = FALSE] ELSE vrow
    /\ Ends(v) /\ RowOnlyV

StoreHash(v) ==
    LET t == worker[v].send IN
    /\ worker[v].stage = "store"
    /\ vrow' = IF ~vrow.there THEN vrow
               ELSE IF worker[v].kind = "request" THEN [vrow EXCEPT !.requestTx = t]
               ELSE IF vrow.response = 0 /\ vrow.responseTx = NoSend THEN [vrow EXCEPT !.responseTx = t]
               ELSE vrow
    /\ Turns(v, "await") /\ RowOnlyV

\* waitForTransactionReceipt: whatever the receipt says, it is recorded.
Await(v) ==
    /\ worker[v].stage = "await"
    /\ sent[worker[v].send].state \in {"success", "reverted"}
    /\ Turns(v, "record") /\ WorkerOnly

Record(v) ==
    /\ worker[v].stage = "record"
    /\ vrow' = IF worker[v].kind = "response" /\ vrow.responseTx = worker[v].send
               THEN [vrow EXCEPT !.response = worker[v].verdict] ELSE vrow
    /\ Ends(v) /\ RowOnlyV

\* A database error, the 60 s of the receipt or the end of the process.
GiveUp(v) ==
    /\ worker[v] # Free
    /\ Ends(v) /\ WorkerOnly

\* The registry takes a hash once and one response to it.
SendIsMined(t) ==
    LET s == sent[t]
        accepted == IF s.kind = "request" THEN ~registry.requested
                    ELSE registry.requested /\ registry.response = 0
    IN
    /\ s.state = "live"
    /\ \/ /\ accepted
          /\ registry' = IF s.kind = "request" THEN [registry EXCEPT !.requested = TRUE]
                         ELSE [registry EXCEPT !.response = s.verdict]
          /\ sent' = [sent EXCEPT ![t].state = "success"]
       \/ sent' = [sent EXCEPT ![t].state = "reverted"] /\ UNCHANGED registry
    /\ UNCHANGED <<vrow, worker, lateErrors>>

ValidationNext ==
    \/ \E v \in Validators :
          \/ AskForValidation(v) \/ LockResponse(v) \/ Write(v) \/ Undo(v) \/ StoreHash(v)
          \/ Await(v) \/ Record(v) \/ GiveUp(v)
          \/ \E verdict \in Verdicts : Respond(v, verdict)
    \/ \E t \in Sends : SendIsMined(t)

ValidationSpec == ValidationInit /\ [][ValidationNext]_validationVars

(***************************************************************************)
(* The row lets one request and one response of a hash be sent, whatever   *)
(* calls race, fail or die.  The exception is a call that throws although  *)
(* it has sent: the error path then gives back what it had taken.          *)
(***************************************************************************)
ValidatedOnce ==
    lateErrors = 0 => \A k \in {"request", "response"} :
                          Cardinality({t \in Sends : sent[t].kind = k}) <= 1

\* The response the row records is the one the registry has.
RecordedIsOnChain == vrow.response # 0 => registry.response = vrow.response
==============================================================================
