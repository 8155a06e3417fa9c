------------------------------ MODULE KeyLock -------------------------------
(***************************************************************************)
(* The in-memory lock per idempotency key of the runner's payments         *)
(* (withKeyLock in apps/arclayer-runner/src/services.ts).                  *)
(*                                                                         *)
(* keyQueues maps a key to an entry, an object with a busy flag and a queue*)
(* of callers.  A caller keeps the entry it found when it arrived, also    *)
(* after the map has lost it; an entry is named here by the call that      *)
(* created it.  A woken caller resumes in the microtask queue, before the  *)
(* next request is served, so the hand-over is one step.                   *)
(***************************************************************************)
EXTENDS Naturals, Sequences

CONSTANTS
    Calls,   \* invocations of the locked function
    Keys,    \* idempotency keys
    KeyOf,   \* the key of a call
    NoCall

ASSUME KeyLockAssumption ==
    /\ NoCall \notin Calls
    /\ KeyOf \in [Calls -> Keys]

VARIABLES
    keyQueues,  \* the entry of each key, or NoCall
    queue,      \* the callers queued at each entry
    entryOf,    \* the entry each call found
    place       \* where each call stands

lockVars == <<keyQueues, queue, entryOf, place>>

LockTypeOK ==
    /\ keyQueues \in [Keys -> Calls \cup {NoCall}]
    /\ queue \in [Calls -> Seq(Calls)]
    /\ entryOf \in [Calls -> Calls \cup {NoCall}]
    /\ place \in [Calls -> {"out", "queued", "inside", "done"}]

LockInit ==
    /\ keyQueues = [k \in Keys |-> NoCall]
    /\ queue = [e \in Calls |-> << >>]
    /\ entryOf = [c \in Calls |-> NoCall]
    /\ place = [c \in Calls |-> "out"]

\* entry.busy: one of the callers that share the entry runs the function.
Busy(e) == \E d \in Calls : place[d] = "inside" /\ entryOf[d] = e

Enter(c) ==
    LET k == KeyOf[c]
        e == IF keyQueues[k] = NoCall THEN c ELSE keyQueues[k]
    IN
    /\ place[c] = "out"
    /\ keyQueues' = [keyQueues EXCEPT ![k] = e]
    /\ entryOf' = [entryOf EXCEPT ![c] = e]
    /\ IF Busy(e)
         THEN /\ queue' = [queue EXCEPT ![e] = Append(@, c)]
              /\ place' = [place EXCEPT ![c] = "queued"]
         ELSE /\ place' = [place EXCEPT ![c] = "inside"]
              /\ UNCHANGED queue

\* Mutants: the next caller is never woken, or the entry is never deleted.
LeaveWithoutWaking(c) ==
    /\ place[c] = "inside"
    /\ place' = [place EXCEPT ![c] = "done"]
    /\ UNCHANGED <<keyQueues, queue, entryOf>>

LeaveKeepingEntry(c) ==
    LET e == entryOf[c] IN
    /\ place[c] = "inside"
    /\ IF queue[e] = << >>
         THEN /\ place' = [place EXCEPT ![c] = "done"]
              /\ UNCHANGED queue
         ELSE /\ place' = [place EXCEPT ![c] = "done", ![Head(queue[e])] = "inside"]
              /\ queue' = [queue EXCEPT ![e] = Tail(@)]
    /\ UNCHANGED <<keyQueues, entryOf>>

\* The finally block: busy is still false when the emptiness of the queue is
\* tested, so the map loses its entry - whichever that now is - also when the
\* last queued caller was just woken.
Leave(c) ==
    LET e == entryOf[c] IN
    /\ place[c] = "inside"
    /\ IF queue[e] = << >>
         THEN /\ place' = [place EXCEPT ![c] = "done"]
              /\ UNCHANGED queue
         ELSE /\ place' = [place EXCEPT ![c] = "done", ![Head(queue[e])] = "inside"]
              /\ queue' = [queue EXCEPT ![e] = Tail(@)]
    /\ keyQueues' = IF Len(queue[e]) <= 1
                      THEN [keyQueues EXCEPT ![KeyOf[c]] = NoCall]
                      ELSE keyQueues
    /\ UNCHANGED entryOf

\* The process dies: the map and every call that has begun are gone.
ForgetCalls ==
    /\ keyQueues' = [k \in Keys |-> NoCall]
    /\ queue' = [e \in Calls |-> << >>]
    /\ place' = [c \in Calls |-> IF place[c] = "out" THEN "out" ELSE "done"]
    /\ UNCHANGED entryOf

-----------------------------------------------------------------------------
\* A queued call is never forgotten: the entry it waits at is busy, and it is
\* in the queue of that entry.
NoLostWakeup ==
    \A c \in Calls : place[c] = "queued" =>
        /\ Busy(entryOf[c])
        /\ \E i \in 1 .. Len(queue[entryOf[c]]) : queue[entryOf[c]][i] = c

\* When nothing runs the map is empty: it does not grow with every key used.
EntriesAreDropped ==
    (\A c \in Calls : place[c] \in {"out", "done"}) => \A k \in Keys : keyQueues[k] = NoCall
=============================================================================
