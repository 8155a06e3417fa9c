------------------------- MODULE X402PaymentsProofs -------------------------
(***************************************************************************)
(* Theorems about KeyLock and X402Payments, for any number of calls, keys  *)
(* and crashes.                                                            *)
(***************************************************************************)
EXTENDS X402Payments, SequenceTheorems, TLAPS

USE KeyLockAssumption, PaymentsAssumption

(***************************************************************************)
(* The lock.  What the queues hold are exactly the queued calls, each once,*)
(* at the entry it found.                                                  *)
(***************************************************************************)
InQueue(e, c) == \E i \in 1 .. Len(queue[e]) : queue[e][i] = c

QueuesHoldQueued ==
    \A e \in Calls : \A i \in 1 .. Len(queue[e]) :
        place[queue[e][i]] = "queued" /\ entryOf[queue[e][i]] = e

NobodyTwice ==
    \A e \in Calls : \A i, j \in 1 .. Len(queue[e]) : queue[e][i] = queue[e][j] => i = j

BegunHasEntry ==
    \A c \in Calls : place[c] \in {"queued", "inside"} => entryOf[c] \in Calls

LockInv == LockTypeOK /\ QueuesHoldQueued /\ NobodyTwice /\ BegunHasEntry /\ NoLostWakeup

LEMMA InitLockInv == LockInit => LockInv
  BY DEF LockInit, LockInv, LockTypeOK, QueuesHoldQueued, NobodyTwice, BegunHasEntry,
         NoLostWakeup

LEMMA EnterKeepsLockInv ==
  ASSUME LockInv, NEW c \in Calls, Enter(c)
  PROVE  LockInv'
  <1> DEFINE e == IF keyQueues[KeyOf[c]] = NoCall THEN c ELSE keyQueues[KeyOf[c]]
             BusyNext(x) == \E y \in Calls : place'[y] = "inside" /\ entryOf'[y] = x
             InQueueNext(x, d) == \E i \in 1 .. Len(queue'[x]) : queue'[x][i] = d
  <1> USE DEF LockInv
  <1>0. e \in Calls /\ place[c] = "out" /\ entryOf' = [entryOf EXCEPT ![c] = e]
    BY DEF Enter, LockTypeOK
  <1>1. \A x \in Calls : ~InQueue(x, c)
    BY <1>0 DEF QueuesHoldQueued, InQueue
  <1>2. CASE Busy(e)
    <2>1. /\ queue' = [queue EXCEPT ![e] = Append(@, c)]
          /\ place' = [place EXCEPT ![c] = "queued"]
          /\ keyQueues' = [keyQueues EXCEPT ![KeyOf[c]] = e]
      BY <1>2 DEF Enter
    <2>2. LockTypeOK'
      BY <1>0, <2>1 DEF LockTypeOK
    <2>3. /\ Len(queue[e]) \in Nat
          /\ Len(queue'[e]) = Len(queue[e]) + 1
          /\ \A i \in 1 .. Len(queue[e]) : queue'[e][i] = queue[e][i]
          /\ queue'[e][Len(queue[e]) + 1] = c
          /\ \A x \in Calls \ {e} : queue'[x] = queue[x]
      BY <1>0, <2>1 DEF LockTypeOK
    <2>4. \A x \in Calls : \A i \in 1 .. Len(queue'[x]) :
             \/ i \in 1 .. Len(queue[x]) /\ queue'[x][i] = queue[x][i] /\ queue[x][i] # c
             \/ x = e /\ i = Len(queue[e]) + 1 /\ queue'[x][i] = c
      BY <1>1, <2>3, SMTT(30) DEF InQueue
    <2>5. QueuesHoldQueued'
      <3> SUFFICES ASSUME NEW x \in Calls, NEW i \in 1 .. Len(queue'[x])
                   PROVE  place'[queue'[x][i]] = "queued" /\ entryOf'[queue'[x][i]] = x
        BY DEF QueuesHoldQueued
      <3>1. CASE i \in 1 .. Len(queue[x]) /\ queue'[x][i] = queue[x][i] /\ queue[x][i] # c
        <4>1. queue[x][i] \in Calls
          BY <3>1 DEF LockTypeOK
        <4> QED
          BY <3>1, <4>1, <1>0, <2>1 DEF QueuesHoldQueued, LockTypeOK
      <3>2. CASE x = e /\ queue'[x][i] = c
        BY <3>2, <1>0, <2>1 DEF LockTypeOK
      <3> QED
        BY <2>4, <3>1, <3>2
    <2>6. NobodyTwice'
      <3> SUFFICES ASSUME NEW x \in Calls,
                          NEW i \in 1 .. Len(queue'[x]), NEW j \in 1 .. Len(queue'[x]),
                          queue'[x][i] = queue'[x][j]
                   PROVE  i = j
        BY DEF NobodyTwice
      <3>1. CASE queue'[x][i] = c
        <4>1. x = e /\ i = Len(queue[e]) + 1
          BY <2>4, <3>1
        <4>2. x = e /\ j = Len(queue[e]) + 1
          BY <2>4, <3>1
        <4> QED
          BY <4>1, <4>2
      <3>2. CASE queue'[x][i] # c
        <4>1. i \in 1 .. Len(queue[x]) /\ queue'[x][i] = queue[x][i]
          BY <2>4, <3>2
        <4>2. j \in 1 .. Len(queue[x]) /\ queue'[x][j] = queue[x][j]
          BY <2>4, <3>2
        <4> QED
          BY <4>1, <4>2 DEF NobodyTwice
      <3> QED
        BY <3>1, <3>2
    <2>7. BegunHasEntry'
      BY <1>0, <2>1 DEF BegunHasEntry, LockTypeOK
    <2>8. NoLostWakeup'
      <3> SUFFICES ASSUME NEW d \in Calls, place'[d] = "queued"
                   PROVE  BusyNext(entryOf'[d]) /\ InQueueNext(entryOf'[d], d)
        BY DEF NoLostWakeup, Busy
      <3>1. \A x \in Calls : Busy(x) => BusyNext(x)
        BY <1>0, <2>1 DEF Busy, LockTypeOK
      <3>2. CASE d = c
        BY <3>1, <3>2, <1>0, <1>2, <2>3 DEF InQueue, LockTypeOK
      <3>3. CASE d # c
        <4>1. place[d] = "queued" /\ entryOf'[d] = entryOf[d] /\ entryOf[d] \in Calls
          BY <3>3, <1>0, <2>1 DEF LockTypeOK, BegunHasEntry
        <4>2. Busy(entryOf[d]) /\ InQueue(entryOf[d], d)
          BY <4>1 DEF NoLostWakeup, InQueue
        <4>3. InQueueNext(entryOf[d], d)
          <5>1. PICK i \in 1 .. Len(queue[entryOf[d]]) : queue[entryOf[d]][i] = d
            BY <4>2 DEF InQueue
          <5>2. /\ i \in 1 .. Len(queue'[entryOf[d]])
                /\ queue'[entryOf[d]][i] = d
            BY <4>1, <5>1, <2>3, SMTT(30)
          <5> QED
            BY <5>2
        <4> QED
          BY <4>1, <4>2, <4>3, <3>1
      <3> QED
        BY <3>2, <3>3
    <2> QED
      BY <2>2, <2>5, <2>6, <2>7, <2>8
  <1>3. CASE ~Busy(e)
    <2>1. /\ queue' = queue
          /\ place' = [place EXCEPT ![c] = "inside"]
          /\ keyQueues' = [keyQueues EXCEPT ![KeyOf[c]] = e]
      BY <1>3 DEF Enter
    <2>2. LockTypeOK'
      BY <1>0, <2>1 DEF LockTypeOK
    <2>3. QueuesHoldQueued' /\ NobodyTwice'
      <3>1. \A x \in Calls : \A i \in 1 .. Len(queue[x]) :
               queue[x][i] \in Calls /\ queue[x][i] # c
        BY <1>1 DEF InQueue, LockTypeOK
      <3> QED
        BY <3>1, <1>0, <2>1 DEF QueuesHoldQueued, NobodyTwice, LockTypeOK
    <2>4. BegunHasEntry'
      BY <1>0, <2>1 DEF BegunHasEntry, LockTypeOK
    <2>5. NoLostWakeup'
      <3>1. \A x \in Calls : Busy(x) => BusyNext(x)
        BY <1>0, <2>1 DEF Busy, LockTypeOK
      <3>2. \A d \in Calls : place'[d] = "queued" =>
               place[d] = "queued" /\ entryOf'[d] = entryOf[d] /\ entryOf[d] \in Calls
        BY <1>0, <2>1 DEF LockTypeOK, BegunHasEntry
      <3> SUFFICES ASSUME NEW d \in Calls, place'[d] = "queued"
                   PROVE  BusyNext(entryOf'[d]) /\ InQueueNext(entryOf'[d], d)
        BY DEF NoLostWakeup, Busy, InQueue
      <3>3. Busy(entryOf[d]) /\ InQueue(entryOf[d], d)
        BY <3>2 DEF NoLostWakeup, InQueue
      <3>4. InQueueNext(entryOf[d], d)
        BY <3>3, <2>1 DEF InQueue
      <3> QED
        BY <3>1, <3>2, <3>3, <3>4
    <2> QED
      BY <2>2, <2>3, <2>4, <2>5
  <1> QED
    BY <1>2, <1>3

LEMMA LeaveKeepsLockInv ==
  ASSUME LockInv, NEW c \in Calls, Leave(c)
  PROVE  LockInv'
  <1> DEFINE e == entryOf[c]
             h == Head(queue[e])
             BusyNext(x) == \E y \in Calls : place'[y] = "inside" /\ entryOf'[y] = x
             InQueueNext(x, d) == \E i \in 1 .. Len(queue'[x]) : queue'[x][i] = d
  <1> USE DEF LockInv
  <1>0. /\ e \in Calls /\ place[c] = "inside" /\ entryOf' = entryOf
        /\ queue[e] \in Seq(Calls)
    BY DEF Leave, BegunHasEntry, LockTypeOK
  <1>1. keyQueues' \in [Keys -> Calls \cup {NoCall}]
    BY DEF Leave, LockTypeOK
  <1>2. CASE queue[e] = << >>
    <2>1. place' = [place EXCEPT ![c] = "done"] /\ queue' = queue
      BY <1>2 DEF Leave
    <2>2. LockTypeOK' /\ BegunHasEntry' /\ NobodyTwice'
      BY <1>0, <1>1, <2>1 DEF LockTypeOK, BegunHasEntry, NobodyTwice
    <2>3. QueuesHoldQueued'
      <3>1. \A x \in Calls : \A i \in 1 .. Len(queue[x]) :
               queue[x][i] \in Calls /\ queue[x][i] # c
        BY <1>0 DEF QueuesHoldQueued, LockTypeOK
      <3> QED
        BY <3>1, <1>0, <2>1 DEF QueuesHoldQueued, LockTypeOK
    <2>4. NoLostWakeup'
      <3> SUFFICES ASSUME NEW d \in Calls, place'[d] = "queued"
                   PROVE  BusyNext(entryOf'[d]) /\ InQueueNext(entryOf'[d], d)
        BY DEF NoLostWakeup, Busy
      <3>1. place[d] = "queued" /\ Busy(entryOf[d]) /\ InQueue(entryOf[d], d)
        BY <2>1 DEF NoLostWakeup, InQueue, LockTypeOK
      <3>2. entryOf[d] # e
        BY <3>1, <1>2 DEF InQueue
      <3>3. BusyNext(entryOf[d])
        BY <3>1, <3>2, <1>0, <2>1 DEF Busy, LockTypeOK
      <3> QED
        BY <3>1, <3>3, <1>0, <2>1 DEF InQueue
    <2> QED
      BY <2>2, <2>3, <2>4
  <1>3. CASE queue[e] # << >>
    <2>0. /\ h \in Calls /\ h = queue[e][1] /\ Len(queue[e]) \in Nat \ {0}
          /\ place[h] = "queued" /\ entryOf[h] = e /\ h # c
      BY <1>0, <1>3 DEF QueuesHoldQueued
    <2>1. /\ place' = [place EXCEPT ![c] = "done", ![h] = "inside"]
          /\ queue' = [queue EXCEPT ![e] = Tail(@)]
      BY <1>3 DEF Leave
    <2>2. LockTypeOK' /\ BegunHasEntry'
      <3>1. Tail(queue[e]) \in Seq(Calls)
        BY <1>0, <1>3
      <3>2. LockTypeOK'
        BY <1>0, <1>1, <2>0, <2>1, <3>1 DEF LockTypeOK
      <3>3. BegunHasEntry'
        BY <1>0, <2>0, <2>1 DEF LockTypeOK, BegunHasEntry
      <3> QED
        BY <3>2, <3>3
    <2>3. /\ Len(queue'[e]) = Len(queue[e]) - 1
          /\ \A i \in 1 .. Len(queue'[e]) : queue'[e][i] = queue[e][i + 1]
          /\ \A x \in Calls \ {e} : queue'[x] = queue[x]
      BY <1>0, <1>3, <2>1 DEF LockTypeOK
    <2>4. QueuesHoldQueued'
      <3> SUFFICES ASSUME NEW x \in Calls, NEW i \in 1 .. Len(queue'[x])
                   PROVE  place'[queue'[x][i]] = "queued" /\ entryOf'[queue'[x][i]] = x
        BY DEF QueuesHoldQueued
      <3>1. PICK j \in 1 .. Len(queue[x]) : queue'[x][i] = queue[x][j] /\ (x = e => j # 1)
        <4>1. CASE x = e
          <5>1. i + 1 \in 1 .. Len(queue[x]) /\ queue'[x][i] = queue[x][i + 1] /\ i + 1 # 1
            BY <4>1, <2>0, <2>3
          <5> QED
            BY <5>1
        <4>2. CASE x # e
          BY <4>2, <2>3
        <4> QED
          BY <4>1, <4>2
      <3>2. /\ queue[x][j] \in Calls /\ place[queue[x][j]] = "queued"
            /\ entryOf[queue[x][j]] = x
        BY DEF QueuesHoldQueued, LockTypeOK
      <3>3. queue[x][j] # h
        <4>1. CASE x = e
          BY <4>1, <3>1, <2>0 DEF NobodyTwice
        <4>2. CASE x # e
          BY <4>2, <3>2, <2>0
        <4> QED
          BY <4>1, <4>2
      <3> QED
        BY <3>1, <3>2, <3>3, <1>0, <2>1 DEF LockTypeOK
    <2>5. NobodyTwice'
      <3> SUFFICES ASSUME NEW x \in Calls,
                          NEW i \in 1 .. Len(queue'[x]), NEW j \in 1 .. Len(queue'[x]),
                          queue'[x][i] = queue'[x][j]
                   PROVE  i = j
        BY DEF NobodyTwice
      <3>1. CASE x = e
        <4>1. /\ i + 1 \in 1 .. Len(queue[e]) /\ j + 1 \in 1 .. Len(queue[e])
              /\ queue[e][i + 1] = queue[e][j + 1]
          BY <3>1, <2>0, <2>3
        <4>2. i + 1 = j + 1
          BY <4>1, <1>0 DEF NobodyTwice
        <4> QED
          BY <4>2
      <3>2. CASE x # e
        BY <3>2, <2>3 DEF NobodyTwice
      <3> QED
        BY <3>1, <3>2
    <2>6. NoLostWakeup'
      <3> SUFFICES ASSUME NEW d \in Calls, place'[d] = "queued"
                   PROVE  BusyNext(entryOf'[d]) /\ InQueueNext(entryOf'[d], d)
        BY DEF NoLostWakeup, Busy
      <3>1. place[d] = "queued" /\ d # h
        BY <2>0, <2>1 DEF LockTypeOK
      <3>2. Busy(entryOf[d]) /\ InQueue(entryOf[d], d) /\ entryOf[d] \in Calls
        BY <3>1 DEF NoLostWakeup, InQueue, BegunHasEntry
      <3>3. CASE entryOf[d] = e
        <4>1. BusyNext(e)
          BY <1>0, <2>0, <2>1 DEF Busy, LockTypeOK
        <4>2. PICK i \in 1 .. Len(queue[e]) : queue[e][i] = d
          BY <3>2, <3>3 DEF InQueue
        <4>3. i - 1 \in 1 .. Len(queue'[e]) /\ queue'[e][i - 1] = d
          BY <4>2, <3>1, <2>0, <2>3
        <4> QED
          BY <4>1, <4>3, <3>3, <1>0 DEF InQueue
      <3>4. CASE entryOf[d] # e
        <4>1. BusyNext(entryOf[d])
          BY <3>2, <3>4, <1>0, <2>0, <2>1 DEF Busy, LockTypeOK
        <4> QED
          BY <4>1, <3>2, <3>4, <1>0, <2>3 DEF InQueue
      <3> QED
        BY <3>3, <3>4
    <2> QED
      BY <2>2, <2>4, <2>5, <2>6
  <1> QED
    BY <1>2, <1>3

LEMMA ForgetKeepsLockInv == LockInv /\ ForgetCalls => LockInv'
  BY DEF LockInv, ForgetCalls, LockTypeOK, QueuesHoldQueued, NobodyTwice, BegunHasEntry,
         NoLostWakeup

(***************************************************************************)
(* The map.  An entry it holds is of its key, and somebody is inside.      *)
(***************************************************************************)
EntriesAreBusy ==
    \A k \in Keys : keyQueues[k] # NoCall => KeyOf[keyQueues[k]] = k /\ Busy(keyQueues[k])

EntriesAreOfKey ==
    \A c \in Calls : place[c] \in {"queued", "inside"} => KeyOf[entryOf[c]] = KeyOf[c]

EntryInv == EntriesAreBusy /\ EntriesAreOfKey

LEMMA EnterKeepsEntryInv ==
  ASSUME LockInv, EntryInv, NEW c \in Calls, Enter(c)
  PROVE  EntryInv'
  <1> DEFINE k == KeyOf[c]
             e == IF keyQueues[k] = NoCall THEN c ELSE keyQueues[k]
             BusyNext(x) == \E y \in Calls : place'[y] = "inside" /\ entryOf'[y] = x
  <1> USE DEF LockInv, EntryInv
  <1>1. /\ e \in Calls /\ place[c] = "out" /\ k \in Keys /\ KeyOf[e] = k
        /\ entryOf' = [entryOf EXCEPT ![c] = e] /\ keyQueues' = [keyQueues EXCEPT ![k] = e]
    BY DEF Enter, LockTypeOK, EntriesAreBusy
  <1>2. PICK s \in {"queued", "inside"} :
           place' = [place EXCEPT ![c] = s] /\ (s = "queued" => Busy(e))
    BY DEF Enter
  <1>3. \A x \in Calls : Busy(x) => BusyNext(x)
    BY <1>1, <1>2 DEF Busy, LockTypeOK
  <1>4. BusyNext(e)
    BY <1>1, <1>2, <1>3 DEF LockTypeOK
  <1>5. EntriesAreBusy'
    <2> SUFFICES ASSUME NEW l \in Keys, keyQueues'[l] # NoCall
                 PROVE  KeyOf[keyQueues'[l]] = l /\ BusyNext(keyQueues'[l])
      BY DEF EntriesAreBusy, Busy
    <2>1. CASE l = k
      BY <1>1, <1>4, <2>1 DEF LockTypeOK
    <2>2. CASE l # k
      <3>1. keyQueues'[l] = keyQueues[l] /\ keyQueues[l] \in Calls
        BY <1>1, <2>2 DEF LockTypeOK
      <3> QED
        BY <1>3, <3>1 DEF EntriesAreBusy
    <2> QED
      BY <2>1, <2>2
  <1>6. EntriesAreOfKey'
    BY <1>1, <1>2 DEF EntriesAreOfKey, LockTypeOK
  <1> QED
    BY <1>5, <1>6

LEMMA LeaveKeepsEntryInv ==
  ASSUME LockInv, EntryInv, NEW c \in Calls, Leave(c)
  PROVE  EntryInv'
  <1> DEFINE e == entryOf[c]
             k == KeyOf[c]
             BusyNext(x) == \E y \in Calls : place'[y] = "inside" /\ entryOf'[y] = x
  <1> USE DEF LockInv, EntryInv
  <1>1. e \in Calls /\ place[c] = "inside" /\ k \in Keys /\ KeyOf[e] = k /\ entryOf' = entryOf
    BY DEF Leave, BegunHasEntry, EntriesAreOfKey
  <1>2. \A d \in Calls : place'[d] \in {"queued", "inside"} => place[d] \in {"queued", "inside"}
    <2>1. CASE queue[e] = << >>
      BY <1>1, <2>1 DEF Leave, LockTypeOK
    <2>2. CASE queue[e] # << >>
      <3>1. Head(queue[e]) = queue[e][1] /\ 1 \in 1 .. Len(queue[e])
        BY <1>1, <2>2 DEF LockTypeOK
      <3>2. place[Head(queue[e])] = "queued"
        BY <1>1, <3>1 DEF QueuesHoldQueued
      <3> QED
        BY <1>1, <2>2, <3>2 DEF Leave, LockTypeOK
    <2> QED
      BY <2>1, <2>2
  <1>3. \A x \in Calls : Busy(x) /\ x # e => BusyNext(x)
    <2> SUFFICES ASSUME NEW x \in Calls, NEW y \in Calls, place[y] = "inside", entryOf[y] = x, x # e
                 PROVE  place'[y] = "inside"
      BY <1>1 DEF Busy
    <2>1. CASE queue[e] = << >>
      BY <1>1, <2>1 DEF Leave, LockTypeOK
    <2>2. CASE queue[e] # << >>
      BY <1>1, <2>2 DEF Leave, LockTypeOK
    <2> QED
      BY <2>1, <2>2
  <1>4. queue[e] # << >> => BusyNext(e)
    <2> SUFFICES ASSUME queue[e] # << >> PROVE BusyNext(e)
      OBVIOUS
    <2>1. Head(queue[e]) = queue[e][1] /\ 1 \in 1 .. Len(queue[e]) /\ Head(queue[e]) \in Calls
      BY <1>1 DEF LockTypeOK
    <2>2. entryOf[Head(queue[e])] = e /\ Head(queue[e]) # c
      BY <1>1, <2>1 DEF QueuesHoldQueued
    <2>3. place'[Head(queue[e])] = "inside"
      BY <2>1, <2>2 DEF Leave, LockTypeOK
    <2> QED
      BY <1>1, <2>1, <2>2, <2>3
  <1>5. EntriesAreBusy'
    <2> SUFFICES ASSUME NEW l \in Keys, keyQueues'[l] # NoCall
                 PROVE  KeyOf[keyQueues'[l]] = l /\ BusyNext(keyQueues'[l])
      BY DEF EntriesAreBusy, Busy
    <2>1. keyQueues'[l] = keyQueues[l] /\ keyQueues[l] \in Calls
      BY <1>1 DEF Leave, LockTypeOK
    <2>2. KeyOf[keyQueues[l]] = l /\ Busy(keyQueues[l])
      BY <2>1 DEF EntriesAreBusy
    <2>3. CASE keyQueues[l] = e
      <3>1. l = k
        BY <1>1, <2>2, <2>3
      <3>2. queue[e] # << >>
        <4> SUFFICES ASSUME queue[e] = << >> PROVE FALSE
          OBVIOUS
        <4>1. Len(queue[e]) = 0
          OBVIOUS
        <4> QED
          BY <1>1, <3>1, <4>1 DEF Leave, LockTypeOK
      <3> QED
        BY <1>4, <2>1, <2>2, <2>3, <3>2
    <2>4. CASE keyQueues[l] # e
      BY <1>3, <2>1, <2>2, <2>4
    <2> QED
      BY <2>3, <2>4
  <1>6. EntriesAreOfKey'
    BY <1>1, <1>2 DEF EntriesAreOfKey
  <1> QED
    BY <1>5, <1>6

LEMMA ForgetKeepsEntryInv == LockInv /\ ForgetCalls => EntryInv'
  BY DEF LockInv, LockTypeOK, ForgetCalls, EntryInv, EntriesAreBusy, EntriesAreOfKey

(***************************************************************************)
(* The payments.  A call that has come to its payment has an attempt on    *)
(* record, and the ledger never forgets one.                               *)
(***************************************************************************)
Recorded == {"pay", "paying", "success", "already", "failure"}

RecordedBeforePay ==
    \A c \in Calls : step[c] \in Recorded \/ bill[c] # "none" => c \in attempts

PaymentsInv == TypeOK /\ LockInv /\ EntryInv /\ RecordedBeforePay

LEMMA InitPaymentsInv == Init => PaymentsInv
  BY InitLockInv
  DEF Init, PaymentsInv, TypeOK, LockInv, LockInit, EntryInv, EntriesAreBusy, EntriesAreOfKey,
      RecordedBeforePay, Recorded

\* What a step does to the lock, it does through the operators of KeyLock.
LEMMA NextLock ==
  ASSUME Next
  PROVE  \/ \E c \in Calls : Enter(c) \/ Leave(c)
         \/ ForgetCalls
         \/ UNCHANGED lockVars
  BY DEF Next, Request, Proceed, CheckSucceeded, CheckPending, CheckLimit, RecordAttempt,
         Submit, NothingToPay, CannotPay, PayReturns, PayThrows, PayThrowsAlreadyPaid,
         PayTimesOut, RecordSuccess, RecordSuccessFails, RecordFailure, RecordFails,
         Settle, Void, Crash, End

LEMMA NextPaymentsInv == PaymentsInv /\ [Next]_vars => PaymentsInv'
  <1> SUFFICES ASSUME PaymentsInv, [Next]_vars PROVE PaymentsInv'
    OBVIOUS
  <1> USE DEF PaymentsInv
  <1>1. LockInv' /\ EntryInv'
    <2>1. CASE UNCHANGED lockVars
      <3> USE <2>1 DEF lockVars, LockInv, EntryInv
      <3>1. LockTypeOK' /\ BegunHasEntry'
        BY DEF LockTypeOK, BegunHasEntry
      <3>2. QueuesHoldQueued' /\ NobodyTwice'
        BY DEF QueuesHoldQueued, NobodyTwice
      <3>3. NoLostWakeup'
        BY DEF NoLostWakeup, Busy
      <3>4. EntriesAreBusy' /\ EntriesAreOfKey'
        BY DEF EntriesAreBusy, EntriesAreOfKey, Busy
      <3> QED
        BY <3>1, <3>2, <3>3, <3>4
    <2>2. CASE UNCHANGED vars
      BY <2>1, <2>2 DEF vars
    <2> QED
      BY <2>1, <2>2, NextLock, EnterKeepsLockInv, LeaveKeepsLockInv, ForgetKeepsLockInv,
         EnterKeepsEntryInv, LeaveKeepsEntryInv, ForgetKeepsEntryInv
  <1>2. LockTypeOK'
    BY <1>1 DEF LockInv
  <1> DEFINE Rest == TypeOK' /\ RecordedBeforePay'
  <1>3. ASSUME NEW c \in Calls, Request(c) \/ Proceed(c) \/ Settle(c) \/ Void(c)
        PROVE  Rest
    <2>1. ASSUME NEW s, GoTo(c, s), UNCHANGED <<lockVars, ledgerVars, bill, crashes>>,
                 \/ s \in {"pending", "limit", "attempt"}
                 \/ s \in Recorded /\ step[c] \in Recorded
          PROVE  Rest
      BY <2>1, <1>2 DEF GoTo, ledgerVars, TypeOK, RecordedBeforePay, Recorded
    <2>2. CASE Request(c) \/ End(c)
      BY <2>2, <1>2 DEF Request, End, ledgerVars, TypeOK, RecordedBeforePay
    <2>3. CASE CheckSucceeded(c) \/ CheckPending(c) \/ CheckLimit(c)
      <3>1. \/ End(c)
            \/ /\ GoTo(c, "pending") \/ GoTo(c, "limit") \/ GoTo(c, "attempt")
               /\ UNCHANGED <<lockVars, ledgerVars, bill, crashes>>
        BY <2>3 DEF CheckSucceeded, CheckPending, CheckLimit
      <3>2. ASSUME NEW s \in {"pending", "limit", "attempt"}, GoTo(c, s),
                   UNCHANGED <<lockVars, ledgerVars, bill, crashes>>
            PROVE  Rest
        BY <3>2, <1>2 DEF GoTo, ledgerVars, TypeOK, RecordedBeforePay, Recorded
      <3>3. ASSUME End(c) PROVE Rest
        BY <2>2, <3>3
      <3> HIDE DEF Rest
      <3> QED
        BY <3>1, <3>2, <3>3
    <2>4. CASE RecordAttempt(c)
      BY <2>4, <1>2 DEF RecordAttempt, GoTo, TypeOK, RecordedBeforePay, Recorded
    <2>5. CASE Submit(c)
      BY <2>5, <1>2 DEF Submit, At, GoTo, ledgerVars, TypeOK, RecordedBeforePay, Recorded
    <2>6. CASE NothingToPay(c) \/ CannotPay(c)
      BY <2>1, <2>6 DEF NothingToPay, CannotPay, At, Recorded
    <2>7. CASE PayReturns(c) \/ PayThrows(c) \/ PayThrowsAlreadyPaid(c)
      BY <2>1, <2>7 DEF PayReturns, PayThrows, PayThrowsAlreadyPaid, At, Recorded
    <2>8. CASE PayTimesOut(c) \/ RecordFails(c)
      BY <2>2, <2>8 DEF PayTimesOut, RecordFails
    <2>9. CASE RecordSuccess(c) \/ RecordFailure(c)
      BY <2>9, <1>2 DEF RecordSuccess, RecordFailure, TypeOK, RecordedBeforePay
    <2>10. CASE RecordSuccessFails(c)
      BY <2>1, <2>10 DEF RecordSuccessFails, At, Recorded
    <2>11. CASE Settle(c) \/ Void(c)
      BY <2>11, <1>2 DEF Settle, Void, ledgerVars, TypeOK, RecordedBeforePay
    <2> QED
      BY <1>3, <2>2, <2>3, <2>4, <2>5, <2>6, <2>7, <2>8, <2>9, <2>10, <2>11 DEF Proceed
  <1>4. ASSUME Crash PROVE Rest
    BY <1>4, <1>2 DEF Crash, ledgerVars, TypeOK, RecordedBeforePay
  <1>5. ASSUME UNCHANGED vars PROVE Rest
    BY <1>5, <1>2 DEF vars, ledgerVars, TypeOK, RecordedBeforePay
  <1> QED
    BY <1>1, <1>3, <1>4, <1>5 DEF Next

LEMMA PaymentsInvariant == Spec => []PaymentsInv
  BY InitPaymentsInv, NextPaymentsInv, PTL DEF Spec

\* Type correctness of the payments.
THEOREM PaymentsTypeCorrect == Spec => []TypeOK
  <1>1. PaymentsInv => TypeOK
    BY DEF PaymentsInv
  <1> QED
    BY <1>1, PaymentsInvariant, PTL

\* However calls overlap and die, withKeyLock never leaves a caller waiting at
\* an entry nobody will leave.
THEOREM NoWakeupIsLost == Spec => []NoLostWakeup
  <1>1. PaymentsInv => NoLostWakeup
    BY DEF PaymentsInv, LockInv
  <1> QED
    BY <1>1, PaymentsInvariant, PTL

\* When no payment is under way, keyQueues is empty: the map of locks does not
\* grow with the keys that were ever used, although an entry is deleted by
\* whoever leaves it, also while the caller it woke is inside.
THEOREM LocksAreDropped == Spec => []EntriesAreDropped
  <1>1. PaymentsInv => EntriesAreDropped
    BY DEF PaymentsInv, EntryInv, EntriesAreBusy, Busy, EntriesAreDropped
  <1> QED
    BY <1>1, PaymentsInvariant, PTL

\* However often the process dies, payX402 has recorded an attempt for every
\* payment it ever submitted.
THEOREM PaymentsAreOnRecord == Spec => []PaidIsOnRecord
  <1>1. PaymentsInv => PaidIsOnRecord
    BY DEF PaymentsInv, RecordedBeforePay, PaidIsOnRecord
  <1> QED
    BY <1>1, PaymentsInvariant, PTL

-----------------------------------------------------------------------------
(***************************************************************************)
(* What the lock is for.  With three calls on one key it does not prevent  *)
(* the double payment: the entry is deleted while the caller that was woken*)
(* is inside.  With at most two, no late errors and appends that succeed,  *)
(* it does, whatever crashes and times out.                                *)
(***************************************************************************)
SameKey(c, d) == c # d /\ KeyOf[c] = KeyOf[d]

Undisturbed ==
    /\ ~LateErrors
    /\ \A b, c, d \in Calls : ~(SameKey(b, c) /\ SameKey(c, d) /\ SameKey(b, d))
    /\ \A c, d \in Calls : SameKey(c, d) => c \notin BookkeepingFails

\* The second call of a key finds the entry of the first.
OneInside ==
    \A c, d \in Calls : SameKey(c, d) => ~(place[c] = "inside" /\ place[d] = "inside")

EntryIsShared ==
    \A c, d \in Calls :
        SameKey(c, d) /\ place[c] = "inside" /\ place[d] = "out" =>
            keyQueues[KeyOf[c]] = entryOf[c]

Exclusion == OneInside /\ EntryIsShared

\* A call that has not come to pay has not paid; one that has failed is void.
StepsAgree ==
    \A c \in Calls :
        /\ place[c] \in {"out", "queued"} => step[c] = "succeeded"
        /\ step[c] \in {"succeeded", "pending", "limit", "attempt", "pay"} => bill[c] = "none"
        /\ step[c] = "failure" /\ c \notin BookkeepingFails => bill[c] \in {"none", "void"}

FailedIsDone == \A k \in failed : \E c \in Calls : KeyOf[c] = k /\ place[c] = "done"

Paid(c) == bill[c] \in {"live", "settled"}

\* The other call is over, has not been let in, or will find in the ledger what
\* stops it.
Stopped(c, d) ==
    LET k == KeyOf[c] IN
    \/ place[d] = "done"
    \/ place[c] = "inside" /\ place[d] \in {"out", "queued"}
    \/ /\ place[c] = "done" /\ step[d] = "succeeded"
       /\ k \in succeeded \/ (c \in attempts /\ k \notin failed)
    \/ /\ place[c] = "done" /\ step[d] = "pending"
       /\ c \in attempts /\ k \notin succeeded \cup failed

PaidStopsOther ==
    \A c, d \in Calls : SameKey(c, d) /\ Paid(c) => ~Paid(d) /\ Stopped(c, d)

OncePaidInv ==
    Undisturbed /\ PaymentsInv /\ Exclusion /\ StepsAgree /\ FailedIsDone /\ PaidStopsOther

\* What Enter and Leave do to the places of the calls.
LEMMA EnterMoves ==
  ASSUME LockInv, NEW c \in Calls, Enter(c)
  PROVE  /\ place[c] = "out" /\ place'[c] \in {"queued", "inside"}
         /\ keyQueues'[KeyOf[c]] = entryOf'[c]
         /\ keyQueues[KeyOf[c]] # NoCall /\ Busy(keyQueues[KeyOf[c]]) => place'[c] = "queued"
         /\ \A x \in Calls \ {c} : place'[x] = place[x] /\ entryOf'[x] = entryOf[x]
         /\ \A k \in Keys \ {KeyOf[c]} : keyQueues'[k] = keyQueues[k]
  BY DEF LockInv, LockTypeOK, Enter

LEMMA LeaveMoves ==
  ASSUME LockInv, EntryInv, NEW c \in Calls, Leave(c)
  PROVE  /\ place[c] = "inside" /\ place'[c] = "done" /\ entryOf' = entryOf
         /\ \A x \in Calls \ {c} :
               \/ place'[x] = place[x]
               \/ place[x] = "queued" /\ place'[x] = "inside" /\ SameKey(c, x)
         /\ \A k \in Keys \ {KeyOf[c]} : keyQueues'[k] = keyQueues[k]
  <1> DEFINE e == entryOf[c]
  <1> USE DEF LockInv
  <1>1. e \in Calls /\ place[c] = "inside" /\ KeyOf[e] = KeyOf[c] /\ queue[e] \in Seq(Calls)
    BY DEF Leave, LockTypeOK, BegunHasEntry, EntryInv, EntriesAreOfKey
  <1>2. CASE queue[e] = << >>
    BY <1>1, <1>2 DEF Leave, LockTypeOK
  <1>3. CASE queue[e] # << >>
    <2> DEFINE h == Head(queue[e])
    <2>1. h = queue[e][1] /\ 1 \in 1 .. Len(queue[e]) /\ h \in Calls
      BY <1>1, <1>3
    <2>2. place[h] = "queued" /\ entryOf[h] = e
      BY <1>1, <2>1 DEF QueuesHoldQueued
    <2>3. SameKey(c, h)
      BY <1>1, <2>1, <2>2 DEF SameKey, EntryInv, EntriesAreOfKey
    <2>4. place' = [place EXCEPT ![c] = "done", ![h] = "inside"]
      BY <1>3 DEF Leave
    <2>5. /\ place'[c] = "done"
          /\ \A x \in Calls \ {c} : place'[x] = place[x] \/ (x = h /\ place'[x] = "inside")
      BY <2>1, <2>3, <2>4 DEF LockTypeOK, SameKey
    <2> QED
      BY <1>1, <2>2, <2>3, <2>5 DEF Leave, LockTypeOK
  <1> QED
    BY <1>2, <1>3

LEMMA EnterKeepsExclusion ==
  ASSUME LockInv, EntryInv, Undisturbed, Exclusion, NEW c \in Calls, Enter(c)
  PROVE  Exclusion'
  <1> USE EnterMoves DEF SameKey, Undisturbed, Exclusion
  <1>1. ASSUME NEW d \in Calls, SameKey(c, d), place[d] = "inside"
        PROVE  place'[c] = "queued"
    <2>1. keyQueues[KeyOf[c]] = entryOf[d] /\ entryOf[d] \in Calls
      BY <1>1 DEF EntryIsShared, LockInv, BegunHasEntry
    <2>2. Busy(entryOf[d])
      BY <1>1 DEF Busy
    <2> QED
      BY <2>1, <2>2
  <1>2. OneInside'
    BY <1>1 DEF OneInside
  <1>3. EntryIsShared'
    <2> SUFFICES ASSUME NEW x \in Calls, NEW y \in Calls, SameKey(x, y),
                        place'[x] = "inside", place'[y] = "out"
                 PROVE  keyQueues'[KeyOf[x]] = entryOf'[x]
      BY DEF EntryIsShared
    <2>1. CASE x = c
      BY <2>1
    <2>2. CASE x # c
      BY <2>2 DEF EntryIsShared
    <2> QED
      BY <2>1, <2>2
  <1> QED
    BY <1>2, <1>3

LEMMA LeaveKeepsExclusion ==
  ASSUME LockInv, EntryInv, Undisturbed, Exclusion, NEW c \in Calls, Leave(c)
  PROVE  Exclusion'
  <1> USE LeaveMoves DEF SameKey, Undisturbed, Exclusion
  <1>1. OneInside'
    BY DEF OneInside
  <1>2. EntryIsShared'
    <2> SUFFICES ASSUME NEW x \in Calls, NEW y \in Calls, SameKey(x, y),
                        place'[x] = "inside", place'[y] = "out"
                 PROVE  keyQueues'[KeyOf[x]] = entryOf'[x]
      BY DEF EntryIsShared
    <2>1. place[y] = "out" /\ x # c /\ place[x] = "inside"
      OBVIOUS
    <2>2. KeyOf[x] # KeyOf[c]
      BY <2>1 DEF OneInside
    <2> QED
      BY <2>1, <2>2 DEF EntryIsShared
  <1> QED
    BY <1>1, <1>2

LEMMA ForgetKeepsExclusion == LockInv /\ ForgetCalls => Exclusion'
  BY DEF LockInv, LockTypeOK, ForgetCalls, Exclusion, OneInside, EntryIsShared

\* A step of payX402 goes on inside the lock, or leaves it.
GoesOn(c) ==
    \E t \in {"pending", "limit", "attempt", "pay", "paying", "success", "already", "failure"} :
       /\ GoTo(c, t) /\ UNCHANGED <<lockVars, succeeded, failed>>
       /\ attempts \subseteq attempts'
       /\ bill' = bill \/ (step[c] = "pay" /\ t = "paying" /\ bill' = [bill EXCEPT ![c] = "live"])
       /\ t = "pending" => step[c] = "succeeded" /\ KeyOf[c] \notin succeeded
       /\ t = "limit" => step[c] = "pending" /\ ~HasPendingAttempt(KeyOf[c])
       /\ t \in {"attempt", "pay"} => step[c] \in {"limit", "attempt"}
       /\ t = "failure" => step[c] = "pay" \/ bill[c] = "void" \/ LateErrors \/ c \in BookkeepingFails
       /\ step[c] \in {"succeeded", "pending"} => t \in {"pending", "limit"}

Leaves(c) ==
    /\ Leave(c) /\ UNCHANGED <<attempts, step, bill>>
    /\ \/ UNCHANGED <<succeeded, failed>>
       \/ succeeded' = succeeded \cup {KeyOf[c]} /\ UNCHANGED failed
       \/ failed' = failed \cup {KeyOf[c]} /\ UNCHANGED succeeded /\ step[c] = "failure"

LEMMA ProceedIs ==
  ASSUME NEW c \in Calls, Proceed(c)
  PROVE  place[c] = "inside" /\ UNCHANGED crashes /\ (GoesOn(c) \/ Leaves(c))
  <1> USE DEF At, GoTo, End, ledgerVars, GoesOn, Leaves
  <1>1. CASE CheckSucceeded(c)
    BY <1>1 DEF CheckSucceeded, HasSucceeded
  <1>2. CASE CheckPending(c)
    BY <1>2 DEF CheckPending
  <1>3. CASE CheckLimit(c)
    BY <1>3 DEF CheckLimit
  <1>4. CASE RecordAttempt(c) \/ Submit(c)
    BY <1>4 DEF RecordAttempt, Submit
  <1>5. CASE NothingToPay(c) \/ CannotPay(c)
    BY <1>5 DEF NothingToPay, CannotPay
  <1>6. CASE PayReturns(c) \/ PayThrows(c) \/ PayThrowsAlreadyPaid(c)
    BY <1>6 DEF PayReturns, PayThrows, PayThrowsAlreadyPaid
  <1>7. CASE PayTimesOut(c) \/ RecordFails(c)
    BY <1>7 DEF PayTimesOut, RecordFails
  <1>8. CASE RecordSuccess(c) \/ RecordFailure(c)
    BY <1>8 DEF RecordSuccess, RecordFailure
  <1>9. CASE RecordSuccessFails(c)
    BY <1>9 DEF RecordSuccessFails
  <1> QED
    BY <1>1, <1>2, <1>3, <1>4, <1>5, <1>6, <1>7, <1>8, <1>9 DEF Proceed

-----------------------------------------------------------------------------
\* Each kind of step keeps the rest of the invariant.
PaysOnce == StepsAgree /\ FailedIsDone /\ PaidStopsOther

LEMMA EnterPaysOnce ==
  ASSUME OncePaidInv, NEW c \in Calls, Enter(c), UNCHANGED <<ledgerVars, step, bill>>
  PROVE  PaysOnce'
  <1> USE DEF OncePaidInv, PaymentsInv, PaysOnce, ledgerVars, SameKey
  <1>0. OneInside'
    BY EnterKeepsExclusion DEF Exclusion
  <1>1. StepsAgree'
    BY EnterMoves DEF StepsAgree
  <1>2. FailedIsDone'
    BY EnterMoves DEF FailedIsDone
  <1>3. PaidStopsOther'
    <2> SUFFICES ASSUME NEW x \in Calls, NEW y \in Calls, SameKey(x, y), Paid(x)
                 PROVE  ~Paid(y) /\ Stopped(x, y)'
      BY DEF PaidStopsOther, Paid
    <2>1. ~Paid(y) /\ Stopped(x, y)
      BY DEF PaidStopsOther
    <2>2. x # c
      BY EnterMoves DEF StepsAgree, Paid
    <2>3. CASE y # c
      BY <2>1, <2>2, <2>3, EnterMoves DEF Stopped
    <2>4. CASE y = c
      BY <1>0, <2>1, <2>2, <2>4, EnterMoves DEF Stopped, StepsAgree, OneInside
    <2> QED
      BY <2>1, <2>3, <2>4
  <1> QED
    BY <1>1, <1>2, <1>3

LEMMA GoesOnPaysOnce ==
  ASSUME OncePaidInv, NEW c \in Calls, place[c] = "inside", GoesOn(c)
  PROVE  PaysOnce'
  <1> USE DEF OncePaidInv, PaymentsInv, PaysOnce, SameKey
  <1>1. PICK t \in {"pending", "limit", "attempt", "pay", "paying", "success", "already",
                    "failure"} :
           /\ GoTo(c, t) /\ UNCHANGED <<lockVars, succeeded, failed>>
           /\ attempts \subseteq attempts'
           /\ bill' = bill \/ (step[c] = "pay" /\ t = "paying" /\ bill' = [bill EXCEPT ![c] = "live"])
           /\ t = "pending" => step[c] = "succeeded" /\ KeyOf[c] \notin succeeded
           /\ t = "limit" => step[c] = "pending" /\ ~HasPendingAttempt(KeyOf[c])
           /\ t \in {"attempt", "pay"} => step[c] \in {"limit", "attempt"}
           /\ t = "failure" => step[c] = "pay" \/ bill[c] = "void" \/ LateErrors \/ c \in BookkeepingFails
           /\ step[c] \in {"succeeded", "pending"} => t \in {"pending", "limit"}
    BY DEF GoesOn
  <1>2. /\ step'[c] = t /\ \A d \in Calls \ {c} : step'[d] = step[d] /\ bill'[d] = bill[d]
        /\ place' = place
        /\ bill'[c] = bill[c] \/ (step[c] = "pay" /\ t = "paying" /\ bill'[c] = "live")
    BY <1>1 DEF GoTo, lockVars, TypeOK
  <1>3. StepsAgree'
    BY <1>1, <1>2 DEF StepsAgree, Undisturbed
  <1>4. FailedIsDone'
    BY <1>1, <1>2 DEF FailedIsDone
  <1>5. PaidStopsOther'
    <2> SUFFICES ASSUME NEW x \in Calls, NEW y \in Calls, SameKey(x, y), Paid(x)'
                 PROVE  ~Paid(y)' /\ Stopped(x, y)'
      BY DEF PaidStopsOther
    <2>1. CASE c # x /\ c # y
      <3>1. ~Paid(y) /\ Stopped(x, y)
        BY <1>2, <2>1 DEF PaidStopsOther, Paid
      <3> QED
        BY <1>1, <1>2, <2>1, <3>1 DEF Stopped, Paid
    <2>2. CASE c = x
      <3>1. CASE Paid(x)
        BY <1>2, <2>2, <3>1 DEF PaidStopsOther, Stopped, Paid
      <3>2. CASE ~Paid(x)
        <4>1. step[x] = "pay"
          BY <1>2, <2>2, <3>2 DEF Paid
        <4>2. ~Paid(y)
          BY <2>2, <4>1 DEF PaidStopsOther, Stopped
        <4>3. place[y] # "inside"
          BY <2>2 DEF Exclusion, OneInside
        <4>4. place[y] \in {"out", "queued", "done"}
          BY <4>3 DEF TypeOK, LockTypeOK
        <4> QED
          BY <1>2, <2>2, <4>2, <4>4 DEF Stopped, Paid
      <3> QED
        BY <3>1, <3>2
    <2>3. CASE c = y
      <3>1. Paid(x) /\ ~Paid(y) /\ Stopped(x, y)
        BY <1>2, <2>3 DEF PaidStopsOther, Paid
      <3>2. CASE place[x] = "done" /\ step[y] = "succeeded"
        <4>1. t = "pending" /\ KeyOf[x] \notin succeeded
          BY <1>1, <2>3, <3>2
        <4>2. x \in attempts /\ KeyOf[x] \notin failed
          BY <2>3, <3>1, <3>2, <4>1 DEF Stopped
        <4> QED
          BY <1>1, <1>2, <2>3, <3>1, <3>2, <4>1, <4>2 DEF Stopped, Paid
      <3>3. CASE step[y] = "pending"
        <4>1. x \in attempts /\ KeyOf[x] \notin succeeded \cup failed
          BY <2>3, <3>1, <3>3 DEF Stopped
        <4>2. HasPendingAttempt(KeyOf[y])
          BY <4>1 DEF HasPendingAttempt
        <4> QED
          BY <1>1, <2>3, <3>3, <4>2
      <3> QED
        BY <2>3, <3>1, <3>2, <3>3 DEF Stopped
    <2> QED
      BY <2>1, <2>2, <2>3
  <1> QED
    BY <1>3, <1>4, <1>5

LEMMA LeavesPaysOnce ==
  ASSUME OncePaidInv, NEW c \in Calls, Leaves(c)
  PROVE  PaysOnce'
  <1> USE DEF OncePaidInv, PaymentsInv, PaysOnce, SameKey
  <1>1. /\ Leave(c) /\ UNCHANGED <<attempts, step, bill>>
        /\ succeeded \subseteq succeeded' /\ succeeded' \subseteq succeeded \cup {KeyOf[c]}
        /\ failed \subseteq failed' /\ failed' \subseteq failed \cup {KeyOf[c]}
        /\ failed' # failed => step[c] = "failure"
    BY DEF Leaves
  <1>2. StepsAgree'
    BY <1>1, LeaveMoves DEF StepsAgree
  <1>3. FailedIsDone'
    BY <1>1, LeaveMoves DEF FailedIsDone, TypeOK
  <1>4. PaidStopsOther'
    <2> SUFFICES ASSUME NEW x \in Calls, NEW y \in Calls, SameKey(x, y), Paid(x)
                 PROVE  ~Paid(y) /\ Stopped(x, y)'
      BY <1>1 DEF PaidStopsOther, Paid
    <2>1. ~Paid(y) /\ Stopped(x, y)
      BY DEF PaidStopsOther
    <2>2. CASE c # x /\ c # y
      <3>1. KeyOf[c] # KeyOf[x] /\ KeyOf[c] # KeyOf[y]
        BY <2>2 DEF Undisturbed
      <3>2. place'[x] = place[x] /\ place'[y] = place[y]
        BY <1>1, <2>2, <3>1, LeaveMoves
      <3> QED
        BY <1>1, <2>1, <3>1, <3>2 DEF Stopped
    <2>3. CASE c = x
      <3>1. CASE place[y] = "done"
        BY <1>1, <2>1, <3>1, LeaveMoves DEF Stopped
      <3>2. CASE place[y] \in {"out", "queued"}
        <4>1. step[y] = "succeeded"
          BY <3>2 DEF StepsAgree
        <4>2. x \in attempts
          BY DEF RecordedBeforePay, Paid
        <4>3. KeyOf[x] \notin failed
          <5>1. place[x] = "inside"
            BY <1>1, <2>3, LeaveMoves
          <5> QED
            BY <3>2, <5>1 DEF FailedIsDone, Undisturbed
        <4>4. step[x] # "failure"
          BY DEF StepsAgree, Undisturbed, Paid
        <4>5. place'[x] = "done"
          BY <1>1, <2>3, LeaveMoves
        <4> QED
          BY <1>1, <2>1, <2>3, <4>1, <4>2, <4>3, <4>4, <4>5 DEF Stopped
      <3>3. place[x] = "inside"
        BY <1>1, <2>3, LeaveMoves
      <3> QED
        BY <2>1, <3>1, <3>2, <3>3 DEF Stopped
    <2>4. CASE c = y
      BY <1>1, <2>1, <2>4, LeaveMoves DEF Stopped
    <2> QED
      BY <2>2, <2>3, <2>4
  <1> QED
    BY <1>2, <1>3, <1>4

LEMMA BillPaysOnce ==
  ASSUME OncePaidInv, NEW c \in Calls, Settle(c) \/ Void(c)
  PROVE  PaysOnce'
  <1> USE DEF OncePaidInv, PaymentsInv, PaysOnce
  <1>1. /\ UNCHANGED <<lockVars, ledgerVars, step>>
        /\ bill[c] = "live" /\ bill'[c] \in {"settled", "void"}
        /\ \A d \in Calls \ {c} : bill'[d] = bill[d]
    BY DEF Settle, Void, TypeOK
  <1>2. StepsAgree' /\ FailedIsDone'
    BY <1>1 DEF StepsAgree, FailedIsDone, lockVars, ledgerVars
  <1>3. \A d \in Calls : Paid(d)' => Paid(d)
    BY <1>1 DEF Paid
  <1>4. PaidStopsOther'
    BY <1>1, <1>3 DEF PaidStopsOther, Stopped, lockVars, ledgerVars
  <1> QED
    BY <1>2, <1>4

LEMMA ForgetPaysOnce ==
  ASSUME OncePaidInv, ForgetCalls, UNCHANGED <<ledgerVars, step, bill>>
  PROVE  PaysOnce'
  <1> USE DEF OncePaidInv, PaymentsInv, PaysOnce, ledgerVars
  <1>1. \A d \in Calls : place'[d] = IF place[d] = "out" THEN "out" ELSE "done"
    BY DEF ForgetCalls, TypeOK, LockTypeOK
  <1>2. StepsAgree' /\ FailedIsDone'
    BY <1>1 DEF StepsAgree, FailedIsDone
  <1>3. PaidStopsOther'
    <2> SUFFICES ASSUME NEW x \in Calls, NEW y \in Calls, SameKey(x, y), Paid(x)
                 PROVE  ~Paid(y) /\ Stopped(x, y)'
      BY DEF PaidStopsOther, Paid
    <2>1. ~Paid(y) /\ Stopped(x, y) /\ x \in attempts
      BY DEF PaidStopsOther, RecordedBeforePay, Paid
    <2>2. CASE place[x] = "inside" /\ place[y] = "out"
      <3>1. step[y] = "succeeded" /\ place'[x] = "done"
        BY <1>1, <2>2 DEF StepsAgree
      <3>2. KeyOf[x] \notin failed
        BY <2>2 DEF FailedIsDone, Undisturbed, SameKey
      <3> QED
        BY <2>1, <3>1, <3>2 DEF Stopped
    <2> QED
      BY <1>1, <2>1, <2>2 DEF Stopped
  <1> QED
    BY <1>2, <1>3

LEMMA NextOncePaid == OncePaidInv /\ [Next]_vars => OncePaidInv'
  <1> SUFFICES ASSUME OncePaidInv, [Next]_vars PROVE OncePaidInv'
    OBVIOUS
  <1>1. PaymentsInv' /\ Undisturbed'
    BY NextPaymentsInv DEF OncePaidInv, Undisturbed
  <1>2. CASE UNCHANGED vars
    BY <1>1, <1>2
    DEF OncePaidInv, vars, lockVars, ledgerVars, Exclusion, OneInside, EntryIsShared, StepsAgree,
        FailedIsDone, PaidStopsOther, Paid, Stopped
  <1>3. CASE Next
    <2>1. Exclusion'
      <3>1. CASE UNCHANGED lockVars
        BY <3>1 DEF OncePaidInv, lockVars, Exclusion, OneInside, EntryIsShared
      <3> QED
        BY <1>3, <3>1, NextLock, EnterKeepsExclusion, LeaveKeepsExclusion, ForgetKeepsExclusion
        DEF OncePaidInv, PaymentsInv
    <2>2. PaysOnce'
      <3>1. ASSUME NEW c \in Calls, Request(c) PROVE PaysOnce'
        BY <3>1, EnterPaysOnce DEF Request
      <3>2. ASSUME NEW c \in Calls, Proceed(c) PROVE PaysOnce'
        BY <3>2, ProceedIs, GoesOnPaysOnce, LeavesPaysOnce
      <3>3. ASSUME NEW c \in Calls, Settle(c) \/ Void(c) PROVE PaysOnce'
        BY <3>3, BillPaysOnce
      <3>4. ASSUME Crash PROVE PaysOnce'
        BY <3>4, ForgetPaysOnce DEF Crash
      <3> QED
        BY <1>3, <3>1, <3>2, <3>3, <3>4 DEF Next
    <2> QED
      BY <1>1, <2>1, <2>2 DEF OncePaidInv, PaysOnce
  <1> QED
    BY <1>2, <1>3

LEMMA InitOncePaid == Undisturbed /\ Init => OncePaidInv
  BY InitPaymentsInv
  DEF OncePaidInv, Init, LockInit, Exclusion, OneInside, EntryIsShared, StepsAgree, FailedIsDone,
      PaidStopsOther, Paid

\* A key is paid for at most once, whatever crashes and times out, as long as
\* at most two calls share it, payService does not throw after the server took
\* the payment, and the appends to the ledger succeed.  The instance of run
\* payments_keys is Undisturbed; that of payments_lock has a third call, and
\* its counterexample is a second payment.
THEOREM AtMostOnePaymentPerKey == Undisturbed /\ Spec => []NoDoublePay
  <1>1. OncePaidInv => NoDoublePay
    BY DEF OncePaidInv, PaidStopsOther, SameKey, Paid, NoDoublePay
  <1> QED
    BY <1>1, InitOncePaid, NextOncePaid, PTL DEF Spec
=============================================================================
