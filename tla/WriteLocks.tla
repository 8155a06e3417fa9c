----------------------------- MODULE WriteLocks -----------------------------
(***************************************************************************)
(* What the gateway and its journal promise together, without processes,   *)
(* idempotency keys or outcomes: a write announces the resources (wallet,  *)
(* job) it will touch, becomes active by taking all of them at once when   *)
(* all are free, and keeps all of them until it ends.                      *)
(***************************************************************************)
EXTENDS TLAPS

CONSTANTS Writes, Resources, NoWrite

VARIABLES
    needs,   \* the resources each write touches
    active,  \* the writes that have begun and not ended
    owner    \* the active write that holds a resource, or NoWrite

vars == <<needs, active, owner>>

Init ==
    /\ needs = [w \in Writes |-> {}]
    /\ active = {}
    /\ owner = [x \in Resources |-> NoWrite]

\* A write that is not active changes its mind freely.
Announce(w) ==
    /\ w \notin active
    /\ \E S \in SUBSET Resources : needs' = [needs EXCEPT ![w] = S]
    /\ UNCHANGED <<active, owner>>

Begin(w) ==
    /\ w \notin active
    /\ \A x \in needs[w] : owner[x] = NoWrite
    /\ active' = active \cup {w}
    /\ owner' = [x \in Resources |-> IF x \in needs[w] THEN w ELSE owner[x]]
    /\ UNCHANGED needs

\* Several writes may end at once: the recovery at startup ends all it finds.
End(S) ==
    /\ S \subseteq active
    /\ active' = active \ S
    /\ owner' = [x \in Resources |-> IF owner[x] \in S THEN NoWrite ELSE owner[x]]
    /\ UNCHANGED needs

Next ==
    \/ \E w \in Writes : Announce(w) \/ Begin(w)
    \/ \E S \in SUBSET active : End(S)

Spec == Init /\ [][Next]_vars

\* Two active writes never touch the same resource.
Exclusive == \A v, w \in active : v # w => needs[v] \cap needs[w] = {}

-----------------------------------------------------------------------------
(***************************************************************************)
(* What an implementation of WriteLocks gets: exclusion.                   *)
(***************************************************************************)

\* A write that is active owns everything it needs; that nobody else owns it
\* too needs no word, owner being a function.
Held ==
    /\ NoWrite \notin Writes
    /\ needs \in [Writes -> SUBSET Resources]
    /\ active \subseteq Writes
    /\ owner \in [Resources -> Writes \cup {NoWrite}]
    /\ \A w \in active : \A x \in needs[w] : owner[x] = w

LEMMA NextHeld == Held /\ [Next]_vars => Held'
  <1> SUFFICES ASSUME Held, [Next]_vars PROVE Held'
    OBVIOUS
  <1> USE DEF Held
  <1>1. ASSUME NEW w \in Writes, Announce(w) PROVE Held'
    BY <1>1 DEF Announce
  <1>2. ASSUME NEW w \in Writes, Begin(w) PROVE Held'
    BY <1>2 DEF Begin
  <1>3. ASSUME NEW S \in SUBSET active, End(S) PROVE Held'
    BY <1>3 DEF End
  <1>4. CASE UNCHANGED vars
    BY <1>4 DEF vars
  <1> QED
    BY <1>1, <1>2, <1>3, <1>4 DEF Next

\* Two active writes never touch the same resource, as any implementation may
\* conclude.
THEOREM ActiveWritesAreExclusive == NoWrite \notin Writes /\ Spec => []Exclusive
  <1>1. NoWrite \notin Writes /\ Init => Held
    BY DEF Init, Held
  <1>2. Held => Exclusive
    BY DEF Held, Exclusive
  <1> QED
    BY <1>1, <1>2, NextHeld, PTL DEF Spec
=============================================================================
