---------------------------- MODULE MoneyProofs ----------------------------
(***************************************************************************)
(* Theorems about what moves money or opens the door to it: paid jobs,     *)
(* approval tickets, signed transactions, commerce gates, the wallets of   *)
(* an agent, the tools it pays with, sessions, tokens and keys, and        *)
(* onboarding.  Each component has an inductive invariant of its own; the  *)
(* theorems of MCMoney, for any number of requests, proofs, tabs, calls    *)
(* and owners, follow them, and the types, with what the runner's payments *)
(* and the agent that provides add to them, come last.                     *)
(***************************************************************************)
EXTENDS MCMoney, X402PaymentsProofs, FiniteSetTheorems, TLAPS

(***************************************************************************)
(* Paid jobs.  Between the claim and the consumption of a proof its row is *)
(* claimed and not failed, so that nobody else can claim it.               *)
(***************************************************************************)
USE PaidJobsAssumption

\* Of a set whose elements are all the same there is at most one.
LEMMA AtMostOne ==
  ASSUME NEW S, \A x, y \in S : x = y
  PROVE  IsFiniteSet(S) /\ Cardinality(S) <= 1
  <1>1. CASE S = {}
    BY <1>1, FS_EmptySet
  <1>2. CASE S # {}
    <2>1. PICK x \in S : TRUE
      BY <1>2
    <2>2. S = {x}
      BY <2>1
    <2>3. IsFiniteSet({x}) /\ Cardinality({x}) = 1
      BY FS_Singleton
    <2> QED
      BY <2>2, <2>3
  <1> QED
    BY <1>1, <1>2

InHand(r) == settler[r].stage \in {"settle", "record", "consume"}

Inserting == {r \in Settlers : Stands(r, "insert")}

JobsTyped ==
    /\ agentJob \in [mode : {"x402_offchain", "erc8183_escrow"},
                     status : {"none", "created", "claimed", "running", "submitted", "verified",
                               "failed", "settlement_pending", "settled"},
                     hand : Hands \cup {NoHand}, paidBy : Proofs \cup {NoProof}]
    /\ lapsed \in BOOLEAN
    /\ proofRow \in [Proofs -> [status : {"none", "verified", "settled", "failed"},
                                claimed : BOOLEAN, consumed : BOOLEAN]]
    /\ charged \subseteq Proofs
    /\ sessions \in Nat
    /\ settler \in [Settlers -> [stage : {"away", "look", "insert", "bind", "claim", "settle",
                                          "record", "consume", "handle", "mark"},
                                 proof : Proofs \cup {NoProof}]]
    /\ served \in [Proofs -> Nat]
    /\ settleCrashes \in 0 .. MaxSettleCrashes

\* One session more for every request that has found none.
SessionsAreFew == sessions + Cardinality(Inserting) <= Cardinality(Settlers)

\* The job: an escrow job is beyond the settle route, a settled one is paid.
EscrowIsApart ==
    agentJob.mode = "erc8183_escrow" =>
        agentJob.status \in {"created", "claimed", "running", "submitted", "settled"}

\* The proofs.
RequestsHaveProofs == \A r \in Settlers : settler[r].stage # "away" => settler[r].proof \in Proofs

HeldIsClaimed ==
    \A r \in Settlers : InHand(r) =>
        proofRow[Paying(r)].claimed /\ proofRow[Paying(r)].status \in {"verified", "settled"}

HeldByOne ==
    \A r, s \in Settlers : InHand(r) /\ InHand(s) /\ Paying(r) = Paying(s) => r = s

ServedIsConsumed ==
    \A p \in Proofs : served[p] = IF proofRow[p].consumed THEN 1 ELSE 0

HandledIsPaid ==
    \A r \in Settlers :
        /\ settler[r].stage \in {"record", "consume", "handle", "mark"} => Paying(r) \in charged
        /\ settler[r].stage \in {"handle", "mark"} => proofRow[Paying(r)].consumed

JobsInv ==
    /\ JobsTyped /\ SessionsAreFew /\ EscrowIsApart
    /\ RequestsHaveProofs /\ HeldIsClaimed /\ HeldByOne /\ ServedIsConsumed /\ HandledIsPaid
    /\ SettledJobIsPaid

LEMMA InitJobsInv == PaidInit => JobsInv
  <1> SUFFICES ASSUME PaidInit PROVE JobsInv
    OBVIOUS
  <1> USE DEF PaidInit, Away, NoRowYet
  <1>1. SessionsAreFew
    <2>1. Inserting = {}
      BY DEF Inserting, Stands
    <2> QED
      BY <2>1, FS_EmptySet, FS_CardinalityType DEF SessionsAreFew
  <1>2. JobsTyped
    <2>1. agentJob \in [mode : {"x402_offchain", "erc8183_escrow"},
                        status : {"none", "created", "claimed", "running", "submitted", "verified",
                                  "failed", "settlement_pending", "settled"},
                        hand : Hands \cup {NoHand}, paidBy : Proofs \cup {NoProof}]
      OBVIOUS
    <2>2. settler \in [Settlers -> [stage : {"away", "look", "insert", "bind", "claim", "settle",
                                            "record", "consume", "handle", "mark"},
                                   proof : Proofs \cup {NoProof}]]
      OBVIOUS
    <2>3. proofRow \in [Proofs -> [status : {"none", "verified", "settled", "failed"},
                                  claimed : BOOLEAN, consumed : BOOLEAN]]
      OBVIOUS
    <2>4. sessions \in Nat /\ served \in [Proofs -> Nat] /\ settleCrashes \in 0 .. MaxSettleCrashes
      OBVIOUS
    <2>5. charged \subseteq Proofs /\ lapsed \in BOOLEAN
      OBVIOUS
    <2> QED
      BY <2>1, <2>2, <2>3, <2>4, <2>5, Zenon DEF JobsTyped
  <1>3. ServedIsConsumed
    BY DEF ServedIsConsumed
  <1>4. \A r \in Settlers : settler[r].stage = "away"
    OBVIOUS
  <1>5. EscrowIsApart /\ SettledJobIsPaid
    <2>1. agentJob.mode = "x402_offchain" /\ agentJob.status = "none"
      OBVIOUS
    <2> QED
      BY <2>1 DEF EscrowIsApart, SettledJobIsPaid, OffChain
  <1>6. RequestsHaveProofs /\ HeldIsClaimed /\ HeldByOne /\ HandledIsPaid
    BY <1>4 DEF RequestsHaveProofs, HeldIsClaimed, HeldByOne, HandledIsPaid, InHand
  <1> QED
    BY <1>1, <1>2, <1>3, <1>5, <1>6, Zenon DEF JobsInv

\* The settle requests do not see what becomes of the job before it is verified.
LEMMA JobStepKeepsJobsInv ==
  ASSUME JobsInv, JobOnly, agentJob' \in [mode : {"x402_offchain", "erc8183_escrow"},
             status : {"none", "created", "claimed", "running", "submitted", "verified",
                               "failed", "settlement_pending", "settled"},
             hand : Hands \cup {NoHand}, paidBy : Proofs \cup {NoProof}],
         lapsed' \in BOOLEAN, EscrowIsApart', SettledJobIsPaid'
  PROVE  JobsInv'
  BY
  DEF JobOnly, JobsInv, JobsTyped, SessionsAreFew, Inserting, Stands, RequestsHaveProofs,
      HeldIsClaimed,
         HeldByOne, ServedIsConsumed, HandledIsPaid, InHand, Paying

LEMMA JobKeepsJobsInv ==
  ASSUME JobsInv,
         \/ CreateAgentJob \/ EscrowJobAppears \/ ClaimPasses \/ PostVerify
         \/ \E hand, w \in Hands : PostClaim(hand, w) \/ PostRunning(hand, w) \/ PostSubmit(hand, w)
  PROVE  JobsInv'
  <1> USE JobStepKeepsJobsInv DEF JobsInv, JobsTyped, EscrowIsApart, SettledJobIsPaid, OffChain, JobOnly
  <1>1. CASE CreateAgentJob
    BY <1>1 DEF CreateAgentJob
  <1>2. CASE EscrowJobAppears
    BY <1>2 DEF EscrowJobAppears
  <1>3. CASE ClaimPasses
    BY <1>3 DEF ClaimPasses
  <1>4. CASE PostVerify
    BY <1>4 DEF PostVerify, VerifyAgentJob
  <1>5. ASSUME NEW hand \in Hands, NEW w \in Hands, PostClaim(hand, w) PROVE JobsInv'
    BY <1>5 DEF PostClaim, ClaimAgentJob, Free
  <1>6. ASSUME NEW hand \in Hands, NEW w \in Hands, PostRunning(hand, w) \/ PostSubmit(hand, w)
        PROVE  JobsInv'
    BY <1>6 DEF PostRunning, PostSubmit, MarkJobRunning, SubmitAgentJob
  <1> QED
    BY <1>1, <1>2, <1>3, <1>4, <1>5, <1>6

\* What a step does to the number of sessions and of requests about to add one.
LEMMA SessionsStayFew ==
  ASSUME JobsInv, sessions' \in Nat,
         \/ sessions' = 0
         \/ sessions' = sessions /\ Inserting' \subseteq Inserting
         \/ sessions' = sessions + 1 /\ \E r \in Inserting : Inserting' = Inserting \ {r}
  PROVE  SessionsAreFew'
  <1> USE DEF JobsInv, JobsTyped, SessionsAreFew
  <1>1. /\ IsFiniteSet(Inserting) /\ IsFiniteSet(Inserting')
        /\ Cardinality(Inserting') <= Cardinality(Settlers)
    BY FS_Subset DEF Inserting
  <1>2. /\ Cardinality(Inserting) \in Nat /\ Cardinality(Inserting') \in Nat
        /\ Cardinality(Settlers) \in Nat
    BY <1>1, FS_CardinalityType
  <1>3. CASE sessions' = 0
    BY <1>1, <1>2, <1>3
  <1>4. CASE sessions' = sessions /\ Inserting' \subseteq Inserting
    <2>1. Cardinality(Inserting') <= Cardinality(Inserting)
      BY <1>1, <1>4, FS_Subset
    <2> QED
      BY <1>2, <1>4, <2>1
  <1>5. ASSUME sessions' = sessions + 1, NEW r \in Inserting, Inserting' = Inserting \ {r}
        PROVE  SessionsAreFew'
    <2>1. Cardinality(Inserting') = Cardinality(Inserting) - 1
      BY <1>1, <1>5, FS_RemoveElement
    <2> QED
      BY <1>2, <1>5, <2>1
  <1> QED
    BY <1>3, <1>4, <1>5

Stages402 == {"away", "look", "insert", "bind", "claim", "settle", "record", "consume", "handle", "mark"}

\* What one request does leaves the others where they are.
OnlyMoves(r, stage, proof) ==
    /\ settler' \in [Settlers -> [stage : Stages402, proof : Proofs \cup {NoProof}]]
    /\ settler'[r].stage = stage /\ settler'[r].proof = proof
    /\ \A s \in Settlers : s # r => settler'[s] = settler[s]

LEMMA SettlerMoves ==
  ASSUME JobsTyped, NEW r \in Settlers, NEW stage \in Stages402, Moves(r, stage)
  PROVE  OnlyMoves(r, stage, settler[r].proof)
  BY DEF JobsTyped, Moves, OnlyMoves, Stages402

LEMMA SettlerLeaves ==
  ASSUME JobsTyped, NEW r \in Settlers, GoesAway(r)
  PROVE  OnlyMoves(r, "away", NoProof)
  BY DEF JobsTyped, GoesAway, Away, OnlyMoves, Stages402

LEMMA MovesKeepFew ==
  ASSUME JobsInv, NEW r \in Settlers, NEW stage \in Stages402 \ {"insert"}, NEW proof,
         OnlyMoves(r, stage, proof), sessions' = sessions \/ sessions' = 0
  PROVE  SessionsAreFew'
  <1>1. Inserting' \subseteq Inserting
    BY DEF OnlyMoves, Inserting, Stands, Stages402
  <1>2. sessions' \in Nat
    BY DEF JobsInv, JobsTyped
  <1> QED
    BY <1>1, <1>2, SessionsStayFew

\* The facts about proofs that a step keeps which changes no row and nothing of the job.
LEMMA QuietStep ==
  ASSUME JobsInv, NEW r \in Settlers, NEW stage \in {"away", "look", "insert", "bind", "claim"},
         NEW proof, OnlyMoves(r, stage, proof), stage # "away" => proof \in Proofs,
         SessionsAreFew', sessions' \in Nat, settleCrashes' \in 0 .. MaxSettleCrashes,
         UNCHANGED <<agentJob, lapsed, proofRow, charged, served>>
  PROVE  JobsInv'
  <1>1. JobsTyped'
    BY DEF JobsInv, JobsTyped, OnlyMoves, Stages402
  <1>2. RequestsHaveProofs' /\ HeldIsClaimed' /\ HeldByOne' /\ HandledIsPaid'
    BY DEF JobsInv, OnlyMoves, RequestsHaveProofs, HeldIsClaimed, HeldByOne, HandledIsPaid, InHand,
           Paying
  <1>3. ServedIsConsumed' /\ SettledJobIsPaid' /\ EscrowIsApart'
    BY DEF JobsInv, ServedIsConsumed, SettledJobIsPaid, EscrowIsApart, OffChain
  <1> QED
    BY <1>1, <1>2, <1>3 DEF JobsInv

\* What the row of a proof says after a step that changes it.
OnlyRow(p, row) ==
    /\ proofRow' \in [Proofs -> [status : {"none", "verified", "settled", "failed"},
                                 claimed : BOOLEAN, consumed : BOOLEAN]]
    /\ proofRow'[p] = row
    /\ \A q \in Proofs : q # p => proofRow'[q] = proofRow[q]

ProofRows ==
    [status : {"none", "verified", "settled", "failed"}, claimed : BOOLEAN, consumed : BOOLEAN]

LEMMA ClaimedRow ==
  ASSUME NEW old \in ProofRows, NEW row, row = [old EXCEPT !.status = "verified", !.claimed = TRUE]
  PROVE  row = [status |-> "verified", claimed |-> TRUE, consumed |-> old.consumed]
  <1>1. PICK a, b, c : old = [status |-> a, claimed |-> b, consumed |-> c]
    BY DEF ProofRows
  <1>2. row = [status |-> "verified", claimed |-> TRUE, consumed |-> c]
    BY <1>1
  <1> QED
    BY <1>1, <1>2

LEMMA RowClaimed ==
  ASSUME JobsTyped, NEW p \in Proofs,
         proofRow' = [proofRow EXCEPT ![p] = [@ EXCEPT !.status = "verified", !.claimed = TRUE]]
  PROVE  OnlyRow(p, [status |-> "verified", claimed |-> TRUE, consumed |-> proofRow[p].consumed])
  <1> DEFINE row == [proofRow[p] EXCEPT !.status = "verified", !.claimed = TRUE]
  <1>1. proofRow[p] \in ProofRows /\ proofRow[p].consumed \in BOOLEAN
    BY DEF JobsTyped, ProofRows
  <1>2. row = [status |-> "verified", claimed |-> TRUE, consumed |-> proofRow[p].consumed]
    BY <1>1, ClaimedRow
  <1>3. row \in ProofRows
    BY <1>1, <1>2 DEF ProofRows
  <1>4. proofRow' = [proofRow EXCEPT ![p] = row]
    OBVIOUS
  <1> HIDE DEF row
  <1>5. OnlyRow(p, row)
    BY <1>3, <1>4 DEF JobsTyped, OnlyRow, ProofRows
  <1> QED
    BY <1>2, <1>5

LEMMA RowConsumed ==
  ASSUME JobsTyped, NEW p \in Proofs, proofRow' = [proofRow EXCEPT ![p].consumed = TRUE]
  PROVE  OnlyRow(p, [status |-> proofRow[p].status, claimed |-> proofRow[p].claimed, consumed |-> TRUE])
  BY ZenonT(40) DEF JobsTyped, OnlyRow

LEMMA RowRecorded ==
  ASSUME JobsTyped, NEW p \in Proofs, NEW status \in {"settled", "failed"}, Records402(p, status)
  PROVE  \E now \in {"none", "verified", "settled", "failed"} :
            /\ now \in {proofRow[p].status, status}
            /\ OnlyRow(p, [status |-> now, claimed |-> proofRow[p].claimed,
                           consumed |-> proofRow[p].consumed])
  <1>1. CASE proofRow' = [proofRow EXCEPT ![p].status = status]
    <2>1. OnlyRow(p, [status |-> status, claimed |-> proofRow[p].claimed,
                      consumed |-> proofRow[p].consumed])
      BY <1>1 DEF JobsTyped, OnlyRow
    <2> QED
      BY <2>1
  <1>2. CASE UNCHANGED proofRow
    <2>1. OnlyRow(p, [status |-> proofRow[p].status, claimed |-> proofRow[p].claimed,
                      consumed |-> proofRow[p].consumed])
      BY <1>2 DEF JobsTyped, OnlyRow
    <2> QED
      BY <2>1 DEF JobsTyped
  <1> QED
    BY <1>1, <1>2 DEF Records402

LEMMA SettleKeepsJobsInv ==
  ASSUME JobsInv, NEW r \in Settlers, SettleStep(r)
  PROVE  JobsInv'
  <1>0. JobsTyped /\ sessions \in Nat /\ settleCrashes \in 0 .. MaxSettleCrashes
    BY DEF JobsInv, JobsTyped
  <1>p. settler[r].stage # "away" => settler[r].proof \in Proofs
    BY DEF JobsInv, RequestsHaveProofs
  <1>1. ASSUME NEW p \in Proofs, BeginSettle(r, p) PROVE JobsInv'
    <2>1. OnlyMoves(r, "look", p)
      BY <1>0, <1>1 DEF BeginSettle, OnlyMoves, JobsTyped, Stages402
    <2>2. SessionsAreFew'
      BY <1>1, <2>1, MovesKeepFew DEF BeginSettle, Stages402
    <2> QED
      BY <1>0, <1>1, <2>1, <2>2, QuietStep DEF BeginSettle
  <1>2. CASE LookForSession(r)
    <2>1. CASE sessions = 0
      <3>1. OnlyMoves(r, "insert", settler[r].proof)
        BY <1>0, <1>2, <2>1, SettlerMoves DEF LookForSession, Stages402
      <3>2. SessionsAreFew'
        <4>1. IsFiniteSet(Inserting') /\ Cardinality(Inserting') <= Cardinality(Settlers)
          BY PaidJobsAssumption, FS_Subset DEF Inserting
        <4> QED
          BY <1>2, <2>1, <4>1, PaidJobsAssumption, FS_CardinalityType
          DEF LookForSession, SessionsAreFew
      <3> QED
        BY <1>0, <1>p, <1>2, <3>1, <3>2, QuietStep DEF LookForSession, Stands
    <2>2. CASE sessions # 0
      <3>1. OnlyMoves(r, "away", NoProof)
        BY <1>0, <1>2, <2>2, SettlerLeaves DEF LookForSession
      <3>2. SessionsAreFew'
        BY <1>2, <3>1, MovesKeepFew DEF LookForSession, Stages402
      <3> QED
        BY <1>0, <1>2, <3>1, <3>2, QuietStep DEF LookForSession
    <2> QED
      BY <2>1, <2>2
  <1>3. CASE InsertSession(r)
    <2>1. OnlyMoves(r, "bind", settler[r].proof)
      BY <1>0, <1>3, SettlerMoves DEF InsertSession, Stages402
    <2>2. Inserting' = Inserting \ {r} /\ r \in Inserting
      BY <1>3, <2>1 DEF InsertSession, OnlyMoves, Inserting, Stands
    <2>3. sessions' = sessions + 1 /\ sessions' \in Nat
      BY <1>0, <1>3 DEF InsertSession
    <2>4. SessionsAreFew'
      BY <2>2, <2>3, SessionsStayFew
    <2> QED
      BY <1>0, <1>p, <1>3, <2>1, <2>3, <2>4, QuietStep DEF InsertSession, Stands
  <1>4. CASE PayerBound(r)
    <2>1. OnlyMoves(r, "claim", settler[r].proof)
      BY <1>0, <1>4, SettlerMoves DEF PayerBound, Stages402
    <2>2. SessionsAreFew'
      BY <1>4, <2>1, MovesKeepFew DEF PayerBound, Stages402
    <2> QED
      BY <1>0, <1>p, <1>4, <2>1, <2>2, QuietStep DEF PayerBound, Stands
  <1>5. CASE PayerRefused(r) \/ ConsumeThrows(r) \/ SettlerDies(r)
    <2>1. OnlyMoves(r, "away", NoProof)
      BY <1>0, <1>5, SettlerLeaves DEF PayerRefused, ConsumeThrows, SettlerDies, Releases
    <2>2. sessions' = sessions \/ sessions' = 0
      BY <1>5 DEF PayerRefused, ConsumeThrows, SettlerDies, Releases
    <2>3. settleCrashes' \in 0 .. MaxSettleCrashes
      BY <1>0, <1>5 DEF PayerRefused, ConsumeThrows, SettlerDies
    <2>4. SessionsAreFew'
      BY <2>1, <2>2, MovesKeepFew DEF Stages402
    <2>5. sessions' \in Nat
      BY <1>0, <2>2
    <2>6. UNCHANGED <<agentJob, lapsed, proofRow, charged, served>>
      BY <1>5 DEF PayerRefused, ConsumeThrows, SettlerDies
    <2> QED
      BY <2>1, <2>3, <2>4, <2>5, <2>6, QuietStep
  <1>6. CASE ClaimSettlement(r)
    <2>1. CASE SettlementClaimable(Paying(r))
      <3> DEFINE p == settler[r].proof
      <3>a. p = settler[r].proof /\ p \in Proofs /\ settler[r].stage = "claim" /\ SettlementClaimable(p)
        BY <1>p, <1>6, <2>1 DEF ClaimSettlement, Stands, Paying
      <3>b. OnlyMoves(r, "settle", p)
        BY <1>0, <1>6, <2>1, SettlerMoves DEF ClaimSettlement, Stages402
      <3>c. OnlyRow(p, [status |-> "verified", claimed |-> TRUE, consumed |-> proofRow[p].consumed])
        BY <1>0, <1>6, <2>1, <3>a, RowClaimed DEF ClaimSettlement, Paying
      <3>d. UNCHANGED <<agentJob, lapsed, charged, sessions, served, settleCrashes>>
        BY <1>6, <2>1 DEF ClaimSettlement
      <3>f. SessionsAreFew'
        BY <3>b, <3>d, MovesKeepFew DEF Stages402
      <3> HIDE DEF p
      <3>t. JobsTyped'
        BY <1>0, <3>a, <3>b, <3>c, <3>d DEF JobsTyped, OnlyMoves, OnlyRow, Stages402
      <3>u. RequestsHaveProofs'
        BY <3>a, <3>b, <3>c, <3>d DEF JobsInv, OnlyMoves, RequestsHaveProofs, Stages402
      <3>v. HeldIsClaimed'
        BY <3>u, <3>a, <3>b, <3>c, <3>d
        DEF JobsInv, OnlyMoves, OnlyRow, RequestsHaveProofs, HeldIsClaimed, HeldByOne, InHand,
            Paying
      <3>w. HeldByOne'
        BY <3>a, <3>b, <3>c, <3>d
        DEF JobsInv, OnlyMoves, RequestsHaveProofs, HeldIsClaimed, HeldByOne, InHand, Paying,
            SettlementClaimable
      <3>x. ServedIsConsumed'
        BY <3>a, <3>b, <3>c, <3>d DEF JobsInv, JobsTyped, OnlyRow, ServedIsConsumed
      <3>y. HandledIsPaid'
        BY <3>u, <3>a, <3>b, <3>c, <3>d
        DEF JobsInv, OnlyMoves, OnlyRow, RequestsHaveProofs, HandledIsPaid, Paying
      <3>z. SettledJobIsPaid' /\ EscrowIsApart'
        BY <3>a, <3>b, <3>c, <3>d
        DEF JobsInv, JobsTyped, OnlyRow, SettledJobIsPaid, EscrowIsApart, OffChain,
            HandledIsPaid, Paying, RequestsHaveProofs
      <3> QED
        BY <3>t, <3>u, <3>v, <3>w, <3>x, <3>y, <3>z, <3>f, Zenon DEF JobsInv
    <2>2. CASE ~SettlementClaimable(Paying(r))
      <3>1. OnlyMoves(r, "away", NoProof)
        BY <1>0, <1>6, <2>2, SettlerLeaves DEF ClaimSettlement, Releases
      <3>2. SessionsAreFew' /\ sessions' \in Nat
        BY <1>6, <2>2, <3>1, MovesKeepFew DEF ClaimSettlement, Releases, Stages402
      <3> QED
        BY <1>0, <1>6, <2>2, <3>1, <3>2, QuietStep DEF ClaimSettlement
    <2> QED
      BY <2>1, <2>2
  <1>7. CASE SettleSucceeds(r)
    <2> DEFINE p == settler[r].proof
    <2>a. p = settler[r].proof /\ p \in Proofs /\ settler[r].stage = "settle"
      BY <1>p, <1>7 DEF SettleSucceeds, Stands
    <2>b. OnlyMoves(r, "record", p)
      BY <1>0, <1>7, SettlerMoves DEF SettleSucceeds, Stages402
    <2>c. charged' = charged \cup {p}
      BY <1>7 DEF SettleSucceeds, Paying
    <2>d. UNCHANGED <<agentJob, lapsed, proofRow, sessions, served, settleCrashes>>
      BY <1>7 DEF SettleSucceeds
    <2>f. SessionsAreFew'
      BY <2>b, <2>d, MovesKeepFew DEF Stages402
    <2> HIDE DEF p
    <2>t. JobsTyped'
      BY <1>0, <2>a, <2>b, <2>c, <2>d DEF JobsTyped, OnlyMoves, OnlyRow, Stages402
    <2>u. RequestsHaveProofs'
      BY <2>a, <2>b, <2>c, <2>d DEF JobsInv, OnlyMoves, RequestsHaveProofs, Stages402
    <2>v. HeldIsClaimed'
      BY <2>u, <2>a, <2>b, <2>c, <2>d
      DEF JobsInv, OnlyMoves, OnlyRow, RequestsHaveProofs, HeldIsClaimed, HeldByOne, InHand,
          Paying
    <2>w. HeldByOne'
      BY <2>a, <2>b, <2>c, <2>d
      DEF JobsInv, OnlyMoves, RequestsHaveProofs, HeldIsClaimed, HeldByOne, InHand, Paying,
          SettlementClaimable
    <2>x. ServedIsConsumed'
      BY <2>a, <2>b, <2>c, <2>d DEF JobsInv, JobsTyped, OnlyRow, ServedIsConsumed
    <2>y. HandledIsPaid'
      BY <2>u, <2>a, <2>b, <2>c, <2>d
      DEF JobsInv, OnlyMoves, OnlyRow, RequestsHaveProofs, HandledIsPaid, Paying
    <2>z. SettledJobIsPaid' /\ EscrowIsApart'
      BY <2>a, <2>b, <2>c, <2>d
      DEF JobsInv, JobsTyped, OnlyRow, SettledJobIsPaid, EscrowIsApart, OffChain, HandledIsPaid,
          Paying, RequestsHaveProofs
    <2> QED
      BY <2>t, <2>u, <2>v, <2>w, <2>x, <2>y, <2>z, <2>f, Zenon DEF JobsInv
  <1>8. CASE SettleFails(r)
    <2> DEFINE p == settler[r].proof
    <2>a. p = settler[r].proof /\ p \in Proofs /\ settler[r].stage = "settle"
      BY <1>p, <1>8 DEF SettleFails, Stands
    <2>b. OnlyMoves(r, "away", NoProof)
      BY <1>0, <1>8, SettlerLeaves DEF SettleFails, Releases
    <2>c. charged \subseteq charged' /\ charged' \subseteq charged \cup {p}
      BY <1>8 DEF SettleFails, Paying
    <2>d. /\ UNCHANGED <<agentJob, lapsed, served, settleCrashes>>
          /\ sessions' = 0
      BY <1>8 DEF SettleFails, Releases
    <2>e. PICK now \in {"none", "verified", "settled", "failed"} :
             OnlyRow(p, [status |-> now, claimed |-> proofRow[p].claimed, consumed |-> proofRow[p].consumed])
      BY <1>0, <1>8, <2>a, RowRecorded DEF SettleFails, Paying
    <2>f. SessionsAreFew'
      BY <2>b, <2>d, MovesKeepFew DEF Stages402
    <2> HIDE DEF p
    <2>t. JobsTyped'
      BY <1>0, <2>a, <2>b, <2>c, <2>d, <2>e DEF JobsTyped, OnlyMoves, OnlyRow, Stages402
    <2>u. RequestsHaveProofs'
      BY <2>a, <2>b, <2>c, <2>d, <2>e DEF JobsInv, OnlyMoves, RequestsHaveProofs, Stages402
    <2>v. HeldIsClaimed'
      BY <2>u, <2>a, <2>b, <2>c, <2>d, <2>e
      DEF JobsInv, OnlyMoves, OnlyRow, RequestsHaveProofs, HeldIsClaimed, HeldByOne, InHand,
          Paying
    <2>w. HeldByOne'
      BY <2>a, <2>b, <2>c, <2>d, <2>e
      DEF JobsInv, OnlyMoves, RequestsHaveProofs, HeldIsClaimed, HeldByOne, InHand, Paying,
          SettlementClaimable
    <2>x. ServedIsConsumed'
      BY <2>a, <2>b, <2>c, <2>d, <2>e DEF JobsInv, JobsTyped, OnlyRow, ServedIsConsumed
    <2>y. HandledIsPaid'
      BY <2>u, <2>a, <2>b, <2>c, <2>d, <2>e
      DEF JobsInv, OnlyMoves, OnlyRow, RequestsHaveProofs, HandledIsPaid, Paying
    <2>z. SettledJobIsPaid' /\ EscrowIsApart'
      BY <2>a, <2>b, <2>c, <2>d, <2>e
      DEF JobsInv, JobsTyped, OnlyRow, SettledJobIsPaid, EscrowIsApart, OffChain, HandledIsPaid,
          Paying, RequestsHaveProofs
    <2> QED
      BY <2>t, <2>u, <2>v, <2>w, <2>x, <2>y, <2>z, <2>f, Zenon DEF JobsInv
  <1>9. CASE RecordPayment(r)
    <2> DEFINE p == settler[r].proof
    <2>a. p = settler[r].proof /\ p \in Proofs /\ settler[r].stage = "record"
      BY <1>p, <1>9 DEF RecordPayment, Stands
    <2>b. OnlyMoves(r, "consume", p)
      BY <1>0, <1>9, SettlerMoves DEF RecordPayment, Stages402
    <2>d. UNCHANGED <<agentJob, lapsed, charged, sessions, served, settleCrashes>>
      BY <1>9 DEF RecordPayment
    <2>e. PICK now \in {"none", "verified", "settled", "failed"} :
             /\ now \in {proofRow[p].status, "settled"}
             /\ OnlyRow(p, [status |-> now, claimed |-> proofRow[p].claimed,
                            consumed |-> proofRow[p].consumed])
      BY <1>0, <1>9, <2>a, RowRecorded DEF RecordPayment, Paying
    <2>f. SessionsAreFew'
      BY <2>b, <2>d, MovesKeepFew DEF Stages402
    <2> HIDE DEF p
    <2>t. JobsTyped'
      BY <1>0, <2>a, <2>b, <2>d, <2>e DEF JobsTyped, OnlyMoves, OnlyRow, Stages402
    <2>u. RequestsHaveProofs'
      BY <2>a, <2>b, <2>d, <2>e DEF JobsInv, OnlyMoves, RequestsHaveProofs, Stages402
    <2>v. HeldIsClaimed'
      BY <2>u, <2>a, <2>b, <2>d, <2>e
      DEF JobsInv, OnlyMoves, OnlyRow, RequestsHaveProofs, HeldIsClaimed, HeldByOne, InHand,
          Paying
    <2>w. HeldByOne'
      BY <2>a, <2>b, <2>d, <2>e
      DEF JobsInv, OnlyMoves, RequestsHaveProofs, HeldIsClaimed, HeldByOne, InHand, Paying,
          SettlementClaimable
    <2>x. ServedIsConsumed'
      BY <2>a, <2>b, <2>d, <2>e DEF JobsInv, JobsTyped, OnlyRow, ServedIsConsumed
    <2>y. HandledIsPaid'
      BY <2>u, <2>a, <2>b, <2>d, <2>e
      DEF JobsInv, OnlyMoves, OnlyRow, RequestsHaveProofs, HandledIsPaid, Paying
    <2>z. SettledJobIsPaid' /\ EscrowIsApart'
      BY <2>a, <2>b, <2>d, <2>e
      DEF JobsInv, JobsTyped, OnlyRow, SettledJobIsPaid, EscrowIsApart, OffChain, HandledIsPaid,
          Paying, RequestsHaveProofs
    <2> QED
      BY <2>t, <2>u, <2>v, <2>w, <2>x, <2>y, <2>z, <2>f, Zenon DEF JobsInv
  <1>10. CASE ConsumePayment(r) /\ proofRow[Paying(r)].consumed
    <2>1. OnlyMoves(r, "away", NoProof)
      BY <1>0, <1>10, SettlerLeaves DEF ConsumePayment, Releases
    <2>2. SessionsAreFew' /\ sessions' \in Nat
      BY <1>10, <2>1, MovesKeepFew DEF ConsumePayment, Releases, Stages402
    <2> QED
      BY <1>0, <1>10, <2>1, <2>2, QuietStep DEF ConsumePayment
  <1>11. CASE ConsumePayment(r) /\ ~proofRow[Paying(r)].consumed
    <2> DEFINE p == settler[r].proof
    <2>a. p = settler[r].proof /\ p \in Proofs /\ settler[r].stage = "consume" /\ ~proofRow[p].consumed
      BY <1>p, <1>11 DEF ConsumePayment, Stands, Paying
    <2>b. OnlyMoves(r, "handle", p)
      BY <1>0, <1>11, SettlerMoves DEF ConsumePayment, Stages402
    <2>c. OnlyRow(p, [status |-> proofRow[p].status, claimed |-> proofRow[p].claimed, consumed |-> TRUE])
      BY <1>0, <1>11, <2>a, RowConsumed DEF ConsumePayment, Paying
    <2>d. /\ UNCHANGED <<agentJob, lapsed, charged, sessions, settleCrashes>>
          /\ served' = [served EXCEPT ![p] = @ + 1]
      BY <1>11 DEF ConsumePayment, Paying
    <2>f. SessionsAreFew'
      BY <2>b, <2>d, MovesKeepFew DEF Stages402
    <2> HIDE DEF p
    <2>t. JobsTyped'
      BY <1>0, <2>a, <2>b, <2>c, <2>d DEF JobsTyped, OnlyMoves, OnlyRow, Stages402
    <2>u. RequestsHaveProofs'
      BY <2>a, <2>b, <2>c, <2>d DEF JobsInv, OnlyMoves, RequestsHaveProofs, Stages402
    <2>v. HeldIsClaimed'
      BY <2>u, <2>a, <2>b, <2>c, <2>d
      DEF JobsInv, OnlyMoves, OnlyRow, RequestsHaveProofs, HeldIsClaimed, HeldByOne, InHand,
          Paying
    <2>w. HeldByOne'
      BY <2>a, <2>b, <2>c, <2>d
      DEF JobsInv, OnlyMoves, RequestsHaveProofs, HeldIsClaimed, HeldByOne, InHand, Paying,
          SettlementClaimable
    <2>x. ServedIsConsumed'
      BY <2>a, <2>b, <2>c, <2>d DEF JobsInv, JobsTyped, OnlyRow, ServedIsConsumed
    <2>y. HandledIsPaid'
      BY <2>u, <2>a, <2>b, <2>c, <2>d
      DEF JobsInv, OnlyMoves, OnlyRow, RequestsHaveProofs, HandledIsPaid, Paying
    <2>z. SettledJobIsPaid' /\ EscrowIsApart'
      BY <2>a, <2>b, <2>c, <2>d
      DEF JobsInv, JobsTyped, OnlyRow, SettledJobIsPaid, EscrowIsApart, OffChain, HandledIsPaid,
          Paying, RequestsHaveProofs
    <2> QED
      BY <2>t, <2>u, <2>v, <2>w, <2>x, <2>y, <2>z, <2>f, Zenon DEF JobsInv
  <1>12. CASE MarkJobSettlementPending(r)
    <2> DEFINE p == settler[r].proof
    <2>a. p = settler[r].proof /\ p \in Proofs /\ settler[r].stage = "handle"
      BY <1>p, <1>12 DEF MarkJobSettlementPending, Stands
    <2>b. PICK stage \in {"mark", "away"}, proof \in Proofs \cup {NoProof} :
             OnlyMoves(r, stage, proof) /\ (stage = "mark" => proof = p)
      <3>1. CASE agentJob.status \in {"verified", "settlement_pending"}
        BY <1>0, <1>12, <2>a, <3>1, SettlerMoves DEF MarkJobSettlementPending, Stages402
      <3>2. CASE agentJob.status \notin {"verified", "settlement_pending"}
        BY <1>0, <1>12, <3>2, SettlerLeaves DEF MarkJobSettlementPending
      <3> QED
        BY <3>1, <3>2
    <2>c. \/ UNCHANGED agentJob
          \/ /\ agentJob' = [agentJob EXCEPT !.status = "settlement_pending"]
             /\ agentJob.status \in {"verified", "settlement_pending"}
      BY <1>12 DEF MarkJobSettlementPending
    <2>d. UNCHANGED <<lapsed, proofRow, charged, sessions, served, settleCrashes>>
      BY <1>12 DEF MarkJobSettlementPending
    <2>f. SessionsAreFew'
      BY <2>b, <2>d, MovesKeepFew DEF Stages402
    <2> HIDE DEF p
    <2>t. JobsTyped'
      BY <1>0, <2>a, <2>b, <2>c, <2>d DEF JobsTyped, OnlyMoves, OnlyRow, Stages402
    <2>u. RequestsHaveProofs'
      BY <2>a, <2>b, <2>c, <2>d DEF JobsInv, OnlyMoves, RequestsHaveProofs, Stages402
    <2>v. HeldIsClaimed'
      BY <2>u, <2>a, <2>b, <2>c, <2>d
      DEF JobsInv, OnlyMoves, OnlyRow, RequestsHaveProofs, HeldIsClaimed, HeldByOne, InHand,
          Paying
    <2>w. HeldByOne'
      BY <2>a, <2>b, <2>c, <2>d
      DEF JobsInv, OnlyMoves, RequestsHaveProofs, HeldIsClaimed, HeldByOne, InHand, Paying,
          SettlementClaimable
    <2>x. ServedIsConsumed'
      BY <2>a, <2>b, <2>c, <2>d DEF JobsInv, JobsTyped, OnlyRow, ServedIsConsumed
    <2>y. HandledIsPaid'
      BY <2>u, <2>a, <2>b, <2>c, <2>d
      DEF JobsInv, OnlyMoves, OnlyRow, RequestsHaveProofs, HandledIsPaid, Paying
    <2>z. SettledJobIsPaid' /\ EscrowIsApart'
      BY <2>a, <2>b, <2>c, <2>d
      DEF JobsInv, JobsTyped, OnlyRow, SettledJobIsPaid, EscrowIsApart, OffChain, HandledIsPaid,
          Paying, RequestsHaveProofs
    <2> QED
      BY <2>t, <2>u, <2>v, <2>w, <2>x, <2>y, <2>z, <2>f, Zenon DEF JobsInv
  <1>13. CASE MarkJobSettled(r)
    <2> DEFINE p == settler[r].proof
    <2>a. p = settler[r].proof /\ p \in Proofs /\ settler[r].stage = "mark"
      BY <1>p, <1>13 DEF MarkJobSettled, Stands
    <2>b. OnlyMoves(r, "away", NoProof)
      BY <1>0, <1>13, SettlerLeaves DEF MarkJobSettled
    <2>c. \/ UNCHANGED agentJob
          \/ /\ agentJob' = [agentJob EXCEPT !.status = "settled", !.paidBy = p]
             /\ agentJob.status \in {"verified", "settlement_pending"}
      BY <1>13 DEF MarkJobSettled, SettledOnce, Paying
    <2>d. UNCHANGED <<lapsed, proofRow, charged, sessions, served, settleCrashes>>
      BY <1>13 DEF MarkJobSettled
    <2>e. p \in charged /\ proofRow[p].consumed
      BY <2>a DEF JobsInv, HandledIsPaid, Paying
    <2>f. SessionsAreFew'
      BY <2>b, <2>d, MovesKeepFew DEF Stages402
    <2> HIDE DEF p
    <2>t. JobsTyped'
      BY <1>0, <2>a, <2>b, <2>c, <2>d, <2>e DEF JobsTyped, OnlyMoves, OnlyRow, Stages402
    <2>u. RequestsHaveProofs'
      BY <2>a, <2>b, <2>c, <2>d, <2>e DEF JobsInv, OnlyMoves, RequestsHaveProofs, Stages402
    <2>v. HeldIsClaimed'
      BY <2>u, <2>a, <2>b, <2>c, <2>d, <2>e
      DEF JobsInv, OnlyMoves, OnlyRow, RequestsHaveProofs, HeldIsClaimed, HeldByOne, InHand,
          Paying
    <2>w. HeldByOne'
      BY <2>a, <2>b, <2>c, <2>d, <2>e
      DEF JobsInv, OnlyMoves, RequestsHaveProofs, HeldIsClaimed, HeldByOne, InHand, Paying,
          SettlementClaimable
    <2>x. ServedIsConsumed'
      BY <2>a, <2>b, <2>c, <2>d, <2>e DEF JobsInv, JobsTyped, OnlyRow, ServedIsConsumed
    <2>y. HandledIsPaid'
      BY <2>u, <2>a, <2>b, <2>c, <2>d, <2>e
      DEF JobsInv, OnlyMoves, OnlyRow, RequestsHaveProofs, HandledIsPaid, Paying
    <2>z. SettledJobIsPaid' /\ EscrowIsApart'
      BY <2>a, <2>b, <2>c, <2>d, <2>e
      DEF JobsInv, JobsTyped, OnlyRow, SettledJobIsPaid, EscrowIsApart, OffChain, HandledIsPaid,
          Paying, RequestsHaveProofs
    <2> QED
      BY <2>t, <2>u, <2>v, <2>w, <2>x, <2>y, <2>z, <2>f, Zenon DEF JobsInv
  <1> QED
    BY <1>1, <1>2, <1>3, <1>4, <1>5, <1>6, <1>7, <1>8, <1>9, <1>10, <1>11, <1>12, <1>13
    DEF SettleStep

LEMMA NextJobsInv == JobsInv /\ [PaidNext]_paidVars => JobsInv'
  <1> SUFFICES ASSUME JobsInv, [PaidNext]_paidVars PROVE JobsInv'
    OBVIOUS
  <1>1. CASE \/ CreateAgentJob \/ EscrowJobAppears \/ ClaimPasses \/ PostVerify
             \/ \E hand, w \in Hands : PostClaim(hand, w) \/ PostRunning(hand, w) \/ PostSubmit(hand, w)
    BY <1>1, JobKeepsJobsInv
  <1>2. ASSUME NEW r \in Settlers, SettleStep(r) PROVE JobsInv'
    BY <1>2, SettleKeepsJobsInv
  <1>3. CASE SessionExpires
    <2>1. SessionsAreFew'
      BY <1>3, SessionsStayFew DEF SessionExpires, Inserting, Stands
    <2>2. UNCHANGED <<agentJob, lapsed, proofRow, charged, settler, served, settleCrashes>>
      BY <1>3 DEF SessionExpires
    <2>3. JobsTyped'
      BY <1>3, <2>2 DEF SessionExpires, JobsInv, JobsTyped
    <2> QED
      BY <2>1, <2>2, <2>3
      DEF JobsInv, EscrowIsApart, RequestsHaveProofs, HeldIsClaimed, HeldByOne, ServedIsConsumed,
          HandledIsPaid, SettledJobIsPaid, OffChain, InHand, Paying
  <1>4. CASE UNCHANGED paidVars
    BY <1>4
    DEF paidVars, JobsInv, JobsTyped, SessionsAreFew, Inserting, Stands, EscrowIsApart,
        RequestsHaveProofs, HeldIsClaimed, HeldByOne, ServedIsConsumed, HandledIsPaid,
        SettledJobIsPaid, OffChain, InHand, Paying
  <1> QED
    BY <1>1, <1>2, <1>3, <1>4 DEF PaidNext

LEMMA JobsInvHolds == PaidSpec => []JobsInv
  BY InitJobsInv, NextJobsInv, PTL DEF PaidSpec

\* What the invariant gives at every state of a paid job.
LEMMA JobsInvGives == JobsInv => PaidTypeOK /\ ProofIsExclusive /\ SettledJobIsPaid
  <1> SUFFICES ASSUME JobsInv PROVE PaidTypeOK /\ ProofIsExclusive /\ SettledJobIsPaid
    OBVIOUS
  <1> USE DEF JobsInv
  <1>1. PaidTypeOK
    <2>1. sessions \in 0 .. Cardinality(Settlers)
      <3>1. IsFiniteSet(Inserting)
        BY FS_Subset DEF Inserting
      <3> QED
        BY <3>1, FS_CardinalityType DEF SessionsAreFew, JobsTyped
    <2>2. served \in [Proofs -> 0 .. 2]
      BY DEF ServedIsConsumed, JobsTyped
    <2> QED
      BY <2>1, <2>2, Zenon DEF PaidTypeOK, JobsTyped
  <1>2. ProofIsExclusive
    <2> SUFFICES ASSUME NEW p \in Proofs
                 PROVE  /\ Cardinality({r \in Settlers : /\ Paying(r) = p
                             /\ settler[r].stage \in {"settle", "record", "consume"}}) <= 1
                        /\ served[p] <= 1
      BY DEF ProofIsExclusive
    <2>1. served[p] <= 1
      BY DEF ServedIsConsumed
    <2> DEFINE S == {r \in Settlers : /\ Paying(r) = p
                                      /\ settler[r].stage \in {"settle", "record", "consume"}}
    <2>2. \A x, y \in S : x = y
      BY DEF HeldByOne, InHand
    <2> HIDE DEF S
    <2>3. Cardinality(S) <= 1
      BY <2>2, AtMostOne
    <2> QED
      BY <2>1, <2>3 DEF S
  <1> QED
    BY <1>1, <1>2

\* A settled job, or one of the escrow, is left alone.
LEMMA SettledJobRests ==
  ASSUME JobsInv, [PaidNext]_paidVars, agentJob.status = "settled" \/ agentJob.mode = "erc8183_escrow"
  PROVE  UNCHANGED agentJob
  <1> USE DEF JobsInv, EscrowIsApart
  <1>1. CASE \/ CreateAgentJob \/ EscrowJobAppears \/ ClaimPasses \/ PostVerify
             \/ \E hand, w \in Hands : PostClaim(hand, w) \/ PostRunning(hand, w) \/ PostSubmit(hand, w)
    BY <1>1
    DEF CreateAgentJob, EscrowJobAppears, ClaimPasses, PostVerify, VerifyAgentJob, PostClaim,
        ClaimAgentJob, Free, PostRunning, MarkJobRunning, PostSubmit, SubmitAgentJob, OffChain,
        HasTheseRoutes
  <1>2. ASSUME NEW r \in Settlers, SettleStep(r) PROVE UNCHANGED agentJob
    BY <1>2
    DEF SettleStep, BeginSettle, LookForSession, InsertSession, PayerBound, PayerRefused,
        ClaimSettlement, SettleSucceeds, SettleFails, RecordPayment, ConsumePayment, ConsumeThrows,
        MarkJobSettlementPending, MarkJobSettled, SettlerDies, SettledOnce
  <1>3. CASE SessionExpires \/ UNCHANGED paidVars
    BY <1>3 DEF SessionExpires, paidVars
  <1> QED
    BY <1>1, <1>2, <1>3 DEF PaidNext

HIDE PaidJobsAssumption

(***************************************************************************)
(* Approval tickets.  A page that executes holds the operation it has      *)
(* sent, and a ticket that was never submitted carries no hash.            *)
(***************************************************************************)
SentByPage ==
    \A g \in Pages : page[g].stage \in {"executing", "submitting", "confirming"} =>
        page[g].op \in UserOps /\ userOp[page[g].op] # "none"

UnsubmittedIsBlank ==
    ticket.status \in {"none", "awaiting_approval", "approved", "cancelled"} => ticket.tx = NoUserOp

TicketInv == TicketTypeOK /\ SentByPage /\ UnsubmittedIsBlank

LEMMA InitTicketInv == TicketInit => TicketInv
  <1> SUFFICES ASSUME TicketInit PROVE TicketInv
    OBVIOUS
  <1> USE DEF TicketInit, Looking
  <1>1. TicketTypeOK
    BY DEF TicketTypeOK
  <1>2. SentByPage
    <2>1. \A g \in Pages : page[g].stage = "ready"
      OBVIOUS
    <2> QED
      BY <2>1 DEF SentByPage
  <1>3. UnsubmittedIsBlank
    BY DEF UnsubmittedIsBlank
  <1> QED
    BY <1>1, <1>2, <1>3 DEF TicketInv

PageStates ==
    [stage : {"ready", "executing", "submitting", "confirming", "polling"},
     op : UserOps \cup {NoUserOp}, sees : BOOLEAN]

OnlyPage(g) ==
    /\ page' \in [Pages -> PageStates]
    /\ \A h \in Pages : h # g => page'[h] = page[h]

\* What one page does leaves the others, and their operations stay sent.
LEMMA PageKeepsTicketInv ==
  ASSUME TicketInv, NEW g \in Pages, OnlyPage(g),
         userOp' \in [UserOps -> {"none", "live", "success", "reverted"}],
         \A u \in UserOps : userOp[u] # "none" => userOp'[u] # "none",
         page'[g].stage \in {"executing", "submitting", "confirming"} =>
             page'[g].op \in UserOps /\ userOp'[page'[g].op] # "none",
         ticket' \in [status : {"none", "awaiting_approval", "approved", "cancelled", "submitted",
                                "confirmed", "failed"}, tx : UserOps \cup {NoUserOp}],
         UnsubmittedIsBlank', ticketLate' \in BOOLEAN
  PROVE  TicketInv'
  <1>2. TicketTypeOK'
    BY DEF OnlyPage, TicketTypeOK, PageStates
  <1>3. SentByPage'
    BY DEF OnlyPage, TicketInv, TicketTypeOK, PageStates, SentByPage
  <1> QED
    BY <1>2, <1>3 DEF TicketInv

LEMMA NextTicketInv == TicketInv /\ [TicketNext]_ticketVars => TicketInv'
  <1> SUFFICES ASSUME TicketInv, [TicketNext]_ticketVars PROVE TicketInv'
    OBVIOUS
  <1>0. /\ page \in [Pages -> PageStates] /\ ticketLate \in BOOLEAN
        /\ userOp \in [UserOps -> {"none", "live", "success", "reverted"}]
        /\ ticket \in [status : {"none", "awaiting_approval", "approved", "cancelled", "submitted",
                                "confirmed", "failed"}, tx : UserOps \cup {NoUserOp}]
        /\ SentByPage /\ UnsubmittedIsBlank
    BY DEF TicketInv, TicketTypeOK, PageStates
  <1>1. CASE CreateTicket \/ ApproveTicket \/ CancelTicket \/ ConfirmBySession
             \/ \E u \in UserOps : SubmitTicket(u)
    <2>1. TicketTypeOK'
      BY <1>0, <1>1
      DEF CreateTicket, ApproveTicket, CancelTicket, ConfirmBySession, SubmitTicket, TicketOnly,
          TicketTypeOK, PageStates
    <2>2. UnsubmittedIsBlank'
      BY <1>0, <1>1
      DEF CreateTicket, ApproveTicket, CancelTicket, Cancellable, ConfirmBySession, SubmitTicket,
          UnsubmittedIsBlank
    <2>3. SentByPage'
      BY <1>0, <1>1
      DEF CreateTicket, ApproveTicket, CancelTicket, ConfirmBySession, SubmitTicket, TicketOnly,
          SentByPage
    <2> QED
      BY <2>1, <2>2, <2>3 DEF TicketInv
  <1>2. CASE TicketTimePasses \/ UNCHANGED ticketVars
    BY <1>0, <1>2
    DEF TicketTimePasses, ticketVars, TicketInv, TicketTypeOK, PageStates, SentByPage,
        UnsubmittedIsBlank
  <1>3. ASSUME NEW u \in UserOps, UserOpMined(u) PROVE TicketInv'
    <2>1. /\ userOp' \in [UserOps -> {"none", "live", "success", "reverted"}]
          /\ \A v \in UserOps : userOp[v] # "none" => userOp'[v] # "none"
      BY <1>0, <1>3 DEF UserOpMined
    <2>2. UNCHANGED <<ticket, ticketLate, page>>
      BY <1>3 DEF UserOpMined
    <2> QED
      BY <1>0, <2>1, <2>2 DEF TicketInv, TicketTypeOK, PageStates, SentByPage, UnsubmittedIsBlank
  <1>4. ASSUME NEW g \in Pages, LoadPage(g) \/ ExecuteThrows(g) \/ ConfirmByPage(g) \/ Reload(g)
        PROVE  TicketInv'
    <2>1. OnlyPage(g) /\ page'[g].stage \in {"ready", "polling"}
      <3>1. CASE LoadPage(g)
        BY <1>0, <3>1 DEF LoadPage, PageAt, OnlyPage, PageStates
      <3>2. CASE ExecuteThrows(g) /\ ticket.status = "submitted"
        BY <1>0, <3>2 DEF ExecuteThrows, PageTo, OnlyPage, PageStates
      <3>3. CASE ExecuteThrows(g) /\ ticket.status # "submitted"
        <4> DEFINE sees == ticket.status = "approved" /\ ~Expired
        <4>1. page' = [page EXCEPT ![g] = [Looking EXCEPT !.sees = sees]]
          BY <3>3 DEF ExecuteThrows
        <4>2. sees \in BOOLEAN
          OBVIOUS
        <4> HIDE DEF sees
        <4>3. [Looking EXCEPT !.sees = sees] = [stage |-> "ready", op |-> NoUserOp, sees |-> sees]
          BY DEF Looking
        <4> QED
          BY <1>0, <4>1, <4>2, <4>3 DEF OnlyPage, PageStates
      <3>4. CASE ConfirmByPage(g)
        BY <1>0, <3>4 DEF ConfirmByPage, Looking, OnlyPage, PageStates
      <3>5. CASE Reload(g)
        BY <1>0, <3>5 DEF Reload, Looking, OnlyPage, PageStates
      <3> QED
        BY <1>4, <3>1, <3>2, <3>3, <3>4, <3>5
    <2>2. UNCHANGED <<userOp, ticketLate>>
      BY <1>4 DEF LoadPage, ExecuteThrows, ConfirmByPage, Reload
    <2>3. /\ ticket' \in [status : {"none", "awaiting_approval", "approved", "cancelled", "submitted",
                                   "confirmed", "failed"}, tx : UserOps \cup {NoUserOp}]
          /\ UnsubmittedIsBlank'
      BY <1>0, <1>4 DEF LoadPage, ExecuteThrows, ConfirmByPage, Reload, OutcomeOf, UnsubmittedIsBlank
    <2> QED
      BY <1>0, <2>1, <2>2, <2>3, PageKeepsTicketInv
  <1>5. ASSUME NEW g \in Pages, Execute(g) PROVE TicketInv'
    <2>1. PICK u \in UserOps :
             /\ userOp' = [userOp EXCEPT ![u] = "live"]
             /\ page' = [page EXCEPT ![g].stage = "executing", ![g].op = u]
      BY <1>5 DEF Execute
    <2>2. OnlyPage(g)
      BY <1>0, <2>1 DEF OnlyPage, PageStates
    <2>3. page'[g].op = u
      BY <1>0, <2>1 DEF PageStates
    <2>4. userOp' \in [UserOps -> {"none", "live", "success", "reverted"}] /\ userOp'[u] = "live"
          /\ \A v \in UserOps : userOp[v] # "none" => userOp'[v] # "none"
      BY <1>0, <2>1
    <2>5. UNCHANGED <<ticket, ticketLate>>
      BY <1>5 DEF Execute
    <2>6. UnsubmittedIsBlank'
      BY <1>0, <2>5 DEF UnsubmittedIsBlank
    <2> QED
      BY <1>0, <2>2, <2>3, <2>4, <2>5, <2>6, PageKeepsTicketInv
  <1>6. ASSUME NEW g \in Pages, AwaitUserOp(g) \/ SubmitByPage(g) PROVE TicketInv'
    <2>1. /\ OnlyPage(g)
          /\ page'[g].stage \in {"submitting", "confirming"} =>
                page'[g].op = page[g].op /\ page[g].stage \in {"executing", "submitting"}
      <3>1. CASE AwaitUserOp(g)
        BY <1>0, <3>1 DEF AwaitUserOp, PageAt, PageTo, OnlyPage, PageStates
      <3>2. CASE SubmitByPage(g) /\ PageTo(g, "confirming")
        BY <1>0, <3>2 DEF SubmitByPage, PageAt, PageTo, OnlyPage, PageStates
      <3>3. CASE page' = [page EXCEPT ![g].stage = "ready", ![g].op = NoUserOp]
        BY <1>0, <3>3 DEF OnlyPage, PageStates
      <3> QED
        BY <1>6, <3>1, <3>2, <3>3 DEF SubmitByPage
    <2>5. page'[g].stage # "executing"
      BY <1>0, <1>6 DEF AwaitUserOp, SubmitByPage, PageAt, PageTo, PageStates
    <2>2. UNCHANGED <<userOp, ticketLate>>
      BY <1>6 DEF AwaitUserOp, SubmitByPage
    <2>3. CASE AwaitUserOp(g)
      BY <1>0, <2>1, <2>2, <2>3, <2>5, PageKeepsTicketInv DEF AwaitUserOp, SentByPage, UnsubmittedIsBlank
    <2>4. CASE SubmitByPage(g)
      <3>1. page[g].op \in UserOps /\ userOp[page[g].op] # "none"
        BY <1>0, <2>4 DEF SubmitByPage, PageAt, SentByPage
      <3>2. /\ ticket' \in [status : {"none", "awaiting_approval", "approved", "cancelled",
                                     "submitted", "confirmed", "failed"},
                            tx : UserOps \cup {NoUserOp}]
            /\ UnsubmittedIsBlank'
        BY <1>0, <2>4, <3>1 DEF SubmitByPage, UnsubmittedIsBlank
      <3> QED
        BY <1>0, <2>1, <2>2, <2>5, <3>1, <3>2, PageKeepsTicketInv
    <2> QED
      BY <1>6, <2>3, <2>4
  <1> QED
    BY <1>1, <1>2, <1>3, <1>4, <1>5, <1>6 DEF TicketNext

\* A hash on a ticket stays, and is that of an operation that was sent.
LEMMA FirstHash ==
  ASSUME TicketInv, [TicketNext]_ticketVars
  PROVE  /\ ticket.tx # NoUserOp => ticket'.tx = ticket.tx
         /\ ticket.status \in {"cancelled", "confirmed", "failed"} => ticket' = ticket
         /\ ticket'.tx # ticket.tx => userOp[ticket'.tx] # "none" /\ ticket.status = "approved"
  <1>0. /\ ticket \in [status : {"none", "awaiting_approval", "approved", "cancelled", "submitted",
                                "confirmed", "failed"}, tx : UserOps \cup {NoUserOp}]
        /\ SentByPage /\ UnsubmittedIsBlank
    BY DEF TicketInv, TicketTypeOK
  <1>1. CASE CreateTicket \/ ApproveTicket \/ CancelTicket \/ ConfirmBySession
             \/ \E u \in UserOps : SubmitTicket(u)
    BY <1>0, <1>1
    DEF CreateTicket, ApproveTicket, CancelTicket, Cancellable, ConfirmBySession, SubmitTicket,
        Submittable, UnsubmittedIsBlank
  <1>2. CASE UNCHANGED ticket
    BY <1>2
  <1>3. ASSUME NEW g \in Pages, SubmitByPage(g) \/ ConfirmByPage(g)
        PROVE  /\ ticket.tx # NoUserOp => ticket'.tx = ticket.tx
               /\ ticket.status \in {"cancelled", "confirmed", "failed"} => ticket' = ticket
               /\ ticket'.tx # ticket.tx => userOp[ticket'.tx] # "none" /\ ticket.status = "approved"
    BY <1>0, <1>3
    DEF SubmitByPage, ConfirmByPage, PageAt, Submittable, SentByPage, UnsubmittedIsBlank
  <1> QED
    BY <1>1, <1>2, <1>3
    DEF TicketNext, ticketVars, TicketTimePasses, UserOpMined, LoadPage, Execute, AwaitUserOp,
        ExecuteThrows, Reload

(***************************************************************************)
(* Signing.  Of the tabs one at most is past the claim, and where it       *)
(* stands tells which transactions of the request have been sent.          *)
(***************************************************************************)
AtWork == {"send", "receipt", "partial", "submitted", "confirmed"}

OnChain(i)  == sentTx[i].sent = 1 /\ sentTx[i].fate \in {"mined", "reverted"}
Unsent(i)   == sentTx[i].sent = 0 /\ sentTx[i].fate = "none"

\* The tab has sent what precedes its next transaction, and nothing beyond.
SentUpTo(t) ==
    LET n == flow[t].next IN
    CASE flow[t].stage = "send"    -> /\ n \in 1 .. TxCount
                                      /\ \A i \in Txs : IF i < n THEN OnChain(i) ELSE Unsent(i)
      [] flow[t].stage = "receipt" -> /\ n \in 1 .. TxCount /\ sentTx[n].sent = 1
                                      /\ \A i \in Txs : /\ i < n => OnChain(i)
                                                        /\ i > n => Unsent(i)
      [] flow[t].stage = "partial" -> sentTx[1].sent = 1
      [] flow[t].stage \in {"submitted", "confirmed"} -> \A i \in 1 .. TxCount : OnChain(i)
      [] OTHER -> TRUE

ClaimedByOneTab ==
    /\ \A t, u \in Tabs : flow[t].stage \in AtWork /\ flow[u].stage \in AtWork => t = u
    /\ signRequest.status \in {"none", "pending"} =>
           /\ \A t \in Tabs : flow[t].stage \notin AtWork
           /\ \A i \in Txs : Unsent(i)

RequestHasTool ==
    /\ signRequest.status # "none" => signRequest.tool \in ToolsUsed
    /\ signRequest.status = "none" => ~signRequest.hashed

FreshTabs == \A t \in Tabs : flow[t].stage \in {"idle", "claiming"} => flow[t].next = 1

SigningInv ==
    /\ SigningTypeOK /\ SignedOnce
    /\ ClaimedByOneTab /\ RequestHasTool /\ FreshTabs /\ \A t \in Tabs : SentUpTo(t)

LEMMA TxCountIs == ASSUME SigningAssumption, signRequest.tool \in ToolsUsed PROVE TxCount \in 1 .. 2
  <1>1. /\ Len(CreateJobCalls) = 1 /\ Len(FundCalls) = 2 /\ Len(CompleteCalls) = 1
        /\ Len(RejectCalls) = 1 /\ Len(RefundCalls) = 1
    BY DEF CreateJobCalls, FundCalls, CompleteCalls, RejectCalls, RefundCalls
  <1>2. signRequest.tool \in {"create_job", "fund_job", "complete_job", "reject_job", "claim_refund"}
    BY DEF SigningAssumption
  <1>3. /\ CallsOf["create_job"] = CreateJobCalls /\ CallsOf["fund_job"] = FundCalls
        /\ CallsOf["complete_job"] = CompleteCalls /\ CallsOf["reject_job"] = RejectCalls
        /\ CallsOf["claim_refund"] = RefundCalls
    BY DEF CallsOf
  <1>9. 1 \in 1 .. 2 /\ 2 \in 1 .. 2
    OBVIOUS
  <1>4. CASE signRequest.tool = "create_job"
    BY <1>1, <1>3, <1>4, <1>9, Zenon DEF TxCount
  <1>5. CASE signRequest.tool = "fund_job"
    BY <1>1, <1>3, <1>5, <1>9, Zenon DEF TxCount
  <1>6. CASE signRequest.tool = "complete_job"
    BY <1>1, <1>3, <1>6, <1>9, Zenon DEF TxCount
  <1>7. CASE signRequest.tool = "reject_job"
    BY <1>1, <1>3, <1>7, <1>9, Zenon DEF TxCount
  <1>8. CASE signRequest.tool = "claim_refund"
    BY <1>1, <1>3, <1>8, <1>9, Zenon DEF TxCount
  <1> QED
    BY <1>2, <1>4, <1>5, <1>6, <1>7, <1>8, Zenon

LEMMA InitSigningInv == SigningInit => SigningInv
  <1> SUFFICES ASSUME SigningInit PROVE SigningInv
    OBVIOUS
  <1>1. SigningTypeOK
    <2>1. flow \in [Tabs -> [stage : {"idle", "claiming", "send", "receipt", "partial", "submitted",
                                     "confirmed", "over"}, next : 1 .. 3]]
      BY DEF SigningInit, Resting
    <2>2. sentTx \in [Txs -> [sent : 0 .. 2, fate : {"none", "live", "mined", "reverted"}]]
      BY DEF SigningInit
    <2>3. signRequest \in [status : {"none", "pending", "signing", "submitted", "confirmed", "cancelled",
                                    "expired"},
                          pairing : Pairings \cup {NoPairing}, hashed : BOOLEAN,
                          tool : ToolsUsed \cup {"none"}]
      BY DEF SigningInit
    <2>4. /\ pairing \in [Pairings -> {"none", "active", "revoked"}] /\ pairingLate \subseteq Pairings
          /\ requestLate \in BOOLEAN /\ opening \subseteq Tabs
      BY DEF SigningInit
    <2> QED
      BY <2>1, <2>2, <2>3, <2>4, Zenon DEF SigningTypeOK
  <1>2. \A t \in Tabs : flow[t].stage = "idle" /\ flow[t].next = 1
    BY DEF SigningInit, Resting
  <1>3. \A i \in Txs : Unsent(i)
    BY DEF SigningInit, Unsent
  <1>4. signRequest.status = "none" /\ ~signRequest.hashed
    BY DEF SigningInit
  <1>5. SignedOnce
    BY <1>3, <1>4 DEF SignedOnce, Unsent
  <1>6. ClaimedByOneTab /\ RequestHasTool /\ FreshTabs
    BY <1>2, <1>3, <1>4 DEF ClaimedByOneTab, RequestHasTool, FreshTabs, AtWork
  <1>7. \A t \in Tabs : SentUpTo(t)
    BY <1>2 DEF SentUpTo
  <1> QED
    BY <1>1, <1>5, <1>6, <1>7 DEF SigningInv

Flows == [stage : {"idle", "claiming", "send", "receipt", "partial", "submitted", "confirmed", "over"},
          next : 1 .. 3]

OnlyFlow(t) ==
    /\ flow' \in [Tabs -> Flows]
    /\ \A u \in Tabs : u # t => flow'[u] = flow[u]

\* A session comes, lives and goes: no request and no tab moves.
LEMMA PairingKeepsSigningInv ==
  ASSUME SigningInv, UNCHANGED <<signRequest, requestLate, flow, sentTx>>,
         pairing' \in [Pairings -> {"none", "active", "revoked"}], pairingLate' \subseteq Pairings,
         opening' \subseteq Tabs
  PROVE  SigningInv'
  <1>1. SigningTypeOK'
    BY DEF SigningInv, SigningTypeOK
  <1>2. RequestHasTool' /\ SignedOnce' /\ ClaimedByOneTab' /\ FreshTabs' /\ \A t \in Tabs : SentUpTo(t)'
    BY DEF SigningInv, RequestHasTool, SignedOnce, ClaimedByOneTab, FreshTabs, SentUpTo, OnChain, Unsent,
           TxCount
  <1> QED
    BY <1>1, <1>2 DEF SigningInv

\* The request is created, expires or is cancelled: no tab moves, and no
\* tab is at work when it is created.
LEMMA RequestKeepsSigningInv ==
  ASSUME SigningInv, CreateSignRequest \/ RequestTimePasses \/ ExpireStale \/ CancelSignRequest
  PROVE  SigningInv'
  <1>0. UNCHANGED <<pairing, pairingLate, opening, flow, sentTx>>
    BY DEF CreateSignRequest, RequestTimePasses, ExpireStale, CancelSignRequest, RequestOnly
  <1>1. SigningTypeOK'
    <2> USE <1>0 DEF SigningInv, SigningTypeOK
    <2>1. CASE CreateSignRequest
      BY <2>1 DEF CreateSignRequest
    <2>2. CASE RequestTimePasses
      BY <2>2 DEF RequestTimePasses
    <2>3. CASE ExpireStale \/ CancelSignRequest
      BY <2>3 DEF ExpireStale, CancelSignRequest
    <2> QED
      BY <2>1, <2>2, <2>3
  <1>2. CASE CreateSignRequest
    <2>1. /\ signRequest'.status = "pending" /\ signRequest'.tool \in ToolsUsed
          /\ ~signRequest'.hashed
      BY <1>2 DEF CreateSignRequest
    <2>2. /\ \A t \in Tabs : flow[t].stage \notin AtWork
          /\ \A i \in Txs : Unsent(i)
      BY <1>2 DEF SigningInv, ClaimedByOneTab, CreateSignRequest
    <2>3. RequestHasTool' /\ ClaimedByOneTab' /\ FreshTabs'
      BY <1>0, <2>1, <2>2 DEF SigningInv, RequestHasTool, ClaimedByOneTab, FreshTabs, Unsent
    <2>4. SignedOnce'
      BY <1>0, <2>1, <2>2 DEF SigningInv, SignedOnce, Unsent
    <2>5. ASSUME NEW t \in Tabs PROVE SentUpTo(t)'
      BY <1>0, <2>2 DEF SentUpTo, AtWork
    <2> QED
      BY <1>1, <2>3, <2>4, <2>5 DEF SigningInv
  <1>3. CASE RequestTimePasses \/ ExpireStale \/ CancelSignRequest
    <2>1. /\ signRequest'.tool = signRequest.tool /\ signRequest'.hashed = signRequest.hashed
          /\ signRequest'.status \in {signRequest.status, "expired", "cancelled"}
          /\ signRequest.status \in {"pending", "signing"}
      BY <1>3 DEF RequestTimePasses, ExpireStale, CancelSignRequest, SigningInv, SigningTypeOK
    <2>2. RequestHasTool' /\ ClaimedByOneTab' /\ FreshTabs'
      BY <1>0, <2>1 DEF SigningInv, RequestHasTool, ClaimedByOneTab, FreshTabs, Unsent
    <2>3. SignedOnce' /\ \A t \in Tabs : SentUpTo(t)'
      BY <1>0, <2>1 DEF SigningInv, SignedOnce, SentUpTo, OnChain, Unsent, TxCount
    <2> QED
      BY <1>1, <2>2, <2>3 DEF SigningInv
  <1> QED
    BY <1>2, <1>3

\* A transaction is mined, or fails.
LEMMA MinedKeepsSigningInv ==
  ASSUME SigningInv, NEW i \in Txs, TxMined(i)
  PROVE  SigningInv'
  <1>0. UNCHANGED <<pairing, pairingLate, opening, signRequest, requestLate, flow>>
    BY DEF TxMined, RequestOnly
  <1>t. sentTx \in [Txs -> [sent : 0 .. 2, fate : {"none", "live", "mined", "reverted"}]]
    BY DEF SigningInv, SigningTypeOK
  <1>1. PICK fate \in {"mined", "reverted"} : sentTx' = [sentTx EXCEPT ![i].fate = fate]
    BY DEF TxMined
  <1>2. /\ sentTx' \in [Txs -> [sent : 0 .. 2, fate : {"none", "live", "mined", "reverted"}]]
        /\ \A j \in Txs : sentTx'[j].sent = sentTx[j].sent
        /\ \A j \in Txs : IF j = i THEN sentTx'[j].fate \in {"mined", "reverted"}
                                   ELSE sentTx'[j] = sentTx[j]
    BY <1>t, <1>1
  <1>3. sentTx[i].fate = "live"
    BY DEF TxMined
  <1>4. \A j \in Txs : /\ OnChain(j) => OnChain(j)'
                       /\ Unsent(j) => Unsent(j)'
                       /\ sentTx[j].fate \in {"mined", "reverted"} => sentTx'[j].fate \in {"mined", "reverted"}
    BY <1>2, <1>3 DEF OnChain, Unsent
  <1>5. SigningTypeOK'
    BY <1>0, <1>2 DEF SigningInv, SigningTypeOK
  <1>6. RequestHasTool' /\ ClaimedByOneTab' /\ FreshTabs'
    BY <1>0, <1>4 DEF SigningInv, RequestHasTool, ClaimedByOneTab, FreshTabs
  <1>c. signRequest.status # "none" => TxCount \in 1 .. 2
    BY TxCountIs, SigningAssumption DEF SigningInv, RequestHasTool
  <1>7. SignedOnce'
    <2>1. 1 \in Txs /\ 2 \in Txs /\ \A j \in Txs : j > 1 => j - 1 \in Txs
      BY DEF Txs
    <2>2. \A j \in Txs : /\ sentTx'[j].sent <= 1
                         /\ sentTx'[j].sent = 1 /\ j > 1 => sentTx'[j - 1].fate \in {"mined", "reverted"}
      BY <1>2, <1>4, <2>1 DEF SigningInv, SignedOnce
    <2>3. signRequest'.hashed => sentTx'[1].sent = 1
      BY <1>0, <1>2, <2>1 DEF SigningInv, SignedOnce
    <2>4. signRequest'.status = "confirmed" =>
              \A j \in 1 .. TxCount' : sentTx'[j].fate \in {"mined", "reverted"}
      <3>1. TxCount' = TxCount
        BY <1>0 DEF TxCount
      <3>2. signRequest.status = "confirmed" => \A j \in 1 .. TxCount : j \in Txs
        BY <1>c DEF Txs
      <3> QED
        BY <1>0, <1>4, <3>1, <3>2 DEF SigningInv, SignedOnce
    <2> QED
      BY <2>2, <2>3, <2>4 DEF SignedOnce
  <1>8. ASSUME NEW t \in Tabs PROVE SentUpTo(t)'
    <2>1. TxCount' = TxCount /\ flow' = flow
      BY <1>0 DEF TxCount
    <2>2. SentUpTo(t)
      BY DEF SigningInv
    <2>3. flow[t].stage \in AtWork => TxCount \in 1 .. 2
      BY <1>c DEF SigningInv, ClaimedByOneTab
    <2>4. flow[t].stage \in AtWork => \A j \in 1 .. TxCount : j \in Txs
      BY <2>3 DEF Txs
    <2>5. 1 \in Txs
      BY DEF Txs
    <2> QED
      BY <1>2, <1>4, <2>1, <2>2, <2>4, <2>5 DEF SentUpTo, AtWork
  <1> QED
    BY <1>5, <1>6, <1>7, <1>8 DEF SigningInv

\* What a tab does without the request: it starts a claim, the wallet
\* refuses, a receipt comes or does not, the tab is closed.
LEMMA TabKeepsSigningInv ==
  ASSUME SigningInv, NEW t \in Tabs,
         StartClaim(t) \/ WalletRefuses(t) \/ ReceiptArrives(t) \/ ReceiptFails(t) \/ TabCloses(t)
  PROVE  SigningInv'
  <1>0. UNCHANGED <<pairing, pairingLate, opening, signRequest, requestLate, sentTx>>
    BY DEF StartClaim, WalletRefuses, ReceiptArrives, ReceiptFails, TabCloses, RequestOnly
  <1>t. flow \in [Tabs -> Flows]
    BY DEF SigningInv, SigningTypeOK, Flows
  <1>c. flow[t].stage \in AtWork => TxCount \in 1 .. 2
    BY TxCountIs, SigningAssumption DEF SigningInv, ClaimedByOneTab, RequestHasTool
  <1>s. SentUpTo(t) /\ 1 \in Txs
    BY DEF SigningInv, Txs
  <1>1. /\ OnlyFlow(t)
        /\ flow'[t].stage \in AtWork => flow[t].stage \in AtWork
        /\ flow'[t].stage \in {"idle", "claiming"} => flow[t].stage = "idle" /\ flow'[t].next = flow[t].next
        /\ SentUpTo(t)'
    <2>1. CASE StartClaim(t) \/ TabCloses(t)
      <3>1. /\ OnlyFlow(t) /\ flow'[t].next = flow[t].next
            /\ flow'[t].stage = "over" \/ (flow'[t].stage = "claiming" /\ flow[t].stage = "idle")
        BY <1>t, <2>1 DEF StartClaim, TabCloses, Stage, Reaches, OnlyFlow, Flows
      <3> QED
        BY <3>1 DEF AtWork, SentUpTo
    <2>2. CASE WalletRefuses(t)
      <3>1. CASE flow[t].next = 1
        <4>1. OnlyFlow(t) /\ flow'[t].stage = "over"
          BY <1>t, <2>2, <3>1 DEF WalletRefuses, Reaches, OnlyFlow, Flows
        <4> QED
          BY <4>1 DEF AtWork, SentUpTo
      <3>2. CASE flow[t].next # 1
        <4>1. OnlyFlow(t) /\ flow'[t].stage = "partial" /\ flow[t].stage = "send"
          BY <1>t, <2>2, <3>2 DEF WalletRefuses, Stage, Reaches, OnlyFlow, Flows
        <4>2. flow[t].next > 1
          BY <1>t, <3>2 DEF Flows
        <4>3. sentTx[1].sent = 1
          BY <1>s, <4>1, <4>2 DEF SentUpTo, OnChain
        <4> QED
          BY <1>0, <4>1, <4>3 DEF AtWork, SentUpTo
      <3> QED
        BY <3>1, <3>2
    <2>3. CASE ReceiptFails(t)
      <3>1. OnlyFlow(t) /\ flow'[t].stage = "partial" /\ flow[t].stage = "receipt"
        BY <1>t, <2>3 DEF ReceiptFails, Stage, Reaches, OnlyFlow, Flows
      <3>2. flow[t].next \in 1 .. TxCount /\ TxCount \in 1 .. 2
        BY <1>c, <1>s, <3>1 DEF SentUpTo, AtWork
      <3>3. sentTx[1].sent = 1
        BY <1>s, <3>1, <3>2 DEF SentUpTo, OnChain
      <3> QED
        BY <1>0, <3>1, <3>3 DEF AtWork, SentUpTo
    <2>4. CASE ReceiptArrives(t)
      <3> DEFINE n == flow[t].next
      <3>1. flow[t].stage = "receipt" /\ ReceiptIsThere(n)
        BY <2>4 DEF ReceiptArrives, Stage
      <3>2. n \in 1 .. TxCount /\ TxCount \in 1 .. 2 /\ sentTx[n].sent = 1
        BY <1>c, <1>s, <3>1 DEF SentUpTo, AtWork
      <3>3. \A i \in Txs : (i < n => OnChain(i)) /\ (i > n => Unsent(i))
        BY <1>s, <3>1 DEF SentUpTo
      <3>4. OnChain(n)
        BY <3>1, <3>2 DEF OnChain, ReceiptIsThere
      <3>5. TxCount' = TxCount /\ \A i \in Txs : (OnChain(i) => OnChain(i)') /\ (Unsent(i) => Unsent(i)')
        BY <1>0 DEF TxCount, OnChain, Unsent
      <3>6. CASE n = TxCount
        <4>1. OnlyFlow(t) /\ flow'[t].stage = "submitted"
          BY <1>t, <2>4, <3>2, <3>6 DEF ReceiptArrives, OnlyFlow, Flows
        <4>2. \A i \in 1 .. TxCount : i \in Txs /\ OnChain(i)
          BY <3>2, <3>3, <3>4, <3>6 DEF Txs
        <4> QED
          BY <3>1, <3>5, <4>1, <4>2 DEF AtWork, SentUpTo
      <3>7. CASE n # TxCount
        <4>1. OnlyFlow(t) /\ flow'[t].stage = "send" /\ flow'[t].next = n + 1
          BY <1>t, <2>4, <3>2, <3>7 DEF ReceiptArrives, OnlyFlow, Flows
        <4>2. n + 1 \in 1 .. TxCount /\ \A i \in Txs : IF i < n + 1 THEN OnChain(i) ELSE Unsent(i)
          BY <3>2, <3>3, <3>4, <3>7 DEF Txs
        <4> QED
          BY <3>1, <3>5, <4>1, <4>2 DEF AtWork, SentUpTo
      <3> QED
        BY <3>6, <3>7
    <2> QED
      BY <2>1, <2>2, <2>3, <2>4
  <1>2. SigningTypeOK'
    BY <1>0, <1>1 DEF SigningInv, SigningTypeOK, OnlyFlow, Flows
  <1>3. SignedOnce' /\ RequestHasTool'
    BY <1>0 DEF SigningInv, SignedOnce, RequestHasTool, TxCount
  <1>4. ClaimedByOneTab' /\ FreshTabs'
    BY <1>0, <1>1 DEF SigningInv, ClaimedByOneTab, FreshTabs, OnlyFlow, Unsent
  <1>5. ASSUME NEW u \in Tabs PROVE SentUpTo(u)'
    <2>1. CASE u = t
      BY <1>1, <2>1
    <2>2. CASE u # t
      BY <1>0, <1>1, <2>2 DEF SigningInv, OnlyFlow, SentUpTo, OnChain, Unsent, TxCount
    <2> QED
      BY <2>1, <2>2
  <1> QED
    BY <1>2, <1>3, <1>4, <1>5 DEF SigningInv

\* A tab sends its next transaction: it was not sent before.
LEMMA SendKeepsSigningInv ==
  ASSUME SigningInv, NEW t \in Tabs, SendNext(t)
  PROVE  SigningInv'
  <1> DEFINE n == flow[t].next
  <1>0. UNCHANGED <<pairing, pairingLate, opening, signRequest, requestLate>>
    BY DEF SendNext, RequestOnly
  <1>t. /\ flow \in [Tabs -> Flows]
        /\ sentTx \in [Txs -> [sent : 0 .. 2, fate : {"none", "live", "mined", "reverted"}]]
    BY DEF SigningInv, SigningTypeOK, Flows
  <1>s. flow[t].stage = "send" /\ SentUpTo(t)
    BY DEF SendNext, Stage, SigningInv
  <1>c. TxCount \in 1 .. 2
    BY <1>s, TxCountIs, SigningAssumption DEF SigningInv, ClaimedByOneTab, RequestHasTool, AtWork
  <1>1. n \in 1 .. TxCount /\ n \in Txs /\ \A i \in Txs : IF i < n THEN OnChain(i) ELSE Unsent(i)
    BY <1>s, <1>c DEF SentUpTo, Txs
  <1>2. OnlyFlow(t) /\ flow'[t].stage = "receipt" /\ flow'[t].next = n
    BY <1>t DEF SendNext, Reaches, OnlyFlow, Flows
  <1>3. sentTx[n].sent = 0
    BY <1>1 DEF Unsent
  <1>4. /\ sentTx' \in [Txs -> [sent : 0 .. 2, fate : {"none", "live", "mined", "reverted"}]]
        /\ sentTx'[n].sent = 1
        /\ \A i \in Txs : i # n => sentTx'[i] = sentTx[i]
    BY <1>t, <1>1, <1>3 DEF SendNext
  <1>5. TxCount' = TxCount /\ \A i \in Txs : i # n => (OnChain(i) => OnChain(i)') /\ (Unsent(i) => Unsent(i)')
    BY <1>0, <1>4 DEF TxCount, OnChain, Unsent
  <1> HIDE DEF n
  <1>6. SigningTypeOK'
    BY <1>0, <1>2, <1>4 DEF SigningInv, SigningTypeOK, OnlyFlow, Flows
  <1>7. SentUpTo(t)'
    BY <1>1, <1>2, <1>4, <1>5 DEF SentUpTo, Txs
  <1>8. \A u \in Tabs : u # t => flow'[u].stage \notin AtWork
    BY <1>s, <1>2 DEF SigningInv, ClaimedByOneTab, OnlyFlow, AtWork
  <1>9. \A u \in Tabs : SentUpTo(u)'
    BY <1>7, <1>8 DEF SentUpTo, AtWork
  <1>10. RequestHasTool' /\ FreshTabs'
    BY <1>0, <1>2 DEF SigningInv, RequestHasTool, FreshTabs, OnlyFlow
  <1>11. ClaimedByOneTab'
    BY <1>0, <1>s, <1>2, <1>8 DEF SigningInv, ClaimedByOneTab, AtWork
  <1>12. SignedOnce'
    <2>1. \A i \in Txs : sentTx'[i].sent <= 1
      BY <1>4 DEF SigningInv, SignedOnce
    <2>2. \A i \in Txs : sentTx'[i].sent = 1 /\ i > 1 => sentTx'[i - 1].fate \in {"mined", "reverted"}
      BY <1>1, <1>4 DEF OnChain, Unsent, Txs
    <2>3. signRequest'.hashed => sentTx'[1].sent = 1
      BY <1>0, <1>4 DEF SigningInv, SignedOnce, Txs
    <2>4. signRequest'.status = "confirmed" => \A i \in 1 .. TxCount' : sentTx'[i].fate \in {"mined", "reverted"}
      <3>1. ASSUME signRequest.status = "confirmed" PROVE FALSE
        <4>1. sentTx[n].fate \in {"mined", "reverted"}
          BY <1>1, <3>1 DEF SigningInv, SignedOnce
        <4> QED
          BY <1>1, <4>1 DEF Unsent
      <3> QED
        BY <1>0, <3>1
    <2> QED
      BY <2>1, <2>2, <2>3, <2>4 DEF SignedOnce
  <1> QED
    BY <1>6, <1>9, <1>10, <1>11, <1>12 DEF SigningInv

\* A tab claims the request, or reports what it has sent.
LEMMA ReportKeepsSigningInv ==
  ASSUME SigningInv, NEW t \in Tabs, ClaimSignRequest(t) \/ MarkSubmitted(t) \/ MarkConfirmed(t)
  PROVE  SigningInv'
  <1>0. UNCHANGED <<pairing, pairingLate, opening, requestLate, sentTx>>
    BY DEF ClaimSignRequest, MarkSubmitted, MarkConfirmed, RequestOnly
  <1>t. flow \in [Tabs -> Flows]
    BY DEF SigningInv, SigningTypeOK, Flows
  <1>1. CASE ClaimSignRequest(t) /\ SignRequestClaimable
    <2>1. signRequest.status = "pending" /\ signRequest' = [signRequest EXCEPT !.status = "signing"]
      BY <1>1 DEF ClaimSignRequest, SignRequestClaimable
    <2>2. /\ OnlyFlow(t) /\ flow[t].stage = "claiming" /\ flow'[t].stage = "send"
          /\ flow'[t].next = flow[t].next
      BY <1>t, <1>1 DEF ClaimSignRequest, Stage, Reaches, OnlyFlow, Flows
    <2>3. flow'[t].next = 1
      BY <2>2 DEF SigningInv, FreshTabs
    <2>4. (\A u \in Tabs : flow[u].stage \notin AtWork) /\ \A i \in Txs : Unsent(i)
      BY <2>1 DEF SigningInv, ClaimedByOneTab
    <2>5. TxCount \in 1 .. 2
      BY <2>1, TxCountIs, SigningAssumption DEF SigningInv, RequestHasTool
    <2>6. /\ signRequest'.status = "signing" /\ signRequest'.tool = signRequest.tool
          /\ signRequest'.hashed = signRequest.hashed
      BY <2>1 DEF SigningInv, SigningTypeOK
    <2>7. TxCount' = TxCount
      BY <2>6 DEF TxCount
    <2>8. SigningTypeOK'
      BY <1>0, <2>1, <2>2 DEF SigningInv, SigningTypeOK, OnlyFlow, Flows
    <2>9. RequestHasTool' /\ FreshTabs' /\ ClaimedByOneTab'
      BY <2>1, <2>2, <2>4, <2>6 DEF SigningInv, RequestHasTool, FreshTabs, ClaimedByOneTab, OnlyFlow, AtWork
    <2>10. SignedOnce'
      BY <1>0, <2>4, <2>6 DEF SigningInv, SignedOnce, Unsent
    <2>11. SentUpTo(t)'
      BY <1>0, <2>2, <2>3, <2>4, <2>5, <2>7 DEF SentUpTo, Unsent, Txs
    <2>12. \A u \in Tabs : SentUpTo(u)'
      BY <2>2, <2>4, <2>11 DEF SentUpTo, OnlyFlow, AtWork
    <2> QED
      BY <2>8, <2>9, <2>10, <2>12 DEF SigningInv
  <1>2. ASSUME ~ (ClaimSignRequest(t) /\ SignRequestClaimable) PROVE SigningInv'
    <2>1. /\ OnlyFlow(t)
          /\ \/ flow'[t].stage = "over"
             \/ flow[t].stage = "submitted" /\ flow'[t].stage = "confirmed"
      <3>1. CASE ClaimSignRequest(t)
        BY <1>t, <1>2, <3>1 DEF ClaimSignRequest, Reaches, OnlyFlow, Flows
      <3>2. CASE MarkSubmitted(t) /\ flow[t].stage = "partial"
        BY <1>t, <3>2 DEF MarkSubmitted, Stage, Reaches, OnlyFlow, Flows
      <3>3. CASE MarkSubmitted(t) /\ flow[t].stage # "partial"
        BY <1>t, <3>3 DEF MarkSubmitted, Stage, Reaches, OnlyFlow, Flows
      <3>4. CASE MarkConfirmed(t)
        BY <1>t, <3>4 DEF MarkConfirmed, Reaches, OnlyFlow, Flows
      <3> QED
        BY <3>1, <3>2, <3>3, <3>4
    <2>2. \/ UNCHANGED signRequest
          \/ /\ signRequest.status \in {"signing", "submitted"} /\ flow[t].stage \in AtWork
             /\ flow[t].stage \in {"submitted", "partial", "confirmed"}
             /\ signRequest'.status \in {"submitted", "confirmed"} /\ signRequest'.hashed = TRUE
             /\ signRequest'.status = "confirmed" => flow[t].stage = "confirmed"
             /\ signRequest'.tool = signRequest.tool /\ signRequest'.pairing = signRequest.pairing
             /\ signRequest' \in [status : {"none", "pending", "signing", "submitted", "confirmed",
                                           "cancelled", "expired"},
                                  pairing : Pairings \cup {NoPairing}, hashed : BOOLEAN,
                                  tool : ToolsUsed \cup {"none"}]
      BY <1>2 DEF ClaimSignRequest, MarkSubmitted, MarkConfirmed, Stage, AtWork, SigningInv, SigningTypeOK
    <2>3. SigningTypeOK'
      BY <1>0, <2>1, <2>2 DEF SigningInv, SigningTypeOK, OnlyFlow, Flows
    <2>4. RequestHasTool' /\ FreshTabs'
      BY <2>1, <2>2 DEF SigningInv, RequestHasTool, FreshTabs, OnlyFlow
    <2>5. ClaimedByOneTab'
      BY <1>0, <2>1, <2>2 DEF SigningInv, ClaimedByOneTab, OnlyFlow, AtWork, Unsent
    <2>6. TxCount' = TxCount
      BY <2>2 DEF TxCount
    <2>7. SentUpTo(t) /\ (flow[t].stage \in AtWork => TxCount \in 1 .. 2)
      BY TxCountIs, SigningAssumption DEF SigningInv, ClaimedByOneTab, RequestHasTool
    <2>8. SignedOnce'
      <3>1. CASE UNCHANGED signRequest
        BY <1>0, <2>6, <3>1 DEF SigningInv, SignedOnce
      <3>2. CASE ~ UNCHANGED signRequest
        <4>1. sentTx[1].sent = 1
          BY <2>2, <2>7, <3>2 DEF SentUpTo, OnChain
        <4>2. signRequest'.status = "confirmed" =>
                  \A i \in 1 .. TxCount : sentTx[i].fate \in {"mined", "reverted"}
          BY <2>2, <2>7, <3>2 DEF SentUpTo, OnChain
        <4> QED
          BY <1>0, <2>6, <4>1, <4>2 DEF SigningInv, SignedOnce
      <3> QED
        BY <3>1, <3>2
    <2>9. \A u \in Tabs : SentUpTo(u)'
      BY <1>0, <2>1, <2>6 DEF SigningInv, SentUpTo, OnlyFlow, OnChain, Unsent
    <2> QED
      BY <2>3, <2>4, <2>5, <2>8, <2>9 DEF SigningInv
  <1> QED
    BY <1>1, <1>2

LEMMA NextSigningInv == SigningInv /\ [SigningNext]_signingVars => SigningInv'
  <1> SUFFICES ASSUME SigningInv, [SigningNext]_signingVars PROVE SigningInv'
    OBVIOUS
  <1>1. ASSUME NEW t \in Tabs, RevokeOthers(t) \/ InsertPairing(t) PROVE SigningInv'
    BY <1>1, PairingKeepsSigningInv
    DEF RevokeOthers, InsertPairing, SessionOnly, SigningInv, SigningTypeOK
  <1>2. ASSUME NEW g \in Pairings, Heartbeat(g) \/ RevokePairing(g) \/ PairingTimePasses(g)
        PROVE  SigningInv'
    BY <1>2, PairingKeepsSigningInv
    DEF Heartbeat, RevokePairing, PairingTimePasses, SessionOnly, SigningInv, SigningTypeOK
  <1>3. CASE UNCHANGED signingVars
    BY <1>3, PairingKeepsSigningInv DEF signingVars, SigningInv, SigningTypeOK
  <1>4. ASSUME NEW i \in Txs, TxMined(i) PROVE SigningInv'
    BY <1>4, MinedKeepsSigningInv
  <1>5. CASE CreateSignRequest \/ RequestTimePasses \/ ExpireStale \/ CancelSignRequest
    BY <1>5, RequestKeepsSigningInv
  <1>6. ASSUME NEW t \in Tabs,
               StartClaim(t) \/ WalletRefuses(t) \/ ReceiptArrives(t) \/ ReceiptFails(t) \/ TabCloses(t)
        PROVE  SigningInv'
    BY <1>6, TabKeepsSigningInv
  <1>7. ASSUME NEW t \in Tabs, SendNext(t) PROVE SigningInv'
    BY <1>7, SendKeepsSigningInv
  <1>8. ASSUME NEW t \in Tabs, ClaimSignRequest(t) \/ MarkSubmitted(t) \/ MarkConfirmed(t)
        PROVE  SigningInv'
    BY <1>8, ReportKeepsSigningInv
  <1> QED
    BY <1>1, <1>2, <1>3, <1>4, <1>5, <1>6, <1>7, <1>8 DEF SigningNext

(***************************************************************************)
(* The gates.  A request that is past the settlement holds a proof that    *)
(* Circle has settled, then consumed, then the payload it unlocked.        *)
(***************************************************************************)
GateRows ==
    [status : {"none", "verified", "settled", "failed"}, claimed : BOOLEAN, consumed : BOOLEAN]

BuyStates ==
    [stage : {"away", "receipt", "look", "insert", "claim", "settle", "record", "consume", "handle",
              "settled", "write"},
     payload : Payloads \cup {NoPayload}, proof : Proofs402 \cup {NoProof402}, price : Prices \cup {0}]

SellerTyped ==
    /\ gate \in [{"exact", "any"} -> Prices \cup {0}] /\ profile \in Prices \cup {0}
    /\ saves \in 0 .. MaxSaves /\ opened \in BOOLEAN
    /\ quoted \in [Proofs402 -> Prices \cup {0}]
    /\ railed \in [Proofs402 -> {"none", "pending", "consumed", "lost"}]
    /\ gateTroubles \in 0 .. MaxGateTroubles

GoodsTyped ==
    /\ gateRow \in [Proofs402 -> GateRows]
    /\ buy \in [Buys -> BuyStates]
    /\ taken \subseteq Proofs402
    /\ receipts \subseteq [payload : Payloads, proof : Proofs402]
    /\ unlocked \subseteq [payload : Payloads, proof : Proofs402]
    /\ answered \subseteq Payloads

PairOf(b) == [payload |-> buy[b].payload, proof |-> buy[b].proof]

\* What a request holds, by how far it has come.
HoldsWhatItPaid(b) ==
    /\ buy[b].stage # "away" => buy[b].payload \in Payloads
    /\ buy[b].stage \notin {"away", "receipt"} => buy[b].proof \in Proofs402
    /\ buy[b].stage \in {"record", "consume", "handle", "settled", "write"} => buy[b].proof \in taken
    /\ buy[b].stage \in {"handle", "settled", "write"} => gateRow[buy[b].proof].consumed
    /\ buy[b].stage \in {"settled", "write"} => PairOf(b) \in unlocked

GoodsInv ==
    /\ SellerTyped /\ GoodsTyped /\ \A b \in Buys : HoldsWhatItPaid(b)
    /\ ReceiptIsPaid /\ AnsweredIsReceipted

\* The payment of a proof, its consumption and what it unlocked are not undone.
NothingIsLost ==
    /\ taken \subseteq taken' /\ unlocked \subseteq unlocked' /\ receipts \subseteq receipts'
    /\ \A p \in Proofs402 : gateRow[p].consumed => gateRow'[p].consumed

OnlyBuy(b) ==
    /\ buy' \in [Buys -> BuyStates]
    /\ \A c \in Buys : c # b => buy'[c] = buy[c]

LEMMA InitGoodsInv == CommerceInit => GoodsInv
  <1> SUFFICES ASSUME CommerceInit PROVE GoodsInv
    OBVIOUS
  <1> USE DEF CommerceInit
  <1>1. GoodsTyped
    BY DEF GoodsTyped, GateRows, BuyStates, GateResting
  <1>2. \A b \in Buys : buy[b].stage = "away"
    BY DEF GateResting
  <1>3. \A b \in Buys : HoldsWhatItPaid(b)
    BY <1>2 DEF HoldsWhatItPaid
  <1>4. ReceiptIsPaid /\ AnsweredIsReceipted
    BY DEF ReceiptIsPaid, AnsweredIsReceipted
  <1>5. SellerTyped
    <2>1. /\ gate \in [{"exact", "any"} -> Prices \cup {0}] /\ profile \in Prices \cup {0}
          /\ opened \in BOOLEAN
      OBVIOUS
    <2>2. saves \in 0 .. MaxSaves /\ gateTroubles \in 0 .. MaxGateTroubles
      BY CommerceGateAssumption
    <2>3. quoted \in [Proofs402 -> Prices \cup {0}]
      OBVIOUS
    <2>4. railed \in [Proofs402 -> {"none", "pending", "consumed", "lost"}]
      OBVIOUS
    <2> QED
      BY <2>1, <2>2, <2>3, <2>4, Zenon DEF SellerTyped
  <1> QED
    BY <1>1, <1>3, <1>4, <1>5 DEF GoodsInv

\* The seller, the quotes and the rail sessions.
LEMMA SellerStaysTyped ==
  ASSUME GoodsInv, [CommerceNext]_commerceVars
  PROVE  SellerTyped'
  <1>0. SellerTyped
    BY DEF GoodsInv
  <1> USE <1>0, CommerceGateAssumption DEF SellerTyped
  <1>1. ASSUME NEW market \in {"exact", "any"}, NEW price \in Prices \cup {0}, SaveServiceGate(market, price)
        PROVE  SellerTyped'
    BY <1>1 DEF SaveServiceGate, Saves, OfThePayment
  <1>2. ASSUME NEW price \in Prices \cup {0}, SaveCommerceProfile(price) PROVE SellerTyped'
    BY <1>2 DEF SaveCommerceProfile, Saves, OfThePayment
  <1>3. CASE PostBridgeEvent
    BY <1>3 DEF PostBridgeEvent, OfThePayment
  <1>9. CASE ServerRestarts
    <2>1. railed' \in [Proofs402 -> {"none", "pending", "consumed", "lost"}]
      BY <1>9 DEF ServerRestarts
    <2>2. gateTroubles' \in 0 .. MaxGateTroubles
      BY <1>9 DEF ServerRestarts, Trouble
    <2> QED
      BY <1>9, <2>1, <2>2 DEF ServerRestarts, OfTheSeller
  <1>4. ASSUME NEW w \in Purses, AccessExpires(w) PROVE SellerTyped'
    BY <1>4 DEF AccessExpires, OfTheSeller
  <1>5. ASSUME NEW b \in Buys, NEW p \in Proofs402, Quote(b, p) PROVE SellerTyped'
    <2>1. buy[b].price \in Prices \cup {0}
      BY DEF GoodsInv, GoodsTyped, BuyStates
    <2>2. quoted' \in [Proofs402 -> Prices \cup {0}]
      BY <1>5, <2>1 DEF Quote
    <2>3. railed' \in [Proofs402 -> {"none", "pending", "consumed", "lost"}]
      BY <1>5 DEF Quote
    <2>4. gateTroubles' \in 0 .. MaxGateTroubles
      BY <1>5 DEF Quote, NotUnlocked, Trouble
    <2> QED
      BY <1>5, <2>2, <2>3, <2>4 DEF Quote, OfTheSeller
  <1>6. ASSUME NEW b \in Buys,
               \/ \E k \in Payloads, p \in {q \in Proofs402 : quoted[q] # 0} \cup {NoProof402} :
                     BeginBuy(b, k, p)
               \/ AlreadyUnlocked(b) \/ VerifyProof(b) \/ LookForAccess(b) \/ InsertAccess(b)
               \/ ClaimProof(b) \/ SettleProof(b) \/ RecordProof(b) \/ HandleBuy(b)
               \/ LookForDuplicate(b) \/ WriteReceipt(b) \/ GateReceiptFails(b) \/ BuyDies(b)
        PROVE  SellerTyped'
    <2>1. UNCHANGED <<gate, profile, saves, opened, quoted, railed>>
      BY <1>6 DEF BeginBuy, AlreadyUnlocked, VerifyProof, LookForAccess, InsertAccess, ClaimProof,
                  SettleProof, RecordProof, HandleBuy, LookForDuplicate, WriteReceipt, GateReceiptFails,
                  BuyDies, OfTheSeller, OfThePayment
    <2>2. gateTroubles' \in {gateTroubles, gateTroubles + 1} /\ (gateTroubles' # gateTroubles =>
              gateTroubles < MaxGateTroubles)
      BY <1>6 DEF BeginBuy, AlreadyUnlocked, VerifyProof, NotUnlocked, LookForAccess, InsertAccess,
                  ClaimProof, SettleProof, RecordProof, HandleBuy, LookForDuplicate, WriteReceipt,
                  GateReceiptFails, BuyDies, Trouble
    <2> QED
      BY <2>1, <2>2
  <1>7. ASSUME NEW b \in Buys, ConsumeProof(b) PROVE SellerTyped'
    <2>1. railed' \in [Proofs402 -> {"none", "pending", "consumed", "lost"}]
      BY <1>7 DEF ConsumeProof
    <2> QED
      BY <1>7, <2>1 DEF ConsumeProof, OfTheSeller
  <1>8. CASE UNCHANGED commerceVars
    BY <1>8 DEF commerceVars
  <1> QED
    BY <1>1, <1>2, <1>3, <1>4, <1>5, <1>6, <1>7, <1>8, <1>9 DEF CommerceNext

LEMMA HoldsOn ==
  ASSUME NEW b \in Buys, HoldsWhatItPaid(b), NothingIsLost, buy'[b] = buy[b]
  PROVE  HoldsWhatItPaid(b)'
  BY DEF HoldsWhatItPaid, NothingIsLost, PairOf

\* One request takes a step that undoes nothing; what is new of receipts and
\* answers is backed.
LEMMA BuyKeepsGoodsInv ==
  ASSUME GoodsInv, NEW b \in Buys, OnlyBuy(b), NothingIsLost, SellerTyped', GoodsTyped', HoldsWhatItPaid(b)',
         ReceiptIsPaid', AnsweredIsReceipted'
  PROVE  GoodsInv'
  BY HoldsOn DEF GoodsInv, OnlyBuy

\* Nothing of the goods changes.
LEMMA GoodsRest ==
  ASSUME GoodsInv, UNCHANGED <<receipts, unlocked, answered>>, taken \subseteq taken',
         \A p \in Proofs402 : gateRow[p].consumed => gateRow'[p].consumed
  PROVE  NothingIsLost /\ ReceiptIsPaid' /\ AnsweredIsReceipted'
  BY DEF GoodsInv, GoodsTyped, NothingIsLost, ReceiptIsPaid, AnsweredIsReceipted, ReceiptsOf

LEMMA SellerKeepsGoodsInv ==
  ASSUME GoodsInv, SellerTyped', UNCHANGED <<receipts, unlocked, answered, taken, gateRow, buy>>
  PROVE  GoodsInv'
  BY DEF GoodsInv, GoodsTyped, HoldsWhatItPaid, PairOf, ReceiptIsPaid, AnsweredIsReceipted, ReceiptsOf

LEMMA BuyerKeepsGoodsInv ==
  ASSUME GoodsInv, SellerTyped', NEW b \in Buys,
         \/ \E k \in Payloads, p \in {q \in Proofs402 : quoted[q] # 0} \cup {NoProof402} : BeginBuy(b, k, p)
         \/ \E p \in Proofs402 : Quote(b, p)
         \/ AlreadyUnlocked(b) \/ VerifyProof(b) \/ LookForAccess(b) \/ InsertAccess(b)
         \/ ClaimProof(b) \/ SettleProof(b) \/ RecordProof(b) \/ ConsumeProof(b) \/ HandleBuy(b)
         \/ LookForDuplicate(b) \/ WriteReceipt(b) \/ GateReceiptFails(b) \/ BuyDies(b)
  PROVE  GoodsInv'
  <1>0. /\ gateRow \in [Proofs402 -> GateRows] /\ buy \in [Buys -> BuyStates]
        /\ buy[b] \in BuyStates
    BY DEF GoodsInv, GoodsTyped
  <1>h. HoldsWhatItPaid(b)
    BY DEF GoodsInv
  <1>d. ASSUME Departs(b) PROVE OnlyBuy(b) /\ buy'[b].stage = "away" /\ HoldsWhatItPaid(b)'
    <2>1. OnlyBuy(b) /\ buy'[b].stage = "away"
      BY <1>0, <1>d DEF Departs, GateResting, OnlyBuy, BuyStates
    <2> QED
      BY <2>1 DEF HoldsWhatItPaid
  <1>p. ASSUME NEW stage \in {"look", "insert", "claim", "settle", "record", "consume", "handle",
                              "settled", "write"},
               Proceeds(b, stage)
        PROVE  /\ OnlyBuy(b) /\ buy'[b].stage = stage /\ buy'[b].payload = buy[b].payload
               /\ buy'[b].proof = buy[b].proof
    BY <1>0, <1>p DEF Proceeds, OnlyBuy, BuyStates
  <1>1. ASSUME UNCHANGED <<receipts, unlocked, answered>>, taken \subseteq taken', taken' \subseteq Proofs402,
               gateRow' \in [Proofs402 -> GateRows],
               \A p \in Proofs402 : gateRow[p].consumed => gateRow'[p].consumed,
               OnlyBuy(b), HoldsWhatItPaid(b)'
        PROVE  GoodsInv'
    <2>1. NothingIsLost /\ ReceiptIsPaid' /\ AnsweredIsReceipted'
      BY <1>1, GoodsRest
    <2>2. GoodsTyped'
      BY <1>1 DEF GoodsInv, GoodsTyped, OnlyBuy
    <2> QED
      BY <1>1, <2>1, <2>2, BuyKeepsGoodsInv
  <1>2. ASSUME UNCHANGED <<receipts, unlocked, answered, taken, gateRow>>, Departs(b)
        PROVE  GoodsInv'
    BY <1>0, <1>d, <1>1, <1>2 DEF GoodsInv, GoodsTyped
  <1>3. ASSUME UNCHANGED <<receipts, unlocked, answered, taken, gateRow>>,
               NEW stage \in {"look", "insert", "claim", "settle", "record", "consume", "handle",
                              "settled", "write"},
               Proceeds(b, stage), HoldsWhatItPaid(b)'
        PROVE  GoodsInv'
    BY <1>0, <1>p, <1>1, <1>3 DEF GoodsInv, GoodsTyped
  <1>4. ASSUME NEW k \in Payloads, NEW p \in Proofs402 \cup {NoProof402}, BeginBuy(b, k, p)
        PROVE  GoodsInv'
    <2>1. OnlyBuy(b) /\ buy'[b].stage = "receipt" /\ buy'[b].payload = k
      <3>1. PICK price \in Prices \cup {0} :
               buy' = [buy EXCEPT ![b] = [stage |-> "receipt", payload |-> k, proof |-> p, price |-> price]]
        <4>1. ServedPrice \in Prices \cup {0}
          BY DEF GoodsInv, SellerTyped, ServedPrice, ActiveGate, FallbackPrice
        <4> QED
          BY <1>4, <4>1 DEF BeginBuy
      <3> QED
        BY <1>0, <3>1 DEF OnlyBuy, BuyStates
    <2>2. HoldsWhatItPaid(b)'
      BY <2>1 DEF HoldsWhatItPaid
    <2> QED
      BY <1>0, <1>1, <1>4, <2>1, <2>2 DEF BeginBuy, OfThePayment, OfTheGoods, GoodsInv, GoodsTyped
  <1>5. CASE (\E p \in Proofs402 : Quote(b, p)) \/ AlreadyUnlocked(b) \/ BuyDies(b) \/ GateReceiptFails(b)
    BY <1>2, <1>5
    DEF Quote, AlreadyUnlocked, BuyDies, GateReceiptFails, WarnsOfReceipt, OfThePayment, OfTheGoods
  <1>6. CASE VerifyProof(b)
    <2>1. CASE Departs(b)
      BY <1>2, <1>6, <2>1 DEF VerifyProof, OfThePayment, OfTheGoods
    <2>2. CASE Proceeds(b, "look")
      <3>1. buy[b].proof \in Proofs402 /\ buy[b].payload \in Payloads
        BY <1>0, <1>h, <1>6 DEF VerifyProof, At402, HoldsWhatItPaid, BuyStates
      <3>2. HoldsWhatItPaid(b)'
        BY <1>p, <2>2, <3>1 DEF HoldsWhatItPaid
      <3> QED
        BY <1>3, <1>6, <2>2, <3>2 DEF VerifyProof, OfThePayment, OfTheGoods
    <2> QED
      BY <1>6, <2>1, <2>2 DEF VerifyProof
  <1>7. CASE LookForAccess(b) \/ InsertAccess(b)
    <2>1. CASE Departs(b)
      BY <1>2, <1>7, <2>1 DEF LookForAccess, InsertAccess, OfThePayment, OfTheGoods
    <2>2. ASSUME NEW stage \in {"insert", "claim"}, Proceeds(b, stage) PROVE GoodsInv'
      <3>1. HoldsWhatItPaid(b)'
        BY <1>h, <1>p, <1>7, <2>2 DEF LookForAccess, InsertAccess, At402, HoldsWhatItPaid
      <3> QED
        BY <1>3, <1>7, <2>2, <3>1 DEF LookForAccess, InsertAccess, OfThePayment, OfTheGoods
    <2> QED
      BY <1>7, <2>1, <2>2 DEF LookForAccess, InsertAccess
  <1>8. CASE ClaimProof(b)
    <2>1. CASE Departs(b) /\ UNCHANGED gateRow
      BY <1>2, <1>8, <2>1 DEF ClaimProof, OfTheGoods
    <2>2. CASE /\ Proceeds(b, "settle")
               /\ gateRow' = [gateRow EXCEPT ![buy[b].proof] = [@ EXCEPT !.status = "verified",
                                                                         !.claimed = TRUE]]
      <3>1. buy[b].proof \in Proofs402 /\ buy[b].payload \in Payloads
        BY <1>h, <1>8 DEF ClaimProof, At402, HoldsWhatItPaid
      <3>2. /\ gateRow' \in [Proofs402 -> GateRows]
            /\ \A p \in Proofs402 : gateRow'[p].consumed = gateRow[p].consumed
        BY <1>0, <2>2, <3>1 DEF GateRows
      <3>3. HoldsWhatItPaid(b)'
        BY <1>p, <2>2, <3>1 DEF HoldsWhatItPaid
      <3>4. UNCHANGED <<receipts, unlocked, answered, taken>>
        BY <1>8 DEF ClaimProof, OfTheGoods
      <3> QED
        BY <1>1, <1>p, <2>2, <3>2, <3>3, <3>4 DEF GoodsInv, GoodsTyped
    <2> QED
      BY <1>8, <2>1, <2>2 DEF ClaimProof, GivesUp
  <1>9. CASE SettleProof(b)
    <2>1. PICK success \in BOOLEAN, took \in BOOLEAN :
             /\ success => took
             /\ taken' = IF took THEN taken \cup {buy[b].proof} ELSE taken
             /\ AfterSettle(b, success)
      BY <1>9 DEF SettleProof
    <2>2. buy[b].proof \in Proofs402 /\ buy[b].payload \in Payloads
      BY <1>h, <1>9 DEF SettleProof, At402, HoldsWhatItPaid
    <2>3. UNCHANGED <<receipts, unlocked, answered>>
      BY <1>9 DEF SettleProof, OfTheGoods
    <2>4. taken \subseteq taken' /\ taken' \subseteq Proofs402
      BY <2>1, <2>2 DEF GoodsInv, GoodsTyped
    <2>5. CASE success
      <3>1. Proceeds(b, "record") /\ UNCHANGED gateRow /\ buy[b].proof \in taken'
        BY <2>1, <2>5 DEF AfterSettle
      <3>2. HoldsWhatItPaid(b)'
        BY <1>p, <2>2, <3>1 DEF HoldsWhatItPaid
      <3> QED
        BY <1>0, <1>1, <1>p, <2>3, <2>4, <3>1, <3>2
    <2>6. CASE ~success
      <3>1. Departs(b) /\ gateRow' = [gateRow EXCEPT ![buy[b].proof].status = "failed"]
        BY <2>1, <2>6 DEF AfterSettle, GivesUp
      <3>2. /\ gateRow' \in [Proofs402 -> GateRows]
            /\ \A p \in Proofs402 : gateRow'[p].consumed = gateRow[p].consumed
        BY <1>0, <2>2, <3>1 DEF GateRows
      <3> QED
        BY <1>1, <1>d, <2>3, <2>4, <3>1, <3>2
    <2> QED
      BY <2>5, <2>6
  <1>10. CASE RecordProof(b)
    <2>1. Proceeds(b, "consume") /\ UNCHANGED <<receipts, unlocked, answered, taken>>
      BY <1>10 DEF RecordProof, OfTheGoods
    <2>2. buy[b].proof \in Proofs402
      BY <1>h, <1>10 DEF RecordProof, At402, HoldsWhatItPaid
    <2>3. /\ gateRow' \in [Proofs402 -> GateRows]
          /\ \A p \in Proofs402 : gateRow'[p].consumed = gateRow[p].consumed
      BY <1>0, <1>10, <2>2 DEF RecordProof, GateRows
    <2>4. HoldsWhatItPaid(b)'
      BY <1>h, <1>p, <1>10, <2>1 DEF RecordProof, At402, HoldsWhatItPaid
    <2> QED
      BY <1>1, <1>p, <2>1, <2>3, <2>4 DEF GoodsInv, GoodsTyped
  <1>11. CASE ConsumeProof(b)
    <2>1. UNCHANGED <<receipts, unlocked, answered, taken>>
      BY <1>11 DEF ConsumeProof, OfTheGoods
    <2>2. buy[b].proof \in Proofs402
      BY <1>h, <1>11 DEF ConsumeProof, At402, HoldsWhatItPaid
    <2>3. CASE Departs(b) /\ UNCHANGED gateRow
      BY <1>2, <2>1, <2>3
    <2>4. CASE Proceeds(b, "handle") /\ gateRow' = [gateRow EXCEPT ![buy[b].proof].consumed = TRUE]
      <3>1. /\ gateRow' \in [Proofs402 -> GateRows] /\ gateRow'[buy[b].proof].consumed
            /\ \A p \in Proofs402 : gateRow[p].consumed => gateRow'[p].consumed
        BY <1>0, <2>2, <2>4 DEF GateRows
      <3>2. HoldsWhatItPaid(b)'
        BY <1>h, <1>p, <1>11, <2>1, <2>4, <3>1 DEF ConsumeProof, At402, HoldsWhatItPaid
      <3> QED
        BY <1>1, <1>p, <2>1, <2>4, <3>1, <3>2 DEF GoodsInv, GoodsTyped
    <2> QED
      BY <1>11, <2>3, <2>4 DEF ConsumeProof, GivesUp
  <1>12. CASE HandleBuy(b)
    <2>1. /\ Proceeds(b, "settled") /\ UNCHANGED <<receipts, answered, gateRow, taken>>
          /\ unlocked' = unlocked \cup {PairOf(b)}
      BY <1>12 DEF HandleBuy, OfThePayment, PairOf
    <2>2. PairOf(b) \in [payload : Payloads, proof : Proofs402] /\ PairOf(b)' = PairOf(b)
      BY <1>h, <1>p, <1>12, <2>1 DEF HandleBuy, At402, HoldsWhatItPaid, PairOf
    <2>3. HoldsWhatItPaid(b)'
      BY <1>h, <1>p, <1>12, <2>1, <2>2 DEF HandleBuy, At402, HoldsWhatItPaid
    <2>4. GoodsTyped'
      BY <1>p, <2>1, <2>2 DEF GoodsInv, GoodsTyped, OnlyBuy
    <2>5. NothingIsLost /\ ReceiptIsPaid' /\ AnsweredIsReceipted'
      BY <2>1 DEF GoodsInv, NothingIsLost, ReceiptIsPaid, AnsweredIsReceipted, ReceiptsOf
    <2> QED
      BY <1>p, <2>1, <2>3, <2>4, <2>5, BuyKeepsGoodsInv
  <1>13. CASE LookForDuplicate(b)
    <2>0. UNCHANGED <<receipts, unlocked, taken, gateRow>>
      BY <1>13 DEF LookForDuplicate, OfThePayment
    <2>1. CASE Proceeds(b, "write") /\ UNCHANGED answered
      <3>1. HoldsWhatItPaid(b)'
        BY <1>h, <1>p, <1>13, <2>0, <2>1 DEF LookForDuplicate, At402, HoldsWhatItPaid, PairOf
      <3> QED
        BY <1>3, <2>0, <2>1, <3>1
    <2>2. CASE ReceiptFound(buy[b].payload) /\ Answers402(b)
      <3>1. ReceiptsOf(buy[b].payload) # {}
        BY <2>2, FS_EmptySet DEF ReceiptFound
      <3>2. Departs(b) /\ answered' = answered \cup {buy[b].payload}
        BY <2>2 DEF Answers402
      <3>3. buy[b].payload \in Payloads
        BY <1>h, <1>13 DEF LookForDuplicate, At402, HoldsWhatItPaid
      <3>4. NothingIsLost /\ ReceiptIsPaid' /\ AnsweredIsReceipted'
        BY <2>0, <3>1, <3>2 DEF GoodsInv, NothingIsLost, ReceiptIsPaid, AnsweredIsReceipted, ReceiptsOf
      <3>5. GoodsTyped'
        BY <1>d, <2>0, <3>2, <3>3 DEF GoodsInv, GoodsTyped, OnlyBuy
      <3> QED
        BY <1>d, <3>2, <3>4, <3>5, BuyKeepsGoodsInv
    <2> QED
      BY <1>13, <2>1, <2>2 DEF LookForDuplicate
  <1>14. CASE WriteReceipt(b)
    <2>1. /\ Departs(b) /\ UNCHANGED <<unlocked, taken, gateRow>>
          /\ receipts' = receipts \cup {PairOf(b)} /\ answered' = answered \cup {buy[b].payload}
      BY <1>14 DEF WriteReceipt, Answers402, OfThePayment, PairOf
    <2>2. /\ PairOf(b) \in [payload : Payloads, proof : Proofs402] /\ PairOf(b) \in unlocked
          /\ PairOf(b).proof \in taken /\ gateRow[PairOf(b).proof].consumed
          /\ PairOf(b).payload = buy[b].payload
      BY <1>h, <1>14 DEF WriteReceipt, At402, HoldsWhatItPaid, PairOf
    <2>3. NothingIsLost /\ ReceiptIsPaid'
      BY <2>1, <2>2 DEF GoodsInv, NothingIsLost, ReceiptIsPaid
    <2>4. AnsweredIsReceipted'
      BY <2>1, <2>2 DEF GoodsInv, AnsweredIsReceipted, ReceiptsOf
    <2>5. GoodsTyped'
      BY <1>d, <2>1, <2>2 DEF GoodsInv, GoodsTyped, OnlyBuy
    <2> QED
      BY <1>d, <2>1, <2>3, <2>4, <2>5, BuyKeepsGoodsInv
  <1> QED
    BY <1>4, <1>5, <1>6, <1>7, <1>8, <1>9, <1>10, <1>11, <1>12, <1>13, <1>14

LEMMA NextGoodsInv == GoodsInv /\ [CommerceNext]_commerceVars => GoodsInv'
  <1> SUFFICES ASSUME GoodsInv, [CommerceNext]_commerceVars PROVE GoodsInv'
    OBVIOUS
  <1>1. CASE /\ ~ UNCHANGED commerceVars
             /\ ~ \E b \in Buys :
                    \/ \E k \in Payloads, p \in {q \in Proofs402 : quoted[q] # 0} \cup {NoProof402} :
                          BeginBuy(b, k, p)
                    \/ \E p \in Proofs402 : Quote(b, p)
                    \/ AlreadyUnlocked(b) \/ VerifyProof(b) \/ LookForAccess(b) \/ InsertAccess(b)
                    \/ ClaimProof(b) \/ SettleProof(b) \/ RecordProof(b) \/ ConsumeProof(b)
                    \/ HandleBuy(b) \/ LookForDuplicate(b) \/ WriteReceipt(b) \/ GateReceiptFails(b)
                    \/ BuyDies(b)
    BY <1>1, SellerKeepsGoodsInv, SellerStaysTyped
    DEF CommerceNext, SaveServiceGate, SaveCommerceProfile, PostBridgeEvent, ServerRestarts, AccessExpires,
        OfThePayment, OfTheGoods
  <1>2. CASE UNCHANGED commerceVars
    BY <1>2, SellerKeepsGoodsInv, SellerStaysTyped DEF commerceVars
  <1> QED
    BY <1>1, <1>2, BuyerKeepsGoodsInv, SellerStaysTyped

InsertingFor(w) == {b \in Buys : At402(b, "insert") /\ Payer402(b) = w}

\* One access session more for every request of the payer that has found none.
AccessIsFew ==
    /\ access \in [Purses -> Nat]
    /\ \A w \in Purses : access[w] + Cardinality(InsertingFor(w)) <= Cardinality(Buys)

LEMMA InitAccessIsFew == CommerceInit => AccessIsFew
  <1> SUFFICES ASSUME CommerceInit PROVE AccessIsFew
    OBVIOUS
  <1>1. access \in [Purses -> Nat] /\ \A w \in Purses : access[w] = 0
    BY DEF CommerceInit
  <1>2. \A w \in Purses : InsertingFor(w) = {}
    BY DEF CommerceInit, InsertingFor, At402, GateResting
  <1>3. Cardinality(Buys) \in Nat
    BY CommerceGateAssumption, FS_CardinalityType
  <1>4. \A w \in Purses : Cardinality(InsertingFor(w)) = 0
    BY <1>2, FS_EmptySet
  <1> QED
    BY <1>1, <1>3, <1>4 DEF AccessIsFew

\* What a step does to the sessions of one payer.
LEMMA FewOfOnePayer ==
  ASSUME AccessIsFew, NEW w \in Purses, access'[w] \in Nat,
         \/ access'[w] = 0
         \/ access'[w] = access[w] /\ InsertingFor(w)' \subseteq InsertingFor(w)
         \/ access'[w] = access[w] + 1 /\ \E b \in InsertingFor(w) : InsertingFor(w)' = InsertingFor(w) \ {b}
  PROVE  access'[w] + Cardinality(InsertingFor(w)') <= Cardinality(Buys)
  <1>1. /\ IsFiniteSet(InsertingFor(w)) /\ IsFiniteSet(InsertingFor(w)')
        /\ Cardinality(InsertingFor(w)') <= Cardinality(Buys)
    BY CommerceGateAssumption, FS_Subset DEF InsertingFor
  <1>2. /\ Cardinality(InsertingFor(w)) \in Nat /\ Cardinality(InsertingFor(w)') \in Nat
        /\ Cardinality(Buys) \in Nat
    BY <1>1, CommerceGateAssumption, FS_CardinalityType
  <1>0. access[w] \in Nat /\ access[w] + Cardinality(InsertingFor(w)) <= Cardinality(Buys)
    BY DEF AccessIsFew
  <1>3. CASE access'[w] = 0
    BY <1>1, <1>2, <1>3
  <1>4. CASE access'[w] = access[w] /\ InsertingFor(w)' \subseteq InsertingFor(w)
    <2>1. Cardinality(InsertingFor(w)') <= Cardinality(InsertingFor(w))
      BY <1>1, <1>4, FS_Subset
    <2> QED
      BY <1>0, <1>2, <1>4, <2>1
  <1>5. ASSUME access'[w] = access[w] + 1, NEW b \in InsertingFor(w),
               InsertingFor(w)' = InsertingFor(w) \ {b}
        PROVE  access'[w] + Cardinality(InsertingFor(w)') <= Cardinality(Buys)
    <2>1. Cardinality(InsertingFor(w)') = Cardinality(InsertingFor(w)) - 1
      BY <1>1, <1>5, FS_RemoveElement
    <2> QED
      BY <1>0, <1>2, <1>5, <2>1
  <1> QED
    BY <1>3, <1>4, <1>5

LEMMA NextAccessIsFew == GoodsInv /\ AccessIsFew /\ [CommerceNext]_commerceVars => AccessIsFew'
  <1> SUFFICES ASSUME GoodsInv, AccessIsFew, [CommerceNext]_commerceVars PROVE AccessIsFew'
    OBVIOUS
  <1>0. buy \in [Buys -> BuyStates] /\ access \in [Purses -> Nat]
    BY DEF GoodsInv, GoodsTyped, AccessIsFew
  <1>1. ASSUME access' \in [Purses -> Nat],
               \A w \in Purses :
                  \/ access'[w] = 0
                  \/ access'[w] = access[w] /\ InsertingFor(w)' \subseteq InsertingFor(w)
                  \/ /\ access'[w] = access[w] + 1
                     /\ \E b \in InsertingFor(w) : InsertingFor(w)' = InsertingFor(w) \ {b}
        PROVE  AccessIsFew'
    BY <1>1, FewOfOnePayer DEF AccessIsFew
  <1>2. CASE UNCHANGED <<access, buy>>
    BY <1>0, <1>1, <1>2 DEF InsertingFor, At402, Payer402
  <1>3. ASSUME NEW w \in Purses, AccessExpires(w) PROVE AccessIsFew'
    <2>1. access' \in [Purses -> Nat] /\ \A v \in Purses : access'[v] = 0 \/ access'[v] = access[v]
      BY <1>0, <1>3 DEF AccessExpires
    <2>2. \A v \in Purses : InsertingFor(v)' = InsertingFor(v)
      BY <1>3 DEF AccessExpires, InsertingFor, At402, Payer402
    <2> QED
      BY <1>1, <2>1, <2>2
  <1>4. ASSUME NEW b \in Buys, buy' \in [Buys -> BuyStates], \A c \in Buys : c # b => buy'[c] = buy[c],
               buy'[b].stage # "insert", access' \in [Purses -> Nat],
               \A w \in Purses : access'[w] = 0 \/ access'[w] = access[w]
        PROVE  AccessIsFew'
    <2>1. \A w \in Purses : InsertingFor(w)' \subseteq InsertingFor(w)
      BY <1>4 DEF InsertingFor, At402, Payer402
    <2> QED
      BY <1>1, <1>4, <2>1
  <1>5. ASSUME NEW b \in Buys,
               (\E k \in Payloads, p \in {q \in Proofs402 : quoted[q] # 0} \cup {NoProof402} : BeginBuy(b, k, p))
               \/ (\E p \in Proofs402 : Quote(b, p))
               \/ AlreadyUnlocked(b) \/ VerifyProof(b)
               \/ ClaimProof(b) \/ SettleProof(b) \/ RecordProof(b) \/ ConsumeProof(b) \/ HandleBuy(b)
               \/ LookForDuplicate(b) \/ WriteReceipt(b) \/ GateReceiptFails(b) \/ BuyDies(b)
        PROVE  AccessIsFew'
    <2>1. access' \in [Purses -> Nat] /\ \A w \in Purses : access'[w] = 0 \/ access'[w] = access[w]
      <3>1. UNCHANGED access \/ GivesUp(b)
        BY <1>5 DEF BeginBuy, Quote, AlreadyUnlocked, VerifyProof, ClaimProof, SettleProof, AfterSettle,
                    RecordProof, ConsumeProof, HandleBuy, LookForDuplicate, WriteReceipt,
                    GateReceiptFails, BuyDies, OfThePayment
      <3> QED
        BY <1>0, <3>1 DEF GivesUp
    <2>2. /\ buy' \in [Buys -> BuyStates] /\ (\A c \in Buys : c # b => buy'[c] = buy[c])
          /\ buy'[b].stage # "insert"
      <3>1. CASE Departs(b)
        BY <1>0, <3>1 DEF Departs, GateResting, BuyStates
      <3>2. ASSUME NEW stage \in {"look", "settle", "record", "consume", "handle", "settled", "write"},
                   Proceeds(b, stage)
            PROVE  /\ buy' \in [Buys -> BuyStates] /\ (\A c \in Buys : c # b => buy'[c] = buy[c])
                   /\ buy'[b].stage # "insert"
        BY <1>0, <3>2 DEF Proceeds, BuyStates
      <3>3. ASSUME NEW k \in Payloads, NEW p \in Proofs402 \cup {NoProof402}, BeginBuy(b, k, p)
            PROVE  /\ buy' \in [Buys -> BuyStates] /\ (\A c \in Buys : c # b => buy'[c] = buy[c])
                   /\ buy'[b].stage # "insert"
        <4>1. ServedPrice \in Prices \cup {0}
          BY DEF GoodsInv, SellerTyped, ServedPrice, ActiveGate, FallbackPrice
        <4>2. PICK price \in Prices \cup {0} :
                 buy' = [buy EXCEPT ![b] = [stage |-> "receipt", payload |-> k, proof |-> p, price |-> price]]
          BY <3>3, <4>1 DEF BeginBuy
        <4> QED
          BY <1>0, <4>2 DEF BuyStates
      <3> QED
        BY <1>5, <3>1, <3>2, <3>3
        DEF Quote, AlreadyUnlocked, VerifyProof, ClaimProof, SettleProof, AfterSettle, GivesUp,
            RecordProof, ConsumeProof, HandleBuy, LookForDuplicate, Answers402, WriteReceipt,
            GateReceiptFails, WarnsOfReceipt, BuyDies
    <2> QED
      BY <1>4, <2>1, <2>2
  <1>6. ASSUME NEW b \in Buys, LookForAccess(b) PROVE AccessIsFew'
    <2>1. UNCHANGED access
      BY <1>6 DEF LookForAccess, OfThePayment
    <2>2. CASE Departs(b)
      <3>1. /\ buy' \in [Buys -> BuyStates] /\ (\A c \in Buys : c # b => buy'[c] = buy[c])
            /\ buy'[b].stage # "insert"
        BY <1>0, <2>2 DEF Departs, GateResting, BuyStates
      <3> QED
        BY <1>0, <1>4, <2>1, <3>1
    <2>3. CASE Proceeds(b, "insert") /\ access[Payer402(b)] = 0
      <3>1. \A c \in Buys : c # b => buy'[c] = buy[c]
        BY <1>0, <2>3 DEF Proceeds
      <3>2. buy'[b].proof = buy[b].proof
        BY <1>0, <2>3 DEF Proceeds, BuyStates
      <3>3. \A w \in Purses : w # Payer402(b) => InsertingFor(w)' \subseteq InsertingFor(w)
        BY <3>1, <3>2 DEF InsertingFor, At402, Payer402
      <3> QED
        BY <1>0, <1>1, <2>1, <2>3, <3>3
    <2> QED
      BY <1>6, <2>2, <2>3 DEF LookForAccess
  <1>7. ASSUME NEW b \in Buys, InsertAccess(b) PROVE AccessIsFew'
    <2>1. /\ Proceeds(b, "claim") /\ access' = [access EXCEPT ![Payer402(b)] = @ + 1]
          /\ At402(b, "insert")
      BY <1>7 DEF InsertAccess
    <2>2. /\ \A c \in Buys : c # b => buy'[c] = buy[c]
          /\ buy'[b].stage = "claim"
      BY <1>0, <2>1 DEF Proceeds, BuyStates
    <2>3. access' \in [Purses -> Nat] /\ \A w \in Purses :
              access'[w] = IF w = Payer402(b) THEN access[w] + 1 ELSE access[w]
      <3> DEFINE p == Payer402(b)
      <3>1. access' = [access EXCEPT ![p] = @ + 1]
        BY <2>1
      <3> HIDE DEF p
      <3>2. \A w \in Purses : access'[w] = IF w = p THEN access[w] + 1 ELSE access[w]
        BY <1>0, <3>1
      <3>3. access' \in [Purses -> Nat]
        <4>1. access' = [w \in Purses |-> IF w = p THEN access[p] + 1 ELSE access[w]]
          BY <1>0, <3>1
        <4>2. \A w \in Purses : (IF w = p THEN access[p] + 1 ELSE access[w]) \in Nat
          BY <1>0
        <4> QED
          BY <4>1, <4>2
      <3> QED
        BY <3>2, <3>3 DEF p
    <2>4. \A w \in Purses : InsertingFor(w)' = InsertingFor(w) \ {b}
      <3>1. \A c \in Buys : (At402(c, "insert"))' <=> At402(c, "insert") /\ c # b
        BY <2>2 DEF At402
      <3>2. buy'[b].proof = buy[b].proof
        BY <1>0, <2>1 DEF Proceeds, BuyStates
      <3>3. \A c \in Buys : Payer402(c)' = Payer402(c)
        BY <2>2, <3>2 DEF Payer402
      <3> QED
        BY <3>1, <3>3 DEF InsertingFor
    <2>5. \A w \in Purses : w = Payer402(b) => b \in InsertingFor(w)
      BY <2>1 DEF InsertingFor
    <2>6. ASSUME NEW w \in Purses
          PROVE  \/ access'[w] = access[w] /\ InsertingFor(w)' \subseteq InsertingFor(w)
                 \/ /\ access'[w] = access[w] + 1
                    /\ \E c \in InsertingFor(w) : InsertingFor(w)' = InsertingFor(w) \ {c}
      <3>1. CASE w = Payer402(b)
        BY <2>3, <2>4, <2>5, <3>1
      <3>2. CASE w # Payer402(b)
        BY <2>3, <2>4, <3>2
      <3> QED
        BY <3>1, <3>2
    <2> QED
      BY <1>1, <2>3, <2>6
  <1> QED
    BY <1>2, <1>3, <1>5, <1>6, <1>7
    DEF CommerceNext, SaveServiceGate, SaveCommerceProfile, PostBridgeEvent, ServerRestarts, commerceVars,
        OfThePayment, OfTheGoods

LEMMA GatesAreTyped == GoodsInv /\ AccessIsFew => CommerceTypeOK
  <1> SUFFICES ASSUME GoodsInv, AccessIsFew PROVE CommerceTypeOK
    OBVIOUS
  <1>1. access \in [Purses -> 0 .. Cardinality(Buys)]
    <2>1. Cardinality(Buys) \in Nat /\ \A w \in Purses : Cardinality(InsertingFor(w)) \in Nat
      <3>1. \A w \in Purses : IsFiniteSet(InsertingFor(w))
        BY CommerceGateAssumption, FS_Subset DEF InsertingFor
      <3> QED
        BY <3>1, CommerceGateAssumption, FS_CardinalityType
    <2> QED
      BY <2>1 DEF AccessIsFew
  <1> QED
    BY <1>1, Zenon DEF GoodsInv, SellerTyped, GoodsTyped, GateRows, BuyStates, CommerceTypeOK

(***************************************************************************)
(* Wallets.  A request to link holds an account and, once it has disabled  *)
(* the last row, its owner; a request to bind that has proven the mint     *)
(* holds the account of the mint, and the row it updates is its owner's.   *)
(***************************************************************************)
LinkStates ==
    [kind : Kinds, stage : {"away", "post", "insert", "pick", "read", "revoke", "put", "told"},
     screen : Screens \cup {NoScreen}, owner : Owners \cup {NoOwner},
     account : Payers \cup {NoAccount}, todo : SUBSET Agents,
     agent : Agents \cup {NoAgent}, scope : Scopes, old : PayerRows \cup {NoRowOfPayer}]

BindStates ==
    [stage : {"away", "proof", "read", "insert", "conflict", "update"},
     owner : Owners \cup {NoOwner}, agent : Agents \cup {NoAgent}, account : Accounts \cup {NoAccount}]

LinkHolds(q) ==
    /\ q.kind = "link" /\ q.stage # "away" => q.account \in Accounts
    /\ q.stage \in {"post", "insert"} => q.kind = "link"
    /\ q.stage = "insert" => q.owner \in Owners

BinderHolds(b) ==
    LET q == binder[b] IN
    /\ q.stage # "away" => q.agent \in Agents /\ q.owner \in Owners /\ q.account \in Accounts
    /\ q.stage \in {"read", "insert", "conflict", "update"} => q.account = MintedTo[q.agent]
    /\ q.stage = "update" => binding[q.agent].owner = q.owner

WalletsInv ==
    /\ AgentWalletsTypeOK
    /\ \A r \in WalletRequests : LinkHolds(walletRequest[r])
    /\ \A b \in Binders : BinderHolds(b)
    /\ BindingIsOfTheMint /\ LinkLeavesAccount

OnlyRequest(r, q) ==
    /\ walletRequest' \in [WalletRequests -> LinkStates]
    /\ walletRequest'[r] = q
    /\ \A s \in WalletRequests : s # r => walletRequest'[s] = walletRequest[s]

LEMMA InitWalletsInv == AgentWalletsInit => WalletsInv
  <1> SUFFICES ASSUME AgentWalletsInit PROVE WalletsInv
    OBVIOUS
  <1> USE AgentWalletAssumption DEF AgentWalletsInit
  <1>1. AgentWalletsTypeOK
    <2>1. NoLink \in LinkStates /\ NoBind \in BindStates
      BY DEF NoLink, LinkStates, NoBind, BindStates, Kinds, Scopes
    <2>2. walletRequest \in [WalletRequests -> LinkStates] /\ binder \in [Binders -> BindStates]
      BY <2>1
    <2>3. payerRow \in [PayerRows -> [agent : Agents \cup {NoAgent}, scope : Scopes,
                                      payer : Payers \cup {NoAccount},
                                      state : {"none", "active", "revoked"}]]
      BY DEF Unwritten, Scopes
    <2>4. binding \in [Agents -> [owner : Owners \cup {NoOwner}, account : Accounts \cup {NoAccount}]]
      BY DEF Unbound
    <2>5. /\ account \in [Owners -> Accounts \cup {NoAccount}] /\ accountRows \in [Owners -> SUBSET Accounts]
          /\ card \in [Screens -> Accounts \cup {NoAccount}]
      OBVIOUS
    <2>6. /\ tokenOwner \in [Agents -> Payers] /\ controller \in [Agents -> Payers]
          /\ cookie \in Owners \cup {NoOwner} /\ transfers \subseteq Owners \X Accounts
          /\ walletTroubles \in 0 .. MaxWalletTroubles
      OBVIOUS
    <2> QED
      BY <2>2, <2>3, <2>4, <2>5, <2>6, Zenon DEF AgentWalletsTypeOK, LinkStates, BindStates
  <1>2. \A r \in WalletRequests : walletRequest[r].stage = "away"
    BY DEF NoLink
  <1>3. \A b \in Binders : binder[b].stage = "away"
    BY DEF NoBind
  <1>4. \A r \in WalletRequests : LinkHolds(walletRequest[r])
    BY <1>2 DEF LinkHolds
  <1>5. \A b \in Binders : BinderHolds(b)
    BY <1>3 DEF BinderHolds
  <1>6. BindingIsOfTheMint /\ LinkLeavesAccount
    BY DEF BindingIsOfTheMint, LinkLeavesAccount
  <1> QED
    BY <1>1, <1>4, <1>5, <1>6 DEF WalletsInv

\* What is not of the bindings leaves them alone.
LEMMA BindersRest ==
  ASSUME WalletsInv, UNCHANGED <<binder, binding>>
  PROVE  (\A b \in Binders : BinderHolds(b)') /\ BindingIsOfTheMint'
  BY DEF WalletsInv, BinderHolds, BindingIsOfTheMint

LEMMA ScreensKeepWalletsInv ==
  ASSUME WalletsInv,
         \/ \E t \in Screens : EnsureSession(t) \/ LoadCard(t) \/ Fund(t)
         \/ \E a \in Agents, s \in Scopes : RevokePayer(a, s)
         \/ \E a \in Agents : IndexAgent(a) \/ \E p \in Payers : TransferAgent(a, p)
         \/ UNCHANGED walletVars
  PROVE  WalletsInv'
  <1> USE DEF OfAccounts, OfPayers, OfBindings, OfTheChain, OfScreens
  <1>0. AgentWalletsTypeOK
    BY DEF WalletsInv
  <1>1. UNCHANGED <<account, accountRows, walletRequest, binder, binding>>
    BY DEF EnsureSession, LoadCard, Fund, RevokePayer, IndexAgent, TransferAgent, walletVars
  <1>2. walletTroubles' = walletTroubles \/ (walletTroubles' = walletTroubles + 1 /\ walletTroubles < MaxWalletTroubles)
    BY DEF EnsureSession, LoadCard, Fund, RevokePayer, IndexAgent, TransferAgent, walletVars, WalletTrouble
  <1>3. AgentWalletsTypeOK'
    <2>1. ASSUME NEW t \in Screens, EnsureSession(t) \/ LoadCard(t) \/ Fund(t) PROVE AgentWalletsTypeOK'
      <3>1. cookie' \in Owners \cup {NoOwner}
        BY <1>0, <2>1, AgentWalletAssumption DEF AgentWalletsTypeOK, EnsureSession, LoadCard, Fund
      <3>2. card' \in [Screens -> Accounts \cup {NoAccount}]
        BY <1>0, <2>1 DEF AgentWalletsTypeOK, EnsureSession, LoadCard, Fund
      <3>3. transfers' \subseteq Owners \X Accounts
        BY <1>0, <2>1, AgentWalletAssumption DEF AgentWalletsTypeOK, EnsureSession, LoadCard, Fund
      <3>4. UNCHANGED <<payerRow, tokenOwner, controller, walletTroubles>>
        BY <2>1 DEF EnsureSession, LoadCard, Fund
      <3> QED
        BY <1>0, <1>1, <3>1, <3>2, <3>3, <3>4 DEF AgentWalletsTypeOK
    <2>2. ASSUME NEW a \in Agents, NEW s \in Scopes, RevokePayer(a, s) PROVE AgentWalletsTypeOK'
      <3>1. PICK i \in PayerRows : payerRow' = [payerRow EXCEPT ![i].state = "revoked"]
        BY <2>2 DEF RevokePayer, ActivePayers
      <3>2. payerRow' \in [PayerRows -> [agent : Agents \cup {NoAgent}, scope : Scopes,
                                         payer : Payers \cup {NoAccount},
                                         state : {"none", "active", "revoked"}]]
        BY <1>0, <3>1 DEF AgentWalletsTypeOK
      <3>3. UNCHANGED <<tokenOwner, controller, cookie, card, transfers, walletTroubles>>
        BY <2>2 DEF RevokePayer
      <3> QED
        BY <1>0, <1>1, <3>2, <3>3 DEF AgentWalletsTypeOK
    <2>3. ASSUME NEW a \in Agents, IndexAgent(a) \/ \E p \in Payers : TransferAgent(a, p)
          PROVE  AgentWalletsTypeOK'
      <3>1. /\ tokenOwner' \in [Agents -> Payers] /\ controller' \in [Agents -> Payers]
            /\ walletTroubles' \in 0 .. MaxWalletTroubles
        <4>1. walletTroubles' \in 0 .. MaxWalletTroubles
          BY <1>0, <1>2, AgentWalletAssumption DEF AgentWalletsTypeOK
        <4>0. /\ tokenOwner \in [Agents -> Payers] /\ controller \in [Agents -> Payers]
          BY <1>0 DEF AgentWalletsTypeOK
        <4>2. tokenOwner' \in [Agents -> Payers] /\ controller' \in [Agents -> Payers]
          <5>1. CASE IndexAgent(a)
            BY <4>0, <5>1 DEF IndexAgent
          <5>2. ASSUME NEW p \in Payers, TransferAgent(a, p)
                PROVE  tokenOwner' \in [Agents -> Payers] /\ controller' \in [Agents -> Payers]
            BY <4>0, <5>2 DEF TransferAgent
          <5> QED
            BY <2>3, <5>1, <5>2
        <4> QED
          BY <4>1, <4>2
      <3>2. UNCHANGED <<payerRow, cookie, card, transfers>>
        BY <2>3 DEF IndexAgent, TransferAgent
      <3> QED
        BY <1>0, <1>1, <3>1, <3>2 DEF AgentWalletsTypeOK
    <2>4. CASE UNCHANGED walletVars
      BY <1>0, <2>4 DEF walletVars, AgentWalletsTypeOK
    <2> QED
      BY <2>1, <2>2, <2>3, <2>4
  <1>4. \A r \in WalletRequests : LinkHolds(walletRequest'[r])
    BY <1>1 DEF WalletsInv
  <1>5. walletTroubles \in Nat
    BY <1>0 DEF AgentWalletsTypeOK
  <1>6. LinkLeavesAccount'
    BY <1>1, <1>2, <1>5 DEF WalletsInv, LinkLeavesAccount, StageOf
  <1> QED
    BY <1>1, <1>3, <1>4, <1>6, BindersRest DEF WalletsInv

\* A step of a request that leaves the accounts alone.
LEMMA RequestKeepsWalletsInv ==
  ASSUME WalletsInv, NEW r \in WalletRequests, NEW q \in LinkStates, Becomes(r, q), LinkHolds(q),
         q.stage # "insert", StageOf(r) = "insert" => walletTroubles' > 0 \/ account[walletRequest[r].owner] # NoAccount,
         UNCHANGED <<account, accountRows, binder, binding, tokenOwner, controller, cookie, transfers>>,
         payerRow' \in [PayerRows -> [agent : Agents \cup {NoAgent}, scope : Scopes,
                                      payer : Payers \cup {NoAccount},
                                      state : {"none", "active", "revoked"}]],
         card' \in [Screens -> Accounts \cup {NoAccount}],
         walletTroubles' \in 0 .. MaxWalletTroubles, walletTroubles' >= walletTroubles
  PROVE  WalletsInv'
  <1>1. OnlyRequest(r, q)
    BY DEF WalletsInv, AgentWalletsTypeOK, LinkStates, Becomes, OnlyRequest
  <1>2. AgentWalletsTypeOK'
    BY <1>1 DEF WalletsInv, AgentWalletsTypeOK, OnlyRequest, LinkStates
  <1>3. \A s \in WalletRequests : LinkHolds(walletRequest'[s])
    BY <1>1 DEF WalletsInv, OnlyRequest
  <1>4. walletTroubles \in Nat
    BY DEF WalletsInv, AgentWalletsTypeOK
  <1>5. LinkLeavesAccount'
    BY <1>1, <1>4, AgentWalletAssumption DEF WalletsInv, OnlyRequest, LinkLeavesAccount, StageOf
  <1> QED
    BY <1>2, <1>3, <1>5, BindersRest DEF WalletsInv

\* A request that is not about to insert, and does not come to be, changes
\* nothing but itself, the rows of the payers and the cards.
LEMMA RequestsKeepWalletsInv ==
  ASSUME WalletsInv, NEW r \in WalletRequests,
         \/ \E t \in Screens, k \in Accounts : AsksToLink(r, t, k)
         \/ LinkIsShown(r) \/ RequestDies(r) \/ ReadPayer(r) \/ RevokeRead(r) \/ InsertPayer(r)
         \/ PayerAnswered(r)
         \/ \E a \in Agents : \/ NextAgent(r, a) \/ RepairPayer(r, a)
                              \/ \E s \in Scopes, p \in Payers : RegisterPayer(r, a, s, p)
  PROVE  WalletsInv'
  <1> USE DEF OfAccounts, OfPayers, OfBindings, OfTheChain, OfScreens
  <1> DEFINE q == walletRequest[r]
             Rows == [PayerRows -> [agent : Agents \cup {NoAgent}, scope : Scopes,
                                    payer : Payers \cup {NoAccount},
                                    state : {"none", "active", "revoked"}]]
             Rest == /\ payerRow' \in Rows /\ card' \in [Screens -> Accounts \cup {NoAccount}]
                     /\ walletTroubles' \in 0 .. MaxWalletTroubles /\ walletTroubles' >= walletTroubles
  <1>1. /\ q \in LinkStates /\ LinkHolds(q) /\ payerRow \in Rows
        /\ card \in [Screens -> Accounts \cup {NoAccount}]
        /\ account \in [Owners -> Accounts \cup {NoAccount}] /\ cookie \in Owners \cup {NoOwner}
        /\ walletTroubles \in 0 .. MaxWalletTroubles /\ MaxWalletTroubles \in Nat
    BY AgentWalletAssumption DEF WalletsInv, AgentWalletsTypeOK, LinkStates
  <1>2. ASSUME NEW p \in LinkStates, Becomes(r, p), LinkHolds(p), p.stage # "insert", Rest,
               StageOf(r) = "insert" => walletTroubles' > 0,
               UNCHANGED <<account, accountRows, binder, binding, tokenOwner, controller, cookie, transfers>>
        PROVE  WalletsInv'
    BY <1>2, RequestKeepsWalletsInv
  <1>3. NoLink \in LinkStates /\ NoLink.stage = "away" /\ LinkHolds(NoLink)
    BY DEF NoLink, LinkStates, Kinds, Scopes, LinkHolds
  <1>4. UNCHANGED <<payerRow, card, walletTroubles>> => Rest
    BY <1>1
  <1>5. WalletTrouble => walletTroubles' \in 0 .. MaxWalletTroubles /\ walletTroubles' > walletTroubles
                         /\ walletTroubles' > 0
    BY <1>1 DEF WalletTrouble
  <1> HIDE DEF Rest
  <1>6. ASSUME NEW t \in Screens, NEW k \in Accounts, AsksToLink(r, t, k) PROVE WalletsInv'
    <2> DEFINE p == [NoLink EXCEPT !.kind = "link", !.stage = "post", !.screen = t, !.account = k]
    <2>1. p \in LinkStates /\ LinkHolds(p) /\ p.stage = "post"
      BY DEF NoLink, LinkStates, Kinds, Scopes, Payers, LinkHolds
    <2>2. Becomes(r, p) /\ StageOf(r) = "away"
      BY <1>6 DEF AsksToLink
    <2> HIDE DEF p
    <2> QED
      BY <1>2, <1>4, <1>6, <2>1, <2>2 DEF AsksToLink
  <1>7. CASE LinkIsShown(r)
    <2>1. card' \in [Screens -> Accounts \cup {NoAccount}]
      BY <1>1, <1>7 DEF LinkIsShown, LinkHolds
    <2>2. Rest
      BY <1>1, <1>7, <2>1 DEF LinkIsShown, Rest
    <2> QED
      BY <1>2, <1>3, <1>7, <2>2 DEF LinkIsShown, StageOf
  <1>8. CASE RequestDies(r)
    <2>1. Rest
      BY <1>1, <1>5, <1>8 DEF RequestDies, Rest
    <2> QED
      BY <1>2, <1>3, <1>5, <1>8, <2>1 DEF RequestDies
  <1>9. CASE ReadPayer(r)
    <2>1. \/ Becomes(r, [q EXCEPT !.stage = "told"]) \/ Becomes(r, [q EXCEPT !.stage = "put"])
          \/ \E i \in PayerRows : Becomes(r, [q EXCEPT !.stage = "revoke", !.old = i])
      BY <1>9 DEF ReadPayer, ActivePayers
    <2>2. PICK p \in LinkStates : Becomes(r, p) /\ LinkHolds(p) /\ p.stage # "insert"
      <3>1. \A s \in {"told", "put"} : [q EXCEPT !.stage = s] \in LinkStates /\ LinkHolds([q EXCEPT !.stage = s])
        BY <1>1, <1>9 DEF LinkStates, LinkHolds, ReadPayer
      <3>2. \A i \in PayerRows : LET p == [q EXCEPT !.stage = "revoke", !.old = i]
                                 IN  p \in LinkStates /\ LinkHolds(p) /\ p.stage = "revoke"
        BY <1>1, <1>9 DEF LinkStates, LinkHolds, ReadPayer
      <3>3. \A s \in {"told", "put"} : [q EXCEPT !.stage = s].stage = s
        BY <1>1 DEF LinkStates
      <3> QED
        BY <2>1, <3>1, <3>2, <3>3
    <2> QED
      BY <1>2, <1>4, <1>9, <2>2 DEF ReadPayer, StageOf
  <1>10. CASE RevokeRead(r)
    <2> DEFINE p == [q EXCEPT !.stage = "put", !.old = NoRowOfPayer]
    <2>1. p \in LinkStates /\ LinkHolds(p) /\ p.stage = "put"
      BY <1>1, <1>10 DEF LinkStates, LinkHolds, RevokeRead
    <2>2. Becomes(r, p) /\ StageOf(r) = "revoke"
      BY <1>10 DEF RevokeRead, StageOf
    <2>3. payerRow' \in Rows
      BY <1>1, <1>10 DEF RevokeRead
    <2>4. walletTroubles' \in 0 .. MaxWalletTroubles /\ walletTroubles' >= walletTroubles /\ UNCHANGED card
      BY <1>1, <1>5, <1>10 DEF RevokeRead
    <2>5. Rest
      BY <1>1, <2>3, <2>4 DEF Rest
    <2> HIDE DEF p
    <2> QED
      BY <1>2, <1>10, <2>1, <2>2, <2>5 DEF RevokeRead
  <1>11. CASE InsertPayer(r)
    <2>1. PICK p \in LinkStates : Becomes(r, p) /\ LinkHolds(p) /\ p.stage # "insert"
      <3>1. [q EXCEPT !.stage = "told"] \in LinkStates /\ LinkHolds([q EXCEPT !.stage = "told"])
            /\ [q EXCEPT !.stage = "told"].stage = "told"
        BY <1>1, <1>11 DEF LinkStates, LinkHolds, InsertPayer
      <3> QED
        BY <1>3, <1>11, <3>1 DEF InsertPayer
    <2>2. payerRow' \in Rows
      BY <1>1, <1>11 DEF InsertPayer, LinkStates
    <2>3. Rest
      BY <1>1, <1>11, <2>2 DEF Rest, InsertPayer
    <2> QED
      BY <1>2, <1>11, <2>1, <2>3 DEF InsertPayer, StageOf
  <1>12. CASE PayerAnswered(r)
    BY <1>2, <1>3, <1>4, <1>12 DEF PayerAnswered
  <1>13. ASSUME NEW a \in Agents, NextAgent(r, a) PROVE WalletsInv'
    <2> DEFINE p == [q EXCEPT !.stage = "read", !.agent = a, !.todo = @ \ {a}]
    <2>1. p \in LinkStates /\ LinkHolds(p) /\ p.stage = "read"
      BY <1>1, <1>13 DEF LinkStates, LinkHolds, NextAgent
    <2>2. Becomes(r, p) /\ StageOf(r) # "insert"
      BY <1>13 DEF NextAgent, StageOf
    <2> HIDE DEF p
    <2> QED
      BY <1>2, <1>4, <1>13, <2>1, <2>2 DEF NextAgent
  <1>14. ASSUME NEW a \in Agents, RepairPayer(r, a) PROVE WalletsInv'
    <2> DEFINE p == [NoLink EXCEPT !.kind = "repair", !.stage = "read", !.owner = cookie,
                                   !.account = account[cookie], !.agent = a]
    <2>0. cookie \in Owners /\ account[cookie] \in Accounts
      BY <1>1, <1>14 DEF RepairPayer
    <2>1. p \in LinkStates /\ LinkHolds(p) /\ p.stage = "read"
      BY <2>0 DEF NoLink, LinkStates, Kinds, Scopes, Payers, LinkHolds
    <2>2. Becomes(r, p) /\ StageOf(r) = "away"
      BY <1>14 DEF RepairPayer
    <2> HIDE DEF p
    <2> QED
      BY <1>2, <1>4, <1>14, <2>1, <2>2 DEF RepairPayer
  <1>15. ASSUME NEW a \in Agents, NEW s \in Scopes, NEW w \in Payers, RegisterPayer(r, a, s, w)
         PROVE  WalletsInv'
    <2> DEFINE p == [NoLink EXCEPT !.kind = "register", !.stage = "read", !.owner = cookie,
                                   !.account = w, !.agent = a, !.scope = s]
    <2>1. p \in LinkStates /\ LinkHolds(p) /\ p.stage = "read"
      BY <1>1, <1>15, ZenonT(40) DEF NoLink, LinkStates, Kinds, Scopes, LinkHolds, RegisterPayer
    <2>2. Becomes(r, p) /\ StageOf(r) = "away"
      BY <1>15 DEF RegisterPayer
    <2> HIDE DEF p
    <2> QED
      BY <1>2, <1>4, <1>15, <2>1, <2>2 DEF RegisterPayer
  <1> QED
    BY <1>6, <1>7, <1>8, <1>9, <1>10, <1>11, <1>12, <1>13, <1>14, <1>15

\* The owner who has lost its row has a request about to insert.
LEMMA DeactivateKeepsWalletsInv ==
  ASSUME WalletsInv, NEW r \in WalletRequests, DeactivateAccount(r)
  PROVE  WalletsInv'
  <1> DEFINE q == [walletRequest[r] EXCEPT !.stage = "insert", !.owner = cookie]
  <1>1. /\ walletRequest[r] \in LinkStates /\ LinkHolds(walletRequest[r]) /\ StageOf(r) = "post"
        /\ cookie \in Owners /\ account \in [Owners -> Accounts \cup {NoAccount}]
    BY DEF WalletsInv, AgentWalletsTypeOK, LinkStates, DeactivateAccount
  <1>2. q \in LinkStates /\ LinkHolds(q) /\ q.stage = "insert" /\ q.owner = cookie
    BY <1>1 DEF LinkStates, LinkHolds, StageOf
  <1>3. Becomes(r, q)
    BY DEF DeactivateAccount
  <1> HIDE DEF q
  <1>4. OnlyRequest(r, q)
    BY <1>2, <1>3 DEF WalletsInv, AgentWalletsTypeOK, LinkStates, Becomes, OnlyRequest
  <1>5. UNCHANGED <<accountRows, payerRow, binder, binding, tokenOwner, controller, cookie, card,
                    transfers, walletTroubles>>
    BY DEF DeactivateAccount, OfPayers, OfBindings, OfTheChain, OfScreens
  <1>6. account' \in [Owners -> Accounts \cup {NoAccount}] /\ \A o \in Owners : o # cookie => account'[o] = account[o]
    BY <1>1 DEF DeactivateAccount
  <1>7. AgentWalletsTypeOK'
    BY <1>4, <1>5, <1>6 DEF WalletsInv, AgentWalletsTypeOK, OnlyRequest, LinkStates
  <1>8. \A s \in WalletRequests : LinkHolds(walletRequest'[s])
    BY <1>2, <1>4 DEF WalletsInv, OnlyRequest
  <1>9. LinkLeavesAccount'
    <2> SUFFICES ASSUME NEW o \in Owners, walletTroubles' = 0, accountRows'[o] # {},
                        \A s \in WalletRequests : ~(walletRequest'[s].stage = "insert" /\ walletRequest'[s].owner = o)
                 PROVE  account'[o] # NoAccount
      BY DEF LinkLeavesAccount, StageOf
    <2>1. o # cookie
      BY <1>2, <1>4 DEF OnlyRequest
    <2>2. \A s \in WalletRequests : ~(StageOf(s) = "insert" /\ walletRequest[s].owner = o)
      BY <1>1, <1>4 DEF OnlyRequest, StageOf
    <2> QED
      BY <1>5, <1>6, <2>1, <2>2 DEF WalletsInv, LinkLeavesAccount
  <1> QED
    BY <1>5, <1>7, <1>8, <1>9, BindersRest DEF WalletsInv

LEMMA InsertKeepsWalletsInv ==
  ASSUME WalletsInv, NEW r \in WalletRequests, InsertAccount(r)
  PROVE  WalletsInv'
  <1> DEFINE o == walletRequest[r].owner
             todo == {a \in Agents : AutoBind /\ controller[a] = o}
             q == [walletRequest[r] EXCEPT !.stage = "pick", !.todo = todo]
  <1>1. /\ walletRequest[r] \in LinkStates /\ StageOf(r) = "insert"
        /\ walletRequest[r].kind = "link" /\ walletRequest[r].account \in Accounts /\ o \in Owners
        /\ account \in [Owners -> Accounts \cup {NoAccount}]
        /\ accountRows \in [Owners -> SUBSET Accounts]
        /\ walletTroubles \in 0 .. MaxWalletTroubles
    BY DEF WalletsInv, AgentWalletsTypeOK, LinkStates, LinkHolds, InsertAccount, StageOf
  <1>2. UNCHANGED <<payerRow, binder, binding, tokenOwner, controller, cookie, card, transfers, walletTroubles>>
    BY DEF InsertAccount, OfPayers, OfBindings, OfTheChain, OfScreens
  <1>3. CASE account[o] # NoAccount
    <2>1. Becomes(r, NoLink) /\ UNCHANGED <<account, accountRows>>
      BY <1>3 DEF InsertAccount, OfAccounts
    <2>2. NoLink \in LinkStates /\ NoLink.stage = "away" /\ LinkHolds(NoLink)
      BY DEF NoLink, LinkStates, Kinds, Scopes, LinkHolds
    <2>3. /\ payerRow' \in [PayerRows -> [agent : Agents \cup {NoAgent}, scope : Scopes,
                                          payer : Payers \cup {NoAccount},
                                          state : {"none", "active", "revoked"}]]
          /\ card' \in [Screens -> Accounts \cup {NoAccount}]
          /\ walletTroubles' \in 0 .. MaxWalletTroubles /\ walletTroubles' >= walletTroubles
      BY <1>1, <1>2 DEF WalletsInv, AgentWalletsTypeOK
    <2> QED
      BY <1>2, <1>3, <2>1, <2>2, <2>3, RequestKeepsWalletsInv
  <1>4. CASE account[o] = NoAccount
    <2>1. /\ Becomes(r, q)
          /\ account' = [account EXCEPT ![o] = walletRequest[r].account]
          /\ accountRows' = [accountRows EXCEPT ![o] = @ \cup {walletRequest[r].account}]
      BY <1>4 DEF InsertAccount
    <2>2. q \in LinkStates /\ LinkHolds(q) /\ q.stage = "pick"
      BY <1>1 DEF LinkStates, LinkHolds
    <2> HIDE DEF q
    <2>3. OnlyRequest(r, q)
      BY <2>1, <2>2 DEF WalletsInv, AgentWalletsTypeOK, LinkStates, Becomes, OnlyRequest
    <2>4. /\ account' \in [Owners -> Accounts \cup {NoAccount}]
          /\ account'[o] # NoAccount /\ \A p \in Owners : p # o => account'[p] = account[p]
      BY <1>1, <2>1, AgentWalletAssumption
    <2>5. /\ accountRows' \in [Owners -> SUBSET Accounts]
          /\ \A p \in Owners : p # o => accountRows'[p] = accountRows[p]
      BY <1>1, <2>1
    <2>6. AgentWalletsTypeOK'
      BY <1>2, <2>3, <2>4, <2>5 DEF WalletsInv, AgentWalletsTypeOK, OnlyRequest, LinkStates
    <2>7. \A s \in WalletRequests : LinkHolds(walletRequest'[s])
      BY <2>2, <2>3 DEF WalletsInv, OnlyRequest
    <2>8. LinkLeavesAccount'
      <3> SUFFICES ASSUME NEW p \in Owners, p # o, walletTroubles' = 0, accountRows'[p] # {},
                          \A s \in WalletRequests :
                             ~(walletRequest'[s].stage = "insert" /\ walletRequest'[s].owner = p)
                   PROVE  account'[p] # NoAccount
        BY <2>4 DEF LinkLeavesAccount, StageOf
      <3>1. \A s \in WalletRequests : ~(StageOf(s) = "insert" /\ walletRequest[s].owner = p)
        BY <2>3 DEF OnlyRequest, StageOf
      <3> QED
        BY <1>2, <2>4, <2>5, <3>1 DEF WalletsInv, LinkLeavesAccount
    <2> QED
      BY <1>2, <2>6, <2>7, <2>8, BindersRest DEF WalletsInv
  <1> QED
    BY <1>3, <1>4

\* What a request to bind writes is of the mint, and of the owner it found.
LEMMA BindersKeepWalletsInv ==
  ASSUME WalletsInv, NEW b \in Binders,
         \/ \E a \in Agents, k \in Accounts : AsksToBind(b, a, k)
         \/ ProveMint(b) \/ ReadBinding(b) \/ InsertBinding(b) \/ UpdateBinding(b)
  PROVE  /\ WalletsInv'
         /\ \A a \in Agents : binding[a] # Unbound => binding'[a].owner = binding[a].owner
  <1> DEFINE q == binder[b]
             Bindings == [Agents -> [owner : Owners \cup {NoOwner}, account : Accounts \cup {NoAccount}]]
  <1>1. /\ binder \in [Binders -> BindStates] /\ binding \in Bindings /\ BindingIsOfTheMint
        /\ account \in [Owners -> Accounts \cup {NoAccount}] /\ cookie \in Owners \cup {NoOwner}
        /\ q \in BindStates /\ BinderHolds(b)
    BY DEF WalletsInv, AgentWalletsTypeOK, BindStates
  <1>2. UNCHANGED <<account, accountRows, walletRequest, payerRow, tokenOwner, controller, cookie, card,
                    transfers, walletTroubles>>
    BY DEF AsksToBind, ProveMint, ReadBinding, InsertBinding, UpdateBinding, OfAccounts, OfPayers,
           OfTheChain, OfScreens
  <1>3. ASSUME binder' \in [Binders -> BindStates], \A c \in Binders : c # b => binder'[c] = binder[c],
               binding' \in Bindings, BinderHolds(b)', BindingIsOfTheMint',
               \A a \in Agents : binding[a] # Unbound => binding'[a].owner = binding[a].owner
        PROVE  WalletsInv'
    <2>1. AgentWalletsTypeOK'
      BY <1>2, <1>3 DEF WalletsInv, AgentWalletsTypeOK, BindStates
    <2>2. ASSUME NEW c \in Binders PROVE BinderHolds(c)'
      <3>1. CASE c = b
        BY <1>3, <3>1
      <3>2. CASE c # b
        <4>1. binder'[c] = binder[c] /\ BinderHolds(c)
          BY <1>3, <3>2 DEF WalletsInv
        <4>2. binder[c].stage = "update" => binding[binder[c].agent] # Unbound
          BY <4>1, AgentWalletAssumption DEF BinderHolds, Unbound
        <4> QED
          BY <1>3, <4>1, <4>2 DEF BinderHolds
      <3> QED
        BY <3>1, <3>2
    <2>3. (\A r \in WalletRequests : LinkHolds(walletRequest'[r])) /\ LinkLeavesAccount'
      BY <1>2 DEF WalletsInv, LinkLeavesAccount, StageOf
    <2> QED
      BY <1>3, <2>1, <2>2, <2>3 DEF WalletsInv
  <1>4. NoBind \in BindStates /\ NoBind.stage = "away"
    BY DEF NoBind, BindStates
  <1>5. BindEnds(b) => /\ binder' \in [Binders -> BindStates] /\ BinderHolds(b)'
                       /\ \A c \in Binders : c # b => binder'[c] = binder[c]
    BY <1>1, <1>4 DEF BindEnds, BinderHolds
  <1>6. ASSUME NEW stage \in {"read", "insert", "conflict", "update"}, BindGoes(b, stage), q.stage # "away",
               q.account = MintedTo[q.agent], stage = "update" => binding'[q.agent].owner = q.owner
        PROVE  /\ binder' \in [Binders -> BindStates] /\ BinderHolds(b)'
               /\ \A c \in Binders : c # b => binder'[c] = binder[c]
    <2>1. binder' \in [Binders -> BindStates] /\ \A c \in Binders : c # b => binder'[c] = binder[c]
      BY <1>1, <1>6 DEF BindGoes, BindStates
    <2>2. binder'[b].stage = stage /\ binder'[b].owner = q.owner /\ binder'[b].agent = q.agent
          /\ binder'[b].account = q.account
      BY <1>1, <1>6 DEF BindGoes, BindStates
    <2> QED
      BY <1>1, <1>6, <2>1, <2>2 DEF BinderHolds
  <1>7. UNCHANGED binding => /\ binding' \in Bindings /\ BindingIsOfTheMint'
                             /\ \A a \in Agents : binding[a] # Unbound => binding'[a].owner = binding[a].owner
    BY <1>1 DEF BindingIsOfTheMint
  <1>8. ASSUME q.stage \in {"insert", "update"}, q.stage = "insert" => binding[q.agent] = Unbound,
               binding' = [binding EXCEPT ![q.agent] = [owner |-> q.owner, account |-> q.account]]
        PROVE  /\ binding' \in Bindings /\ BindingIsOfTheMint'
               /\ \A a \in Agents : binding[a] # Unbound => binding'[a].owner = binding[a].owner
    <2>1. q.agent \in Agents /\ q.owner \in Owners /\ q.account \in Accounts /\ q.account = MintedTo[q.agent]
          /\ (q.stage = "update" => binding[q.agent].owner = q.owner)
      BY <1>1, <1>8 DEF BinderHolds
    <2>2. binding' \in Bindings
      BY <1>1, <1>8, <2>1
    <2>3. /\ binding'[q.agent].owner = q.owner /\ binding'[q.agent].account = q.account
          /\ \A a \in Agents : a # q.agent => binding'[a] = binding[a]
      BY <1>1, <1>8, <2>1
    <2> QED
      BY <1>1, <1>8, <2>1, <2>2, <2>3 DEF BindingIsOfTheMint
  <1>9. ASSUME NEW a \in Agents, NEW k \in Accounts, AsksToBind(b, a, k)
        PROVE  /\ WalletsInv'
               /\ \A c \in Agents : binding[c] # Unbound => binding'[c].owner = binding[c].owner
    <2>1. cookie \in Owners
      BY <1>1, <1>9 DEF AsksToBind
    <2>2. binder' \in [Binders -> BindStates] /\ (\A c \in Binders : c # b => binder'[c] = binder[c])
          /\ binder'[b] = [stage |-> "proof", owner |-> cookie, agent |-> a, account |-> k]
      BY <1>1, <1>9, <2>1 DEF AsksToBind, BindStates
    <2>3. BinderHolds(b)'
      BY <2>1, <2>2 DEF BinderHolds
    <2> QED
      BY <1>3, <1>7, <1>9, <2>2, <2>3 DEF AsksToBind
  <1>10. CASE ProveMint(b)
    BY <1>3, <1>5, <1>6, <1>7, <1>10 DEF ProveMint, MintProven
  <1>11. CASE ReadBinding(b)
    <2>1. q.account = MintedTo[q.agent] /\ q.stage # "away" /\ UNCHANGED binding
      BY <1>1, <1>11 DEF ReadBinding, BinderHolds
    <2>2. \/ BindEnds(b) \/ BindGoes(b, "insert")
          \/ BindGoes(b, "update") /\ binding[q.agent].owner = q.owner
      BY <1>11 DEF ReadBinding, OwnRow
    <2> QED
      BY <1>3, <1>5, <1>6, <1>7, <2>1, <2>2
  <1>12. CASE InsertBinding(b)
    <2>1. q.account = MintedTo[q.agent] /\ q.stage = "insert"
      BY <1>1, <1>12 DEF InsertBinding, BinderHolds
    <2>2. \/ BindGoes(b, "conflict") /\ UNCHANGED binding
          \/ /\ BindEnds(b) /\ binding[q.agent] = Unbound
             /\ binding' = [binding EXCEPT ![q.agent] = [owner |-> q.owner, account |-> q.account]]
      BY <1>12 DEF InsertBinding
    <2> QED
      BY <1>3, <1>5, <1>6, <1>7, <1>8, <2>1, <2>2
  <1>13. CASE UpdateBinding(b)
    BY <1>3, <1>5, <1>8, <1>13 DEF UpdateBinding
  <1> QED
    BY <1>9, <1>10, <1>11, <1>12, <1>13

LEMMA NextWalletsInv ==
  WalletsInv /\ [AgentWalletsNext]_walletVars
  => /\ WalletsInv'
     /\ \A a \in Agents : binding[a] # Unbound => binding'[a].owner = binding[a].owner
  <1> SUFFICES ASSUME WalletsInv, [AgentWalletsNext]_walletVars
               PROVE  /\ WalletsInv'
                      /\ \A a \in Agents : binding[a] # Unbound => binding'[a].owner = binding[a].owner
    OBVIOUS
  <1>1. CASE \E b \in Binders :
                \/ \E a \in Agents, k \in Accounts : AsksToBind(b, a, k)
                \/ ProveMint(b) \/ ReadBinding(b) \/ InsertBinding(b) \/ UpdateBinding(b)
    BY <1>1, BindersKeepWalletsInv
  <1>2. ASSUME NEW r \in WalletRequests,
               \/ \E t \in Screens, k \in Accounts : AsksToLink(r, t, k)
               \/ LinkIsShown(r) \/ RequestDies(r) \/ ReadPayer(r) \/ RevokeRead(r) \/ InsertPayer(r)
               \/ PayerAnswered(r)
               \/ \E a \in Agents : \/ NextAgent(r, a) \/ RepairPayer(r, a)
                                    \/ \E s \in Scopes, p \in Payers : RegisterPayer(r, a, s, p)
        PROVE  WalletsInv' /\ UNCHANGED binding
    BY <1>2, RequestsKeepWalletsInv
    DEF AsksToLink, LinkIsShown, RequestDies, ReadPayer, RevokeRead, InsertPayer, PayerAnswered, NextAgent,
        RepairPayer, RegisterPayer, OfBindings
  <1>3. CASE \E r \in WalletRequests : DeactivateAccount(r) \/ InsertAccount(r)
    BY <1>3, DeactivateKeepsWalletsInv, InsertKeepsWalletsInv DEF DeactivateAccount, InsertAccount, OfBindings
  <1>4. CASE \/ \E t \in Screens : EnsureSession(t) \/ LoadCard(t) \/ Fund(t)
             \/ \E a \in Agents, s \in Scopes : RevokePayer(a, s)
             \/ \E a \in Agents : IndexAgent(a) \/ \E p \in Payers : TransferAgent(a, p)
             \/ UNCHANGED walletVars
    BY <1>4, ScreensKeepWalletsInv
    DEF EnsureSession, LoadCard, Fund, RevokePayer, IndexAgent, TransferAgent, walletVars, OfBindings
  <1> QED
    BY <1>1, <1>2, <1>3, <1>4 DEF AgentWalletsNext, LinkNext, PayerNext, BindNext

(***************************************************************************)
(* The tools an agent pays with.  A key is with one handler at a time; one *)
(* that is paying has nothing charged for its key yet, and a charge is on  *)
(* record as a success or its handler is about to record it.               *)
(***************************************************************************)
BudgetReasons == {in.reason : in \in {i \in Asked : i.tool = SetsBudget}}

Writes == [reason : BudgetReasons \cup {NoKey}, state : {"none", "executing", "confirmed", "failed", "unknown"},
           caller : Invocations \cup {NoInput}]

Pays(c, k)    == run[c] = "paying" /\ KeyFor(c, item[c]) = k
HasPaid(c, k) == run[c] = "paid" /\ KeyFor(c, item[c]) = k

ToolsTyped ==
    /\ input \in [Invocations -> Asked \cup {NoInput}]
    /\ reply \in [Invocations -> {"none", "waiting", "ok", "error", "lost", "timeout"}]
    /\ run \in [Invocations -> {"none", "sent", "next", "paying", "paid", "writing", "done"}]
    /\ item \in [Invocations -> Nat \ {0}]
    /\ settled \subseteq attempted
    /\ writes \in [Amounts -> Writes]
    /\ budget \in Amounts \cup {0}
    /\ seen \in [Invocations -> SUBSET (Amounts \cup {0})]
    /\ lost \in 0 .. MaxLostMessages

HandlerFits(c) ==
    /\ reply[c] = "none" => run[c] = "none"
    /\ run[c] # "none" => input[c] \in Asked /\ AdapterPasses(input[c])
    /\ run[c] \in {"next", "paying", "paid"} =>
          input[c].tool \in Payments /\ item[c] \in 1 .. Len(input[c].payments)
    /\ run[c] \in {"paying", "paid"} => KeyFor(c, item[c]) \in attempted
    /\ run[c] \in {"none", "sent"} => item[c] = 1

WriterFits(a) ==
    writes[a].state = "executing" =>
        LET c == writes[a].caller IN
        c \in Invocations /\ run[c] = "writing" /\ input[c].tool = SetsBudget /\ input[c].amount = a

OneAtTheKey ==
    \A k \in attempted : \A c, d \in Invocations :
        (Pays(c, k) \/ HasPaid(c, k)) /\ (Pays(d, k) \/ HasPaid(d, k)) => c = d

KeyIsFresh(c, k) ==
    /\ Pays(c, k) => k \notin settled /\ \A x \in charges : x.key # k
    /\ HasPaid(c, k) => \E x \in charges : x.key = k /\ x.by = c /\ x.at = item[c]

FreshKeys == \A c \in Invocations, k \in attempted : KeyIsFresh(c, k)

ChargeFits(x) ==
    /\ x.by \in Invocations /\ run[x.by] \in {"next", "paying", "paid", "done"}
    /\ input[x.by].tool \in Payments
    /\ x.at \in 1 .. item[x.by] /\ (run[x.by] \in {"next", "paying"} => x.at < item[x.by])
    /\ x = [key |-> KeyFor(x.by, x.at), by |-> x.by, at |-> x.at, host |-> input[x.by].payments[x.at].host]
    /\ x.key \in attempted
    /\ x.key \in settled \/ \E d \in Invocations : HasPaid(d, x.key)

ChargesDiffer == \A x, y \in charges : x.key = y.key => x = y

\* One of the payments d asked for has the key k, and its host was paid.
WasCharged(d, k) ==
    /\ run[d] # "none" /\ input[d].tool \in Payments
    /\ \E i \in 1 .. Len(input[d].payments) :
          KeyFor(d, i) = k /\ \E x \in charges : x.host = input[d].payments[i].host

SettledWasCharged == \A k \in settled : \E d \in Invocations : WasCharged(d, k)

ReplyFits(c) ==
    /\ reply[c] = "ok" /\ input[c].tool = "x402_pay" => \E x \in charges : x.host = input[c].payments[1].host
    /\ reply[c] = "error" => run[c] \in {"none", "done"} /\ \A x \in charges : x.by # c

PayInv ==
    /\ \A c \in Invocations : HandlerFits(c)
    /\ OneAtTheKey /\ FreshKeys /\ (\A x \in charges : ChargeFits(x))
    /\ ChargesDiffer /\ SettledWasCharged

ToolInv ==
    /\ ToolsTyped /\ PayInv
    /\ \A a \in Amounts : WriterFits(a)
    /\ \A c \in Invocations : ReplyFits(c)

LEMMA InitToolInv == ToolInit => ToolInv
  <1> SUFFICES ASSUME ToolInit PROVE ToolInv
    OBVIOUS
  <1> USE DEF ToolInit
  <1>1. ToolsTyped
    <2>1. NoWrite \in Writes
      BY DEF NoWrite, Writes
    <2>2. writes \in [Amounts -> Writes] /\ budget \in Amounts \cup {0}
      BY <2>1
    <2>3. /\ input \in [Invocations -> Asked \cup {NoInput}]
          /\ reply \in [Invocations -> {"none", "waiting", "ok", "error", "lost", "timeout"}]
          /\ run \in [Invocations -> {"none", "sent", "next", "paying", "paid", "writing", "done"}]
      OBVIOUS
    <2>4. item \in [Invocations -> Nat \ {0}] /\ seen \in [Invocations -> SUBSET (Amounts \cup {0})]
      OBVIOUS
    <2>5. settled \subseteq attempted /\ lost \in 0 .. MaxLostMessages
      BY AskedAssumption
    <2> QED
      BY <2>2, <2>3, <2>4, <2>5, Zenon DEF ToolsTyped
  <1>2. PayInv
    <2>1. \A c \in Invocations : run[c] = "none" /\ reply[c] = "none"
      OBVIOUS
    <2>2. attempted = {} /\ settled = {} /\ charges = {}
      OBVIOUS
    <2> QED
      BY <2>1, <2>2 DEF PayInv, HandlerFits, OneAtTheKey, FreshKeys, ChargesDiffer, SettledWasCharged
  <1>3. (\A a \in Amounts : WriterFits(a)) /\ \A c \in Invocations : ReplyFits(c)
    BY DEF WriterFits, NoWrite, ReplyFits
  <1> QED
    BY <1>1, <1>2, <1>3 DEF ToolInv

\* Nobody but c moves, and c keeps its input unless it had none.
Touches(c) ==
    /\ \A d \in Invocations :
          d # c => input'[d] = input[d] /\ reply'[d] = reply[d] /\ run'[d] = run[d] /\ item'[d] = item[d]
    /\ run[c] = "none" \/ input'[c] = input[c]

LEMMA HandsOff ==
  ASSUME NEW d, input'[d] = input[d], run'[d] = run[d], item'[d] = item[d]
  PROVE  \A k : (Pays(d, k)' <=> Pays(d, k)) /\ (HasPaid(d, k)' <=> HasPaid(d, k))
  BY DEF Pays, HasPaid, KeyFor

LEMMA KeysStay ==
  ASSUME NEW d, NEW i, input'[d] = input[d]
  PROVE  KeyFor(d, i)' = KeyFor(d, i)
  BY DEF KeyFor

\* A handler ends its turn at the key, if it had one: nothing is charged, and
\* what it has been charged for is on record.
LEMMA LeavingKeepsPayInv ==
  ASSUME PayInv, ToolsTyped, NEW c \in Invocations, Touches(c), HandlerFits(c)',
         charges' = charges, attempted' = attempted,
         \/ settled' = settled
         \/ \E k \in attempted : /\ Pays(c, k) \/ HasPaid(c, k)
                                 /\ WasCharged(c, k) /\ settled' = settled \cup {k},
         \A k : HasPaid(c, k) => k \in settled',
         run'[c] \in {"none", "sent", "next", "writing", "done"},
         run[c] \in {"next", "paying", "paid"} => run'[c] \in {"next", "done"},
         run[c] = "done" => run'[c] = "done", run[c] # "none" => run'[c] # "none",
         item'[c] \in Nat, item'[c] >= item[c], run'[c] = "next" => run[c] \in {"sent", "next"} \/ item'[c] > item[c]
  PROVE  PayInv'
  <1>1. \A d \in Invocations : d # c => \A k : (Pays(d, k)' <=> Pays(d, k)) /\ (HasPaid(d, k)' <=> HasPaid(d, k))
    BY HandsOff DEF Touches
  <1>2. \A k : ~Pays(c, k)' /\ ~HasPaid(c, k)'
    BY DEF Pays, HasPaid
  <1>3. \A d \in Invocations : HandlerFits(d)'
    <2> SUFFICES ASSUME NEW d \in Invocations, d # c PROVE HandlerFits(d)'
      OBVIOUS
    <2>1. HandlerFits(d)
      BY DEF PayInv
    <2>2. \A i : KeyFor(d, i)' = KeyFor(d, i)
      BY KeysStay DEF Touches
    <2> QED
      BY <2>1, ZenonT(40) DEF HandlerFits, Touches, AdapterPasses, PayPasses, BudgetPasses, KeyFor
  <1>4. OneAtTheKey'
    BY <1>1, <1>2 DEF PayInv, OneAtTheKey
  <1>5. FreshKeys'
    <2> SUFFICES ASSUME NEW d \in Invocations, NEW k \in attempted, d # c PROVE KeyIsFresh(d, k)'
      BY <1>2 DEF FreshKeys, KeyIsFresh
    <2>1. KeyIsFresh(d, k) /\ item'[d] = item[d]
      BY DEF PayInv, FreshKeys, Touches
    <2>2. Pays(d, k) => k \notin settled'
      <3> SUFFICES ASSUME Pays(d, k), NEW l \in attempted, Pays(c, l) \/ HasPaid(c, l),
                          settled' = settled \cup {l}
                   PROVE  k \notin settled'
        BY <2>1 DEF KeyIsFresh
      <3>1. l # k
        BY DEF PayInv, OneAtTheKey
      <3> QED
        BY <2>1, <3>1 DEF KeyIsFresh
    <2> QED
      BY <1>1, <2>1, <2>2 DEF KeyIsFresh
  <1>6. ASSUME NEW x \in charges PROVE ChargeFits(x)'
    <2>1. ChargeFits(x)
      BY DEF PayInv
    <2>2. x.by \in Invocations /\ input'[x.by] = input[x.by]
      BY <2>1 DEF ChargeFits, Touches
    <2>3. KeyFor(x.by, x.at)' = KeyFor(x.by, x.at)
      BY <2>2, KeysStay
    <2>4. x.key \in settled' \/ \E d \in Invocations : HasPaid(d, x.key)'
      BY <1>1, <2>1 DEF ChargeFits
    <2>5. /\ run'[x.by] \in {"next", "paying", "paid", "done"}
          /\ x.at \in 1 .. item'[x.by] /\ (run'[x.by] \in {"next", "paying"} => x.at < item'[x.by])
      <3>1. CASE x.by = c
        <4>1. item[c] \in Nat
          BY DEF ToolsTyped
        <4> QED
          BY <2>1, <3>1, <4>1 DEF ChargeFits
      <3>2. CASE x.by # c
        BY <2>1, <2>2, <3>2 DEF ChargeFits, Touches
      <3> QED
        BY <3>1, <3>2
    <2> QED
      BY <2>1, <2>2, <2>3, <2>4, <2>5 DEF ChargeFits
  <1>7. ChargesDiffer'
    BY DEF PayInv, ChargesDiffer
  <1>8. SettledWasCharged'
    <2>1. ASSUME NEW d \in Invocations, NEW k, WasCharged(d, k) PROVE WasCharged(d, k)'
      <3>1. input'[d] = input[d] /\ run'[d] # "none"
        BY <2>1 DEF WasCharged, Touches
      <3>2. \A i : KeyFor(d, i)' = KeyFor(d, i)
        BY <3>1, KeysStay
      <3> QED
        BY <2>1, <3>1, <3>2 DEF WasCharged
    <2> QED
      BY <2>1 DEF PayInv, SettledWasCharged
  <1> QED
    BY <1>3, <1>4, <1>5, <1>6, <1>7, <1>8 DEF PayInv

\* The remaining parts, when the mover is not the writer of a budget.
LEMMA TouchKeepsToolInv ==
  ASSUME ToolInv, NEW c \in Invocations, Touches(c), ToolsTyped', PayInv', ReplyFits(c)',
         UNCHANGED writes, run[c] # "writing", charges \subseteq charges', \A x \in charges' \ charges : x.by = c
  PROVE  ToolInv'
  <1>1. \A a \in Amounts : WriterFits(a)'
    BY DEF ToolInv, WriterFits, Touches
  <1>2. ASSUME NEW d \in Invocations, d # c PROVE ReplyFits(d)'
    BY <1>2 DEF ToolInv, ReplyFits, Touches
  <1> QED
    BY <1>1, <1>2 DEF ToolInv

\* A change of what the agent is told, and of nothing else.
LEMMA PayInvRests ==
  ASSUME PayInv, UNCHANGED <<input, run, item, attempted, settled, charges>>,
         \A c \in Invocations : reply'[c] = "none" => reply[c] = "none"
  PROVE  PayInv'
  <1>1. \A d \in Invocations : \A k : (Pays(d, k)' <=> Pays(d, k)) /\ (HasPaid(d, k)' <=> HasPaid(d, k))
    BY HandsOff
  <1>2. \A d, i : KeyFor(d, i)' = KeyFor(d, i)
    BY KeysStay
  <1>3. \A d \in Invocations : HandlerFits(d)'
    BY DEF PayInv, HandlerFits, AdapterPasses, PayPasses, BudgetPasses, KeyFor
  <1>4. OneAtTheKey' /\ FreshKeys' /\ ChargesDiffer'
    BY <1>1 DEF PayInv, OneAtTheKey, FreshKeys, KeyIsFresh, ChargesDiffer
  <1>5. \A x \in charges : ChargeFits(x)'
    BY <1>1, <1>2 DEF PayInv, ChargeFits
  <1>6. SettledWasCharged'
    BY <1>2 DEF PayInv, SettledWasCharged, WasCharged
  <1> QED
    BY <1>3, <1>4, <1>5, <1>6 DEF PayInv

LEMMA TellGives ==
  ASSUME ToolsTyped, NEW c \in Invocations, NEW what \in {"ok", "error"}, Tell(c, what)
  PROVE  /\ run' \in [Invocations -> {"none", "sent", "next", "paying", "paid", "writing", "done"}]
         /\ reply' \in [Invocations -> {"none", "waiting", "ok", "error", "lost", "timeout"}]
         /\ run'[c] = "done" /\ reply'[c] = IF reply[c] = "waiting" THEN what ELSE reply[c]
         /\ \A d \in Invocations : d # c => run'[d] = run[d] /\ reply'[d] = reply[d]
         /\ UNCHANGED <<input, seen, lost>>
  BY DEF ToolsTyped, Tell

\* Equal keys are for one host.
LEMMA KeysMeet ==
  ASSUME OneHostPerKey, NEW c \in Invocations, NEW d \in Invocations,
         HandlerFits(c), HandlerFits(d), run[c] # "none", run[d] # "none",
         input[c].tool \in Payments, input[d].tool \in Payments,
         NEW i \in 1 .. Len(input[c].payments), NEW j \in 1 .. Len(input[d].payments),
         KeyFor(c, i) = KeyFor(d, j)
  PROVE  input[c].payments[i].host = input[d].payments[j].host
  <1> DEFINE p == input[c].payments[i]
             q == input[d].payments[j]
  <1>1. KeyFor(c, i) = IF p.key # NoKey THEN <<"given", p.key>>
                       ELSE IF input[c].batch # NoKey THEN <<"batch", input[c].batch, i, p>>
                       ELSE <<"random", c, i>>
    BY DEF KeyFor
  <1>2. KeyFor(d, j) = IF q.key # NoKey THEN <<"given", q.key>>
                       ELSE IF input[d].batch # NoKey THEN <<"batch", input[d].batch, j, q>>
                       ELSE <<"random", d, j>>
    BY DEF KeyFor
  <1>3. /\ input[c] \in {in \in Asked : in.tool \in Payments /\ PayPasses(in)} /\ i \in DOMAIN input[c].payments
        /\ input[d] \in {in \in Asked : in.tool \in Payments /\ PayPasses(in)} /\ j \in DOMAIN input[d].payments
    BY AskedAssumption DEF HandlerFits, AdapterPasses, Payments
  <1>4. p.key = q.key /\ p.key # NoKey => p.host = q.host
    BY <1>3 DEF OneHostPerKey
  <1>5. (p.key = q.key /\ p.key # NoKey) \/ p = q \/ (c = d /\ i = j)
    <2> HIDE DEF p, q
    <2>1. KeyFor(c, i)[1] = KeyFor(d, j)[1]
      OBVIOUS
    <2>2. CASE p.key # NoKey
      <3>1. KeyFor(c, i) = <<"given", p.key>>
        BY <1>1, <2>2
      <3>2. KeyFor(d, j)[1] = "given"
        BY <2>1, <3>1
      <3>3. KeyFor(d, j) = <<"given", q.key>> /\ q.key # NoKey
        BY <1>2, <3>2
      <3>4. <<"given", p.key>> = <<"given", q.key>>
        BY <3>1, <3>3, Zenon
      <3> QED
        BY <2>2, <3>4
    <2>3. CASE p.key = NoKey /\ input[c].batch # NoKey
      <3>1. KeyFor(c, i) = <<"batch", input[c].batch, i, p>>
        BY <1>1, <2>3
      <3>2. KeyFor(d, j)[1] = "batch"
        BY <2>1, <3>1
      <3>3. KeyFor(d, j) = <<"batch", input[d].batch, j, q>>
        BY <1>2, <3>2
      <3>4. <<"batch", input[c].batch, i, p>> = <<"batch", input[d].batch, j, q>>
        BY <3>1, <3>3, Zenon
      <3> QED
        BY <3>4
    <2>4. CASE p.key = NoKey /\ input[c].batch = NoKey
      <3>1. KeyFor(c, i) = <<"random", c, i>>
        BY <1>1, <2>4
      <3>2. KeyFor(d, j)[1] = "random"
        BY <2>1, <3>1
      <3>3. KeyFor(d, j) = <<"random", d, j>>
        BY <1>2, <3>2
      <3>4. <<"random", c, i>> = <<"random", d, j>>
        BY <3>1, <3>3, Zenon
      <3> QED
        BY <3>4
    <2> QED
      BY <2>2, <2>3, <2>4
  <1> QED
    BY <1>4, <1>5

\* Two payments of one purpose have one key.
LEMMA PurposesMeet ==
  ASSUME NEW c, NEW d, NEW i, NEW j, Purpose(c, i) = Purpose(d, j)
  PROVE  KeyFor(c, i) = KeyFor(d, j)
  <1> DEFINE p == input[c].payments[i]
             q == input[d].payments[j]
  <1>1. Purpose(c, i) = IF p.key # NoKey THEN <<p.key>>
                        ELSE IF input[c].batch # NoKey THEN <<input[c].batch, i, p>>
                        ELSE <<c, i>>
    BY DEF Purpose
  <1>2. Purpose(d, j) = IF q.key # NoKey THEN <<q.key>>
                        ELSE IF input[d].batch # NoKey THEN <<input[d].batch, j, q>>
                        ELSE <<d, j>>
    BY DEF Purpose
  <1>3. KeyFor(c, i) = IF p.key # NoKey THEN <<"given", p.key>>
                       ELSE IF input[c].batch # NoKey THEN <<"batch", input[c].batch, i, p>>
                       ELSE <<"random", c, i>>
    BY DEF KeyFor
  <1>4. KeyFor(d, j) = IF q.key # NoKey THEN <<"given", q.key>>
                       ELSE IF input[d].batch # NoKey THEN <<"batch", input[d].batch, j, q>>
                       ELSE <<"random", d, j>>
    BY DEF KeyFor
  <1> HIDE DEF p, q
  <1>5. CASE p.key # NoKey
    <2>1. Purpose(c, i) = <<p.key>>
      BY <1>1, <1>5
    <2>2. \A x, y, z : <<p.key>> # <<x, y>> /\ <<p.key>> # <<x, y, z>>
      OBVIOUS
    <2>3. <<p.key>> = Purpose(d, j)
      BY <2>1, Zenon
    <2>4. q.key # NoKey
      BY <1>2, <2>2, <2>3, Zenon
    <2>5. <<p.key>> = <<q.key>>
      BY <1>2, <2>3, <2>4
    <2> QED
      BY <1>3, <1>4, <1>5, <2>4, <2>5
  <1>6. CASE p.key = NoKey /\ input[c].batch # NoKey
    <2>1. Purpose(c, i) = <<input[c].batch, i, p>>
      BY <1>1, <1>6
    <2>2. \A x, y, z, u, v : <<x, y, z>> # <<u>> /\ <<x, y, z>> # <<u, v>>
      OBVIOUS
    <2>3. <<input[c].batch, i, p>> = Purpose(d, j)
      BY <2>1, Zenon
    <2>4. q.key = NoKey /\ input[d].batch # NoKey
      BY <1>2, <2>2, <2>3, Zenon
    <2>5. <<input[c].batch, i, p>> = <<input[d].batch, j, q>>
      BY <1>2, <2>3, <2>4
    <2> QED
      BY <1>3, <1>4, <1>6, <2>4, <2>5
  <1>7. CASE p.key = NoKey /\ input[c].batch = NoKey
    <2>1. Purpose(c, i) = <<c, i>>
      BY <1>1, <1>7
    <2>2. \A x, y, z, u, v : <<x, y>> # <<u>> /\ <<x, y>> # <<z, u, v>>
      OBVIOUS
    <2>3. <<c, i>> = Purpose(d, j)
      BY <2>1, Zenon
    <2>4. q.key = NoKey /\ input[d].batch = NoKey
      BY <1>2, <2>2, <2>3, Zenon
    <2>5. <<c, i>> = <<d, j>>
      BY <1>2, <2>3, <2>4
    <2> QED
      BY <1>3, <1>4, <1>7, <2>4, <2>5
  <1> QED
    BY <1>5, <1>6, <1>7

LEMMA SuccessKeepsToolInv ==
  ASSUME ToolInv, NEW c \in Invocations, run[c] \in {"next", "paying", "paid"}, ItemSucceeds(c),
         UNCHANGED <<attempted, charges, writes, budget>>,
         settled' = settled \cup {KeyFor(c, item[c])}, KeyFor(c, item[c]) \in attempted,
         run[c] = "next" => KeyFor(c, item[c]) \in settled,
         \E x \in charges : x.host = PaymentAt(c).host
  PROVE  ToolInv'
  <1> DEFINE k == KeyFor(c, item[c])
  <1>1. /\ ToolsTyped /\ PayInv /\ HandlerFits(c) /\ ReplyFits(c)
        /\ reply[c] \notin {"none", "error"} /\ item[c] \in Nat /\ item[c] >= 1
        /\ item \in [Invocations -> Nat \ {0}]
    BY DEF ToolInv, PayInv, ToolsTyped, HandlerFits, ReplyFits
  <1>2. /\ input[c] \in Asked /\ input[c].tool \in Payments /\ item[c] \in 1 .. Len(input[c].payments)
        /\ Len(input[c].payments) \in Nat /\ (input[c].tool = "x402_pay" => Len(input[c].payments) = 1)
    BY <1>1, AskedAssumption DEF HandlerFits, Payments
  <1>3. WasCharged(c, k)
    BY <1>2 DEF WasCharged, PaymentAt
  <1>4. \/ settled' = settled
        \/ \E l \in attempted : /\ Pays(c, l) \/ HasPaid(c, l)
                                /\ WasCharged(c, l) /\ settled' = settled \cup {l}
    BY <1>3 DEF Pays, HasPaid
  <1>5. \A l : HasPaid(c, l) => l \in settled'
    BY DEF HasPaid
  <1>6. CASE item[c] < Len(input[c].payments)
    <2>1. /\ item' = [item EXCEPT ![c] = @ + 1] /\ run' = [run EXCEPT ![c] = "next"]
          /\ UNCHANGED <<input, reply, seen, lost>>
      BY <1>6 DEF ItemSucceeds, clientVars
    <2>2. /\ run' \in [Invocations -> {"none", "sent", "next", "paying", "paid", "writing", "done"}]
          /\ run'[c] = "next" /\ \A d \in Invocations : d # c => run'[d] = run[d]
      BY <1>1, <2>1 DEF ToolsTyped
    <2>3. /\ item' \in [Invocations -> Nat \ {0}]
          /\ item'[c] = item[c] + 1 /\ \A d \in Invocations : d # c => item'[d] = item[d]
      <3>1. item' = [d \in Invocations |-> IF d = c THEN item[c] + 1 ELSE item[d]]
        BY <1>1, <2>1
      <3> QED
        BY <1>1, <3>1
    <2>4. Touches(c) /\ HandlerFits(c)'
      BY <1>1, <1>2, <1>6, <2>1, <2>2, <2>3
      DEF Touches, HandlerFits, AdapterPasses, PayPasses, BudgetPasses
    <2>5. ToolsTyped'
      BY <1>1, <2>1, <2>2, <2>3 DEF ToolsTyped
    <2>6. PayInv'
      <3>1. item'[c] \in Nat /\ item'[c] > item[c] /\ item'[c] >= item[c]
        BY <1>1, <2>3
      <3> QED
        BY <1>1, <1>4, <1>5, <2>2, <2>4, <3>1, LeavingKeepsPayInv
    <2>7. ReplyFits(c)'
      BY <1>1, <2>1 DEF ReplyFits
    <2> QED
      BY <2>4, <2>5, <2>6, <2>7, TouchKeepsToolInv
  <1>7. CASE ~(item[c] < Len(input[c].payments))
    <2>1. Tell(c, "ok") /\ UNCHANGED item
      BY <1>7 DEF ItemSucceeds
    <2>2. /\ run' \in [Invocations -> {"none", "sent", "next", "paying", "paid", "writing", "done"}]
          /\ reply' \in [Invocations -> {"none", "waiting", "ok", "error", "lost", "timeout"}]
          /\ run'[c] = "done" /\ reply'[c] = IF reply[c] = "waiting" THEN "ok" ELSE reply[c]
          /\ \A d \in Invocations : d # c => run'[d] = run[d] /\ reply'[d] = reply[d]
          /\ UNCHANGED <<input, seen, lost>>
      BY <1>1, <2>1, TellGives
    <2>3. Touches(c) /\ HandlerFits(c)'
      BY <1>1, <1>2, <2>1, <2>2 DEF Touches, HandlerFits, AdapterPasses, PayPasses, BudgetPasses
    <2>4. ToolsTyped'
      BY <1>1, <2>1, <2>2 DEF ToolsTyped
    <2>5. PayInv'
      BY <1>1, <1>4, <1>5, <2>1, <2>2, <2>3, LeavingKeepsPayInv
    <2>6. ReplyFits(c)'
      <3>1. input[c].tool = "x402_pay" => item[c] = 1
        <4> DEFINE n == Len(input[c].payments)
        <4>1. item[c] \in 1 .. n /\ n \in Nat /\ (input[c].tool = "x402_pay" => n = 1)
          BY <1>2
        <4> HIDE DEF n
        <4> QED
          BY <1>1, <4>1
      <3>2. input[c].tool = "x402_pay" => \E x \in charges : x.host = input[c].payments[1].host
        BY <3>1 DEF PaymentAt
      <3> QED
        BY <1>1, <2>2, <3>2 DEF ReplyFits
    <2> QED
      BY <2>3, <2>4, <2>5, <2>6, TouchKeepsToolInv
  <1> QED
    BY <1>6, <1>7

\* A key that is taken for a payment is neither on record nor charged for.
LEMMA TakeItemKeepsToolInv ==
  ASSUME OneHostPerKey, ToolInv, NEW c \in Invocations, TakeItem(c)
  PROVE  ToolInv'
  <1> DEFINE k == KeyFor(c, item[c])
  <1>1. /\ ToolsTyped /\ PayInv /\ HandlerFits(c) /\ ReplyFits(c) /\ run[c] = "next"
        /\ \A d \in Invocations : HandlerFits(d)
    BY DEF ToolInv, PayInv, TakeItem
  <1>2. CASE AlreadyPaid(c, k)
    <2>1. ItemSucceeds(c) /\ UNCHANGED <<attempted, settled, charges, writes, budget>> /\ k \in settled
      BY <1>2 DEF TakeItem, AlreadyPaid, payVars
    <2>2. PICK d \in Invocations : WasCharged(d, k)
      BY <1>1, <2>1 DEF PayInv, SettledWasCharged
    <2>3. PICK i \in 1 .. Len(input[d].payments) :
             KeyFor(d, i) = k /\ \E x \in charges : x.host = input[d].payments[i].host
      BY <2>2 DEF WasCharged
    <2>4. input[d].payments[i].host = PaymentAt(c).host
      <3>1. run[d] # "none" /\ input[d].tool \in Payments /\ input[c].tool \in Payments
            /\ item[c] \in 1 .. Len(input[c].payments)
        BY <1>1, <2>2 DEF WasCharged, HandlerFits
      <3> QED
        BY <1>1, <2>3, <3>1, KeysMeet DEF PaymentAt
    <2>5. k \in attempted /\ settled' = settled \cup {k}
      BY <1>1, <2>1 DEF ToolsTyped
    <2> QED
      BY <1>1, <2>1, <2>3, <2>4, <2>5, SuccessKeepsToolInv
  <1>3. CASE ~AlreadyPaid(c, k)
    <2>1. /\ attempted' = attempted \cup {k} /\ run' = [run EXCEPT ![c] = "paying"]
          /\ UNCHANGED <<input, reply, seen, lost, item, settled, charges, writes, budget>>
          /\ k \notin settled
          /\ \A d \in Invocations : ~Pays(d, k) /\ ~HasPaid(d, k)
      BY <1>3 DEF TakeItem, AlreadyPaid, clientVars, KeyLocked, Pays, HasPaid
    <2>2. /\ run' \in [Invocations -> {"none", "sent", "next", "paying", "paid", "writing", "done"}]
          /\ run'[c] = "paying" /\ \A d \in Invocations : d # c => run'[d] = run[d]
      BY <1>1, <2>1 DEF ToolsTyped
    <2>3. ToolsTyped'
      BY <1>1, <2>1, <2>2 DEF ToolsTyped
    <2>4. \A d \in Invocations : \A i : KeyFor(d, i)' = KeyFor(d, i)
      BY <2>1, KeysStay
    <2>5. \A d \in Invocations : d # c => \A l : (Pays(d, l)' <=> Pays(d, l)) /\ (HasPaid(d, l)' <=> HasPaid(d, l))
      BY <2>1, <2>2, HandsOff
    <2>6. \A l : (Pays(c, l)' <=> l = k) /\ ~HasPaid(c, l)'
      BY <2>1, <2>2 DEF Pays, HasPaid, KeyFor
    <2>7. \A d \in Invocations : HandlerFits(d)'
      <3>1. HandlerFits(c)'
        BY <1>1, <2>1, <2>2 DEF HandlerFits, AdapterPasses, PayPasses, BudgetPasses, KeyFor
      <3>2. ASSUME NEW d \in Invocations, d # c PROVE HandlerFits(d)'
        BY <1>1, <2>1, <2>2, <3>2 DEF HandlerFits, AdapterPasses, PayPasses, BudgetPasses, KeyFor
      <3> QED
        BY <3>1, <3>2
    <2>8. \A d \in Invocations : \A l : Pays(d, l) \/ HasPaid(d, l) => l \in attempted
      BY <1>1 DEF PayInv, HandlerFits, Pays, HasPaid
    <2>9. OneAtTheKey'
      BY <1>1, <2>1, <2>5, <2>6, <2>8 DEF PayInv, OneAtTheKey
    <2>10. \A x \in charges : x.key # k
      BY <1>1, <2>1 DEF PayInv, ChargeFits
    <2>11. FreshKeys'
      BY <1>1, <2>1, <2>5, <2>6, <2>8, <2>10 DEF PayInv, FreshKeys, KeyIsFresh
    <2>12. \A x \in charges : ChargeFits(x)'
      <3> SUFFICES ASSUME NEW x \in charges PROVE ChargeFits(x)'
        OBVIOUS
      <3>1. ChargeFits(x)
        BY <1>1 DEF PayInv
      <3>2. KeyFor(x.by, x.at)' = KeyFor(x.by, x.at)
        BY <2>1, KeysStay
      <3>3. x.key \in settled' \/ \E d \in Invocations : HasPaid(d, x.key)'
        BY <1>1, <2>1, <2>5, <3>1 DEF ChargeFits, HasPaid
      <3> QED
        BY <1>1, <2>1, <2>2, <3>1, <3>2, <3>3 DEF ChargeFits
    <2>13. ChargesDiffer' /\ SettledWasCharged'
      BY <1>1, <2>1, <2>2, <2>4 DEF PayInv, ChargesDiffer, SettledWasCharged, WasCharged
    <2>14. PayInv'
      BY <2>1, <2>7, <2>9, <2>11, <2>12, <2>13 DEF PayInv
    <2>15. Touches(c) /\ ReplyFits(c)'
      BY <1>1, <2>1, <2>2 DEF Touches, ReplyFits
    <2> QED
      BY <1>1, <2>1, <2>3, <2>14, <2>15, TouchKeepsToolInv
  <1> QED
    BY <1>2, <1>3

\* The charge is the only one with its key, and of its handler's own payment.
LEMMA ChargeKeepsToolInv ==
  ASSUME ToolInv, NEW c \in Invocations, ServiceCharges(c)
  PROVE  ToolInv'
  <1> DEFINE k == KeyFor(c, item[c])
             new == [key |-> k, by |-> c, at |-> item[c], host |-> PaymentAt(c).host]
  <1>1. /\ ToolsTyped /\ PayInv /\ HandlerFits(c) /\ ReplyFits(c) /\ run[c] = "paying"
        /\ charges' = charges \cup {new} /\ run' = [run EXCEPT ![c] = "paid"]
        /\ UNCHANGED <<input, reply, seen, lost, item, attempted, settled, writes, budget>>
    BY DEF ToolInv, PayInv, ServiceCharges, clientVars
  <1>2. /\ run' \in [Invocations -> {"none", "sent", "next", "paying", "paid", "writing", "done"}]
        /\ run'[c] = "paid" /\ \A d \in Invocations : d # c => run'[d] = run[d]
    BY <1>1 DEF ToolsTyped
  <1>3. ToolsTyped'
    BY <1>1, <1>2 DEF ToolsTyped
  <1>4. \A d \in Invocations : \A i : KeyFor(d, i)' = KeyFor(d, i)
    BY <1>1, KeysStay
  <1>5. \A d \in Invocations : d # c => \A l : (Pays(d, l)' <=> Pays(d, l)) /\ (HasPaid(d, l)' <=> HasPaid(d, l))
    BY <1>1, <1>2, HandsOff
  <1>6. \A l : ~Pays(c, l)' /\ (HasPaid(c, l)' <=> l = k) /\ (Pays(c, l) <=> l = k) /\ ~HasPaid(c, l)
    BY <1>1, <1>2 DEF Pays, HasPaid, KeyFor
  <1>7. k \in attempted /\ k \notin settled /\ \A x \in charges : x.key # k
    <2>1. k \in attempted
      BY <1>1 DEF HandlerFits
    <2> QED
      BY <1>1, <1>6, <2>1 DEF PayInv, FreshKeys, KeyIsFresh
  <1>8. \A d \in Invocations : HandlerFits(d)'
    <2> SUFFICES ASSUME NEW d \in Invocations PROVE HandlerFits(d)'
      OBVIOUS
    <2>1. HandlerFits(d)
      BY <1>1 DEF PayInv
    <2> QED
      BY <1>1, <1>2, <2>1 DEF HandlerFits, AdapterPasses, PayPasses, BudgetPasses, KeyFor
  <1>9. OneAtTheKey'
    BY <1>1, <1>5, <1>6 DEF PayInv, OneAtTheKey
  <1>10. new.key = k /\ new.by = c /\ new.at = item[c] /\ new.host = PaymentAt(c).host
    OBVIOUS
  <1>11. FreshKeys'
    <2> SUFFICES ASSUME NEW d \in Invocations, NEW l \in attempted PROVE KeyIsFresh(d, l)'
      BY <1>1 DEF FreshKeys
    <2>1. CASE d = c
      BY <1>1, <1>6, <1>10, <2>1 DEF KeyIsFresh
    <2>2. CASE d # c
      <3>1. Pays(d, l) => l # k
        BY <1>1, <1>6, <2>2 DEF PayInv, OneAtTheKey
      <3>2. KeyIsFresh(d, l)
        BY <1>1 DEF PayInv, FreshKeys
      <3>3. \A x \in charges' : x \in charges \/ x = new
        BY <1>1
      <3> QED
        BY <1>1, <1>5, <1>10, <2>2, <3>1, <3>2, <3>3 DEF KeyIsFresh
    <2> QED
      BY <2>1, <2>2
  <1>12. ASSUME NEW x \in charges' PROVE ChargeFits(x)'
    <2>1. CASE x \in charges
      <3>1. ChargeFits(x)
        BY <1>1, <2>1 DEF PayInv
      <3>2. KeyFor(x.by, x.at)' = KeyFor(x.by, x.at)
        BY <1>1, KeysStay
      <3>3. x.key \in settled' \/ \E d \in Invocations : HasPaid(d, x.key)'
        BY <1>1, <1>5, <1>6, <3>1 DEF ChargeFits
      <3> QED
        BY <1>1, <1>2, <3>1, <3>2, <3>3 DEF ChargeFits
    <2>2. CASE x = new
      <3> HIDE DEF new
      <3>1. KeyFor(x.by, x.at)' = KeyFor(x.by, x.at)
        BY <1>1, KeysStay
      <3>2. /\ x.by = c /\ x.at = item[c] /\ x.key = k /\ x.host = input[c].payments[item[c]].host
            /\ input[c].tool \in Payments /\ item[c] \in Nat \ {0}
        BY <1>1, <1>10, <2>2 DEF HandlerFits, PaymentAt, ToolsTyped
      <3>3. x = [key |-> KeyFor(x.by, x.at), by |-> x.by, at |-> x.at,
                 host |-> input[x.by].payments[x.at].host]
        BY <2>2, <3>2 DEF new, PaymentAt
      <3>4. HasPaid(c, x.key)'
        BY <1>6, <3>2
      <3> QED
        BY <1>1, <1>2, <1>7, <3>1, <3>2, <3>3, <3>4 DEF ChargeFits
    <2> QED
      BY <1>1, <2>1, <2>2
  <1>13. ChargesDiffer'
    BY <1>1, <1>7, <1>10 DEF PayInv, ChargesDiffer
  <1>14. SettledWasCharged'
    <2>1. \A d \in Invocations : \A l : WasCharged(d, l) => WasCharged(d, l)'
      BY <1>1, <1>2, <1>4 DEF WasCharged
    <2> QED
      BY <1>1, <2>1 DEF PayInv, SettledWasCharged
  <1>15. PayInv'
    BY <1>8, <1>9, <1>11, <1>12, <1>13, <1>14 DEF PayInv
  <1>16. Touches(c) /\ ReplyFits(c)'
    BY <1>1, <1>2 DEF Touches, ReplyFits
  <1>17. charges \subseteq charges' /\ \A x \in charges' \ charges : x.by = c
    BY <1>1, <1>10
  <1> QED
    BY <1>1, <1>3, <1>15, <1>16, <1>17, TouchKeepsToolInv

LEMMA ServiceKeepsToolInv ==
  ASSUME ToolInv, NEW c \in Invocations, ServiceRefuses(c) \/ ServiceIsUnlocked(c) \/ RecordPaid(c)
  PROVE  ToolInv'
  <1> DEFINE k == KeyFor(c, item[c])
  <1>1. /\ ToolsTyped /\ PayInv /\ HandlerFits(c) /\ ReplyFits(c) /\ run[c] \in {"paying", "paid"}
        /\ input[c].tool \in Payments /\ item[c] \in 1 .. Len(input[c].payments) /\ item[c] \in Nat
        /\ k \in attempted /\ reply[c] \notin {"none", "error"}
    BY DEF ToolInv, PayInv, ServiceRefuses, ServiceIsUnlocked, RecordPaid, HandlerFits, ReplyFits, ToolsTyped
  <1>2. CASE ServiceRefuses(c)
    <2>1. PICK what \in {"ok", "error"} :
             /\ Tell(c, what) /\ (what = "error" <=> input[c].tool # "x402_batch_pay")
      BY <1>2 DEF ServiceRefuses, ItemFails
    <2>2. /\ UNCHANGED <<item, attempted, settled, charges, writes, budget>> /\ run[c] = "paying"
      BY <1>2 DEF ServiceRefuses, payVars
    <2>3. /\ run' \in [Invocations -> {"none", "sent", "next", "paying", "paid", "writing", "done"}]
          /\ reply' \in [Invocations -> {"none", "waiting", "ok", "error", "lost", "timeout"}]
          /\ run'[c] = "done" /\ reply'[c] = IF reply[c] = "waiting" THEN what ELSE reply[c]
          /\ \A d \in Invocations : d # c => run'[d] = run[d] /\ reply'[d] = reply[d]
          /\ UNCHANGED <<input, seen, lost>>
      BY <1>1, <2>1, TellGives
    <2>4. Touches(c) /\ HandlerFits(c)'
      BY <1>1, <2>1, <2>2, <2>3 DEF Touches, HandlerFits, AdapterPasses, PayPasses, BudgetPasses
    <2>5. ToolsTyped'
      BY <1>1, <2>2, <2>3 DEF ToolsTyped
    <2>6. PayInv'
      <3>1. \A l : ~HasPaid(c, l)
        BY <2>2 DEF HasPaid
      <3> QED
        BY <1>1, <2>2, <2>3, <2>4, <3>1, LeavingKeepsPayInv
    <2>7. ReplyFits(c)'
      <3>1. ASSUME what = "error" PROVE \A x \in charges : x.by # c
        <4>1. item[c] = 1
          <5> DEFINE n == Len(input[c].payments)
          <5>1. item[c] \in 1 .. n /\ n = 1
            BY <1>1, <2>1, <3>1, AskedAssumption DEF HandlerFits, Payments
          <5> HIDE DEF n
          <5> QED
            BY <1>1, <5>1
        <4> QED
          BY <1>1, <2>2, <4>1 DEF PayInv, ChargeFits
      <3> QED
        BY <1>1, <2>1, <2>2, <2>3, <3>1 DEF ReplyFits, Payments
    <2> QED
      BY <2>2, <2>4, <2>5, <2>6, <2>7, TouchKeepsToolInv
  <1>3. CASE ServiceIsUnlocked(c)
    BY <1>1, <1>3, SuccessKeepsToolInv DEF ServiceIsUnlocked
  <1>4. CASE RecordPaid(c)
    <2>1. HasPaid(c, k)
      BY <1>4 DEF RecordPaid, HasPaid
    <2>2. PICK x \in charges : x.key = k /\ x.by = c /\ x.at = item[c]
      BY <1>1, <2>1 DEF PayInv, FreshKeys, KeyIsFresh
    <2>3. x.host = PaymentAt(c).host
      BY <1>1, <2>2 DEF PayInv, ChargeFits, PaymentAt
    <2> QED
      BY <1>1, <1>4, <2>2, <2>3, SuccessKeepsToolInv DEF RecordPaid
  <1> QED
    BY <1>2, <1>3, <1>4

\* A request that has not come to the key of a payment has been charged for
\* nothing, and can be answered, refused or taken up.
LEMMA SentKeepsToolInv ==
  ASSUME ToolInv, NEW c \in Invocations,
         BeginPay(c) \/ BeginBudget(c) \/ AnswerLocally(c) \/ ForwardToConsole(c)
  PROVE  ToolInv'
  <1>1. /\ ToolsTyped /\ PayInv /\ HandlerFits(c) /\ ReplyFits(c) /\ run[c] = "sent"
        /\ reply[c] \notin {"none", "error"} /\ input[c] \in Asked
        /\ UNCHANGED <<item, attempted, settled, charges, budget>>
        /\ \A a \in Amounts : WriterFits(a)
    BY DEF ToolInv, PayInv, BeginPay, BeginBudget, AnswerLocally, ForwardToConsole, HandlerFits, ReplyFits, payVars
  <1>2. \A x \in charges : x.by # c
    BY <1>1 DEF PayInv, ChargeFits
  <1>3. ASSUME Touches(c), HandlerFits(c)', run'[c] \in {"next", "writing", "done"} PROVE PayInv'
    <2>1. item'[c] \in Nat /\ item'[c] >= item[c]
      BY <1>1 DEF ToolsTyped
    <2>2. \A l : ~HasPaid(c, l)
      BY <1>1 DEF HasPaid
    <2> QED
      BY <1>1, <1>3, <2>1, <2>2, LeavingKeepsPayInv
  <1>4. ASSUME NEW what \in {"ok", "error"}, Tell(c, what), UNCHANGED writes,
               what = "ok" => input[c].tool # "x402_pay"
        PROVE  ToolInv'
    <2>1. /\ run' \in [Invocations -> {"none", "sent", "next", "paying", "paid", "writing", "done"}]
          /\ reply' \in [Invocations -> {"none", "waiting", "ok", "error", "lost", "timeout"}]
          /\ run'[c] = "done" /\ reply'[c] = IF reply[c] = "waiting" THEN what ELSE reply[c]
          /\ \A d \in Invocations : d # c => run'[d] = run[d] /\ reply'[d] = reply[d]
          /\ UNCHANGED <<input, seen, lost>>
      BY <1>1, <1>4, TellGives
    <2>2. Touches(c) /\ HandlerFits(c)'
      BY <1>1, <2>1 DEF Touches, HandlerFits, AdapterPasses, PayPasses, BudgetPasses
    <2>3. ToolsTyped'
      BY <1>1, <1>4, <2>1 DEF ToolsTyped
    <2>4. ReplyFits(c)'
      BY <1>1, <1>2, <1>4, <2>1 DEF ReplyFits
    <2> QED
      BY <1>1, <1>3, <1>4, <2>1, <2>2, <2>3, <2>4, TouchKeepsToolInv
  <1>5. ASSUME BeginPay(c), run' = [run EXCEPT ![c] = "next"], UNCHANGED clientVars PROVE ToolInv'
    <2>1. input[c].tool \in Payments /\ UNCHANGED <<input, reply, seen, lost, writes>>
      BY <1>5 DEF BeginPay, clientVars
    <2>2. /\ run' \in [Invocations -> {"none", "sent", "next", "paying", "paid", "writing", "done"}]
          /\ run'[c] = "next" /\ \A d \in Invocations : d # c => run'[d] = run[d]
      BY <1>1, <1>5 DEF ToolsTyped
    <2>3. ToolsTyped'
      BY <1>1, <2>1, <2>2 DEF ToolsTyped
    <2>4. item[c] \in 1 .. Len(input[c].payments)
      <3> DEFINE n == Len(input[c].payments)
      <3>1. item[c] = 1 /\ n \in Nat \ {0}
        BY <1>1, <2>1, AskedAssumption DEF HandlerFits, Payments
      <3> HIDE DEF n
      <3>2. item[c] \in 1 .. n
        BY <3>1
      <3> QED
        BY <3>2 DEF n
    <2>5. Touches(c) /\ HandlerFits(c)'
      BY <1>1, <2>1, <2>2, <2>4 DEF Touches, HandlerFits, AdapterPasses, PayPasses, BudgetPasses
    <2>6. ReplyFits(c)'
      BY <1>1, <2>1 DEF ReplyFits
    <2> QED
      BY <1>1, <1>3, <2>1, <2>2, <2>3, <2>5, <2>6, TouchKeepsToolInv
  <1>6. ASSUME NEW a, a = input[c].amount, input[c].tool = SetsBudget,
               \A b \in Amounts : writes[b].state # "executing",
               writes' = [writes EXCEPT ![a] = [reason |-> input[c].reason, state |-> "executing", caller |-> c]],
               run' = [run EXCEPT ![c] = "writing"], UNCHANGED clientVars
        PROVE  ToolInv'
    <2>1. a \in Amounts /\ input[c].reason \in BudgetReasons /\ UNCHANGED <<input, reply, seen, lost>>
      BY <1>1, <1>6 DEF Amounts, BudgetReasons, clientVars
    <2>2. /\ run' \in [Invocations -> {"none", "sent", "next", "paying", "paid", "writing", "done"}]
          /\ run'[c] = "writing" /\ \A d \in Invocations : d # c => run'[d] = run[d]
      BY <1>1, <1>6 DEF ToolsTyped
    <2>3. /\ writes' \in [Amounts -> Writes]
          /\ writes'[a] = [reason |-> input[c].reason, state |-> "executing", caller |-> c]
          /\ \A b \in Amounts : b # a => writes'[b] = writes[b]
      BY <1>1, <1>6, <2>1 DEF ToolsTyped, Writes
    <2>4. ToolsTyped'
      BY <1>1, <2>1, <2>2, <2>3 DEF ToolsTyped
    <2>5. Touches(c) /\ HandlerFits(c)'
      BY <1>1, <2>1, <2>2 DEF Touches, HandlerFits, AdapterPasses, PayPasses, BudgetPasses
    <2>6. \A b \in Amounts : WriterFits(b)'
      BY <1>6, <2>1, <2>2, <2>3 DEF WriterFits
    <2>7. ASSUME NEW d \in Invocations PROVE ReplyFits(d)'
      <3>1. ReplyFits(d)
        BY DEF ToolInv
      <3> QED
        BY <1>1, <2>1, <2>2, <3>1 DEF ReplyFits
    <2>8. PayInv'
      BY <1>3, <2>2, <2>5
    <2> QED
      BY <2>4, <2>6, <2>7, <2>8 DEF ToolInv
  <1>7. CASE BeginPay(c)
    BY <1>4, <1>5, <1>7 DEF BeginPay
  <1>8. CASE BeginBudget(c)
    <2>1. input[c].tool # "x402_pay" /\ input[c].tool = SetsBudget
      BY <1>8 DEF BeginBudget, SetsBudget
    <2>2. \/ /\ \E what \in {"ok", "error"} : Tell(c, what)
             /\ UNCHANGED writes
          \/ /\ \A b \in Amounts : writes[b].state # "executing"
             /\ writes' = [writes EXCEPT ![input[c].amount] =
                              [reason |-> input[c].reason, state |-> "executing", caller |-> c]]
             /\ run' = [run EXCEPT ![c] = "writing"] /\ UNCHANGED clientVars
      BY <1>8 DEF BeginBudget
    <2> QED
      BY <1>4, <1>6, <2>1, <2>2
  <1>9. CASE AnswerLocally(c) \/ ForwardToConsole(c)
    BY <1>4, <1>9 DEF AnswerLocally, ForwardToConsole, Payments, Proxied
  <1> QED
    BY <1>7, <1>8, <1>9

LEMMA ClientKeepsToolInv ==
  ASSUME ToolInv, NEW c \in Invocations, (\E in \in Asked : Invoke(c, in)) \/ GiveUp(c) \/ LoseMessage(c)
  PROVE  ToolInv'
  <1>1. /\ ToolsTyped /\ PayInv /\ HandlerFits(c) /\ ReplyFits(c)
        /\ UNCHANGED <<item, attempted, settled, charges, writes, budget>>
    BY DEF ToolInv, PayInv, Invoke, GiveUp, LoseMessage, payVars
  <1>2. ASSUME NEW in \in Asked, Invoke(c, in) PROVE ToolInv'
    <2>1. /\ reply[c] = "none" /\ run[c] = "none" /\ in.tool \in ToolsForRole
          /\ input' = [input EXCEPT ![c] = in] /\ seen' = [seen EXCEPT ![c] = {budget}] /\ UNCHANGED lost
      BY <1>1, <1>2 DEF Invoke, HandlerFits
    <2>2. PICK what \in {"ok", "error", "waiting"} :
             /\ reply' = [reply EXCEPT ![c] = what]
             /\ what = "ok" => in.tool = Quotes
             /\ \/ what # "waiting" /\ UNCHANGED run
                \/ what = "waiting" /\ AdapterPasses(in) /\ run' = [run EXCEPT ![c] = "sent"]
      BY <1>2 DEF Invoke
    <2>3. /\ input' \in [Invocations -> Asked \cup {NoInput}]
          /\ input'[c] = in /\ \A d \in Invocations : d # c => input'[d] = input[d]
      BY <1>1, <2>1 DEF ToolsTyped
    <2>4. /\ reply' \in [Invocations -> {"none", "waiting", "ok", "error", "lost", "timeout"}]
          /\ reply'[c] = what /\ \A d \in Invocations : d # c => reply'[d] = reply[d]
      BY <1>1, <2>2 DEF ToolsTyped
    <2>5. /\ run' \in [Invocations -> {"none", "sent", "next", "paying", "paid", "writing", "done"}]
          /\ run'[c] = IF what = "waiting" THEN "sent" ELSE "none"
          /\ \A d \in Invocations : d # c => run'[d] = run[d]
      BY <1>1, <2>1, <2>2 DEF ToolsTyped
    <2>6. seen' \in [Invocations -> SUBSET (Amounts \cup {0})]
      BY <1>1, <2>1 DEF ToolsTyped
    <2>7. ToolsTyped'
      BY <1>1, <2>1, <2>3, <2>4, <2>5, <2>6 DEF ToolsTyped
    <2>8. Touches(c) /\ HandlerFits(c)'
      BY <1>1, <2>1, <2>2, <2>3, <2>4, <2>5 DEF Touches, HandlerFits, AdapterPasses, PayPasses, BudgetPasses
    <2>9. PayInv'
      <3>1. item'[c] \in Nat /\ item'[c] >= item[c]
        BY <1>1 DEF ToolsTyped
      <3>2. \A l : ~HasPaid(c, l)
        BY <2>1 DEF HasPaid
      <3> QED
        BY <1>1, <2>1, <2>5, <2>8, <3>1, <3>2, LeavingKeepsPayInv
    <2>10. ReplyFits(c)'
      <3>1. \A x \in charges : x.by # c
        BY <1>1, <2>1 DEF PayInv, ChargeFits
      <3> QED
        BY <1>1, <2>2, <2>3, <2>4, <2>5, <3>1 DEF ReplyFits, Quotes
    <2> QED
      BY <1>1, <2>1, <2>7, <2>8, <2>9, <2>10, TouchKeepsToolInv
  <1>3. ASSUME reply[c] = "waiting", NEW what \in {"timeout", "lost"}, reply' = [reply EXCEPT ![c] = what],
               UNCHANGED <<input, seen>>, lost' \in 0 .. MaxLostMessages,
               UNCHANGED run \/ (run[c] = "sent" /\ run' = [run EXCEPT ![c] = "done"])
        PROVE  ToolInv'
    <2>1. /\ reply' \in [Invocations -> {"none", "waiting", "ok", "error", "lost", "timeout"}]
          /\ reply'[c] = what /\ \A d \in Invocations : d # c => reply'[d] = reply[d]
      BY <1>1, <1>3 DEF ToolsTyped
    <2>2. /\ run' \in [Invocations -> {"none", "sent", "next", "paying", "paid", "writing", "done"}]
          /\ \A d \in Invocations : d # c => run'[d] = run[d]
          /\ UNCHANGED run \/ (run[c] = "sent" /\ run'[c] = "done")
      BY <1>1, <1>3 DEF ToolsTyped
    <2>3. ToolsTyped'
      BY <1>1, <1>3, <2>1, <2>2 DEF ToolsTyped
    <2>4. CASE UNCHANGED run
      <3>1. PayInv'
        BY <1>1, <1>3, <2>1, <2>4, PayInvRests
      <3>2. \A a \in Amounts : WriterFits(a)'
        BY <1>1, <1>3, <2>4 DEF ToolInv, WriterFits
      <3>3. ASSUME NEW d \in Invocations PROVE ReplyFits(d)'
        <4>1. ReplyFits(d)
          BY DEF ToolInv
        <4> QED
          BY <1>1, <1>3, <2>1, <2>4, <4>1 DEF ReplyFits
      <3> QED
        BY <2>3, <3>1, <3>2, <3>3 DEF ToolInv
    <2>5. CASE run[c] = "sent" /\ run'[c] = "done"
      <3>1. Touches(c) /\ HandlerFits(c)'
        BY <1>1, <1>3, <2>1, <2>2, <2>5 DEF Touches, HandlerFits, AdapterPasses, PayPasses, BudgetPasses
      <3>2. item'[c] \in Nat /\ item'[c] >= item[c]
        BY <1>1 DEF ToolsTyped
      <3>3. \A l : ~HasPaid(c, l)
        BY <2>5 DEF HasPaid
      <3>4. PayInv'
        BY <1>1, <2>5, <3>1, <3>2, <3>3, LeavingKeepsPayInv
      <3>5. ReplyFits(c)'
        BY <1>1, <1>3, <2>1 DEF ReplyFits
      <3> QED
        BY <1>1, <2>3, <2>5, <3>1, <3>4, <3>5, TouchKeepsToolInv
    <2> QED
      BY <2>2, <2>4, <2>5
  <1>4. CASE GiveUp(c)
    BY <1>1, <1>3, <1>4 DEF GiveUp, ToolsTyped
  <1>5. CASE LoseMessage(c)
    <2>1. lost' \in 0 .. MaxLostMessages
      BY <1>1, <1>5, AskedAssumption DEF LoseMessage, ToolsTyped
    <2> QED
      BY <1>3, <1>5, <2>1 DEF LoseMessage
  <1> QED
    BY <1>2, <1>4, <1>5

\* The write of a budget comes to an end, or its fate does.
LEMMA BudgetKeepsToolInv ==
  ASSUME ToolInv, NEW a \in Amounts, NEW state \in {"confirmed", "failed", "unknown"}, BudgetWritten(a, state)
  PROVE  ToolInv'
  <1>1. /\ ToolsTyped /\ PayInv /\ UNCHANGED <<input, lost, item, attempted, settled, charges>>
        /\ \A b \in Amounts : WriterFits(b)
    BY DEF ToolInv, BudgetWritten, payVars
  <1>2. /\ budget' \in Amounts \cup {0} /\ writes' \in [Amounts -> Writes]
        /\ writes'[a].state = state /\ \A b \in Amounts : b # a => writes'[b] = writes[b]
    BY <1>1 DEF BudgetWritten, ToolsTyped, Writes
  <1>3. seen' \in [Invocations -> SUBSET (Amounts \cup {0})]
    BY <1>1 DEF BudgetWritten, ToolsTyped
  <1>4. CASE writes[a].state = "executing"
    <2>1. PICK c \in Invocations :
             c = writes[a].caller /\ run[c] = "writing" /\ input[c].tool = SetsBudget /\ input[c].amount = a
      BY <1>1, <1>4 DEF WriterFits
    <2>2. run' = [run EXCEPT ![c] = "done"] /\ \E what \in {"ok", "error"} :
             reply' = [reply EXCEPT ![c] = IF @ # "waiting" THEN @ ELSE what]
      BY <1>4, <2>1 DEF BudgetWritten
    <2>3. /\ run' \in [Invocations -> {"none", "sent", "next", "paying", "paid", "writing", "done"}]
          /\ run'[c] = "done" /\ \A d \in Invocations : d # c => run'[d] = run[d]
      BY <1>1, <2>1, <2>2 DEF ToolsTyped
    <2>4. PICK what \in {"ok", "error"} :
          /\ reply' \in [Invocations -> {"none", "waiting", "ok", "error", "lost", "timeout"}]
          /\ reply'[c] = (IF reply[c] # "waiting" THEN reply[c] ELSE what)
          /\ \A d \in Invocations : d # c => reply'[d] = reply[d]
      BY <1>1, <2>1, <2>2 DEF ToolsTyped
    <2>5. ToolsTyped'
      BY <1>1, <1>2, <1>3, <2>3, <2>4 DEF ToolsTyped
    <2>6. HandlerFits(c)
      BY <1>1, <2>1 DEF PayInv
    <2>7. Touches(c) /\ HandlerFits(c)'
      BY <1>1, <2>1, <2>3, <2>4, <2>6 DEF Touches, HandlerFits, AdapterPasses, PayPasses, BudgetPasses
    <2>8. PayInv'
      <3>1. item'[c] \in Nat /\ item'[c] >= item[c]
        BY <1>1, <2>1 DEF ToolsTyped
      <3>2. \A l : ~HasPaid(c, l)
        BY <2>1 DEF HasPaid
      <3> QED
        BY <1>1, <2>1, <2>3, <2>7, <3>1, <3>2, LeavingKeepsPayInv
    <2>9. ASSUME NEW b \in Amounts PROVE WriterFits(b)'
      <3>1. CASE b = a
        BY <1>2, <3>1 DEF WriterFits
      <3>2. CASE b # a
        <4>1. writes'[b] = writes[b] /\ WriterFits(b)
          BY <1>1, <1>2, <3>2
        <4> QED
          BY <1>1, <2>1, <2>3, <3>2, <4>1 DEF WriterFits
      <3> QED
        BY <3>1, <3>2
    <2>10. ASSUME NEW d \in Invocations PROVE ReplyFits(d)'
      <3>1. ReplyFits(d)
        BY DEF ToolInv
      <3>2. CASE d = c
        <4>1. \A x \in charges : x.by # c
          BY <1>1, <2>1 DEF PayInv, ChargeFits
        <4> QED
          BY <1>1, <2>1, <2>3, <2>4, <3>1, <3>2, <4>1 DEF ReplyFits, SetsBudget
      <3>3. CASE d # c
        BY <1>1, <2>3, <2>4, <3>1, <3>3 DEF ReplyFits
      <3> QED
        BY <3>2, <3>3
    <2> QED
      BY <2>5, <2>8, <2>9, <2>10 DEF ToolInv
  <1>5. CASE writes[a].state # "executing"
    <2>1. UNCHANGED <<run, reply>>
      BY <1>5 DEF BudgetWritten
    <2>2. ToolsTyped'
      BY <1>1, <1>2, <1>3, <2>1 DEF ToolsTyped
    <2>3. PayInv'
      BY <1>1, <2>1, PayInvRests
    <2>4. \A b \in Amounts : WriterFits(b)'
      BY <1>1, <1>2, <2>1 DEF WriterFits
    <2>5. \A d \in Invocations : ReplyFits(d)'
      BY <1>1, <2>1 DEF ToolInv, ReplyFits
    <2> QED
      BY <2>2, <2>3, <2>4, <2>5 DEF ToolInv
  <1> QED
    BY <1>4, <1>5

LEMMA NextToolInv == OneHostPerKey /\ ToolInv /\ [ToolNext]_toolVars => ToolInv'
  <1> SUFFICES ASSUME OneHostPerKey, ToolInv, [ToolNext]_toolVars PROVE ToolInv'
    OBVIOUS
  <1>1. CASE UNCHANGED toolVars
    <2>1. UNCHANGED <<input, reply, seen, lost, run, item, attempted, settled, charges, writes, budget>>
      BY <1>1 DEF toolVars, clientVars, payVars
    <2>2. ToolsTyped'
      BY <2>1 DEF ToolInv, ToolsTyped
    <2>3. PayInv'
      BY <2>1, PayInvRests DEF ToolInv
    <2> QED
      BY <2>1, <2>2, <2>3 DEF ToolInv, WriterFits, ReplyFits
  <1> QED
    BY <1>1, ClientKeepsToolInv, SentKeepsToolInv, TakeItemKeepsToolInv, ChargeKeepsToolInv,
       ServiceKeepsToolInv, BudgetKeepsToolInv DEF ToolNext

LEMMA ToolInvGives == ToolInv => ToolTypeOK /\ RetriesPayOnce /\ ToolTellsPayments
  <1> SUFFICES ASSUME ToolInv PROVE ToolTypeOK /\ RetriesPayOnce /\ ToolTellsPayments
    OBVIOUS
  <1>1. ToolTypeOK
    BY DEF ToolInv, ToolsTyped, PayInv, ChargeFits, ToolTypeOK
  <1>2. RetriesPayOnce
    <2> SUFFICES ASSUME NEW x \in charges, NEW y \in charges, Purpose(x.by, x.at) = Purpose(y.by, y.at)
                 PROVE  x = y
      BY DEF RetriesPayOnce
    <2>1. KeyFor(x.by, x.at) = KeyFor(y.by, y.at)
      BY PurposesMeet
    <2>2. x.key = KeyFor(x.by, x.at) /\ y.key = KeyFor(y.by, y.at)
      BY DEF ToolInv, PayInv, ChargeFits
    <2> QED
      BY <2>1, <2>2 DEF ToolInv, PayInv, ChargesDiffer
  <1>3. ToolTellsPayments
    BY DEF ToolInv, ReplyFits, ToolTellsPayments
  <1> QED
    BY <1>1, <1>2, <1>3

(***************************************************************************)
(* Credentials.  What a request has consumed, no other request holds: a    *)
(* nonce that is about to open a session has opened none, a grant that is  *)
(* about to be answered with a pair has none yet.                          *)
(***************************************************************************)
SessionRows    == [nonce : Nonces \cup {NoNonce}, state : Lives]
SignInStates   == [stage : {"away", "valid", "insert"}, nonce : Nonces \cup {NoNonce}]
ExchangeStates == [stage : {"away", "found", "consume", "access", "refresh"},
                   grant : Grants \cup {NoGrant}, pair : Pairs \cup {NoPair}]
PairRows       == [from : Grants \cup {NoGrant}, access : Lives, refresh : Lives \cup {"rotated"}]
CallStates     == [stage : {"away", "check", "serve"}, bearer : Bearers \cup {NoBearer}, late : BOOLEAN]

SessionsTyped ==
    /\ nonceRow \in [Nonces -> OnceState] /\ session \in [Logins -> SessionRows]
    /\ signIn \in [SignIns -> SignInStates] /\ jar \in Logins \cup {NoLogin}

SessionsInv ==
    /\ SessionsTyped
    /\ jar \in Logins => session[jar].state # "none"
    /\ \A v \in SignIns : signIn[v].stage # "away" => signIn[v].nonce \in Nonces
    /\ \A v \in SignIns : signIn[v].stage = "insert" => nonceRow[signIn[v].nonce] = "used"
    /\ \A v, w \in SignIns :
          signIn[v].stage = "insert" /\ signIn[w].stage = "insert" /\ signIn[v].nonce = signIn[w].nonce => v = w
    /\ \A s \in Logins : session[s].state = "none" => session[s].nonce = NoNonce
    /\ \A s \in Logins : session[s].nonce \in Nonces =>
          /\ nonceRow[session[s].nonce] = "used"
          /\ \A v \in SignIns : signIn[v].stage = "insert" => signIn[v].nonce # session[s].nonce
    /\ \A s, t \in Logins : session[s].nonce = session[t].nonce /\ session[s].nonce \in Nonces => s = t

Spent(g) == IF g \in Codes THEN code[g] = "used" ELSE pair[g].refresh = "rotated"

GrantsTyped ==
    /\ connections \in 0 .. MaxConnections /\ consent \in [Consents -> {"away", "connect", "code"}]
    /\ code \in [Codes -> OnceState] /\ exchange \in [Exchanges -> ExchangeStates]
    /\ pair \in [Pairs -> PairRows]

Answering(x) == exchange[x].stage \in {"access", "refresh"}

ExchangeHolds(x) ==
    /\ exchange[x].stage # "away" => exchange[x].grant \in Grants
    /\ Answering(x) => Spent(exchange[x].grant)
    /\ exchange[x].stage = "access" => \A p \in Pairs : pair[p].from # exchange[x].grant
    /\ exchange[x].stage = "refresh" =>
          /\ exchange[x].pair \in Pairs /\ pair[exchange[x].pair].from = exchange[x].grant
          /\ pair[exchange[x].pair].access # "none" /\ pair[exchange[x].pair].refresh = "none"

PairHolds(p) ==
    /\ pair[p].access = "none" => pair[p].from = NoGrant /\ pair[p].refresh = "none"
    /\ pair[p].from \in Grants => Spent(pair[p].from)

GrantsInv ==
    /\ GrantsTyped
    /\ \A x \in Exchanges : ExchangeHolds(x)
    /\ \A x, y \in Exchanges :
          Answering(x) /\ Answering(y) /\ exchange[x].grant = exchange[y].grant => x = y
    /\ \A p \in Pairs : PairHolds(p)
    /\ \A p, q \in Pairs : pair[p].from = pair[q].from /\ pair[p].from \in Grants => p = q

CallsTyped ==
    /\ key \in [ApiKeys -> Lives] /\ rotating \in BOOLEAN /\ call \in [Callers -> CallStates]
    /\ credentialTroubles \in 0 .. MaxCredentialTroubles

\* A call that came late is with a dead bearer until it is refused.
CallHolds(r) ==
    /\ call[r].stage = "serve" => ~call[r].late
    /\ call[r].stage = "check" => call[r].bearer \in Bearers /\ (call[r].late => StateOf(call[r].bearer) = "dead")

CallsInv == CallsTyped /\ ~servedLate /\ servedLate \in BOOLEAN /\ \A r \in Callers : CallHolds(r)

CredentialInv == SessionsInv /\ GrantsInv /\ CallsInv

LEMMA InitCredentialInv == CredentialInit => CredentialInv
  <1> SUFFICES ASSUME CredentialInit PROVE CredentialInv
    OBVIOUS
  <1> USE CredentialAssumption DEF CredentialInit
  <1>1. SessionsTyped
    <2>1. AtRest \in SignInStates /\ Unopened \in SessionRows /\ [Unopened EXCEPT !.state = "live"] \in SessionRows
      BY DEF AtRest, SignInStates, Unopened, SessionRows, Lives
    <2>2. session \in [Logins -> SessionRows] /\ signIn \in [SignIns -> SignInStates]
      BY <2>1
    <2>3. nonceRow \in [Nonces -> OnceState] /\ jar \in Logins \cup {NoLogin}
      BY DEF OnceState
    <2> QED
      BY <2>2, <2>3 DEF SessionsTyped
  <1>2. SessionsInv
    <2>1. /\ \A s \in Logins : session[s].nonce = NoNonce
          /\ \A v \in SignIns : signIn[v].stage = "away"
          /\ jar \in Logins => session[jar].state = "live"
      BY DEF Unopened, AtRest
    <2> QED
      BY <1>1, <2>1 DEF SessionsInv
  <1>3. GrantsTyped
    <2>1. Unasked \in ExchangeStates /\ Unissued \in PairRows
      BY DEF Unasked, ExchangeStates, Unissued, PairRows, Lives
    <2>2. exchange \in [Exchanges -> ExchangeStates] /\ pair \in [Pairs -> PairRows]
      BY <2>1
    <2>3. code \in [Codes -> OnceState] /\ consent \in [Consents -> {"away", "connect", "code"}]
          /\ connections \in 0 .. MaxConnections
      BY DEF OnceState
    <2> QED
      BY <2>2, <2>3 DEF GrantsTyped
  <1>4. GrantsInv
    <2>1. /\ \A x \in Exchanges : exchange[x].stage = "away"
          /\ \A p \in Pairs : pair[p].from = NoGrant /\ pair[p].access = "none" /\ pair[p].refresh = "none"
      BY DEF Unasked, Unissued
    <2>2. NoGrant \notin Grants
      BY DEF Grants
    <2> QED
      BY <1>3, <2>1, <2>2 DEF GrantsInv, ExchangeHolds, Answering, PairHolds
  <1>5. CallsInv
    <2>1. Uncalled \in CallStates
      BY DEF Uncalled, CallStates
    <2>2. call \in [Callers -> CallStates] /\ \A r \in Callers : call[r].stage = "away"
      BY <2>1 DEF Uncalled
    <2>3. key \in [ApiKeys -> Lives] /\ rotating \in BOOLEAN /\ servedLate = FALSE
      BY DEF Lives
    <2>4. credentialTroubles \in 0 .. MaxCredentialTroubles
      <3>1. credentialTroubles = 0 /\ MaxCredentialTroubles \in Nat
        OBVIOUS
      <3> QED
        BY <3>1
    <2> QED
      BY <2>2, <2>3, <2>4 DEF CallsInv, CallsTyped, CallHolds
  <1> QED
    BY <1>2, <1>4, <1>5 DEF CredentialInv

\* What is dead stays dead.
LastingDeath ==
    /\ \A s \in Logins : session[s].state = "dead" => session'[s].state = "dead"
    /\ \A p \in Pairs : pair[p].access = "dead" => pair'[p].access = "dead"
    /\ \A k \in ApiKeys : key[k] = "dead" => key'[k] = "dead"

OnlySignIn(v, w) ==
    signIn' \in [SignIns -> SignInStates] /\ signIn'[v] = w /\ \A u \in SignIns : u # v => signIn'[u] = signIn[u]

LEMMA SessionsKeep ==
  ASSUME SessionsInv, SessionNext
  PROVE  SessionsInv' /\ \A s \in Logins : session[s].state = "dead" => session'[s].state = "dead"
  <1> USE CredentialAssumption
  <1>0. SessionsTyped /\ AtRest \in SignInStates /\ AtRest.stage = "away"
    BY DEF SessionsInv, AtRest, SignInStates
  <1>1. ASSUME NEW n \in Nonces, RequestNonce(n) \/ NonceExpires(n)
        PROVE  SessionsInv' /\ UNCHANGED session
    <2>1. /\ nonceRow' \in [Nonces -> OnceState] /\ UNCHANGED <<session, signIn, jar>>
          /\ \A m \in Nonces : nonceRow[m] = "used" => nonceRow'[m] = "used"
      BY <1>0, <1>1 DEF SessionsTyped, RequestNonce, NonceExpires, OnceState
    <2>2. SessionsTyped'
      BY <1>0, <2>1 DEF SessionsTyped
    <2> QED
      BY <2>1, <2>2 DEF SessionsInv
  <1>2. ASSUME NEW s \in Logins, session' = [session EXCEPT ![s].state = "dead"],
               session[s].state # "none", UNCHANGED <<nonceRow, signIn>>, jar' \in {jar, NoLogin}
        PROVE  SessionsInv' /\ \A t \in Logins : session[t].state = "dead" => session'[t].state = "dead"
    <2>1. /\ session' \in [Logins -> SessionRows]
          /\ \A t \in Logins : session'[t].nonce = session[t].nonce
          /\ \A t \in Logins : session'[t].state = "none" => session[t].state = "none"
          /\ \A t \in Logins : session[t].state = "dead" => session'[t].state = "dead"
      BY <1>0, <1>2 DEF SessionsTyped, SessionRows, Lives
    <2>2. SessionsTyped'
      BY <1>0, <1>2, <2>1 DEF SessionsTyped
    <2> QED
      BY <1>2, <2>1, <2>2 DEF SessionsInv
  <1>3. ASSUME NEW s \in Logins, SessionEnds(s)
        PROVE  SessionsInv' /\ \A t \in Logins : session[t].state = "dead" => session'[t].state = "dead"
    BY <1>2, <1>3 DEF SessionEnds, SessionIsLive
  <1>4. ASSUME LogOut
        PROVE  SessionsInv' /\ \A t \in Logins : session[t].state = "dead" => session'[t].state = "dead"
    <2>1. jar \in Logins /\ session[jar].state # "none" /\ UNCHANGED <<nonceRow, signIn>> /\ jar' = NoLogin
      BY <1>0, <1>4 DEF LogOut, SessionsTyped, SessionsInv
    <2>2. CASE session' = [session EXCEPT ![jar].state = "dead"]
      BY <1>2, <2>1, <2>2
    <2>3. CASE UNCHANGED session
      BY <1>0, <2>1, <2>3 DEF SessionsInv, SessionsTyped
    <2> QED
      BY <1>4, <2>2, <2>3 DEF LogOut
  <1>5. ASSUME NEW v \in SignIns, NEW n \in Nonces, VerifySignature(v, n)
        PROVE  SessionsInv' /\ UNCHANGED session
    <2>1. /\ OnlySignIn(v, [stage |-> "valid", nonce |-> n]) /\ UNCHANGED <<nonceRow, session, jar>>
      BY <1>0, <1>5 DEF VerifySignature, OnlySignIn, SessionsTyped, SignInStates
    <2>2. SessionsTyped'
      BY <1>0, <2>1 DEF SessionsTyped, OnlySignIn
    <2> QED
      BY <2>1, <2>2 DEF SessionsInv, OnlySignIn
  <1>6. ASSUME NEW v \in SignIns, OnlySignIn(v, AtRest), UNCHANGED <<nonceRow, session, jar>>
        PROVE  SessionsInv'
    <2>1. SessionsTyped'
      BY <1>0, <1>6 DEF SessionsTyped, OnlySignIn
    <2> QED
      BY <1>0, <1>6, <2>1 DEF SessionsInv, OnlySignIn
  <1>7. ASSUME NEW v \in SignIns, SignInDies(v)
        PROVE  SessionsInv' /\ UNCHANGED session
    <2>1. OnlySignIn(v, AtRest) /\ UNCHANGED <<nonceRow, session, jar>>
      BY <1>0, <1>7 DEF SignInDies, OnlySignIn, SessionsTyped
    <2> QED
      BY <1>6, <2>1
  <1>8. ASSUME NEW v \in SignIns, ConsumeNonce(v)
        PROVE  SessionsInv' /\ UNCHANGED session
    <2>1. PICK n \in Nonces : signIn[v].nonce = n /\ signIn[v].stage = "valid"
      BY <1>8 DEF ConsumeNonce, SessionsInv
    <2>2. CASE ~NonceConsumable(n)
      <3>1. OnlySignIn(v, AtRest) /\ UNCHANGED <<nonceRow, session, jar>>
        BY <1>0, <1>8, <2>1, <2>2 DEF ConsumeNonce, OnlySignIn, SessionsTyped
      <3> QED
        BY <1>6, <3>1
    <2>3. CASE NonceConsumable(n)
      <3>1. /\ nonceRow' \in [Nonces -> OnceState] /\ nonceRow'[n] = "used"
            /\ \A m \in Nonces : m # n => nonceRow'[m] = nonceRow[m]
        BY <1>0, <1>8, <2>1, <2>3 DEF ConsumeNonce, SessionsTyped, OnceState
      <3>2. OnlySignIn(v, [stage |-> "insert", nonce |-> n])
        BY <1>0, <1>8, <2>1, <2>3 DEF ConsumeNonce, OnlySignIn, SessionsTyped, SignInStates
      <3>3. UNCHANGED <<session, jar>> /\ nonceRow[n] # "used"
        BY <1>8, <2>1, <2>3 DEF ConsumeNonce, NonceConsumable
      <3>4. SessionsTyped'
        BY <1>0, <3>1, <3>2, <3>3 DEF SessionsTyped, OnlySignIn
      <3> QED
        BY <3>1, <3>2, <3>3, <3>4 DEF SessionsInv, OnlySignIn
    <2> QED
      BY <2>2, <2>3
  <1>9. ASSUME NEW v \in SignIns, NEW s \in Logins, OpenSession(v, s)
        PROVE  SessionsInv' /\ \A t \in Logins : session[t].state = "dead" => session'[t].state = "dead"
    <2>1. PICK n \in Nonces : signIn[v].nonce = n /\ signIn[v].stage = "insert"
      BY <1>9 DEF OpenSession, SessionsInv
    <2>2. /\ session' \in [Logins -> SessionRows] /\ session'[s] = [nonce |-> n, state |-> "live"]
          /\ \A t \in Logins : t # s => session'[t] = session[t]
          /\ session[s].state = "none" /\ session[s].nonce = NoNonce
      BY <1>0, <1>9, <2>1 DEF OpenSession, SessionsTyped, SessionRows, Lives, SessionsInv
    <2>3. OnlySignIn(v, AtRest) /\ UNCHANGED nonceRow /\ jar' = s
      BY <1>0, <1>9 DEF OpenSession, OnlySignIn, SessionsTyped
    <2>4. SessionsTyped'
      BY <1>0, <2>2, <2>3 DEF SessionsTyped, OnlySignIn
    <2>5. \A t \in Logins : session'[t].state = "none" => session'[t].nonce = NoNonce
      BY <2>2 DEF SessionsInv
    <2>6. \A t \in Logins : session'[t].nonce \in Nonces =>
             /\ nonceRow'[session'[t].nonce] = "used"
             /\ \A w \in SignIns : signIn'[w].stage = "insert" => signIn'[w].nonce # session'[t].nonce
      BY <1>0, <2>1, <2>2, <2>3 DEF SessionsInv, OnlySignIn
    <2>7. \A t, u \in Logins : session'[t].nonce = session'[u].nonce /\ session'[t].nonce \in Nonces => t = u
      BY <2>1, <2>2 DEF SessionsInv
    <2>8. /\ \A w \in SignIns : signIn'[w].stage # "away" => signIn'[w].nonce \in Nonces
          /\ \A w \in SignIns : signIn'[w].stage = "insert" => nonceRow'[signIn'[w].nonce] = "used"
          /\ \A u, w \in SignIns :
                signIn'[u].stage = "insert" /\ signIn'[w].stage = "insert" /\ signIn'[u].nonce = signIn'[w].nonce => u = w
      BY <1>0, <2>3 DEF SessionsInv, OnlySignIn
    <2>9. session'[jar'].state # "none" /\ \A t \in Logins : session[t].state = "dead" => session'[t].state = "dead"
      BY <2>2, <2>3
    <2> QED
      BY <2>4, <2>5, <2>6, <2>7, <2>8, <2>9 DEF SessionsInv
  <1> QED
    BY <1>1, <1>3, <1>4, <1>5, <1>7, <1>8, <1>9 DEF SessionNext

OnlyExchange(x, w) ==
    /\ exchange' \in [Exchanges -> ExchangeStates] /\ exchange'[x] = w
    /\ \A y \in Exchanges : y # x => exchange'[y] = exchange[y]

OnlyPair(p, w) ==
    pair' \in [Pairs -> PairRows] /\ pair'[p] = w /\ \A q \in Pairs : q # p => pair'[q] = pair[q]

\* A grant that was consumed is never good again.
StaysSpent == \A g \in Grants : Spent(g) => Spent(g)'

LEMMA GrantsKeep ==
  ASSUME GrantsInv, GrantNext
  PROVE  GrantsInv' /\ \A p \in Pairs : pair[p].access = "dead" => pair'[p].access = "dead"
  <1> USE CredentialAssumption
  <1> DEFINE Lasting == \A p \in Pairs : pair[p].access = "dead" => pair'[p].access = "dead"
  <1>0. GrantsTyped /\ Unasked \in ExchangeStates /\ Unasked.stage = "away" /\ Unissued \in PairRows
    BY DEF GrantsInv, Unasked, ExchangeStates, Unissued, PairRows, Lives
  <1>1. ASSUME NEW a \in Consents, Approve(a) \/ InsertConnection(a)
        PROVE  GrantsInv' /\ Lasting
    <2>1. /\ connections' \in 0 .. MaxConnections /\ consent' \in [Consents -> {"away", "connect", "code"}]
          /\ UNCHANGED <<code, exchange, pair>>
      BY <1>0, <1>1 DEF GrantsTyped, Approve, InsertConnection
    <2>2. GrantsTyped'
      BY <1>0, <2>1 DEF GrantsTyped
    <2>3. \A g : Spent(g)' = Spent(g)
      BY <2>1 DEF Spent
    <2> QED
      BY <2>1, <2>2, <2>3 DEF GrantsInv, ExchangeHolds, Answering, PairHolds
  <1>2. ASSUME NEW c \in Codes, CodeExpires(c) \/ \E a \in Consents : IssueCode(a, c)
        PROVE  GrantsInv' /\ Lasting
    <2>1. /\ code' \in [Codes -> OnceState] /\ \A d \in Codes : code[d] = "used" => code'[d] = "used"
          /\ consent' \in [Consents -> {"away", "connect", "code"}] /\ UNCHANGED <<connections, exchange, pair>>
      BY <1>0, <1>2 DEF GrantsTyped, CodeExpires, IssueCode, OnceState
    <2>2. GrantsTyped'
      BY <1>0, <2>1 DEF GrantsTyped
    <2>3. StaysSpent
      BY <2>1 DEF Spent, StaysSpent
    <2> QED
      BY <2>1, <2>2, <2>3 DEF GrantsInv, ExchangeHolds, Answering, PairHolds, StaysSpent
  \* A request goes on or ends, and touches no grant.
  <1>3. ASSUME NEW x \in Exchanges, NEW w \in ExchangeStates, OnlyExchange(x, w),
               w.stage \in {"away", "found", "consume"}, w.stage # "away" => w.grant \in Grants,
               UNCHANGED <<connections, consent, code, pair>>
        PROVE  GrantsInv' /\ Lasting
    <2>1. GrantsTyped'
      BY <1>0, <1>3 DEF GrantsTyped, OnlyExchange
    <2>2. \A g : Spent(g)' = Spent(g)
      BY <1>3 DEF Spent
    <2>3. \A y \in Exchanges : y # x => exchange'[y] = exchange[y] /\ Answering(y)' = Answering(y)
      BY <1>3 DEF OnlyExchange, Answering
    <2>4. exchange'[x].stage \in {"away", "found", "consume"} /\ ~Answering(x)'
          /\ (exchange'[x].stage # "away" => exchange'[x].grant \in Grants)
      BY <1>3 DEF OnlyExchange, Answering
    <2>5. \A y \in Exchanges : ExchangeHolds(y)'
      BY <1>3, <2>2, <2>3, <2>4 DEF GrantsInv, ExchangeHolds
    <2>6. \A p \in Pairs : PairHolds(p)'
      BY <1>3, <2>2 DEF GrantsInv, PairHolds
    <2>7. \A y, z \in Exchanges :
            Answering(y)' /\ Answering(z)' /\ exchange'[y].grant = exchange'[z].grant => y = z
      BY <2>3, <2>4 DEF GrantsInv
    <2> QED
      BY <1>3, <2>1, <2>5, <2>6, <2>7 DEF GrantsInv
  <1>4. ASSUME NEW x \in Exchanges, NEW g \in Grants, PresentGrant(x, g)
        PROVE  GrantsInv' /\ Lasting
    <2>1. [stage |-> "found", grant |-> g, pair |-> NoPair] \in ExchangeStates
      BY DEF ExchangeStates
    <2>2. OnlyExchange(x, [stage |-> "found", grant |-> g, pair |-> NoPair])
          /\ UNCHANGED <<connections, consent, code, pair>>
      BY <1>0, <1>4, <2>1 DEF GrantsTyped, PresentGrant, OnlyExchange
    <2> QED
      BY <1>3, <2>1, <2>2
  <1>5. ASSUME NEW x \in Exchanges, ExchangeEnds(x), UNCHANGED <<connections, consent, code, pair>>
        PROVE  GrantsInv' /\ Lasting
    <2>1. OnlyExchange(x, Unasked)
      BY <1>0, <1>5 DEF GrantsTyped, ExchangeEnds, OnlyExchange
    <2> QED
      BY <1>0, <1>3, <1>5, <2>1
  <1>6. ASSUME NEW x \in Exchanges, FindConnection(x) \/ ExchangeDies(x)
        PROVE  GrantsInv' /\ Lasting
    <2>1. CASE ExchangeEnds(x)
      BY <1>5, <1>6, <2>1 DEF FindConnection, ExchangeDies
    <2>2. CASE ~ExchangeEnds(x)
      <3>1. exchange[x].stage = "found" /\ ExchangeGoes(x, "consume") /\ UNCHANGED <<connections, consent, code, pair>>
        BY <1>6, <2>2 DEF FindConnection, ExchangeDies
      <3>2. PICK w \in ExchangeStates : w.stage = "consume" /\ w.grant = exchange[x].grant /\ OnlyExchange(x, w)
        <4> DEFINE w == [exchange[x] EXCEPT !.stage = "consume"]
        <4>1. w \in ExchangeStates /\ w.stage = "consume" /\ w.grant = exchange[x].grant
          BY <1>0 DEF GrantsTyped, ExchangeStates
        <4>2. OnlyExchange(x, w)
          BY <1>0, <3>1, <4>1 DEF GrantsTyped, ExchangeGoes, OnlyExchange
        <4> QED
          BY <4>1, <4>2
      <3>3. w.grant \in Grants
        BY <3>1, <3>2 DEF GrantsInv, ExchangeHolds
      <3> QED
        BY <1>3, <3>1, <3>2, <3>3
    <2> QED
      BY <2>1, <2>2
  <1>7. ASSUME NEW x \in Exchanges, ConsumeGrant(x)
        PROVE  GrantsInv' /\ Lasting
    <2>1. PICK g \in Grants : exchange[x].grant = g /\ exchange[x].stage = "consume"
      BY <1>7 DEF ConsumeGrant, GrantsInv, ExchangeHolds
    <2>2. CASE ~GrantConsumable(g)
      BY <1>5, <1>7, <2>1, <2>2 DEF ConsumeGrant
    <2>3. CASE GrantConsumable(g)
      <3>1. PICK w \in ExchangeStates : w.stage = "access" /\ w.grant = g /\ OnlyExchange(x, w)
        <4> DEFINE w == [exchange[x] EXCEPT !.stage = "access"]
        <4>1. w \in ExchangeStates /\ w.stage = "access" /\ w.grant = g
          BY <1>0, <2>1 DEF GrantsTyped, ExchangeStates
        <4>2. OnlyExchange(x, w)
          BY <1>0, <1>7, <2>1, <2>3, <4>1 DEF ConsumeGrant, GrantsTyped, ExchangeGoes, OnlyExchange
        <4> QED
          BY <4>1, <4>2
      <3>2. UNCHANGED <<connections, consent>>
        BY <1>7 DEF ConsumeGrant
      <3>3. /\ code' \in [Codes -> OnceState] /\ pair' \in [Pairs -> PairRows]
            /\ \A p \in Pairs : pair'[p].from = pair[p].from /\ pair'[p].access = pair[p].access
            /\ \A p \in Pairs : pair[p].refresh # "live" => pair'[p].refresh = pair[p].refresh
            /\ \A h \in Grants : Spent(h) => Spent(h)'
            /\ Spent(g)' /\ ~Spent(g)
            /\ \A p \in Pairs : pair[p].access = "none" => pair'[p].refresh = "none"
        <4>1. CASE g \in Codes
          <5>1. /\ code' = [code EXCEPT ![g] = "used"] /\ UNCHANGED pair /\ code[g] # "used"
            BY <1>7, <2>1, <2>3, <4>1 DEF ConsumeGrant, GrantConsumable
          <5>2. code' \in [Codes -> OnceState] /\ code'[g] = "used" /\ \A c \in Codes : c # g => code'[c] = code[c]
            BY <1>0, <4>1, <5>1 DEF GrantsTyped, OnceState
          <5> QED
            BY <1>0, <4>1, <5>1, <5>2 DEF GrantsTyped, Spent, GrantsInv, PairHolds
        <4>2. CASE g \notin Codes
          <5>1. /\ pair' = [pair EXCEPT ![g].refresh = "rotated"] /\ UNCHANGED code /\ pair[g].refresh = "live"
                /\ g \in Pairs
            BY <1>7, <2>1, <2>3, <4>2 DEF ConsumeGrant, GrantConsumable, Grants
          <5>2. /\ pair' \in [Pairs -> PairRows] /\ pair'[g].refresh = "rotated"
                /\ pair'[g].from = pair[g].from /\ pair'[g].access = pair[g].access
                /\ \A p \in Pairs : p # g => pair'[p] = pair[p]
            BY <1>0, <5>1 DEF GrantsTyped, PairRows, Lives
          <5>3. pair[g].access # "none"
            BY <5>1 DEF GrantsInv, PairHolds
          <5> QED
            BY <1>0, <4>2, <5>1, <5>2, <5>3 DEF GrantsTyped, Spent, GrantsInv, PairHolds
        <4> QED
          BY <4>1, <4>2
      <3>4. GrantsTyped'
        BY <1>0, <3>1, <3>2, <3>3 DEF GrantsTyped, OnlyExchange
      <3>5. /\ Answering(x)' /\ exchange'[x].grant = g /\ exchange'[x].stage = "access"
            /\ \A y \in Exchanges : y # x => exchange'[y] = exchange[y] /\ Answering(y)' = Answering(y)
        BY <3>1 DEF OnlyExchange, Answering
      <3>6. \A y \in Exchanges : Answering(y) => exchange[y].grant # g
        BY <3>3 DEF GrantsInv, ExchangeHolds
      <3>7. \A p \in Pairs : pair[p].from # g
        BY <3>3 DEF GrantsInv, PairHolds
      <3>8. ExchangeHolds(x)'
        BY <3>3, <3>5, <3>7 DEF ExchangeHolds
      <3>9. \A y \in Exchanges : y # x => ExchangeHolds(y)'
        BY <3>3, <3>5 DEF GrantsInv, ExchangeHolds, Spent, Answering
      <3>10. \A y, z \in Exchanges :
               Answering(y)' /\ Answering(z)' /\ exchange'[y].grant = exchange'[z].grant => y = z
        BY <3>5, <3>6 DEF GrantsInv
      <3>11. \A p \in Pairs : PairHolds(p)'
        BY <3>3 DEF GrantsInv, PairHolds
      <3>12. /\ \A p, q \in Pairs : pair'[p].from = pair'[q].from /\ pair'[p].from \in Grants => p = q
             /\ Lasting
        BY <3>3 DEF GrantsInv
      <3> QED
        BY <3>4, <3>8, <3>9, <3>10, <3>11, <3>12 DEF GrantsInv
    <2> QED
      BY <2>2, <2>3
  <1>8. ASSUME NEW x \in Exchanges, NEW p \in Pairs, IssueAccess(x, p)
        PROVE  GrantsInv' /\ Lasting
    <2>1. PICK g \in Grants : exchange[x].grant = g /\ exchange[x].stage = "access"
      BY <1>8 DEF IssueAccess, GrantsInv, ExchangeHolds
    <2>2. pair[p].access = "none" /\ pair[p].from = NoGrant /\ pair[p].refresh = "none"
      BY <1>8 DEF IssueAccess, GrantsInv, PairHolds
    <2>3. OnlyPair(p, [from |-> g, access |-> "live", refresh |-> "none"]) /\ UNCHANGED <<connections, consent, code>>
      BY <1>0, <1>8, <2>1 DEF IssueAccess, OnlyPair, GrantsTyped, PairRows, Lives
    <2>4. PICK w \in ExchangeStates : w.stage = "refresh" /\ w.grant = g /\ w.pair = p /\ OnlyExchange(x, w)
      <3> DEFINE w == [exchange[x] EXCEPT !.stage = "refresh", !.pair = p]
      <3>1. w \in ExchangeStates /\ w.stage = "refresh" /\ w.grant = g /\ w.pair = p
        BY <1>0, <2>1 DEF GrantsTyped, ExchangeStates
      <3>2. OnlyExchange(x, w)
        BY <1>0, <1>8, <3>1 DEF GrantsTyped, IssueAccess, OnlyExchange
      <3> QED
        BY <3>1, <3>2
    <2>5. GrantsTyped'
      BY <1>0, <2>3, <2>4 DEF GrantsTyped, OnlyExchange, OnlyPair
    <2>6. \A h \in Grants : Spent(h) => Spent(h)'
      BY <2>2, <2>3 DEF Spent, OnlyPair, Grants
    <2>7. /\ Answering(x)' /\ Answering(x) /\ exchange'[x].grant = g /\ exchange'[x].stage = "refresh" /\ exchange'[x].pair = p
          /\ \A y \in Exchanges : y # x => exchange'[y] = exchange[y] /\ Answering(y)' = Answering(y)
      BY <2>1, <2>4 DEF OnlyExchange, Answering
    <2>8. /\ pair'[p].from = g /\ pair'[p].access = "live" /\ pair'[p].refresh = "none"
          /\ \A q \in Pairs : q # p => pair'[q] = pair[q]
      BY <2>3 DEF OnlyPair
    <2>9. Spent(g) /\ \A q \in Pairs : pair[q].from # g
      BY <2>1, <2>7 DEF GrantsInv, ExchangeHolds
    <2>10. \A y \in Exchanges : y # x /\ Answering(y) => exchange[y].grant # g
      BY <2>1, <2>7 DEF GrantsInv
    <2>11. ExchangeHolds(x)'
      BY <2>6, <2>7, <2>8, <2>9 DEF ExchangeHolds
    <2>12. ASSUME NEW y \in Exchanges, y # x PROVE ExchangeHolds(y)'
      <3>1. exchange'[y] = exchange[y] /\ Answering(y)' = Answering(y) /\ ExchangeHolds(y)
        BY <2>7, <2>12 DEF GrantsInv
      <3>2. exchange[y].stage = "access" => exchange[y].grant # g
        BY <2>10, <2>12 DEF Answering
      <3>3. exchange[y].stage = "refresh" => exchange[y].pair # p
        BY <2>2, <3>1 DEF ExchangeHolds
      <3> QED
        BY <2>6, <2>8, <3>1, <3>2, <3>3 DEF ExchangeHolds, Spent, Answering
    <2>13. \A y, z \in Exchanges :
             Answering(y)' /\ Answering(z)' /\ exchange'[y].grant = exchange'[z].grant => y = z
      BY <2>1, <2>7 DEF GrantsInv
    <2>14. \A q \in Pairs : PairHolds(q)'
      BY <2>6, <2>8, <2>9 DEF GrantsInv, PairHolds
    <2>15. \A q, r \in Pairs : pair'[q].from = pair'[r].from /\ pair'[q].from \in Grants => q = r
      BY <2>8, <2>9 DEF GrantsInv
    <2>16. Lasting
      BY <2>2, <2>8
    <2> QED
      BY <2>5, <2>11, <2>12, <2>13, <2>14, <2>15, <2>16 DEF GrantsInv
  <1>9. ASSUME NEW p \in Pairs, NEW w \in PairRows, OnlyPair(p, w), UNCHANGED <<connections, consent, code>>,
               w.from = pair[p].from, pair[p].access # "none", w.access # "none",
               pair[p].refresh = "none" => w.refresh = "none",
               pair[p].refresh = "rotated" => w.refresh = "rotated",
               pair[p].access = "dead" => w.access = "dead", UNCHANGED exchange
        PROVE  GrantsInv' /\ Lasting
    <2>1. GrantsTyped'
      BY <1>0, <1>9 DEF GrantsTyped, OnlyPair
    <2>2. /\ \A q \in Pairs : pair'[q].from = pair[q].from
          /\ \A q \in Pairs : pair[q].access = "none" <=> pair'[q].access = "none"
          /\ \A q \in Pairs : pair[q].refresh = "none" => pair'[q].refresh = "none"
          /\ \A q \in Pairs : pair[q].refresh = "rotated" => pair'[q].refresh = "rotated"
          /\ Lasting
      BY <1>9 DEF OnlyPair
    <2>3. \A h \in Grants : Spent(h) => Spent(h)'
      BY <1>9, <2>2 DEF Spent, Grants
    <2>4. \A y \in Exchanges : ExchangeHolds(y)' /\ Answering(y)' = Answering(y)
      BY <1>9, <2>2, <2>3 DEF GrantsInv, ExchangeHolds, Answering
    <2>5. \A q \in Pairs : PairHolds(q)'
      BY <2>2, <2>3 DEF GrantsInv, PairHolds
    <2> QED
      BY <1>9, <2>1, <2>2, <2>4, <2>5 DEF GrantsInv
  <1>10. ASSUME NEW p \in Pairs, TokenEnds(p)
         PROVE  GrantsInv' /\ Lasting
    <2>1. UNCHANGED <<connections, consent, code, exchange>>
      BY <1>10 DEF TokenEnds
    <2>2. pair[p].refresh = "live" => pair[p].access # "none"
      BY DEF GrantsInv, PairHolds
    <2>3. CASE pair[p].access = "live" /\ pair' = [pair EXCEPT ![p].access = "dead"]
      <3> DEFINE w == [pair[p] EXCEPT !.access = "dead"]
      <3>1. /\ w \in PairRows /\ w.from = pair[p].from /\ w.access = "dead" /\ w.refresh = pair[p].refresh
        BY <1>0 DEF GrantsTyped, PairRows, Lives
      <3>2. OnlyPair(p, w)
        BY <1>0, <2>3, <3>1 DEF GrantsTyped, OnlyPair
      <3> HIDE DEF w
      <3> QED
        BY <1>9, <2>1, <2>3, <3>1, <3>2
    <2>4. CASE pair[p].refresh = "live" /\ pair' = [pair EXCEPT ![p].refresh = "dead"]
      <3> DEFINE w == [pair[p] EXCEPT !.refresh = "dead"]
      <3>1. /\ w \in PairRows /\ w.from = pair[p].from /\ w.access = pair[p].access /\ w.refresh = "dead"
        BY <1>0 DEF GrantsTyped, PairRows, Lives
      <3>2. OnlyPair(p, w)
        BY <1>0, <2>4, <3>1 DEF GrantsTyped, OnlyPair
      <3> HIDE DEF w
      <3> QED
        BY <1>9, <2>1, <2>2, <2>4, <3>1, <3>2
    <2> QED
      BY <1>10, <2>3, <2>4 DEF TokenEnds
  <1>11. ASSUME NEW x \in Exchanges, IssueRefresh(x)
         PROVE  GrantsInv' /\ Lasting
    <2>1. PICK p \in Pairs : exchange[x].pair = p /\ exchange[x].stage = "refresh"
      BY <1>11 DEF IssueRefresh, GrantsInv, ExchangeHolds
    <2>2. PICK g \in Grants : exchange[x].grant = g
      BY <2>1 DEF GrantsInv, ExchangeHolds
    <2>3. /\ Answering(x) /\ pair[p].from = g /\ pair[p].access # "none" /\ pair[p].refresh = "none"
      BY <2>1, <2>2 DEF GrantsInv, ExchangeHolds, Answering
    <2>4. OnlyExchange(x, Unasked) /\ UNCHANGED <<connections, consent, code>>
      BY <1>0, <1>11 DEF GrantsTyped, IssueRefresh, ExchangeEnds, OnlyExchange
    <2>5. /\ pair' \in [Pairs -> PairRows]
          /\ pair'[p].from = g /\ pair'[p].access = pair[p].access /\ pair'[p].refresh = "live"
          /\ \A q \in Pairs : q # p => pair'[q] = pair[q]
      BY <1>0, <1>11, <2>1, <2>3 DEF GrantsTyped, IssueRefresh, PairRows, Lives
    <2>6. GrantsTyped'
      BY <1>0, <2>4, <2>5 DEF GrantsTyped, OnlyExchange
    <2>7. \A h \in Grants : Spent(h) => Spent(h)'
      BY <2>3, <2>4, <2>5 DEF Spent, Grants
    <2>8. /\ exchange'[x].stage = "away" /\ ~Answering(x)'
          /\ \A y \in Exchanges : y # x => exchange'[y] = exchange[y] /\ Answering(y)' = Answering(y)
      BY <1>0, <2>4 DEF OnlyExchange, Answering
    <2>9. \A q \in Pairs : pair'[q].from = pair[q].from /\ pair'[q].access = pair[q].access
      BY <2>3, <2>5
    <2>10. ASSUME NEW y \in Exchanges PROVE ExchangeHolds(y)'
      <3>1. CASE y = x
        BY <2>8, <3>1 DEF ExchangeHolds
      <3>2. CASE y # x
        <4>1. exchange'[y] = exchange[y] /\ Answering(y)' = Answering(y) /\ ExchangeHolds(y)
          BY <2>8, <3>2 DEF GrantsInv
        <4>2. exchange[y].stage = "refresh" => exchange[y].pair # p
          BY <2>2, <2>3, <3>2, <4>1 DEF GrantsInv, ExchangeHolds, Answering
        <4> QED
          BY <2>5, <2>7, <2>9, <4>1, <4>2 DEF ExchangeHolds, Spent, Answering
      <3> QED
        BY <3>1, <3>2
    <2>11. \A q \in Pairs : PairHolds(q)'
      BY <2>3, <2>5, <2>7 DEF GrantsInv, PairHolds
    <2>12. \A y, z \in Exchanges :
             Answering(y)' /\ Answering(z)' /\ exchange'[y].grant = exchange'[z].grant => y = z
      BY <2>8 DEF GrantsInv
    <2> QED
      BY <2>6, <2>9, <2>10, <2>11, <2>12 DEF GrantsInv
  <1> QED
    BY <1>1, <1>2, <1>4, <1>6, <1>7, <1>8, <1>10, <1>11 DEF GrantNext

\* What is at work in a step leaves the others where they are.
LEMMA SessionsAlone ==
  ASSUME SessionNext
  PROVE  UNCHANGED <<OfGrants, OfKeys, OfCalls>> /\ (credentialTroubles' = credentialTroubles \/ Mishap)
  BY DEF SessionNext, RequestNonce, NonceExpires, VerifySignature, ConsumeNonce, OpenSession, SignInDies,
         SessionEnds, LogOut

LEMMA GrantsAlone ==
  ASSUME GrantNext
  PROVE  UNCHANGED <<OfSessions, OfKeys, OfCalls>> /\ (credentialTroubles' = credentialTroubles \/ Mishap)
  BY DEF GrantNext, Approve, InsertConnection, IssueCode, CodeExpires, PresentGrant, FindConnection,
         ConsumeGrant, IssueAccess, IssueRefresh, ExchangeDies, TokenEnds

LEMMA KeysAlone ==
  ASSUME KeyNext
  PROVE  UNCHANGED <<OfSessions, OfGrants, credentialTroubles>>
  BY DEF KeyNext, RevokeAllSessions, CreateKey, RevokeKey, RotateKey, Arrive, Authenticate, Serve

LEMMA DeathLasts ==
  ASSUME LastingDeath, NEW b \in Bearers, StateOf(b) = "dead"
  PROVE  StateOf(b)' = "dead"
  BY DEF LastingDeath, StateOf, Bearers

LEMMA CallsRest ==
  ASSUME CallsInv, LastingDeath, UNCHANGED OfCalls, key' \in [ApiKeys -> Lives], rotating' \in BOOLEAN,
         credentialTroubles' = credentialTroubles \/ Mishap
  PROVE  CallsInv'
  <1>1. credentialTroubles' \in 0 .. MaxCredentialTroubles
    BY CredentialAssumption DEF CallsInv, CallsTyped, Mishap
  <1>2. call' = call /\ servedLate' = servedLate
    BY DEF OfCalls
  <1>3. ASSUME NEW r \in Callers PROVE CallHolds(r)'
    <2>1. call[r].stage = "check" /\ call[r].late =>
            call[r].bearer \in Bearers /\ StateOf(call[r].bearer) = "dead"
      BY DEF CallsInv, CallHolds
    <2>2. call[r].stage = "check" /\ call[r].late => StateOf(call[r].bearer)' = "dead"
      BY <1>2, <2>1, DeathLasts DEF StateOf
    <2> QED
      BY <1>2, <2>2 DEF CallsInv, CallHolds
  <1> QED
    BY <1>1, <1>2, <1>3 DEF CallsInv, CallsTyped

LEMMA KeysKeep ==
  ASSUME CallsInv, KeyNext
  PROVE  CallsInv' /\ \A k \in ApiKeys : key[k] = "dead" => key'[k] = "dead"
  <1>0. CallsTyped /\ Uncalled \in CallStates /\ Uncalled.stage = "away"
    BY DEF CallsInv, Uncalled, CallStates
  <1>1. CASE RevokeAllSessions \/ \E k \in ApiKeys : CreateKey(k) \/ RevokeKey(k) \/ RotateKey(k)
    <2>1. /\ key' \in [ApiKeys -> Lives] /\ rotating' \in BOOLEAN
          /\ \A k \in ApiKeys : key[k] = "dead" => key'[k] = "dead"
      BY <1>0, <1>1 DEF CallsTyped, Lives, RevokeAllSessions, CreateKey, RevokeKey, RotateKey
    <2>2. UNCHANGED OfCalls
      BY <1>1 DEF RevokeAllSessions, CreateKey, RevokeKey, RotateKey
    <2>3. UNCHANGED <<session, pair, credentialTroubles>>
      BY KeysAlone DEF OfSessions, OfGrants
    <2>4. LastingDeath
      BY <2>1, <2>3 DEF LastingDeath
    <2> QED
      BY <2>1, <2>2, <2>3, <2>4, CallsRest
  \* Of the requests one moves.
  <1>2. ASSUME NEW r \in Callers, NEW w \in CallStates, call' = [call EXCEPT ![r] = w], servedLate' = FALSE,
               UNCHANGED <<key, rotating, session, pair, credentialTroubles>>,
               w.stage = "serve" => ~w.late,
               w.stage = "check" => w.bearer \in Bearers /\ (w.late => StateOf(w.bearer) = "dead")
        PROVE  CallsInv'
    <2>1. /\ call' \in [Callers -> CallStates] /\ call'[r] = w
          /\ \A s \in Callers : s # r => call'[s] = call[s]
      BY <1>0, <1>2 DEF CallsTyped
    <2>2. \A b : StateOf(b)' = StateOf(b)
      BY <1>2 DEF StateOf
    <2>3. CallHolds(r)'
      BY <1>2, <2>1 DEF CallHolds, StateOf
    <2>4. \A s \in Callers : s # r => CallHolds(s)'
      BY <1>2, <2>1 DEF CallHolds, StateOf, CallsInv
    <2> QED
      BY <1>0, <1>2, <2>1, <2>3, <2>4 DEF CallsInv, CallsTyped
  <1>3. ASSUME NEW r \in Callers, NEW b \in Bearers, Arrive(r, b)
        PROVE  CallsInv' /\ UNCHANGED key
    <2> DEFINE w == [stage |-> "check", bearer |-> b, late |-> StateOf(b) = "dead"]
    <2>1. w \in CallStates /\ w.stage = "check" /\ w.bearer = b /\ (w.late <=> StateOf(b) = "dead")
      BY DEF CallStates
    <2>2. call' = [call EXCEPT ![r] = w] /\ UNCHANGED <<key, rotating, servedLate>>
      BY <1>3 DEF Arrive, OfKeys
    <2>3. UNCHANGED <<session, pair, credentialTroubles>> /\ servedLate = FALSE
      BY KeysAlone DEF OfSessions, OfGrants, CallsInv
    <2> HIDE DEF w
    <2> QED
      BY <1>2, <2>1, <2>2, <2>3
  <1>4. ASSUME NEW r \in Callers, Authenticate(r)
        PROVE  CallsInv' /\ UNCHANGED key
    <2> DEFINE w == IF BearerAccepted(call[r].bearer) THEN [call[r] EXCEPT !.stage = "serve"] ELSE Uncalled
    <2>1. call' = [call EXCEPT ![r] = w] /\ UNCHANGED <<key, rotating, servedLate>> /\ call[r].stage = "check"
      BY <1>0, <1>4 DEF Authenticate, OfKeys, CallsTyped
    <2>2. UNCHANGED <<session, pair, credentialTroubles>> /\ servedLate = FALSE
      BY KeysAlone DEF OfSessions, OfGrants, CallsInv
    <2>3. call[r].late => ~BearerAccepted(call[r].bearer)
      BY <2>1 DEF CallsInv, CallHolds, BearerAccepted
    <2>4. w \in CallStates /\ w.stage \in {"serve", "away"} /\ (w.stage = "serve" => ~w.late)
      BY <1>0, <2>1, <2>3 DEF CallsTyped, CallStates
    <2> HIDE DEF w
    <2> QED
      BY <1>2, <2>1, <2>2, <2>4
  <1>5. ASSUME NEW r \in Callers, Serve(r)
        PROVE  CallsInv' /\ UNCHANGED key
    <2>1. /\ call' = [call EXCEPT ![r] = Uncalled] /\ UNCHANGED <<key, rotating>>
          /\ call[r].stage = "serve" /\ servedLate' = (servedLate \/ call[r].late)
      BY <1>5 DEF Serve, OfKeys
    <2>2. servedLate' = FALSE
      BY <2>1 DEF CallsInv, CallHolds
    <2>3. UNCHANGED <<session, pair, credentialTroubles>>
      BY KeysAlone DEF OfSessions, OfGrants
    <2> QED
      BY <1>0, <1>2, <2>1, <2>2, <2>3
  <1> QED
    BY <1>1, <1>3, <1>4, <1>5 DEF KeyNext

LEMMA NextCredentialInv == CredentialInv /\ [CredentialNext]_credentialVars => CredentialInv'
  <1> SUFFICES ASSUME CredentialInv, [CredentialNext]_credentialVars PROVE CredentialInv'
    OBVIOUS
  <1> USE DEF CredentialInv
  <1>1. ASSUME UNCHANGED OfSessions PROVE SessionsInv'
    BY <1>1 DEF SessionsInv, SessionsTyped, OfSessions
  <1>2. ASSUME UNCHANGED OfGrants PROVE GrantsInv'
    BY <1>2 DEF GrantsInv, GrantsTyped, ExchangeHolds, PairHolds, Answering, Spent, OfGrants
  <1>3. CASE UNCHANGED credentialVars
    <2>1. UNCHANGED <<OfSessions, OfGrants, OfKeys, OfCalls, credentialTroubles>>
      BY <1>3 DEF credentialVars, OfSessions, OfGrants, OfKeys, OfCalls
    <2>2. LastingDeath /\ key' \in [ApiKeys -> Lives] /\ rotating' \in BOOLEAN
      BY <2>1 DEF OfSessions, OfGrants, OfKeys, LastingDeath, CallsInv, CallsTyped
    <2> QED
      BY <1>1, <1>2, <2>1, <2>2, CallsRest
  <1>4. CASE SessionNext
    <2>1. UNCHANGED <<pair, key, rotating>>
      BY <1>4, SessionsAlone DEF OfGrants, OfKeys
    <2>2. LastingDeath /\ key' \in [ApiKeys -> Lives] /\ rotating' \in BOOLEAN
      BY <1>4, <2>1, SessionsKeep DEF LastingDeath, CallsInv, CallsTyped
    <2> QED
      BY <1>2, <1>4, <2>2, SessionsKeep, SessionsAlone, CallsRest
  <1>5. CASE GrantNext
    <2>1. UNCHANGED <<session, key, rotating>>
      BY <1>5, GrantsAlone DEF OfSessions, OfKeys
    <2>2. LastingDeath /\ key' \in [ApiKeys -> Lives] /\ rotating' \in BOOLEAN
      BY <1>5, <2>1, GrantsKeep DEF LastingDeath, CallsInv, CallsTyped
    <2> QED
      BY <1>1, <1>5, <2>2, GrantsKeep, GrantsAlone, CallsRest
  <1>6. CASE KeyNext
    BY <1>1, <1>2, <1>6, KeysKeep, KeysAlone
  <1> QED
    BY <1>3, <1>4, <1>5, <1>6 DEF CredentialNext

LEMMA CredentialInvGives ==
  ASSUME CredentialInv
  PROVE  CredentialTypeOK /\ OneHeir /\ RevokedIsRefused
  <1>1. CredentialTypeOK
    <2>1. /\ nonceRow \in [Nonces -> OnceState] /\ session \in [Logins -> SessionRows]
          /\ signIn \in [SignIns -> SignInStates] /\ jar \in Logins \cup {NoLogin}
      BY DEF CredentialInv, SessionsInv, SessionsTyped
    <2>2. /\ connections \in 0 .. MaxConnections /\ consent \in [Consents -> {"away", "connect", "code"}]
          /\ code \in [Codes -> OnceState] /\ exchange \in [Exchanges -> ExchangeStates]
          /\ pair \in [Pairs -> PairRows]
      BY DEF CredentialInv, GrantsInv, GrantsTyped
    <2>3. /\ key \in [ApiKeys -> Lives] /\ rotating \in BOOLEAN /\ call \in [Callers -> CallStates]
          /\ servedLate \in BOOLEAN /\ credentialTroubles \in 0 .. MaxCredentialTroubles
      BY DEF CredentialInv, CallsInv, CallsTyped
    <2> QED
      BY <2>1, <2>2, <2>3, Zenon
      DEF CredentialTypeOK, SessionRows, SignInStates, ExchangeStates, PairRows, CallStates
  <1>2. ASSUME NEW n \in Nonces PROVE Cardinality({s \in Logins : session[s].nonce = n}) <= 1
    <2>1. \A s, t \in {u \in Logins : session[u].nonce = n} : s = t
      BY DEF CredentialInv, SessionsInv
    <2> QED
      BY <2>1, AtMostOne
  <1>3. ASSUME NEW g \in Grants PROVE Cardinality({p \in Pairs : pair[p].from = g}) <= 1
    <2>1. \A p, q \in {r \in Pairs : pair[r].from = g} : p = q
      BY DEF CredentialInv, GrantsInv
    <2> QED
      BY <2>1, AtMostOne
  <1> QED
    BY <1>1, <1>2, <1>3 DEF OneHeir, RevokedIsRefused, CredentialInv, CallsInv

(***************************************************************************)
(* Onboarding.  A page that has seen its receipt holds a mint that         *)
(* succeeded; a draft of an intent is of no other intent and of no page    *)
(* with a write token, and only a page whose mint completed the intent is  *)
(* about to mark it.                                                       *)
(***************************************************************************)
IntentRows == [status : {"none", "draft", "completed"}, draft : Drafts \cup {NoDraft},
               agent : Identities \cup {NoIdentity}, expired : BOOLEAN]
DraftRows  == [status : {"none", "draft", "minted"}, agent : Identities \cup {NoIdentity}]
FormRows   == [stage : FormStages, status : {"idle", "pending", "error", "success"},
               intent : Intents \cup {NoIntent}, draft : Drafts \cup {NoDraft},
               token : BOOLEAN, uri : Uris, mint : Identities \cup {NoIdentity},
               pending : Identities \cup {NoIdentity}]
MintRows   == [state : {"none", "sent", "mined", "reverted"}, uri : Uris]
RecordRows == [agent : Identities \cup {NoIdentity},
               binding : {"none", "created", "failed", "not_applicable"}]

BundlesTyped ==
    /\ intent \in [Intents -> IntentRows] /\ draft \in [Drafts -> DraftRows]
    /\ mint \in [Identities -> MintRows]

PagesTyped ==
    /\ form \in [Forms -> FormRows]
    /\ agentRow \subseteq Identities /\ manifest \subseteq Identities /\ bound \subseteq Identities
    /\ record \in RecordRows
    /\ runtimeKey \subseteq Identities /\ onboardingTroubles \in 0 .. MaxOnboardingTroubles

IsMinted(m) == m \in Identities /\ mint[m].state = "mined"
IsOwn(d)    == d \in Drafts /\ draft[d].status # "none" /\ \A i \in Intents : intent[i].draft # d

Finalizing   == {"check", "complete", "mark", "manifest"}
AfterReceipt == Finalizing \cup {"patch", "bind"}

\* What a page that holds q may count on.
PageFits(q) ==
    /\ q.stage \in AfterReceipt => IsMinted(q.mint)
    /\ q.stage = "wait" => q.mint \in Identities
    /\ q.stage \in Finalizing => q.intent \in Intents
    /\ q.intent \in Intents => intent[q.intent].status # "none"
    /\ q.stage = "mark" => intent[q.intent].status = "completed" /\ intent[q.intent].agent = q.mint
    /\ q.stage = "patch" => q.token
    /\ q.token => IsOwn(q.draft)

IntentHolds(i) ==
    /\ intent[i].status = "none" => intent[i].draft = NoDraft
    /\ intent[i].status # "none" => intent[i].draft \in Drafts
    /\ intent[i].status # "none" => draft[intent[i].draft].status # "none"
    /\ intent[i].status = "completed" => IsMinted(intent[i].agent)
    /\ intent[i].status # "completed" => intent[i].agent = NoIdentity
    /\ intent[i].status # "none" /\ draft[intent[i].draft].status = "minted" =>
          intent[i].status = "completed" /\ draft[intent[i].draft].agent = intent[i].agent

BundlesInv ==
    /\ BundlesTyped
    /\ \A i \in Intents : IntentHolds(i)
    /\ \A i, j \in Intents : intent[i].draft = intent[j].draft /\ intent[i].draft \in Drafts => i = j
    /\ \A d \in Drafts : draft[d].status = "minted" => IsMinted(draft[d].agent)

PagesInv ==
    /\ PagesTyped
    /\ \A f \in Forms : PageFits(form[f])
    /\ \A m \in agentRow \cup manifest \cup runtimeKey : IsMinted(m)

OnboardingInv == BundlesInv /\ PagesInv

\* What an onboarding step never takes back.
OnboardingLasts ==
    /\ \A m : IsMinted(m) => IsMinted(m)'
    /\ \A d : IsOwn(d) => IsOwn(d)'
    /\ \A i \in Intents : intent[i].status # "none" => intent'[i].status # "none"
    /\ \A i \in Intents : intent[i].status = "completed" =>
          intent'[i].status = "completed" /\ intent'[i].agent = intent[i].agent

LEMMA InitOnboardingInv == OnboardingInit => OnboardingInv
  <1> SUFFICES ASSUME OnboardingInit PROVE OnboardingInv
    OBVIOUS
  <1> USE OnboardingAssumption DEF OnboardingInit
  <1>1. BundlesTyped
    <2>1. NoDraftYet \in IntentRows /\ Undrafted \in DraftRows /\ Unminted \in MintRows
      BY DEF NoDraftYet, IntentRows, Undrafted, DraftRows, Unminted, MintRows, Uris
    <2> QED
      BY <2>1 DEF BundlesTyped
  <1>2. PagesTyped
    <2>1. Blank \in FormRows /\ NoRecord \in RecordRows
      BY DEF Blank, FormRows, FormStages, Uris, NoRecord, RecordRows
    <2>2. 0 \in 0 .. MaxOnboardingTroubles
      BY MaxOnboardingTroubles \in Nat
    <2> QED
      BY <2>1, <2>2 DEF PagesTyped
  <1>3. BundlesInv
    <2>1. \A i \in Intents : intent[i].status = "none" /\ intent[i].draft = NoDraft /\ intent[i].agent = NoIdentity
      BY DEF NoDraftYet
    <2>2. \A d \in Drafts : draft[d].status = "none"
      BY DEF Undrafted
    <2> QED
      BY <1>1, <2>1, <2>2 DEF BundlesInv, IntentHolds
  <1>4. PagesInv
    <2>1. \A f \in Forms : form[f].stage = "away" /\ form[f].intent = NoIntent /\ form[f].token = FALSE
      BY DEF Blank
    <2> QED
      BY <1>2, <2>1 DEF PagesInv, PageFits, AfterReceipt, Finalizing
  <1> QED
    BY <1>3, <1>4 DEF OnboardingInv

\* What a page holds stays true while others step.
LEMMA PageRests ==
  ASSUME OnboardingLasts, NEW q, PageFits(q)
  PROVE  PageFits(q)'
  <1>1. q.stage \in AfterReceipt => IsMinted(q.mint)'
    BY DEF PageFits, OnboardingLasts
  <1>2. q.token => IsOwn(q.draft)'
    BY DEF PageFits, OnboardingLasts
  <1>3. q.stage = "mark" => q.intent \in Intents
    BY DEF PageFits, Finalizing
  <1> QED
    BY <1>1, <1>2, <1>3 DEF PageFits, OnboardingLasts

\* A step that leaves intents, drafts and mints alone.
LEMMA BundlesRest ==
  ASSUME UNCHANGED <<intent, draft, mint>>
  PROVE  OnboardingLasts /\ (BundlesInv => BundlesInv')
  BY DEF OnboardingLasts, IsMinted, IsOwn, BundlesInv, BundlesTyped, IntentHolds

\* A step in which no page moves and no list grows.
LEMMA PagesRest ==
  ASSUME PagesInv, OnboardingLasts, UNCHANGED <<form, OfAgents, OfRecords>>,
         onboardingTroubles' = onboardingTroubles \/ Snag
  PROVE  PagesInv'
  <1>1. PagesTyped'
    BY OnboardingAssumption DEF PagesInv, PagesTyped, OfAgents, OfRecords, Snag
  <1>2. \A f \in Forms : PageFits(form[f])'
    <2>1. \A f \in Forms : PageFits(form[f]) /\ form'[f] = form[f]
      BY DEF PagesInv
    <2>2. ASSUME NEW f \in Forms, NEW q, q = form[f] PROVE PageFits(q)'
      BY <2>1, <2>2, PageRests
    <2> QED
      BY <2>1, <2>2 DEF PageFits, IsMinted, IsOwn
  <1>3. \A m \in (agentRow \cup manifest \cup runtimeKey)' : IsMinted(m)'
    BY DEF PagesInv, OfAgents, OnboardingLasts
  <1> QED
    BY <1>1, <1>2, <1>3 DEF PagesInv

\* One page moves.
LEMMA PageMoves ==
  ASSUME PagesInv, OnboardingLasts, NEW f \in Forms, NEW q \in FormRows, FormIs(f, q),
         onboardingTroubles' = onboardingTroubles \/ Snag,
         UNCHANGED <<agentRow, runtimeKey>>,
         manifest' = manifest \/ (IsMinted(form[f].mint) /\ manifest' = manifest \cup {form[f].mint}),
         bound' \subseteq Identities, record' \in RecordRows,
         PageFits(q)'
  PROVE  PagesInv'
  <1>1. form' \in [Forms -> FormRows] /\ form'[f] = q /\ \A g \in Forms : g # f => form'[g] = form[g]
    BY DEF PagesInv, PagesTyped, FormIs
  <1>2. PagesTyped'
    <2>1. onboardingTroubles' \in 0 .. MaxOnboardingTroubles
      BY OnboardingAssumption DEF PagesInv, PagesTyped, Snag
    <2>2. manifest' \subseteq Identities
      BY DEF PagesInv, PagesTyped, IsMinted
    <2> QED
      BY <1>1, <2>1, <2>2 DEF PagesInv, PagesTyped
  <1>3. ASSUME NEW g \in Forms PROVE PageFits(form[g])'
    <2>1. PICK p : p = form'[g]
      OBVIOUS
    <2>2. PageFits(p)'
      BY <1>1, <2>1, PageRests DEF PagesInv
    <2> QED
      BY <2>1, <2>2 DEF PageFits, IsMinted, IsOwn
  <1>4. \A m \in (agentRow \cup manifest \cup runtimeKey)' : IsMinted(m)'
    <2>1. \A m \in (agentRow \cup manifest \cup runtimeKey)' : IsMinted(m)
      BY DEF PagesInv
    <2> QED
      BY <2>1 DEF OnboardingLasts
  <1> QED
    BY <1>2, <1>3, <1>4 DEF PagesInv

\* The steps of a page that write nothing but itself, the binding, the record
\* of the browser and the manifest.
LEMMA PageSteps ==
  ASSUME OnboardingInv, NEW f \in Forms,
         \/ EditUri(f) \/ SubmitRegister(f) \/ SeeReceipt(f) \/ BindAgent(f) \/ RetryBinding(f)
         \/ PageFails(f) \/ CheckIntent(f) \/ UpsertManifest(f)
         \/ \E i \in Intents : LoadIntent(f, i)
  PROVE  OnboardingInv'
  <1> USE OnboardingAssumption
  <1>0. form[f] \in FormRows /\ PageFits(form[f]) /\ PagesTyped /\ PagesInv /\ BundlesInv
    BY DEF OnboardingInv, PagesInv, PagesTyped
  <1>1. UNCHANGED <<intent, draft, mint, agentRow, runtimeKey>>
    BY DEF EditUri, SubmitRegister, SeeReceipt, BindAgent, RetryBinding, PageFails, CheckIntent,
           UpsertManifest, LoadIntent, OfMcp, OfAgents
  <1>2. OnboardingLasts /\ BundlesInv'
    BY <1>1, BundlesRest DEF OnboardingInv
  <1>3. ASSUME NEW q \in FormRows, FormIs(f, q), PageFits(q),
               onboardingTroubles' = onboardingTroubles \/ Snag,
               bound' \subseteq Identities, record' \in RecordRows,
               manifest' = manifest \/ (IsMinted(form[f].mint) /\ manifest' = manifest \cup {form[f].mint})
        PROVE  OnboardingInv'
    <2>1. PageFits(q)'
      BY <1>2, <1>3, PageRests
    <2>2. PagesInv'
      BY <1>0, <1>1, <1>2, <1>3, <2>1, PageMoves
    <2> QED
      BY <1>2, <2>2 DEF OnboardingInv
  <1>3a. ASSUME UNCHANGED <<bound, record, manifest>>
         PROVE  bound' \subseteq Identities /\ record' \in RecordRows /\ manifest' = manifest
    BY <1>0, <1>3a DEF PagesTyped
  <1>4. CASE EditUri(f)
    <2>0. PICK q : q = [form[f] EXCEPT !.uri = OwnUri]
      OBVIOUS
    <2>1. /\ q \in FormRows /\ q.stage = "away" /\ q.intent = form[f].intent /\ q.token = form[f].token
          /\ q.draft = form[f].draft
      BY <2>0, <1>0, <1>4 DEF EditUri, OnStage, FormRows, Uris
    <2>2. FormIs(f, q) /\ UNCHANGED <<bound, record, manifest, onboardingTroubles>>
      BY <2>0, <1>4 DEF EditUri, OfAgents, OfRecords
    <2>3. PageFits(q)
      BY <1>0, <2>1 DEF PageFits, AfterReceipt, Finalizing
    <2> QED
      BY <1>3, <1>3a, <2>1, <2>2, <2>3
  <1>5. CASE SubmitRegister(f)
    <2>0. PICK q : q = [form[f] EXCEPT !.status = "pending", !.mint = NoIdentity,
                                    !.stage = IF form[f].uri = NoDraft THEN "draft" ELSE "sign"]
      OBVIOUS
    <2>1. /\ q \in FormRows /\ q.stage \in {"draft", "sign"} /\ q.intent = form[f].intent
          /\ q.token = form[f].token /\ q.draft = form[f].draft
      BY <2>0, <1>0 DEF FormRows, FormStages
    <2>2. FormIs(f, q) /\ UNCHANGED <<bound, record, manifest, onboardingTroubles>>
      BY <2>0, <1>5 DEF SubmitRegister, OfAgents, OfRecords
    <2>3. PageFits(q)
      BY <1>0, <2>1 DEF PageFits, AfterReceipt, Finalizing
    <2> QED
      BY <1>3, <1>3a, <2>1, <2>2, <2>3
  \* The page goes to another stage, or shows how it ended.
  <1>6. ASSUME NEW s \in FormStages,
               s \in AfterReceipt => IsMinted(form[f].mint),
               s \in Finalizing => form[f].intent \in Intents,
               s \notin {"wait", "mark"}, s = "patch" => form[f].token, Steps(f, s),
               UNCHANGED <<bound, record, onboardingTroubles>>,
               \/ UNCHANGED manifest
               \/ IsMinted(form[f].mint) /\ manifest' = manifest \cup {form[f].mint}
        PROVE  OnboardingInv'
    <2>0. PICK q : q = [form[f] EXCEPT !.stage = s]
      OBVIOUS
    <2>1. /\ q \in FormRows /\ q.stage = s /\ q.intent = form[f].intent /\ q.mint = form[f].mint
          /\ q.token = form[f].token /\ q.draft = form[f].draft
      BY <2>0, <1>0 DEF FormRows
    <2>2. FormIs(f, q)
      BY <2>0, <1>6 DEF Steps
    <2>3. PageFits(q)
      BY <1>0, <1>6, <2>1 DEF PageFits
    <2>4. bound' \subseteq Identities /\ record' \in RecordRows
      BY <1>0, <1>6 DEF PagesTyped
    <2> QED
      BY <1>3, <1>6, <2>1, <2>2, <2>3, <2>4
  <1>7. ASSUME NEW s \in {"error", "success"}, Shown(f, s), UNCHANGED <<bound, record, manifest>>,
               onboardingTroubles' = onboardingTroubles \/ Snag
        PROVE  OnboardingInv'
    <2>0. PICK q : q = [form[f] EXCEPT !.stage = "away", !.status = s]
      OBVIOUS
    <2>1. /\ q \in FormRows /\ q.stage = "away" /\ q.intent = form[f].intent
          /\ q.token = form[f].token /\ q.draft = form[f].draft
      BY <2>0, <1>0 DEF FormRows, FormStages
    <2>2. FormIs(f, q)
      BY <2>0, <1>7 DEF Shown
    <2>3. PageFits(q)
      BY <1>0, <2>1 DEF PageFits, AfterReceipt, Finalizing
    <2> QED
      BY <1>3, <1>3a, <1>7, <2>1, <2>2, <2>3
  <1>8. CASE SeeReceipt(f)
    <2>1. /\ form[f].stage = "wait" /\ form[f].mint \in Identities
          /\ UNCHANGED <<bound, record, manifest, onboardingTroubles>>
          /\ mint[form[f].mint].state \in {"mined", "reverted"}
      BY <1>0, <1>8 DEF SeeReceipt, OfAgents, OfRecords, PageFits
    <2>2. CASE mint[form[f].mint].state = "reverted"
      <3>1. Shown(f, "error")
        BY <1>8, <2>2 DEF SeeReceipt
      <3> QED
        BY <1>7, <2>1, <3>1
    <2>3. CASE mint[form[f].mint].state = "mined"
      <3>1. IsMinted(form[f].mint)
        BY <2>1, <2>3 DEF IsMinted
      <3>2. CASE form[f].intent # NoIntent
        <4>1. Steps(f, "check") /\ form[f].intent \in Intents
          BY <1>0, <1>8, <2>3, <3>2 DEF SeeReceipt, FormRows
        <4> QED
          BY <1>6, <2>1, <3>1, <4>1 DEF FormStages
      <3>3. CASE form[f].intent = NoIntent /\ form[f].token
        <4>1. Steps(f, "patch")
          BY <1>8, <2>3, <3>3 DEF SeeReceipt
        <4> QED
          BY <1>6, <2>1, <3>1, <3>3, <4>1 DEF FormStages, Finalizing
      <3>4. CASE form[f].intent = NoIntent /\ ~form[f].token
        <4>1. Steps(f, "bind")
          BY <1>8, <2>3, <3>4 DEF SeeReceipt
        <4> QED
          BY <1>6, <2>1, <3>1, <4>1 DEF FormStages, Finalizing
      <3> QED
        BY <3>2, <3>3, <3>4
    <2> QED
      BY <2>1, <2>2, <2>3
  <1>9. CASE PageFails(f)
    <2>1. Shown(f, "error") /\ Snag /\ UNCHANGED <<bound, record, manifest>>
      BY <1>9 DEF PageFails, OfAgents, OfRecords
    <2> QED
      BY <1>7, <2>1
  <1>10. CASE CheckIntent(f)
    <2>1. form[f].stage = "check" /\ UNCHANGED <<bound, record, manifest, onboardingTroubles>>
      BY <1>10 DEF CheckIntent, OnStage, OfAgents, OfRecords
    <2>2. IsMinted(form[f].mint) /\ form[f].intent \in Intents
      BY <1>0, <2>1 DEF PageFits, AfterReceipt, Finalizing
    <2>3. Steps(f, "complete") \/ Shown(f, "error")
      BY <1>10 DEF CheckIntent
    <2> QED
      BY <1>6, <1>7, <2>1, <2>2, <2>3 DEF FormStages
  <1>11. CASE UpsertManifest(f)
    <2>1. /\ form[f].stage = "manifest" /\ UNCHANGED <<bound, record, onboardingTroubles>>
          /\ manifest' = manifest \cup {form[f].mint} /\ Steps(f, "bind")
      BY <1>11 DEF UpsertManifest, OnStage, OfRecords
    <2>2. IsMinted(form[f].mint)
      BY <1>0, <2>1 DEF PageFits, AfterReceipt, Finalizing
    <2> QED
      BY <1>6, <2>1, <2>2 DEF FormStages, Finalizing
  <1>12. CASE BindAgent(f)
    <2>1. form[f].stage = "bind" /\ UNCHANGED manifest
      BY <1>12 DEF BindAgent, OnStage, OfAgents
    <2>2. IsMinted(form[f].mint)
      BY <1>0, <2>1 DEF PageFits, AfterReceipt
    <2>3. PICK b \in {"created", "failed", "not_applicable"}, p \in {NoIdentity, form[f].mint} :
             /\ record' = [agent |-> form[f].mint, binding |-> b]
             /\ FormIs(f, [form[f] EXCEPT !.stage = "away", !.status = "success", !.pending = p])
      BY <1>12 DEF BindAgent
    <2>4. bound' \in {bound, bound \cup {form[f].mint}} /\ (onboardingTroubles' = onboardingTroubles \/ Snag)
      BY <1>12 DEF BindAgent
    <2>5. record' \in RecordRows /\ bound' \subseteq Identities
      BY <1>0, <2>2, <2>3, <2>4 DEF RecordRows, PagesTyped, IsMinted
    <2>0. PICK q : q = [form[f] EXCEPT !.stage = "away", !.status = "success", !.pending = p]
      OBVIOUS
    <2>6. /\ q \in FormRows /\ q.stage = "away" /\ q.intent = form[f].intent
          /\ q.token = form[f].token /\ q.draft = form[f].draft
      BY <2>0, <1>0, <2>2 DEF FormRows, FormStages, IsMinted
    <2>7. FormIs(f, q)
      BY <2>0, <2>3
    <2>8. PageFits(q)
      BY <1>0, <2>6 DEF PageFits, AfterReceipt, Finalizing
    <2> QED
      BY <1>3, <2>1, <2>4, <2>5, <2>6, <2>7, <2>8
  <1>13. CASE RetryBinding(f)
    <2>1. /\ form[f].stage = "away" /\ UNCHANGED <<manifest, onboardingTroubles>>
          /\ form[f].pending # NoIdentity /\ bound' = bound \cup {form[f].pending}
          /\ record' = [record EXCEPT !.binding = "created"]
          /\ FormIs(f, [form[f] EXCEPT !.pending = NoIdentity])
      BY <1>13 DEF RetryBinding, OnStage, OfAgents
    <2>2. record' \in RecordRows /\ bound' \subseteq Identities
      BY <1>0, <2>1 DEF PagesTyped, FormRows, RecordRows
    <2>0. PICK q : q = [form[f] EXCEPT !.pending = NoIdentity]
      OBVIOUS
    <2>3. /\ q \in FormRows /\ q.stage = "away" /\ q.intent = form[f].intent
          /\ q.token = form[f].token /\ q.draft = form[f].draft
      BY <2>0, <1>0, <2>1 DEF FormRows
    <2>4. FormIs(f, q)
      BY <2>0, <2>1
    <2>5. PageFits(q)
      BY <1>0, <2>3 DEF PageFits, AfterReceipt, Finalizing
    <2> QED
      BY <1>3, <2>1, <2>2, <2>3, <2>4, <2>5
  <1>14. ASSUME NEW i \in Intents, LoadIntent(f, i) PROVE OnboardingInv'
    <2>0. PICK q : q = [Blank EXCEPT !.intent = i, !.draft = intent[i].draft, !.uri = intent[i].draft]
      OBVIOUS
    <2>1. intent[i] \in IntentRows /\ intent[i].status = "draft"
      BY <1>14 DEF LoadIntent, IsActive, OnboardingInv, BundlesInv, BundlesTyped
    <2>2. /\ q \in FormRows /\ q.stage = "away" /\ q.intent = i /\ q.token = FALSE
      BY <2>0, <2>1 DEF Blank, FormRows, FormStages, Uris, IntentRows
    <2>3. FormIs(f, q) /\ UNCHANGED <<bound, record, manifest, onboardingTroubles>>
      BY <2>0, <1>14 DEF LoadIntent, OfAgents, OfRecords
    <2>4. PageFits(q)
      BY <2>1, <2>2 DEF PageFits, AfterReceipt, Finalizing
    <2> QED
      BY <1>3, <1>3a, <2>2, <2>3, <2>4
  <1> QED
    BY <1>4, <1>5, <1>8, <1>9, <1>10, <1>11, <1>12, <1>13, <1>14

\* A draft is marked with a minted agent: one of no intent, or of the intent
\* that this agent completed.
LEMMA DraftIsMarked ==
  ASSUME BundlesInv, NEW d \in Drafts, NEW m, IsMinted(m),
         draft' = [draft EXCEPT ![d] = [status |-> "minted", agent |-> m]], UNCHANGED <<intent, mint>>,
         \A i \in Intents : intent[i].draft = d => intent[i].status = "completed" /\ intent[i].agent = m
  PROVE  OnboardingLasts /\ BundlesInv'
  <1> USE OnboardingAssumption
  <1>1. /\ draft' \in [Drafts -> DraftRows] /\ draft'[d].status = "minted" /\ draft'[d].agent = m
        /\ \A e \in Drafts : e # d => draft'[e] = draft[e]
    BY DEF BundlesInv, BundlesTyped, DraftRows, IsMinted
  <1>2. \A n : IsMinted(n)' <=> IsMinted(n)
    BY DEF IsMinted
  <1>3. OnboardingLasts
    BY <1>1, <1>2 DEF OnboardingLasts, IsOwn
  <1>4. ASSUME NEW i \in Intents PROVE IntentHolds(i)'
    BY <1>1 DEF BundlesInv, IntentHolds, IsMinted
  <1>5. \A e \in Drafts : draft'[e].status = "minted" => IsMinted(draft[e].agent) \/ draft'[e].agent = m
    BY <1>1 DEF BundlesInv
  <1>6. \A e \in Drafts : draft'[e].status = "minted" => IsMinted(draft[e].agent)'
    BY <1>1, <1>5 DEF BundlesInv, IsMinted
  <1> QED
    BY <1>1, <1>3, <1>4, <1>6 DEF BundlesInv, BundlesTyped

\* A draft is made.
LEMMA DraftIsMade ==
  ASSUME BundlesInv, NEW d \in Drafts, draft[d].status = "none",
         draft' = [draft EXCEPT ![d].status = "draft"], UNCHANGED <<intent, mint>>
  PROVE  OnboardingLasts /\ BundlesInv' /\ IsOwn(d)'
  <1> USE OnboardingAssumption
  <1>1. /\ draft' \in [Drafts -> DraftRows] /\ draft'[d].status = "draft"
        /\ \A e \in Drafts : e # d => draft'[e] = draft[e]
    BY DEF BundlesInv, BundlesTyped, DraftRows
  <1>2. OnboardingLasts
    BY <1>1 DEF OnboardingLasts, IsOwn, IsMinted
  <1>3. ASSUME NEW i \in Intents PROVE IntentHolds(i)' /\ intent'[i].draft # d
    BY <1>1 DEF BundlesInv, IntentHolds, IsMinted
  <1>4. \A e \in Drafts : draft'[e].status = "minted" => IsMinted(draft[e].agent)'
    BY <1>1 DEF BundlesInv, IsMinted
  <1> QED
    BY <1>1, <1>2, <1>3, <1>4 DEF BundlesInv, BundlesTyped, IsOwn

\* A mint moves on, and one that succeeded stays so.
LEMMA MintMoves ==
  ASSUME BundlesInv, NEW m \in Identities, NEW r \in MintRows, mint' = [mint EXCEPT ![m] = r],
         mint[m].state # "mined", UNCHANGED <<intent, draft>>
  PROVE  OnboardingLasts /\ BundlesInv'
  <1>1. mint' \in [Identities -> MintRows] /\ \A n \in Identities : n # m => mint'[n] = mint[n]
    BY DEF BundlesInv, BundlesTyped
  <1>2. \A n : IsMinted(n) => IsMinted(n)'
    BY <1>1 DEF IsMinted
  <1>3. OnboardingLasts
    BY <1>2 DEF OnboardingLasts, IsOwn
  <1>4. ASSUME NEW i \in Intents PROVE IntentHolds(i)'
    <2>1. intent[i].status = "completed" => IsMinted(intent[i].agent)'
      BY <1>2 DEF BundlesInv, IntentHolds
    <2> QED
      BY <2>1 DEF BundlesInv, IntentHolds, IsMinted
  <1>5. \A e \in Drafts : draft'[e].status = "minted" => IsMinted(draft[e].agent)'
    BY <1>2 DEF BundlesInv
  <1> QED
    BY <1>1, <1>3, <1>4, <1>5 DEF BundlesInv, BundlesTyped, IsMinted

\* The steps of a page that write a draft, an intent or a mint.
LEMMA PageWrites ==
  ASSUME OnboardingInv, NEW f \in Forms,
         \/ PatchDraft(f) \/ CompleteIntent(f) \/ MarkDraft(f)
         \/ \E d \in Drafts : CreateDraft(f, d)
         \/ \E m \in Identities : SignRegister(f, m)
  PROVE  OnboardingInv'
  <1> USE OnboardingAssumption
  <1>0. form[f] \in FormRows /\ PageFits(form[f]) /\ PagesTyped /\ PagesInv /\ BundlesInv
    BY DEF OnboardingInv, PagesInv, PagesTyped
  <1>1. UNCHANGED <<OfAgents, OfRecords, onboardingTroubles>>
    <2>1. ASSUME NEW d \in Drafts, CreateDraft(f, d) PROVE UNCHANGED <<OfAgents, OfRecords, onboardingTroubles>>
      BY <2>1 DEF CreateDraft
    <2>2. ASSUME NEW m \in Identities, SignRegister(f, m) PROVE UNCHANGED <<OfAgents, OfRecords, onboardingTroubles>>
      BY <2>2 DEF SignRegister
    <2> QED
      BY <2>1, <2>2 DEF PatchDraft, CompleteIntent, MarkDraft
  <1>2. ASSUME OnboardingLasts, BundlesInv', NEW q \in FormRows, FormIs(f, q), PageFits(q)'
        PROVE  OnboardingInv'
    <2>1. /\ UNCHANGED <<agentRow, runtimeKey, manifest>> /\ onboardingTroubles' = onboardingTroubles
          /\ bound' \subseteq Identities /\ record' \in RecordRows
      BY <1>0, <1>1 DEF OfAgents, OfRecords, PagesTyped
    <2>2. PagesInv'
      BY <1>0, <1>2, <2>1, PageMoves
    <2> QED
      BY <1>2, <2>2 DEF OnboardingInv
  <1>3. CASE PatchDraft(f)
    <2>1. /\ form[f].stage = "patch" /\ UNCHANGED <<intent, mint>> /\ Steps(f, "bind")
          /\ draft' = [draft EXCEPT ![form[f].draft] = [status |-> "minted", agent |-> form[f].mint]]
      BY <1>3 DEF PatchDraft, OnStage
    <2>2. IsMinted(form[f].mint) /\ IsOwn(form[f].draft)
      BY <1>0, <2>1 DEF PageFits, AfterReceipt
    <2>3. OnboardingLasts /\ BundlesInv'
      BY <1>0, <2>1, <2>2, DraftIsMarked, ZenonT(40) DEF IsOwn
    <2>4. PICK q : q = [form[f] EXCEPT !.stage = "bind"]
      OBVIOUS
    <2>5. /\ q \in FormRows /\ q.stage = "bind" /\ q.intent = form[f].intent /\ q.mint = form[f].mint
          /\ q.token = form[f].token /\ q.draft = form[f].draft /\ FormIs(f, q)
      BY <1>0, <2>1, <2>4 DEF FormRows, FormStages, Steps
    <2>6. PageFits(q)
      BY <1>0, <2>2, <2>5 DEF PageFits, AfterReceipt, Finalizing
    <2> QED
      BY <1>2, <2>3, <2>5, <2>6, PageRests
  <1>4. CASE MarkDraft(f)
    <2>1. PICK i : i = form[f].intent
      OBVIOUS
    <2>2. /\ form[f].stage = "mark" /\ UNCHANGED <<intent, mint>> /\ Steps(f, "manifest")
          /\ draft' = [draft EXCEPT ![intent[i].draft] = [status |-> "minted", agent |-> form[f].mint]]
      BY <1>4, <2>1 DEF MarkDraft, OnStage, IntentOf
    <2>3. /\ IsMinted(form[f].mint) /\ i \in Intents /\ intent[i].status = "completed"
          /\ intent[i].agent = form[f].mint
      BY <1>0, <2>1, <2>2 DEF PageFits, AfterReceipt, Finalizing
    <2>4. intent[i].draft \in Drafts /\ \A j \in Intents : intent[j].draft = intent[i].draft => j = i
      BY <1>0, <2>3 DEF BundlesInv, IntentHolds
    <2>5. OnboardingLasts /\ BundlesInv'
      BY <1>0, <2>2, <2>3, <2>4, DraftIsMarked
    <2>6. PICK q : q = [form[f] EXCEPT !.stage = "manifest"]
      OBVIOUS
    <2>7. /\ q \in FormRows /\ q.stage = "manifest" /\ q.intent = form[f].intent /\ q.mint = form[f].mint
          /\ q.token = form[f].token /\ q.draft = form[f].draft /\ FormIs(f, q)
      BY <1>0, <2>2, <2>6 DEF FormRows, FormStages, Steps
    <2>8. PageFits(q)
      BY <1>0, <2>1, <2>3, <2>7 DEF PageFits, AfterReceipt, Finalizing
    <2> QED
      BY <1>2, <2>5, <2>7, <2>8, PageRests
  <1>5. ASSUME NEW d \in Drafts, CreateDraft(f, d) PROVE OnboardingInv'
    <2>1. /\ form[f].stage = "draft" /\ draft[d].status = "none" /\ UNCHANGED <<intent, mint>>
          /\ draft' = [draft EXCEPT ![d].status = "draft"]
          /\ FormIs(f, [form[f] EXCEPT !.stage = "sign", !.draft = d, !.token = TRUE, !.uri = d])
      BY <1>5 DEF CreateDraft, OnStage
    <2>2. OnboardingLasts /\ BundlesInv' /\ IsOwn(d)'
      BY <1>0, <2>1, DraftIsMade
    <2>3. PICK q : q = [form[f] EXCEPT !.stage = "sign", !.draft = d, !.token = TRUE, !.uri = d]
      OBVIOUS
    <2>4. /\ q \in FormRows /\ q.stage = "sign" /\ q.intent = form[f].intent /\ q.draft = d /\ FormIs(f, q)
      BY <1>0, <2>1, <2>3 DEF FormRows, FormStages, Uris
    <2>5. PageFits(q)'
      BY <1>0, <2>1, <2>2, <2>4 DEF PageFits, AfterReceipt, Finalizing
    <2> QED
      BY <1>2, <2>2, <2>4, <2>5
  <1>6. ASSUME NEW m \in Identities, SignRegister(f, m) PROVE OnboardingInv'
    <2>1. PICK r : r = [state |-> "sent", uri |-> form[f].uri]
      OBVIOUS
    <2>2. /\ form[f].stage = "sign" /\ mint[m].state = "none" /\ UNCHANGED <<intent, draft>>
          /\ mint' = [mint EXCEPT ![m] = r] /\ r \in MintRows
          /\ FormIs(f, [form[f] EXCEPT !.stage = "wait", !.mint = m])
      BY <1>0, <1>6, <2>1 DEF SignRegister, OnStage, OfMcp, MintRows, FormRows
    <2>3. OnboardingLasts /\ BundlesInv'
      BY <1>0, <2>2, MintMoves
    <2>4. PICK q : q = [form[f] EXCEPT !.stage = "wait", !.mint = m]
      OBVIOUS
    <2>5. /\ q \in FormRows /\ q.stage = "wait" /\ q.mint = m /\ q.intent = form[f].intent
          /\ q.token = form[f].token /\ q.draft = form[f].draft /\ FormIs(f, q)
      BY <1>0, <2>2, <2>4 DEF FormRows, FormStages
    <2>6. PageFits(q)
      BY <1>0, <2>5 DEF PageFits, AfterReceipt, Finalizing
    <2> QED
      BY <1>2, <2>3, <2>5, <2>6, PageRests
  <1>7. CASE CompleteIntent(f)
    <2>1. PICK i \in Intents, m \in Identities :
             /\ i = form[f].intent /\ m = form[f].mint /\ IsMinted(m) /\ form[f].stage = "complete"
      BY <1>0, <1>7 DEF CompleteIntent, OnStage, PageFits, AfterReceipt, Finalizing, IsMinted
    <2>2. UNCHANGED <<draft, mint>>
      BY <1>7 DEF CompleteIntent
    <2>3. CASE Completable(i)
      <3>1. /\ intent[i].status = "draft" /\ Steps(f, "mark")
            /\ intent' = [intent EXCEPT ![i] = [@ EXCEPT !.status = "completed", !.agent = m]]
        BY <1>7, <2>1, <2>3 DEF CompleteIntent, Completable
      <3>2. /\ intent' \in [Intents -> IntentRows]
            /\ intent'[i].status = "completed" /\ intent'[i].agent = m /\ intent'[i].draft = intent[i].draft
            /\ \A j \in Intents : j # i => intent'[j] = intent[j]
        BY <1>0, <3>1 DEF BundlesInv, BundlesTyped, IntentRows
      <3>3. \A n : IsMinted(n)' <=> IsMinted(n)
        BY <2>2 DEF IsMinted
      <3>4. \A j \in Intents : intent'[j].draft = intent[j].draft
        BY <3>2
      <3>5. OnboardingLasts
        BY <2>2, <3>1, <3>2, <3>3, <3>4 DEF OnboardingLasts, IsOwn
      <3>6. \A j \in Intents : j # i => IntentHolds(j)'
        BY <1>0, <2>2, <3>2 DEF BundlesInv, IntentHolds, IsMinted
      <3>7. IntentHolds(i)'
        BY <1>0, <2>1, <2>2, <3>1, <3>2 DEF BundlesInv, IntentHolds, IsMinted
      <3>8. \A d \in Drafts : draft'[d].status = "minted" => IsMinted(draft[d].agent)'
        BY <1>0, <2>2 DEF BundlesInv, IsMinted
      <3>9. BundlesInv'
        BY <1>0, <2>2, <3>2, <3>4, <3>6, <3>7, <3>8 DEF BundlesInv, BundlesTyped
      <3>10. PICK q : q = [form[f] EXCEPT !.stage = "mark"]
        OBVIOUS
      <3>11. /\ q \in FormRows /\ q.stage = "mark" /\ q.intent = i /\ q.mint = m
             /\ q.token = form[f].token /\ q.draft = form[f].draft /\ FormIs(f, q)
        BY <1>0, <2>1, <3>1, <3>10 DEF FormRows, FormStages, Steps
      <3>12. q.token => IsOwn(q.draft)'
        BY <1>0, <3>5, <3>11 DEF PageFits, OnboardingLasts
      <3>13. PageFits(q)'
        BY <2>1, <3>2, <3>3, <3>11, <3>12 DEF PageFits, IsMinted, IsOwn
      <3> QED
        BY <1>2, <3>5, <3>9, <3>11, <3>13
    <2>4. CASE ~Completable(i)
      <3>1. UNCHANGED intent /\ IF intent[i].agent = m THEN Steps(f, "mark") ELSE Shown(f, "error")
        BY <1>7, <2>1, <2>4 DEF CompleteIntent
      <3>2. OnboardingLasts /\ BundlesInv'
        BY <1>0, <2>2, <3>1, BundlesRest
      <3>3. CASE intent[i].agent = m
        <4>1. intent[i].status = "completed"
          BY <1>0, <3>3 DEF BundlesInv, IntentHolds
        <4>2. PICK q : q = [form[f] EXCEPT !.stage = "mark"]
          OBVIOUS
        <4>3. /\ q \in FormRows /\ q.stage = "mark" /\ q.intent = i /\ q.mint = m
              /\ q.token = form[f].token /\ q.draft = form[f].draft /\ FormIs(f, q)
          BY <1>0, <2>1, <3>1, <3>3, <4>2 DEF FormRows, FormStages, Steps
        <4>4. PageFits(q)
          BY <1>0, <2>1, <3>3, <4>1, <4>3 DEF PageFits
        <4> QED
          BY <1>2, <3>2, <4>3, <4>4, PageRests
      <3>4. CASE intent[i].agent # m
        <4>1. PICK q : q = [form[f] EXCEPT !.stage = "away", !.status = "error"]
          OBVIOUS
        <4>2. /\ q \in FormRows /\ q.stage = "away" /\ q.intent = form[f].intent
              /\ q.token = form[f].token /\ q.draft = form[f].draft /\ FormIs(f, q)
          BY <1>0, <3>1, <3>4, <4>1 DEF FormRows, FormStages, Shown
        <4>3. PageFits(q)
          BY <1>0, <4>2 DEF PageFits, AfterReceipt, Finalizing
        <4> QED
          BY <1>2, <3>2, <4>2, <4>3, PageRests
      <3> QED
        BY <3>3, <3>4
    <2> QED
      BY <2>3, <2>4
  <1> QED
    BY <1>3, <1>4, <1>5, <1>6, <1>7

LEMMA NextOnboardingInv == OnboardingInv /\ [OnboardingNext]_onboardingVars => OnboardingInv'
  <1> SUFFICES ASSUME OnboardingInv, [OnboardingNext]_onboardingVars PROVE OnboardingInv'
    OBVIOUS
  <1> USE OnboardingAssumption
  <1>0. BundlesInv /\ BundlesTyped /\ PagesInv /\ PagesTyped
    BY DEF OnboardingInv, BundlesInv, PagesInv
  <1>1. ASSUME OnboardingLasts, BundlesInv', UNCHANGED <<form, OfAgents, OfRecords>>,
               onboardingTroubles' = onboardingTroubles \/ Snag
        PROVE  OnboardingInv'
    BY <1>0, <1>1, PagesRest DEF OnboardingInv
  <1>2. CASE UNCHANGED onboardingVars
    <2>1. UNCHANGED <<intent, draft, mint, form, OfAgents, OfRecords, onboardingTroubles>>
      BY <1>2 DEF onboardingVars, OfAgents, OfRecords
    <2> QED
      BY <1>0, <1>1, <2>1, BundlesRest
  <1>3. ASSUME NEW f \in Forms,
               \/ EditUri(f) \/ SubmitRegister(f) \/ SeeReceipt(f) \/ BindAgent(f) \/ RetryBinding(f)
               \/ PageFails(f) \/ CheckIntent(f) \/ UpsertManifest(f)
               \/ \E i \in Intents : LoadIntent(f, i)
        PROVE  OnboardingInv'
    BY <1>3, PageSteps
  <1>4. ASSUME NEW f \in Forms,
               \/ PatchDraft(f) \/ CompleteIntent(f) \/ MarkDraft(f)
               \/ \E d \in Drafts : CreateDraft(f, d)
               \/ \E m \in Identities : SignRegister(f, m)
        PROVE  OnboardingInv'
    BY <1>4, PageWrites
  \* A key is made for an agent, or a row of it is synchronized.
  <1>5. ASSUME NEW m, IsMinted(m), OnboardingLasts, BundlesInv', UNCHANGED <<form, manifest, OfRecords, onboardingTroubles>>,
               agentRow' \in {agentRow, agentRow \cup {m}}, runtimeKey' \in {runtimeKey, runtimeKey \cup {m}}
        PROVE  OnboardingInv'
    <2>1. PagesTyped'
      BY <1>0, <1>5 DEF PagesTyped, OfRecords, IsMinted
    <2>2. ASSUME NEW f \in Forms PROVE PageFits(form[f])'
      <3>1. PICK q : q = form[f] /\ form'[f] = q
        BY <1>5
      <3>2. PageFits(q)'
        BY <1>0, <1>5, <3>1, PageRests DEF PagesInv
      <3> QED
        BY <3>1, <3>2 DEF PageFits, IsMinted, IsOwn
    <2>3. \A n \in (agentRow \cup manifest \cup runtimeKey)' : IsMinted(n)
      BY <1>0, <1>5 DEF PagesInv
    <2>4. \A n \in (agentRow \cup manifest \cup runtimeKey)' : IsMinted(n)'
      BY <1>5, <2>3 DEF OnboardingLasts
    <2> QED
      BY <1>5, <2>1, <2>2, <2>4 DEF OnboardingInv, PagesInv
  <1>6. ASSUME NEW i \in Intents, NEW d \in Drafts, StartAgentBundle(i, d) PROVE OnboardingInv'
    <2>1. /\ intent[i].status = "none" /\ draft[d].status = "none" /\ UNCHANGED <<form, mint, OfAgents, OfRecords>>
          /\ draft' = [draft EXCEPT ![d].status = "draft"]
      BY <1>6 DEF StartAgentBundle
    <2>2. CASE UNCHANGED intent /\ Snag
      BY <1>0, <1>1, <2>1, <2>2, DraftIsMade
    <2>3. CASE /\ intent' = [intent EXCEPT ![i] = [NoDraftYet EXCEPT !.status = "draft", !.draft = d]]
               /\ UNCHANGED onboardingTroubles
      <3>1. /\ draft' \in [Drafts -> DraftRows] /\ draft'[d].status = "draft"
            /\ \A e \in Drafts : e # d => draft'[e] = draft[e]
        BY <1>0, <2>1 DEF BundlesTyped, DraftRows
      <3>2. PICK r : r = [NoDraftYet EXCEPT !.status = "draft", !.draft = d]
        OBVIOUS
      <3>3. r \in IntentRows /\ r.status = "draft" /\ r.draft = d /\ r.agent = NoIdentity
        BY <3>2 DEF NoDraftYet, IntentRows
      <3>4. /\ intent' \in [Intents -> IntentRows] /\ intent'[i] = r
            /\ \A j \in Intents : j # i => intent'[j] = intent[j]
        BY <1>0, <2>3, <3>2, <3>3 DEF BundlesTyped
      <3>5. \A n : IsMinted(n)' <=> IsMinted(n)
        BY <2>1 DEF IsMinted
      <3>6. \A e : IsOwn(e) => e # d /\ IsOwn(e)'
        BY <2>1, <3>1, <3>3, <3>4 DEF IsOwn
      <3>7. OnboardingLasts
        BY <2>1, <3>3, <3>4, <3>5, <3>6 DEF OnboardingLasts
      <3>8. \A j \in Intents : intent[j].draft # d
        BY <1>0, <2>1 DEF BundlesInv, IntentHolds
      <3>9. IntentHolds(i)'
        BY <3>1, <3>3, <3>4 DEF IntentHolds, IsMinted
      <3>10. \A j \in Intents : j # i => IntentHolds(j)'
        BY <1>0, <2>1, <3>1, <3>4, <3>8 DEF BundlesInv, IntentHolds, IsMinted
      <3>11. \A j, k \in Intents : intent'[j].draft = intent'[k].draft /\ intent'[j].draft \in Drafts => j = k
        BY <1>0, <3>3, <3>4, <3>8 DEF BundlesInv
      <3>12. \A e \in Drafts : draft'[e].status = "minted" => IsMinted(draft[e].agent)'
        BY <1>0, <2>1, <3>1 DEF BundlesInv, IsMinted
      <3>13. BundlesInv'
        BY <1>0, <2>1, <3>1, <3>4, <3>9, <3>10, <3>11, <3>12 DEF BundlesInv, BundlesTyped
      <3> QED
        BY <1>1, <2>1, <2>3, <3>7, <3>13
    <2> QED
      BY <1>6, <2>2, <2>3 DEF StartAgentBundle
  <1>7. ASSUME NEW i \in Intents, IntentExpires(i) PROVE OnboardingInv'
    <2>1. UNCHANGED <<draft, form, mint, OfAgents, OfRecords, onboardingTroubles>>
      BY <1>7 DEF IntentExpires
    <2>2. /\ intent' \in [Intents -> IntentRows]
          /\ \A j \in Intents : /\ intent'[j].status = intent[j].status /\ intent'[j].draft = intent[j].draft
                                /\ intent'[j].agent = intent[j].agent
      BY <1>0, <1>7 DEF IntentExpires, BundlesTyped, IntentRows
    <2>3. OnboardingLasts
      BY <2>1, <2>2 DEF OnboardingLasts, IsMinted, IsOwn
    <2>4. \A j \in Intents : IntentHolds(j)'
      BY <1>0, <2>1, <2>2 DEF BundlesInv, IntentHolds, IsMinted
    <2>5. \A e \in Drafts : draft'[e].status = "minted" => IsMinted(draft[e].agent)'
      BY <1>0, <2>1 DEF BundlesInv, IsMinted
    <2>6. BundlesInv'
      BY <1>0, <2>1, <2>2, <2>4, <2>5 DEF BundlesInv, BundlesTyped
    <2> QED
      BY <1>1, <2>1, <2>3, <2>6
  <1>8. ASSUME NEW i \in Intents, NEW m \in Identities, CreateAgentRuntimeKey(i, m) PROVE OnboardingInv'
    <2>1. /\ UNCHANGED <<intent, draft, mint, form, agentRow, manifest, OfRecords, onboardingTroubles>>
          /\ runtimeKey' = runtimeKey \cup {m} /\ intent[i].status = "completed" /\ intent[i].agent = m
      BY <1>8 DEF CreateAgentRuntimeKey, KeyForAgent, OfMcp
    <2>2. IsMinted(m)
      BY <1>0, <2>1 DEF BundlesInv, IntentHolds
    <2> QED
      BY <1>0, <1>5, <2>1, <2>2, BundlesRest
  <1>9. ASSUME NEW f \in Forms, CreateKeyOnPage(f) PROVE OnboardingInv'
    <2>1. PICK m \in agentRow :
             /\ UNCHANGED <<intent, draft, mint, form, agentRow, manifest, OfRecords, onboardingTroubles>>
             /\ runtimeKey' = runtimeKey \cup {m}
      BY <1>9 DEF CreateKeyOnPage, OfMcp
    <2>2. IsMinted(m)
      BY <1>0 DEF PagesInv
    <2> QED
      BY <1>0, <1>5, <2>1, <2>2, BundlesRest
  <1>10. ASSUME NEW m \in Identities, RegisterIsMined(m) PROVE OnboardingInv'
    <2>1. PICK s \in {"mined", "reverted"} : mint' = [mint EXCEPT ![m].state = s]
      BY <1>10 DEF RegisterIsMined
    <2>2. mint[m].state = "sent" /\ UNCHANGED <<intent, draft, form, OfAgents, OfRecords, onboardingTroubles>>
      BY <1>10 DEF RegisterIsMined, OfMcp
    <2>3. PICK r : r = [mint[m] EXCEPT !.state = s]
      OBVIOUS
    <2>4. r \in MintRows /\ mint' = [mint EXCEPT ![m] = r]
      BY <1>0, <2>1, <2>3 DEF BundlesTyped, MintRows
    <2> QED
      BY <1>0, <1>1, <2>2, <2>4, MintMoves
  <1>11. ASSUME NEW m \in Identities, SyncIdentity(m) PROVE OnboardingInv'
    <2>1. /\ IsMinted(m) /\ agentRow' = agentRow \cup {m}
          /\ UNCHANGED <<intent, form, mint, manifest, runtimeKey, OfRecords, onboardingTroubles>>
      BY <1>11 DEF SyncIdentity, MintIsSuccess, IsMinted
    <2>2. CASE UNCHANGED draft
      BY <1>0, <1>5, <2>1, <2>2, BundlesRest
    <2>3. ASSUME NEW f \in Forms, form[f].token,
                 draft' = [draft EXCEPT ![form[f].draft] = [status |-> "minted", agent |-> m]]
          PROVE  OnboardingInv'
      <3>1. IsOwn(form[f].draft)
        BY <1>0, <2>3 DEF PagesInv, PageFits
      <3>2. OnboardingLasts /\ BundlesInv'
        BY <1>0, <2>1, <2>3, <3>1, DraftIsMarked DEF IsOwn
      <3> QED
        BY <1>5, <2>1, <3>2
    <2> QED
      BY <1>11, <2>2, <2>3 DEF SyncIdentity
  <1> QED
    BY <1>2, <1>3, <1>4, <1>6, <1>7, <1>8, <1>9, <1>10, <1>11 DEF OnboardingNext

LEMMA OnboardingInvGives ==
  ASSUME OnboardingInv
  PROVE  OnboardingTypeOK /\ AgentsAreMinted /\ DraftFollowsIntent
  <1>1. OnboardingTypeOK
    <2>1. /\ intent \in [Intents -> IntentRows] /\ draft \in [Drafts -> DraftRows]
          /\ mint \in [Identities -> MintRows] /\ form \in [Forms -> FormRows] /\ record \in RecordRows
          /\ agentRow \subseteq Identities /\ manifest \subseteq Identities /\ bound \subseteq Identities
          /\ runtimeKey \subseteq Identities /\ onboardingTroubles \in 0 .. MaxOnboardingTroubles
      BY DEF OnboardingInv, BundlesInv, BundlesTyped, PagesInv, PagesTyped
    <2> QED
      BY <2>1, Zenon DEF OnboardingTypeOK, IntentRows, DraftRows, MintRows, FormRows, RecordRows
  <1>2. AgentsAreMinted
    BY DEF OnboardingInv, BundlesInv, PagesInv, AgentsAreMinted, IsMinted
  <1>3. DraftFollowsIntent
    <2>1. \A i \in Intents : IntentHolds(i)
      BY DEF OnboardingInv, BundlesInv
    <2> QED
      BY <2>1 DEF DraftFollowsIntent, IntentHolds
  <1> QED
    BY <1>1, <1>2, <1>3

-----------------------------------------------------------------------------
(***************************************************************************)
(* All of them.  A step is one of the component in focus, and leaves the   *)
(* other components where they are.                                        *)
(***************************************************************************)
LEMMA StepsOfFocus ==
  ASSUME [MCNext]_<<focus, vars, otherVars>>
  PROVE  /\ focus' = focus
         /\ [PaidNext]_paidVars /\ [SigningNext]_signingVars /\ [TicketNext]_ticketVars
         /\ [CommerceNext]_commerceVars /\ [AgentWalletsNext]_walletVars
         /\ [CredentialNext]_credentialVars /\ [OnboardingNext]_onboardingVars
         /\ focus # "providing" => [ToolNext]_toolVars
  <1>1. CASE UNCHANGED <<focus, vars, otherVars>>
    BY <1>1 DEF otherVars
  <1>2. ASSUME OthersRest,
               focus \notin {"jobs", "signing", "tickets", "gates", "paying", "links", "payers", "bindings",
                              "sessions", "grants", "keys", "onboarding"}
        PROVE  /\ UNCHANGED <<focus, paidVars, signingVars, ticketVars, commerceVars, walletVars,
                              credentialVars, onboardingVars>>
               /\ focus # "providing" => UNCHANGED toolVars
    BY <1>2 DEF OthersRest
  <1>3. CASE PaymentsAtWork \/ ProvidingAtWork
    BY <1>2, <1>3 DEF PaymentsAtWork, ProvidingAtWork
  <1>4. CASE PaidJobsAtWork
    BY <1>4 DEF PaidJobsAtWork, OthersRest
  <1>5. CASE SigningAtWork
    BY <1>5 DEF SigningAtWork, OthersRest
  <1>6. CASE TicketsAtWork
    BY <1>6 DEF TicketsAtWork, OthersRest
  <1>7. CASE GatesAtWork
    BY <1>7 DEF GatesAtWork, OthersRest
  <1>8. CASE PayingAtWork
    BY <1>8 DEF PayingAtWork, OthersRest
  <1>9. CASE LinksAtWork \/ PayersAtWork \/ BindingsAtWork
    <2>1. \A a \in Agents : IndexAgent(a) \/ TransferAgent(a, b1) => BindNext
      BY MCAssumption DEF BindNext, Payers
    <2>2. AgentWalletsNext
      BY <1>9, <2>1 DEF LinksAtWork, PayersAtWork, BindingsAtWork, AgentWalletsNext
    <2>3. focus \in {"links", "payers", "bindings"} /\ OthersRest
      BY <1>9 DEF LinksAtWork, PayersAtWork, BindingsAtWork
    <2> QED
      BY <2>2, <2>3 DEF OthersRest
  <1>10. CASE SessionsAtWork \/ GrantsAtWork \/ KeysAtWork
    <2>1. CredentialNext
      BY <1>10 DEF SessionsAtWork, GrantsAtWork, KeysAtWork, CredentialNext, SessionNext
    <2>2. focus \in {"sessions", "grants", "keys"} /\ OthersRest
      BY <1>10 DEF SessionsAtWork, GrantsAtWork, KeysAtWork
    <2> QED
      BY <2>1, <2>2 DEF OthersRest
  <1>11. CASE OnboardingAtWork
    BY <1>11 DEF OnboardingAtWork, OthersRest
  <1> QED
    BY <1>1, <1>3, <1>4, <1>5, <1>6, <1>7, <1>8, <1>9, <1>10, <1>11 DEF MCNext

ConsoleInv == JobsInv /\ SigningInv /\ TicketInv /\ GoodsInv /\ AccessIsFew /\ WalletsInv
              /\ CredentialInv /\ OnboardingInv

LEMMA InitConsoleInv == MCInit => ConsoleInv
  BY InitJobsInv, InitSigningInv, InitTicketInv, InitGoodsInv, InitAccessIsFew, InitWalletsInv,
     InitCredentialInv, InitOnboardingInv
  DEF MCInit, ConsoleInv

LEMMA NextConsoleInv == ConsoleInv /\ [MCNext]_<<focus, vars, otherVars>> => ConsoleInv'
  BY StepsOfFocus, NextJobsInv, NextSigningInv, NextTicketInv, NextGoodsInv, NextAccessIsFew, NextWalletsInv,
     NextCredentialInv, NextOnboardingInv
  DEF ConsoleInv

LEMMA ConsoleInvHolds == MCSpec => []ConsoleInv
  BY InitConsoleInv, NextConsoleInv, PTL DEF MCSpec

\* The agent that pays is at work on the inputs of AgentTools, the one that
\* provides on others.
AgentInv == focus # "providing" => ToolInv

LEMMA AgentInvHolds == OneHostPerKey => (MCSpec => []AgentInv)
  <1> SUFFICES ASSUME OneHostPerKey PROVE MCSpec => []AgentInv
    OBVIOUS
  <1>1. MCInit => AgentInv
    BY InitToolInv DEF MCInit, AgentInv
  <1>2. AgentInv /\ [MCNext]_<<focus, vars, otherVars>> => AgentInv'
    BY StepsOfFocus, NextToolInv DEF AgentInv
  <1> QED
    BY <1>1, <1>2, PTL DEF MCSpec

\* What is paid for is had once: no proof settles two requests and no retry of
\* an agent pays twice, and what is had was paid for: a settled job, a receipt
\* (PaidJobs, SigningBridge, CommerceGate, AgentTools), for any number of
\* requests, proofs, tabs and calls, if the agent gives a key again only for a
\* payment to the host it first gave it for.
THEOREM WhatIsHadIsPaidForOnce == OneHostPerKey => (MCSpec => []PaidForOnce)
  <1> SUFFICES ASSUME OneHostPerKey PROVE MCSpec => []PaidForOnce
    OBVIOUS
  <1>1. ConsoleInv /\ AgentInv => PaidForOnce
    <2> SUFFICES ASSUME ConsoleInv, AgentInv PROVE PaidForOnce
      OBVIOUS
    <2>1. focus = "jobs" => ProofIsExclusive /\ SettledJobIsPaid
      BY JobsInvGives DEF ConsoleInv
    <2>2. focus = "signing" => SignedOnce
      BY DEF ConsoleInv, SigningInv
    <2>3. focus = "gates" => ReceiptIsPaid /\ AnsweredIsReceipted
      BY DEF ConsoleInv, GoodsInv
    <2>4. focus = "paying" => RetriesPayOnce /\ ToolTellsPayments
      BY ToolInvGives DEF AgentInv
    <2> QED
      BY <2>1, <2>2, <2>3, <2>4 DEF PaidForOnce
  <1> QED
    BY ConsoleInvHolds, AgentInvHolds, <1>1, PTL

\* What is used once lets one in and what was revoked nobody (Credentials), a
\* binding names the account of the mint (AgentWallets), and whatever the
\* Console holds of an agent is of a mint that succeeded (Onboarding), for any
\* number of requests, sessions, tokens, owners and tabs.
THEOREM AccessHasToBeEarned == MCSpec => []AccessIsEarned
  <1>1. ConsoleInv => AccessIsEarned
    <2> SUFFICES ASSUME ConsoleInv PROVE AccessIsEarned
      OBVIOUS
    <2>1. OneHeir /\ RevokedIsRefused
      BY CredentialInvGives DEF ConsoleInv
    <2>2. BindingIsOfTheMint /\ LinkLeavesAccount
      BY DEF ConsoleInv, WalletsInv
    <2>3. AgentsAreMinted /\ DraftFollowsIntent
      BY OnboardingInvGives DEF ConsoleInv
    <2> QED
      BY <2>1, <2>2, <2>3 DEF AccessIsEarned
  <1> QED
    BY ConsoleInvHolds, <1>1, PTL

\* A settlement is not undone, a job of the escrow is not touched by the routes
\* of paid jobs, the first hash of a ticket stays and the owner of a binding
\* too (PaidJobs, McpApprovals, AgentWallets), whoever races for them.
THEOREM SettledThingsStay == MCSpec => SettledStays
  <1> DEFINE JobStays    == agentJob.status = "settled" \/ agentJob.mode = "erc8183_escrow" => UNCHANGED agentJob
             HashStays   ==
                 /\ ticket.tx # NoUserOp => ticket'.tx = ticket.tx
                 /\ ticket.status \in {"cancelled", "confirmed", "failed"} => ticket' = ticket
                 /\ ticket'.tx # ticket.tx => userOp[ticket'.tx] # "none" /\ ticket.status = "approved"
             OwnerStays == \A a \in Agents : binding[a] # Unbound => binding'[a].owner = binding[a].owner
  <1>1. ASSUME ConsoleInv, [MCNext]_<<focus, vars, otherVars>>
        PROVE  [JobStays]_paidVars /\ [HashStays]_ticketVars /\ [OwnerStays]_walletVars
    BY <1>1, StepsOfFocus, SettledJobRests, FirstHash, NextWalletsInv DEF ConsoleInv
  <1> HIDE DEF JobStays, HashStays, OwnerStays
  <1>2. MCSpec => [][JobStays]_paidVars /\ [][HashStays]_ticketVars /\ [][OwnerStays]_walletVars
    BY ConsoleInvHolds, <1>1, PTL DEF MCSpec
  <1> QED
    BY <1>2 DEF SettledStays, SettlementIsFinal, FirstHashStays, BindingKeepsOwner, JobStays, HashStays,
                OwnerStays

(***************************************************************************)
(* The agent that provides, and the payments of the runner.  An agent that *)
(* has no tool to pay with leaves no trace of a payment.                   *)
(***************************************************************************)
ProviderTyped ==
    /\ input \in [Invocations -> MCAskedToProvide \cup {NoInput}]
    /\ reply \in [Invocations -> {"none", "waiting", "ok", "error", "lost", "timeout"}]
    /\ run \in [Invocations -> {"none", "sent", "writing", "done"}]
    /\ item \in [Invocations -> Nat]
    /\ DOMAIN writes = Provider!Amounts
    /\ budget \in Provider!Amounts \cup {0}
    /\ seen \in [Invocations -> SUBSET (Provider!Amounts \cup {0})]
    /\ lost \in 0 .. MaxLostMessages

ProviderInv ==
    /\ ProviderTyped
    /\ attempted = {} /\ settled = {} /\ charges = {}
    /\ \A c \in Invocations : run[c] = "sent" => input[c] \in MCAskedToProvide

LEMMA InitProviderInv == Provider!ToolInit => ProviderInv
  BY AskedAssumption DEF Provider!ToolInit, ProviderInv, ProviderTyped

LEMMA ProviderPaysNothing ==
  ASSUME NEW in \in MCAskedToProvide
  PROVE  in.tool \notin Provider!Payments
  BY DEF MCAskedToProvide, SetsBudget, Quotes, Provider!Payments

LEMMA ProviderTells ==
  ASSUME ProviderInv, NEW c \in Invocations, NEW what \in {"ok", "error"}, Provider!Tell(c, what),
         UNCHANGED <<item, payVars, writes, budget>>
  PROVE  ProviderInv'
  BY DEF Provider!Tell, ProviderInv, ProviderTyped, payVars

LEMMA NextProviderInv == ProviderInv /\ [Provider!ToolNext]_toolVars => ProviderInv'
  <1> SUFFICES ASSUME ProviderInv, [Provider!ToolNext]_toolVars PROVE ProviderInv'
    OBVIOUS
  <1>1. CASE UNCHANGED toolVars
    BY <1>1 DEF toolVars, clientVars, payVars, ProviderInv, ProviderTyped
  <1>2. ASSUME NEW c \in Invocations, NEW in \in MCAskedToProvide, Provider!Invoke(c, in)
        PROVE  ProviderInv'
    BY <1>2 DEF Provider!Invoke, Provider!payVars, ProviderInv, ProviderTyped
  <1>3. ASSUME NEW c \in Invocations, Provider!GiveUp(c) \/ Provider!LoseMessage(c)
        PROVE  ProviderInv'
    <2>1. CASE Provider!GiveUp(c)
      BY <2>1 DEF Provider!GiveUp, Provider!payVars, ProviderInv, ProviderTyped
    <2>2. CASE Provider!LoseMessage(c)
      <3>1. MaxLostMessages \in Nat
        BY AskedAssumption
      <3>2. lost' \in 0 .. MaxLostMessages
        BY <2>2, <3>1 DEF Provider!LoseMessage, ProviderInv, ProviderTyped
      <3>3. /\ reply' = [reply EXCEPT ![c] = "lost"]
            /\ run' = [run EXCEPT ![c] = "done"] \/ UNCHANGED run
            /\ UNCHANGED <<input, seen, item, attempted, settled, charges, writes, budget>>
        BY <2>2 DEF Provider!LoseMessage, Provider!payVars
      <3> QED
        BY <3>2, <3>3 DEF ProviderInv, ProviderTyped
    <2> QED
      BY <1>3, <2>1, <2>2
  <1>4. ASSUME NEW c \in Invocations
        PROVE  ~(\/ Provider!BeginPay(c) \/ Provider!TakeItem(c) \/ Provider!ServiceCharges(c)
                 \/ Provider!ServiceRefuses(c) \/ Provider!ServiceIsUnlocked(c) \/ Provider!RecordPaid(c))
    <2>1. run[c] \notin {"next", "paying", "paid"}
      BY DEF ProviderInv, ProviderTyped
    <2>2. run[c] = "sent" => input[c].tool \notin Provider!Payments
      BY ProviderPaysNothing DEF ProviderInv
    <2> QED
      BY <2>1, <2>2
      DEF Provider!BeginPay, Provider!TakeItem, Provider!ServiceCharges, Provider!ServiceRefuses,
          Provider!ServiceIsUnlocked, Provider!RecordPaid
  <1>5. ASSUME NEW c \in Invocations, Provider!BeginBudget(c)
        PROVE  ProviderInv'
    <2>1. CASE \E what \in {"ok", "error"} : Provider!Tell(c, what) /\ UNCHANGED writes
      BY <1>5, <2>1, ProviderTells DEF Provider!BeginBudget, Provider!payVars, payVars
    <2>2. CASE run' = [run EXCEPT ![c] = "writing"] /\ UNCHANGED clientVars
      <3>1. DOMAIN writes' = DOMAIN writes /\ UNCHANGED <<item, payVars, budget>>
        BY <1>5 DEF Provider!BeginBudget, Provider!Tell, Provider!payVars, payVars
      <3> QED
        BY <2>2, <3>1 DEF clientVars, payVars, ProviderInv, ProviderTyped
    <2> QED
      BY <1>5, <2>1, <2>2 DEF Provider!BeginBudget, Provider!clientVars, clientVars
  <1>6. ASSUME NEW c \in Invocations, Provider!AnswerLocally(c) \/ Provider!ForwardToConsole(c)
        PROVE  ProviderInv'
    BY <1>6, ProviderTells
    DEF Provider!AnswerLocally, Provider!ForwardToConsole, Provider!payVars, payVars
  <1>7. ASSUME NEW a \in Provider!Amounts, NEW state \in {"confirmed", "failed", "unknown"},
               Provider!BudgetWritten(a, state)
        PROVE  ProviderInv'
    <2>1. /\ budget' \in Provider!Amounts \cup {0} /\ DOMAIN writes' = DOMAIN writes
          /\ UNCHANGED <<input, lost, item, attempted, settled, charges>>
      BY <1>7 DEF Provider!BudgetWritten, Provider!payVars, ProviderInv, ProviderTyped
    <2>2. seen' \in [Invocations -> SUBSET (Provider!Amounts \cup {0})]
      BY <1>7 DEF Provider!BudgetWritten, ProviderInv, ProviderTyped
    <2>3. /\ reply' \in [Invocations -> {"none", "waiting", "ok", "error", "lost", "timeout"}]
          /\ run' \in [Invocations -> {"none", "sent", "writing", "done"}]
          /\ \A c \in Invocations : run'[c] = "sent" => run[c] = "sent"
      <3>1. PICK d : d = writes[a].caller
        OBVIOUS
      <3>2. \/ UNCHANGED <<run, reply>>
            \/ /\ run' = [run EXCEPT ![d] = "done"]
               /\ reply' = [reply EXCEPT ![d] = IF @ # "waiting" THEN @
                                                ELSE IF state = "confirmed" THEN "ok" ELSE "error"]
        BY <1>7, <3>1 DEF Provider!BudgetWritten
      <3> QED
        BY <3>2 DEF ProviderInv, ProviderTyped
    <2> QED
      BY <2>1, <2>2, <2>3 DEF ProviderInv, ProviderTyped
  <1> QED
    BY <1>1, <1>2, <1>3, <1>4, <1>5, <1>6, <1>7 DEF Provider!ToolNext

LEMMA ProviderIsTyped == ProviderInv => Provider!ToolTypeOK
  BY DEF ProviderInv, ProviderTyped, Provider!ToolTypeOK

(***************************************************************************)
(* The types of the agent that pays ask nothing of its keys: a handler     *)
(* that is paying has an attempt on record, and whoever is at work was     *)
(* asked by a call that cannot be made again.                              *)
(***************************************************************************)
PayerInv ==
    /\ ToolTypeOK
    /\ \A c \in Invocations : run[c] \in {"sent", "next", "paying", "paid"} => reply[c] # "none"
    /\ \A c \in Invocations : run[c] \in {"paying", "paid"} => KeyFor(c, item[c]) \in attempted

LEMMA InitPayerInv == ToolInit => PayerInv
  BY AskedAssumption DEF ToolInit, PayerInv, ToolTypeOK

\* A handler that ends, or takes up the next item, with its key on record.
LEMMA PayerTells ==
  ASSUME PayerInv, NEW c \in Invocations, NEW what \in {"ok", "error"}, Tell(c, what),
         UNCHANGED <<item, attempted, charges, writes, budget>>,
         UNCHANGED settled \/ (settled' = settled \cup {KeyFor(c, item[c])} /\ run[c] \in {"paying", "paid"})
  PROVE  PayerInv'
  <1>1. settled' \subseteq attempted
    BY DEF PayerInv, ToolTypeOK
  <1>2. \A d \in Invocations : KeyFor(d, item[d])' = KeyFor(d, item[d])
    BY KeysStay DEF Tell
  <1>3. /\ reply' \in [Invocations -> {"none", "waiting", "ok", "error", "lost", "timeout"}]
        /\ run' \in [Invocations -> {"none", "sent", "next", "paying", "paid", "writing", "done"}]
    BY DEF Tell, PayerInv, ToolTypeOK
  <1>4. ToolTypeOK'
    BY <1>1, <1>3 DEF Tell, PayerInv, ToolTypeOK
  <1>5. ASSUME NEW d \in Invocations
        PROVE  /\ run[d]' \in {"sent", "next", "paying", "paid"} => run[d]' = run[d] /\ reply[d]' = reply[d]
    BY DEF Tell, PayerInv, ToolTypeOK
  <1> QED
    BY <1>2, <1>4, <1>5 DEF PayerInv

LEMMA PayerGoesOn ==
  ASSUME PayerInv, NEW c \in Invocations, run[c] \in {"sent", "next", "paying", "paid"}, ItemSucceeds(c),
         UNCHANGED <<attempted, charges, writes, budget>>,
         UNCHANGED settled \/ (settled' = settled \cup {KeyFor(c, item[c])} /\ run[c] \in {"paying", "paid"})
  PROVE  PayerInv'
  <1>1. CASE Tell(c, "ok") /\ UNCHANGED item
    BY <1>1, PayerTells
  <1>2. CASE /\ item' = [item EXCEPT ![c] = @ + 1]
             /\ run' = [run EXCEPT ![c] = "next"]
             /\ UNCHANGED clientVars
    <2>1. settled' \subseteq attempted
      BY DEF PayerInv, ToolTypeOK
    <2>2. /\ item' \in [Invocations -> Nat]
          /\ run' \in [Invocations -> {"none", "sent", "next", "paying", "paid", "writing", "done"}]
      BY <1>2 DEF PayerInv, ToolTypeOK
    <2>3. ToolTypeOK'
      BY <1>2, <2>1, <2>2 DEF PayerInv, ToolTypeOK, clientVars
    <2>4. ASSUME NEW d \in Invocations, d # c
          PROVE  run[d]' = run[d] /\ reply[d]' = reply[d] /\ KeyFor(d, item[d])' = KeyFor(d, item[d])
      BY <1>2, <2>4 DEF PayerInv, ToolTypeOK, clientVars, KeyFor
    <2>5. run[c]' = "next" /\ reply[c]' = reply[c]
      BY <1>2 DEF PayerInv, ToolTypeOK, clientVars
    <2> QED
      BY <1>2, <2>3, <2>4, <2>5 DEF PayerInv
  <1> QED
    BY <1>1, <1>2 DEF ItemSucceeds

LEMMA NextPayerInv == PayerInv /\ [ToolNext]_toolVars => PayerInv'
  <1> SUFFICES ASSUME PayerInv, [ToolNext]_toolVars PROVE PayerInv'
    OBVIOUS
  <1>1. CASE UNCHANGED toolVars
    BY <1>1 DEF toolVars, clientVars, payVars, PayerInv, ToolTypeOK, KeyFor
  <1>2. ASSUME NEW c \in Invocations, NEW in \in Asked, Invoke(c, in)
        PROVE  PayerInv'
    <2>1. /\ input' = [input EXCEPT ![c] = in] /\ seen' = [seen EXCEPT ![c] = {budget}]
          /\ \/ run' = [run EXCEPT ![c] = "sent"] \/ UNCHANGED run
          /\ \E r \in {"ok", "error", "waiting"} : reply' = [reply EXCEPT ![c] = r]
          /\ reply[c] = "none" /\ UNCHANGED <<lost, item, attempted, settled, charges, writes, budget>>
      BY <1>2, Zenon DEF Invoke, payVars
    <2>2. ToolTypeOK'
      BY <2>1 DEF PayerInv, ToolTypeOK
    <2>3. run[c]' \notin {"next", "paying", "paid"} /\ reply[c]' # "none"
      BY <2>1 DEF PayerInv, ToolTypeOK
    <2>4. ASSUME NEW d \in Invocations, d # c
          PROVE  run[d]' = run[d] /\ reply[d]' = reply[d] /\ KeyFor(d, item[d])' = KeyFor(d, item[d])
      BY <2>1, <2>4 DEF PayerInv, ToolTypeOK, KeyFor
    <2> QED
      BY <2>1, <2>2, <2>3, <2>4 DEF PayerInv
  <1>3. ASSUME NEW c \in Invocations, GiveUp(c) \/ LoseMessage(c)
        PROVE  PayerInv'
    <2>1. lost' \in 0 .. MaxLostMessages
      BY <1>3, AskedAssumption DEF GiveUp, LoseMessage, PayerInv, ToolTypeOK
    <2>2. /\ \E r \in {"timeout", "lost"} : reply' = [reply EXCEPT ![c] = r]
          /\ run' = [run EXCEPT ![c] = "done"] \/ UNCHANGED run
          /\ UNCHANGED <<input, seen, item, attempted, settled, charges, writes, budget>>
      BY <1>3, Zenon DEF GiveUp, LoseMessage, payVars
    <2>3. ToolTypeOK'
      BY <2>1, <2>2 DEF PayerInv, ToolTypeOK
    <2>4. ASSUME NEW d \in Invocations
          PROVE  /\ run[d]' \in {"sent", "next", "paying", "paid"} => run[d]' = run[d]
                 /\ reply[d]' = "none" => reply[d] = "none"
                 /\ KeyFor(d, item[d])' = KeyFor(d, item[d])
      BY <2>2 DEF PayerInv, ToolTypeOK, KeyFor
    <2> QED
      BY <2>2, <2>3, <2>4 DEF PayerInv
  <1>4. ASSUME NEW c \in Invocations, BeginPay(c)
        PROVE  PayerInv'
    <2>1. CASE Tell(c, "error")
      BY <1>4, <2>1, PayerTells DEF BeginPay, payVars
    <2>2. CASE run' = [run EXCEPT ![c] = "next"] /\ UNCHANGED clientVars
      BY <1>4, <2>2 DEF BeginPay, payVars, clientVars, PayerInv, ToolTypeOK, KeyFor
    <2> QED
      BY <1>4, <2>1, <2>2 DEF BeginPay
  <1>5. ASSUME NEW c \in Invocations, TakeItem(c)
        PROVE  PayerInv'
    <2>1. CASE ItemSucceeds(c) /\ UNCHANGED payVars
      BY <1>5, <2>1, PayerGoesOn DEF TakeItem, payVars
    <2>2. CASE /\ attempted' = attempted \cup {KeyFor(c, item[c])}
               /\ run' = [run EXCEPT ![c] = "paying"]
               /\ UNCHANGED <<clientVars, item, settled, charges>>
      BY <1>5, <2>2 DEF TakeItem, clientVars, PayerInv, ToolTypeOK, KeyFor
    <2> QED
      BY <1>5, <2>1, <2>2 DEF TakeItem
  <1>6. ASSUME NEW c \in Invocations, ServiceCharges(c)
        PROVE  PayerInv'
    <2>1. KeyFor(c, item[c]) \in attempted
      BY <1>6 DEF ServiceCharges, PayerInv
    <2>2. /\ run' = [run EXCEPT ![c] = "paid"]
          /\ UNCHANGED <<input, reply, seen, lost, item, attempted, settled, writes, budget>>
      BY <1>6 DEF ServiceCharges, clientVars
    <2>3. \A x \in charges' : x \in charges \/ (x.by = c /\ x.key = KeyFor(c, item[c]))
      BY <1>6 DEF ServiceCharges
    <2>4. ToolTypeOK'
      BY <2>1, <2>2, <2>3 DEF PayerInv, ToolTypeOK
    <2>5. \A d \in Invocations : KeyFor(d, item[d])' = KeyFor(d, item[d])
      BY <2>2, KeysStay
    <2> QED
      BY <1>6, <2>1, <2>2, <2>4, <2>5 DEF ServiceCharges, PayerInv, ToolTypeOK
  <1>7. ASSUME NEW c \in Invocations, ServiceRefuses(c)
        PROVE  PayerInv'
    BY <1>7, PayerTells DEF ServiceRefuses, ItemFails, payVars
  <1>8. ASSUME NEW c \in Invocations, ServiceIsUnlocked(c) \/ RecordPaid(c)
        PROVE  PayerInv'
    BY <1>8, PayerGoesOn DEF ServiceIsUnlocked, RecordPaid
  <1>9. ASSUME NEW c \in Invocations, BeginBudget(c)
        PROVE  PayerInv'
    <2>1. CASE \E what \in {"ok", "error"} : Tell(c, what) /\ UNCHANGED writes
      BY <1>9, <2>1, PayerTells DEF BeginBudget, payVars
    <2>2. CASE run' = [run EXCEPT ![c] = "writing"] /\ UNCHANGED clientVars
      <3>1. DOMAIN writes' = DOMAIN writes /\ UNCHANGED <<item, payVars, budget>>
        BY <1>9 DEF BeginBudget, Tell
      <3>2. ToolTypeOK'
        BY <2>2, <3>1 DEF clientVars, payVars, PayerInv, ToolTypeOK
      <3> QED
        BY <2>2, <3>1, <3>2 DEF clientVars, payVars, PayerInv, ToolTypeOK, KeyFor
    <2> QED
      BY <1>9, <2>1, <2>2 DEF BeginBudget
  <1>10. ASSUME NEW c \in Invocations, AnswerLocally(c) \/ ForwardToConsole(c)
         PROVE  PayerInv'
    BY <1>10, PayerTells DEF AnswerLocally, ForwardToConsole, payVars
  <1>11. ASSUME NEW a \in Amounts, NEW state \in {"confirmed", "failed", "unknown"}, BudgetWritten(a, state)
         PROVE  PayerInv'
    <2>1. /\ budget' \in Amounts \cup {0} /\ DOMAIN writes' = DOMAIN writes
          /\ UNCHANGED <<input, lost, item, attempted, settled, charges>>
      BY <1>11 DEF BudgetWritten, payVars, PayerInv, ToolTypeOK
    <2>2. seen' \in [Invocations -> SUBSET (Amounts \cup {0})]
      BY <1>11 DEF BudgetWritten, PayerInv, ToolTypeOK
    <2>3. PICK d : d = writes[a].caller
      OBVIOUS
    <2>4. \/ UNCHANGED <<run, reply>>
          \/ /\ run' = [run EXCEPT ![d] = "done"]
             /\ reply' = [reply EXCEPT ![d] = IF @ # "waiting" THEN @
                                              ELSE IF state = "confirmed" THEN "ok" ELSE "error"]
      BY <1>11, <2>3 DEF BudgetWritten
    <2>5. ToolTypeOK'
      BY <2>1, <2>2, <2>4 DEF PayerInv, ToolTypeOK
    <2>6. ASSUME NEW c \in Invocations
          PROVE  /\ run[c]' \in {"sent", "next", "paying", "paid"} => run[c]' = run[c] /\ reply[c]' = reply[c]
                 /\ KeyFor(c, item[c])' = KeyFor(c, item[c])
      BY <2>1, <2>4 DEF PayerInv, ToolTypeOK, KeyFor
    <2> QED
      BY <2>1, <2>5, <2>6 DEF PayerInv
  <1> QED
    BY <1>1, <1>2, <1>3, <1>4, <1>5, <1>6, <1>7, <1>8, <1>9, <1>10, <1>11 DEF ToolNext

LEMMA StepsOfTheOthers ==
  ASSUME [MCNext]_<<focus, vars, otherVars>>
  PROVE  [Next]_vars /\ (focus = "providing" => [Provider!ToolNext]_toolVars)
  <1>1. CASE UNCHANGED <<focus, vars, otherVars>>
    BY <1>1 DEF otherVars
  <1>2. CASE PaymentsAtWork
    BY <1>2 DEF PaymentsAtWork
  <1>3. CASE ProvidingAtWork
    BY <1>3 DEF ProvidingAtWork, OthersRest
  <1>4. ASSUME OthersRest, focus \notin {"payments", "providing"}
        PROVE  UNCHANGED vars
    BY <1>4 DEF OthersRest
  <1>5. CASE \/ PaidJobsAtWork \/ SigningAtWork \/ TicketsAtWork \/ GatesAtWork \/ PayingAtWork
             \/ SessionsAtWork \/ GrantsAtWork \/ KeysAtWork
             \/ LinksAtWork \/ PayersAtWork \/ BindingsAtWork \/ OnboardingAtWork
    <2>1. OthersRest /\ focus \notin {"payments", "providing"}
      BY <1>5
      DEF PaidJobsAtWork, SigningAtWork, TicketsAtWork, GatesAtWork, PayingAtWork, SessionsAtWork,
          GrantsAtWork, KeysAtWork, LinksAtWork, PayersAtWork, BindingsAtWork, OnboardingAtWork
    <2> QED
      BY <1>4, <2>1
  <1> QED
    BY <1>1, <1>2, <1>3, <1>5 DEF MCNext

\* The component at work is one of those, and stays so.
AtWorkInv ==
    /\ focus \in {"payments", "jobs", "signing", "tickets", "gates", "paying", "providing",
                  "sessions", "grants", "keys", "links", "payers", "bindings", "onboarding"}
    /\ PaymentsInv
    /\ IF focus = "providing" THEN ProviderInv ELSE PayerInv

LEMMA AtWorkInvHolds == MCSpec => []AtWorkInv
  <1>1. MCInit => AtWorkInv
    BY InitPaymentsInv, InitProviderInv, InitPayerInv DEF MCInit, AtWorkInv
  <1>2. AtWorkInv /\ [MCNext]_<<focus, vars, otherVars>> => AtWorkInv'
    BY StepsOfFocus, StepsOfTheOthers, NextPaymentsInv, NextProviderInv, NextPayerInv DEF AtWorkInv
  <1> QED
    BY <1>1, <1>2, PTL DEF MCSpec

\* The variables of the component at work have their types: the payments of
\* the runner and its locks, paid jobs, requests to sign, tickets, gates, the
\* tools an agent pays with or provides with, sessions, tokens and keys,
\* wallets and onboarding.
THEOREM MoneyIsTyped == MCSpec => []MoneyTypeOK
  <1>1. ConsoleInv /\ AtWorkInv => MoneyTypeOK
    <2> SUFFICES ASSUME ConsoleInv, AtWorkInv PROVE MoneyTypeOK
      OBVIOUS
    <2>1. TypeOK /\ PaidTypeOK /\ SigningTypeOK /\ TicketTypeOK
      BY JobsInvGives DEF ConsoleInv, AtWorkInv, PaymentsInv, SigningInv, TicketInv
    <2>2. CommerceTypeOK /\ CredentialTypeOK /\ AgentWalletsTypeOK /\ OnboardingTypeOK
      BY GatesAreTyped, CredentialInvGives, OnboardingInvGives DEF ConsoleInv, WalletsInv
    <2>3. /\ focus = "paying" => ToolTypeOK
          /\ focus = "providing" => Provider!ToolTypeOK
      BY ProviderIsTyped DEF AtWorkInv, PayerInv
    <2>4. focus \in {"payments", "jobs", "signing", "tickets", "gates", "paying", "providing",
                     "sessions", "grants", "keys", "links", "payers", "bindings", "onboarding"}
      BY DEF AtWorkInv
    <2>5. CASE focus \in {"payments", "jobs", "signing", "tickets", "gates"}
      BY <2>1, <2>2, <2>5, Zenon DEF MoneyTypeOK
    <2>6. CASE focus = "paying" \/ focus = "providing"
      BY <2>3, <2>6, Zenon DEF MoneyTypeOK
    <2>7. CASE focus \in {"sessions", "grants", "keys", "links", "payers", "bindings", "onboarding"}
      BY <2>2, <2>7, Zenon DEF MoneyTypeOK
    <2> QED
      BY <2>4, <2>5, <2>6, <2>7
  <1> QED
    BY ConsoleInvHolds, AtWorkInvHolds, <1>1, PTL
=============================================================================
