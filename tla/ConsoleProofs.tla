---------------------------- MODULE ConsoleProofs ----------------------------
(***************************************************************************)
(* What MCConsole promises of the Console's races and of what is known of  *)
(* a job, for any number of requests, calls, jobs, preparations,           *)
(* transactions, agents, readers and logs.                                 *)
(*                                                                         *)
(* Each component has an invariant and a lemma for each of its handlers;   *)
(* the components share no variable, so the Console's invariant is their   *)
(* conjunction and a step of it is a step of one of them.                  *)
(***************************************************************************)
EXTENDS MCConsole, FiniteSetTheorems, TLAPS

\* Of a set whose elements are all the same there is at most one.
LEMMA AtMostOne ==
  ASSUME NEW S, \A x, y \in S : x = y
  PROVE  IsFiniteSet(S) /\ Cardinality(S) <= 1
  <1>1. CASE S = {}
    BY <1>1, FS_EmptySet
  <1>2. CASE S # {}
    <2>1. PICK x \in S : TRUE
      BY <1>2
    <2>2. S = {x}
      BY <2>1
    <2>3. IsFiniteSet({x}) /\ Cardinality({x}) = 1
      BY FS_Singleton
    <2> QED
      BY <2>2, <2>3
  <1> QED
    BY <1>1, <1>2

-----------------------------------------------------------------------------
(***************************************************************************)
(* The mirror of a job.                                                    *)
(***************************************************************************)
MirrorHashes == 0 .. (MaxRejects + 2)

RowStates ==
    [status : {"created", "claimed", "running", "submitted", "settled", "rejecting", "rejected", "expired"},
     erc : EscrowStatuses, worker : Workers \cup {NoWorker}, deliverable : Deliverables \cup {0},
     reason : Reasons \cup {0}, tx : [Columns -> MirrorHashes]]

MirrorCalls ==
    [kind : Staged \cup {"none", "rejecting", "reconcile"},
     stage : {"idle", "receipt", "read", "write"} \cup RejectStages,
     hash : MirrorHashes, seen : EscrowStatuses, old : EscrowStatuses]

OnchainJobs == [status : EscrowStatuses, deliverable : Deliverables \cup {0}, reason : Reasons \cup {0}]

\* A request that has claimed the row to reject the job, and has not ended.
Holds(c) == call[c].kind = "rejecting" /\ call[c].stage \in Holding

\* The row was claimed when it was submitted, and says so no more until the
\* claim is given back.
HolderHasTheRow ==
    \A c \in Requests : Holds(c) =>
        /\ row.status \in {"rejecting", "settled", "rejected", "expired"}
        /\ row.tx["submit"] # NoTx
        /\ \A d \in Requests : Holds(d) => c = d

SubmittedHasHash == row.status \in {"submitted", "rejecting"} => row.tx["submit"] # NoTx

\* What a request carries was mined.
CarriesMined ==
    /\ \A c \in Requests : call[c].kind \in Staged => <<call[c].kind, call[c].hash>> \in mined
    /\ \A c \in Requests : MirrorAt(c, {"rejecting"}, "wait") \/ MirrorAt(c, {"rejecting"}, "attach") =>
           call[c].hash \in Hashes("reject")
    /\ \A c \in Requests : MirrorAt(c, {"rejecting"}, "attach") => rejectTx[call[c].hash] = "landed"

\* What was mined has brought the job to where it is.
MinedIsDone ==
    /\ \A x \in mined : x[2] # NoTx
    /\ \A n \in MirrorHashes : <<"complete", n>> \in mined => onchainJob.status = "Completed"
    /\ \A n \in Hashes("reject") : rejectTx[n] = "landed" => onchainJob.status = "Rejected"

MirrorInv ==
    /\ MirrorTypeOK /\ FeedbackIsEarned
    /\ HolderHasTheRow /\ SubmittedHasHash /\ CarriesMined /\ MinedIsDone

LEMMA HashesAreSmall ==
  ASSUME NEW k, NEW n \in Hashes(k)
  PROVE  n \in MirrorHashes /\ n \in 1 .. (MaxRejects + 2) /\ n # NoTx
  BY MirrorAssumption DEF Hashes, MirrorHashes, NoTx

LEMMA InitMirrorInv == MirrorInit => MirrorInv
  <1> SUFFICES ASSUME MirrorInit PROVE MirrorInv
    OBVIOUS
  <1>1. NoMirrorCall \in MirrorCalls
    BY MirrorAssumption DEF NoMirrorCall, MirrorCalls, EscrowStatuses, MirrorHashes, NoTx, Staged, RejectStages
  <1>2. row \in RowStates /\ row.status = "created"
    BY MirrorAssumption DEF MirrorInit, RowStates, EscrowStatuses, MirrorHashes, NoTx
  <1>3. MirrorTypeOK
    BY <1>1, <1>2, MirrorAssumption
    DEF MirrorInit, MirrorTypeOK, MirrorCalls, RowStates, OnchainJobs, EscrowStatuses, MirrorHashes
  <1> QED
    BY <1>2, <1>3
    DEF MirrorInit, MirrorInv, FeedbackIsEarned, HolderHasTheRow, Holds, SubmittedHasHash, CarriesMined,
        MinedIsDone, MirrorAt, NoMirrorCall, Staged, Hashes

\* What a statement that attaches a hash makes of the row.
LEMMA AttachedRow ==
  ASSUME MirrorTypeOK, NEW k \in Columns, NEW n \in 1 .. (MaxRejects + 2), NEW s \in EscrowStatuses
  PROVE  /\ Attached(k, n, s) \in RowStates
         /\ \A c \in Columns : row.tx[c] # NoTx => Attached(k, n, s).tx[c] = row.tx[c]
         /\ \/ Attached(k, n, s).status = row.status
            \/ Attached(k, n, s).status \in {"settled", "rejected"}
            \/ /\ k = "submit" /\ row.tx["submit"] = NoTx
               /\ Attached(k, n, s).tx["submit"] # NoTx
         /\ Attached(k, n, s).erc \in {row.erc, s}
  <1> DEFINE r == Attached(k, n, s)
  <1>1. row \in RowStates /\ n \in MirrorHashes /\ n # NoTx
    BY MirrorAssumption DEF MirrorTypeOK, RowStates, MirrorHashes, NoTx
  <1>2. CASE ~Attachable(k)
    BY <1>1, <1>2 DEF Attached
  <1>3. CASE Attachable(k)
    <2>1. PICK t : t = [row.tx EXCEPT ![k] = n]
      OBVIOUS
    <2>2. PICK st : st = MirrorStatus(k, row.status)
      OBVIOUS
    <2>3. PICK e : e = IF k \in Staged \cup {"reject"} THEN s ELSE row.erc
      OBVIOUS
    <2>4. /\ row.tx \in [Columns -> MirrorHashes]
          /\ t \in [Columns -> MirrorHashes]
          /\ t[k] = n /\ \A c \in Columns : c # k => t[c] = row.tx[c]
      BY <1>1, <2>1 DEF RowStates
    <2>5. /\ st \in {row.status, "submitted", "settled", "rejected"}
          /\ st = row.status \/ st \in {"settled", "rejected"} \/ k = "submit"
      BY <2>2 DEF MirrorStatus
    <2>6. e \in EscrowStatuses /\ e \in {row.erc, s}
      BY <1>1, <2>3 DEF RowStates
    <2>7. r = [status |-> st, erc |-> e, worker |-> row.worker, deliverable |-> row.deliverable,
               reason |-> row.reason, tx |-> t]
      BY <1>1, <1>3, <2>1, <2>2, <2>3 DEF Attached, RowStates
    <2>8. r \in RowStates
      BY <1>1, <2>4, <2>5, <2>6, <2>7 DEF RowStates
    <2>9. row.tx[k] = NoTx
      BY <1>3 DEF Attachable
    <2> QED
      BY <1>1, <2>4, <2>5, <2>6, <2>7, <2>8, <2>9
  <1> QED
    BY <1>2, <1>3

\* A call that is set to one that is well-formed.
LEMMA CallIsSet ==
  ASSUME MirrorTypeOK, NEW c \in Requests, NEW q \in MirrorCalls, call' = [call EXCEPT ![c] = q]
  PROVE  /\ call' \in [Requests -> MirrorCalls]
         /\ call'[c] = q /\ \A d \in Requests : d # c => call'[d] = call[d]
  BY DEF MirrorTypeOK, MirrorCalls, MirrorHashes

LEMMA MirrorTypes ==
  ASSUME MirrorTypeOK
  PROVE  /\ row \in RowStates /\ onchainJob \in OnchainJobs
         /\ call \in [Requests -> MirrorCalls]
         /\ mined \subseteq TxTypes \X (1 .. (MaxRejects + 2))
         /\ rejectTx \in [Hashes("reject") -> {"none", "live", "landed", "failed"}]
         /\ feedback \subseteq {"delivered", "failed", "rejected"}
         /\ mirrorCrashes \in 0 .. MaxMirrorCrashes
         /\ NoMirrorCall \in MirrorCalls
  BY MirrorAssumption
  DEF MirrorTypeOK, RowStates, OnchainJobs, MirrorCalls, MirrorHashes, NoMirrorCall, NoTx, Staged, RejectStages,
      EscrowStatuses

LEMMA TypesOfMirror ==
  ASSUME row \in RowStates, onchainJob \in OnchainJobs, call \in [Requests -> MirrorCalls],
         mined \subseteq TxTypes \X (1 .. (MaxRejects + 2)),
         rejectTx \in [Hashes("reject") -> {"none", "live", "landed", "failed"}],
         feedback \subseteq {"delivered", "failed", "rejected"}, mirrorCrashes \in 0 .. MaxMirrorCrashes
  PROVE  MirrorTypeOK
  BY DEF MirrorTypeOK, RowStates, OnchainJobs, MirrorCalls, MirrorHashes

\* The row changes and no hash or claim with it.
LEMMA RowMoves ==
  ASSUME MirrorInv, row' \in RowStates, UNCHANGED <<onchainJob, mined, rejectTx, mirrorCrashes>>,
         \A k \in Columns : row.tx[k] # NoTx => row'.tx[k] = row.tx[k],
         \/ row'.status = row.status
         \/ row'.status \in {"settled", "rejected", "expired"}
         \/ row'.status \in {"claimed", "running"} /\ row.status \in {"created", "claimed"}
         \/ row'.status = "submitted" /\ row.tx["submit"] = NoTx /\ row'.tx["submit"] # NoTx,
         \A d \in Requests : Holds(d)' => Holds(d)
  PROVE  HolderHasTheRow' /\ SubmittedHasHash'
  <1> USE DEF MirrorInv, HolderHasTheRow, SubmittedHasHash
  <1>1. "submit" \in Columns
    BY DEF Columns
  <1>2. HolderHasTheRow'
    BY <1>1
  <1>3. SubmittedHasHash'
    BY <1>1
  <1> QED
    BY <1>2, <1>3

LEMMA ChainKeeps == ASSUME MirrorInv, Chain PROVE MirrorInv'
  <1> USE DEF MirrorInv, OnchainJobs, EscrowStatuses
  <1>1. UNCHANGED <<row, call, feedback, mirrorCrashes>>
    BY DEF Chain, MineOther, MineFund, MineRefund, MineSubmit, MineComplete, MineReject, LoseReject
  <1>2. HolderHasTheRow' /\ SubmittedHasHash'
    BY <1>1 DEF HolderHasTheRow, SubmittedHasHash, Holds
  <1>3. ASSUME NEW k, NEW n \in Hashes(k), NEW x, x \in TxTypes
        PROVE  <<x, n>> \in TxTypes \X (1 .. (MaxRejects + 2)) /\ n # NoTx
    BY <1>3, HashesAreSmall
  <1>4. {"set_budget", "approve", "fund", "submit", "complete", "reject", "claim_refund"} \subseteq TxTypes
        /\ 1 \in 1 .. (MaxRejects + 2)
    BY MirrorAssumption DEF TxTypes, Columns
  <1>5. /\ mined' \subseteq TxTypes \X (1 .. (MaxRejects + 2)) /\ mined \subseteq mined'
        /\ \A x \in mined' : x[2] # NoTx
    <2>1. ASSUME NEW k \in Columns, NEW n \in Hashes(k), MineOther(k, n) PROVE <1>5!:
      BY <2>1, <1>3, MirrorTypes DEF MineOther, MinedIsDone, TxTypes
    <2>2. ASSUME NEW n \in Hashes("reject"), MineReject(n) PROVE <1>5!:
      BY <2>2, <1>3, <1>4, MirrorTypes DEF MineReject, MinedIsDone
    <2>3. ASSUME NEW k \in TxTypes, mined' = mined \cup {<<k, 1>>} PROVE <1>5!:
      BY <2>3, <1>4, MirrorTypes DEF MinedIsDone, NoTx
    <2>4. CASE \/ MineFund \/ MineRefund \/ \E d \in Deliverables : MineSubmit(d)
               \/ \E r \in Reasons : MineComplete(r)
      BY <2>3, <2>4, <1>4 DEF MineFund, MineRefund, MineSubmit, MineComplete
    <2>5. CASE \E n \in Hashes("reject") : LoseReject(n)
      BY <2>5, MirrorTypes DEF LoseReject, MinedIsDone
    <2> QED
      BY <2>1, <2>2, <2>4, <2>5 DEF Chain
  <1>6. /\ onchainJob' \in OnchainJobs
        /\ onchainJob.status \in {"Completed", "Rejected", "Expired"} => onchainJob' = onchainJob
    BY MirrorTypes
    DEF Chain, MineOther, MineFund, MineRefund, MineSubmit, MineComplete, MineReject, LoseReject, Rejectable
  <1>7. /\ rejectTx' \in [Hashes("reject") -> {"none", "live", "landed", "failed"}]
        /\ \A n \in Hashes("reject") : rejectTx[n] = "landed" => rejectTx'[n] = "landed"
        /\ \A n \in Hashes("reject") : rejectTx'[n] = "landed" => rejectTx[n] = "landed" \/ onchainJob'.status = "Rejected"
    BY MirrorTypes
    DEF Chain, MineOther, MineFund, MineRefund, MineSubmit, MineComplete, MineReject, LoseReject, Rejectable
  <1>8. \A n : <<"complete", n>> \in mined' => <<"complete", n>> \in mined \/ onchainJob'.status = "Completed"
    <2>1. CASE \E r \in Reasons : MineComplete(r)
      <3>1. onchainJob'.status = "Completed"
        BY <2>1, MirrorTypes DEF MineComplete
      <3> QED
        BY <3>1
    <2>2. CASE MineFund \/ MineRefund \/ \E d \in Deliverables : MineSubmit(d)
      <3>1. PICK k \in {"fund", "submit", "claim_refund"} : mined' = mined \cup {<<k, 1>>}
        BY <2>2 DEF MineFund, MineRefund, MineSubmit
      <3>2. \A n : <<"complete", n>> # <<k, 1>>
        OBVIOUS
      <3> QED
        BY <3>1, <3>2
    <2>3. CASE \E k \in Columns : \E n \in Hashes(k) : MineOther(k, n)
      BY <2>3 DEF MineOther
    <2>4. CASE \E n \in Hashes("reject") : MineReject(n) \/ LoseReject(n)
      BY <2>4 DEF MineReject, LoseReject
    <2> QED
      BY <2>1, <2>2, <2>3, <2>4 DEF Chain
  <1>9. CarriesMined'
    BY <1>1, <1>5, <1>7 DEF CarriesMined, MirrorAt
  <1>10. MinedIsDone'
    BY <1>5, <1>6, <1>7, <1>8 DEF MinedIsDone
  <1>11. FeedbackIsEarned'
    BY <1>1, <1>6 DEF FeedbackIsEarned
  <1>12. MirrorTypeOK'
    BY <1>1, <1>5, <1>6, <1>7, MirrorTypes, TypesOfMirror DEF MirrorTypeOK, RowStates, MirrorCalls, MirrorHashes
  <1> QED
    BY <1>2, <1>9, <1>10, <1>11, <1>12

\* The routes of one statement.
LEMMA RowWrittenKeeps ==
  ASSUME MirrorInv, NEW r \in RowStates, RowWritten(r),
         \A k \in Columns : row.tx[k] # NoTx => r.tx[k] = row.tx[k],
         \/ r.status = row.status
         \/ r.status \in {"settled", "rejected", "expired"}
         \/ r.status \in {"claimed", "running"} /\ row.status \in {"created", "claimed"}
         \/ r.status = "submitted" /\ row.tx["submit"] = NoTx /\ r.tx["submit"] # NoTx
  PROVE  MirrorInv'
  <1>1. row' = r /\ UNCHANGED <<onchainJob, mined, rejectTx, call, feedback, mirrorCrashes>>
    BY DEF RowWritten
  <1>2. HolderHasTheRow' /\ SubmittedHasHash'
    BY <1>1, RowMoves DEF Holds
  <1>3. MirrorTypeOK'
    BY <1>1, MirrorTypes, TypesOfMirror DEF MirrorInv, MirrorTypeOK, RowStates, MirrorHashes
  <1> QED
    BY <1>1, <1>2, <1>3 DEF MirrorInv, FeedbackIsEarned, CarriesMined, MinedIsDone, MirrorAt

LEMMA RoutesKeep == ASSUME MirrorInv, Routes PROVE MirrorInv'
  <1>1. row \in RowStates
    BY MirrorTypes DEF MirrorInv
  <1>2. ASSUME NEW d \in Deliverables, PreparedSubmit(d) PROVE MirrorInv'
    <2>1. [row EXCEPT !.deliverable = d] \in RowStates
      BY <1>1 DEF RowStates
    <2> QED
      BY <1>1, <1>2, <2>1, RowWrittenKeeps DEF PreparedSubmit, RowStates
  <1>3. ASSUME NEW r \in Reasons, PreparedComplete(r) PROVE MirrorInv'
    <2>1. [row EXCEPT !.reason = r] \in RowStates
      BY <1>1 DEF RowStates
    <2> QED
      BY <1>1, <1>3, <2>1, RowWrittenKeeps DEF PreparedComplete, RowStates
  <1>4. ASSUME NEW w \in Workers, ClaimJob(w) PROVE MirrorInv'
    <2>1. [row EXCEPT !.status = "claimed", !.worker = w] \in RowStates
      BY <1>1 DEF RowStates
    <2> QED
      BY <1>1, <1>4, <2>1, RowWrittenKeeps DEF ClaimJob, JobClaimable, RowStates
  <1>5. ASSUME NEW w \in Workers, MarkRunning(w) PROVE MirrorInv'
    <2>1. [row EXCEPT !.status = "running"] \in RowStates
      BY <1>1 DEF RowStates
    <2> QED
      BY <1>1, <1>5, <2>1, RowWrittenKeeps DEF MarkRunning, JobRunnable, RowStates
  <1> QED
    BY <1>2, <1>3, <1>4, <1>5 DEF Routes

\* A request that is not a reject request moves: the row stands.
LEMMA RequestMoves ==
  ASSUME MirrorInv, NEW c \in Requests, NEW q \in MirrorCalls, call' = [call EXCEPT ![c] = q],
         q.kind \in Staged => <<q.kind, q.hash>> \in mined,
         q.kind = "rejecting" => q.stage \notin Holding,
         UNCHANGED <<row, onchainJob, mined, rejectTx, feedback>>, mirrorCrashes' \in 0 .. MaxMirrorCrashes
  PROVE  MirrorInv'
  <1> USE DEF MirrorInv
  <1>1. /\ call' \in [Requests -> MirrorCalls]
        /\ call'[c] = q /\ \A d \in Requests : d # c => call'[d] = call[d]
    BY CallIsSet
  <1>2. MirrorTypeOK'
    BY <1>1, MirrorTypes, TypesOfMirror DEF MirrorTypeOK, MirrorCalls, MirrorHashes
  <1>3. \A d \in Requests : Holds(d)' => Holds(d)
    BY <1>1 DEF Holds
  <1>4. HolderHasTheRow' /\ SubmittedHasHash'
    BY <1>3 DEF HolderHasTheRow, SubmittedHasHash
  <1>5. CarriesMined'
    BY <1>1 DEF CarriesMined, MirrorAt, Holding
  <1> QED
    BY <1>2, <1>4, <1>5 DEF FeedbackIsEarned, MinedIsDone

\* What a mined transaction of this type lets the Console write of reputation.
LEMMA RecordsEarned ==
  ASSUME MirrorInv, NEW k \in Columns, NEW n \in 1 .. (MaxRejects + 2), <<k, n>> \in mined, Records(k, n),
         k = "reject" => onchainJob.status = "Rejected", UNCHANGED onchainJob
  PROVE  FeedbackIsEarned' /\ feedback' \subseteq {"delivered", "failed", "rejected"}
  <1>1. n \in MirrorHashes
    BY MirrorAssumption DEF MirrorHashes
  <1>2. k = "complete" => onchainJob.status = "Completed"
    BY <1>1 DEF MirrorInv, MinedIsDone
  <1>3. Recorded(k) \subseteq {"delivered", "failed"}
        /\ ("delivered" \in Recorded(k) => k = "complete") /\ ("failed" \in Recorded(k) => k = "reject")
    BY DEF Recorded
  <1>4. /\ feedback' \subseteq {"delivered", "failed", "rejected"}
        /\ "delivered" \in feedback' => "delivered" \in feedback \/ k = "complete"
        /\ "rejected" \in feedback' => "rejected" \in feedback
        /\ "failed" \in feedback' => "failed" \in feedback \/ k = "reject"
    BY <1>3, MirrorTypes DEF Records, MirrorInv
  <1> QED
    BY <1>2, <1>4 DEF FeedbackIsEarned, MirrorInv

LEMMA TxRouteKeeps == ASSUME MirrorInv, TxRoute PROVE MirrorInv'
  <1> USE DEF MirrorInv
  <1>1. row \in RowStates /\ onchainJob.status \in EscrowStatuses /\ "Expired" \in EscrowStatuses
    BY MirrorTypes DEF OnchainJobs, EscrowStatuses
  <1>2. Staged \subseteq Columns /\ {"set_budget", "approve", "reject"} \subseteq Columns
    BY DEF Staged, Columns
  <1>3. ASSUME NEW c \in Requests, NEW k \in Staged, NEW n \in Hashes(k), ConfirmTx(c, k, n) PROVE MirrorInv'
    <2>1. PICK q : q = [NoMirrorCall EXCEPT !.kind = k, !.stage = "receipt", !.hash = n]
      OBVIOUS
    <2>2. q \in MirrorCalls /\ q.kind = k /\ q.hash = n
      BY <2>1, HashesAreSmall, MirrorAssumption DEF MirrorCalls, NoMirrorCall, EscrowStatuses
    <2> QED
      BY <1>3, <2>1, <2>2, RequestMoves, MirrorTypes DEF ConfirmTx, Step, Staged
  <1>4. ASSUME NEW c \in Requests, ReadOnchainJob(c) PROVE MirrorInv'
    <2>1. PICK q : q = [call[c] EXCEPT !.stage = "write", !.seen = onchainJob.status]
      OBVIOUS
    <2>2. call[c] \in MirrorCalls /\ call[c].kind \in Staged
      BY <1>4, MirrorTypes DEF ReadOnchainJob, MirrorAt
    <2>3. q \in MirrorCalls /\ q.kind = call[c].kind /\ q.hash = call[c].hash
      BY <1>1, <2>1, <2>2 DEF MirrorCalls
    <2> QED
      BY <1>4, <2>1, <2>2, <2>3, RequestMoves, MirrorTypes DEF ReadOnchainJob, Step, Staged, CarriesMined
  <1>5. ASSUME NEW c \in Requests, AttachStaged(c) PROVE MirrorInv'
    <2>1. PICK k : k = call[c].kind
      OBVIOUS
    <2>2. PICK n : n = call[c].hash
      OBVIOUS
    <2>3. PICK s : s = call[c].seen
      OBVIOUS
    <2>4. /\ k \in Staged /\ n \in 1 .. (MaxRejects + 2) /\ <<k, n>> \in mined /\ s \in EscrowStatuses
          /\ row' = Attached(k, n, s) /\ Records(k, n) /\ call' = [call EXCEPT ![c] = NoMirrorCall]
          /\ UNCHANGED <<onchainJob, mined, rejectTx, mirrorCrashes>>
      <3>1. call[c] \in MirrorCalls /\ k \in Staged /\ <<k, n>> \in mined
        BY <1>5, <2>1, <2>2, MirrorTypes DEF AttachStaged, MirrorAt, CarriesMined
      <3>2. n \in 1 .. (MaxRejects + 2) /\ s \in EscrowStatuses
        BY <2>3, <3>1, MirrorTypes DEF MirrorCalls
      <3> QED
        BY <1>5, <2>1, <2>2, <2>3, <3>1, <3>2 DEF AttachStaged, Step
    <2>5. /\ row' \in RowStates /\ \A x \in Columns : row.tx[x] # NoTx => row'.tx[x] = row.tx[x]
          /\ \/ row'.status = row.status \/ row'.status \in {"settled", "rejected"}
             \/ /\ k = "submit" /\ row.tx["submit"] = NoTx
                /\ row'.tx["submit"] # NoTx /\ row'.status = "submitted"
      <3>1. k = "submit" => row'.status \in {row.status, "submitted"}
        BY <1>1, <2>4 DEF Attached, MirrorStatus, RowStates
      <3> QED
        BY <1>2, <2>4, <3>1, AttachedRow
    <2>6. /\ call' \in [Requests -> MirrorCalls]
          /\ call'[c] = NoMirrorCall /\ \A d \in Requests : d # c => call'[d] = call[d]
      BY <2>4, MirrorTypes, CallIsSet
    <2>7. \A d \in Requests : Holds(d)' => Holds(d)
      BY <2>6 DEF Holds, NoMirrorCall
    <2>8. HolderHasTheRow' /\ SubmittedHasHash'
      BY <2>4, <2>5, <2>7, RowMoves
    <2>9. FeedbackIsEarned' /\ feedback' \subseteq {"delivered", "failed", "rejected"}
      BY <1>2, <2>4, RecordsEarned DEF Staged
    <2>10. MirrorTypeOK'
      BY <2>4, <2>5, <2>6, <2>9, MirrorTypes, TypesOfMirror DEF MirrorTypeOK, RowStates, MirrorCalls, MirrorHashes
    <2>11. CarriesMined' /\ MinedIsDone'
      BY <2>4, <2>6 DEF CarriesMined, MirrorAt, NoMirrorCall, Staged, MinedIsDone
    <2> QED
      BY <2>8, <2>9, <2>10, <2>11
  <1>6. ASSUME NEW k \in {"set_budget", "approve"}, NEW n \in Hashes(k), AttachAtOnce(k, n) PROVE MirrorInv'
    <2>1. n \in 1 .. (MaxRejects + 2)
      BY <1>6, HashesAreSmall
    <2>2. PICK r : r = Attached(k, n, onchainJob.status)
      OBVIOUS
    <2>3. r.status = row.status
      BY <1>1, <1>6, <2>2 DEF Attached, MirrorStatus, RowStates
    <2> QED
      BY <1>1, <1>2, <1>6, <2>1, <2>2, <2>3, AttachedRow, RowWrittenKeeps DEF AttachAtOnce
  <1>7. ASSUME NEW n \in Hashes("reject"), AttachRejected(n) PROVE MirrorInv'
    <2>1. n \in 1 .. (MaxRejects + 2) /\ "Rejected" \in EscrowStatuses
      BY HashesAreSmall DEF EscrowStatuses
    <2>2. /\ row' = Attached("reject", n, "Rejected")
          /\ row' \in RowStates /\ \A x \in Columns : row.tx[x] # NoTx => row'.tx[x] = row.tx[x]
          /\ row'.status = row.status \/ row'.status \in {"settled", "rejected"}
      BY <1>2, <1>7, <2>1, AttachedRow DEF AttachRejected
    <2>3. \A d \in Requests : Holds(d)' => Holds(d)
      BY <1>7 DEF Holds, AttachRejected
    <2>4. HolderHasTheRow' /\ SubmittedHasHash'
      BY <1>7, <2>2, <2>3, RowMoves DEF AttachRejected
    <2>5. FeedbackIsEarned' /\ feedback' \subseteq {"delivered", "failed", "rejected"}
      BY <1>2, <1>7, <2>1, RecordsEarned DEF AttachRejected
    <2>6. MirrorTypeOK'
      BY <1>7, <2>2, <2>5, MirrorTypes, TypesOfMirror
      DEF AttachRejected, MirrorTypeOK, RowStates, MirrorCalls, MirrorHashes
    <2> QED
      BY <1>7, <2>4, <2>5, <2>6 DEF AttachRejected, CarriesMined, MirrorAt, MinedIsDone
  <1>8. CASE AttachRefund
    <2>1. RowOfRefund \in RowStates /\ RowOfRefund.status = "expired" /\ RowOfRefund.tx = row.tx
      BY <1>1 DEF RowOfRefund, RowStates
    <2> QED
      BY <1>8, <2>1, RowWrittenKeeps DEF AttachRefund
  <1> QED
    BY <1>3, <1>4, <1>5, <1>6, <1>7, <1>8 DEF TxRoute

\* The reject route: a request that gives its claim back, and the steps
\* between its claim and its end.
LEMMA GivesBack ==
  ASSUME MirrorInv, NEW c \in Requests, Holds(c), row' = RolledBack,
         call' = [call EXCEPT ![c] = NoMirrorCall], UNCHANGED <<onchainJob, mined, feedback, mirrorCrashes>>,
         rejectTx' \in [Hashes("reject") -> {"none", "live", "landed", "failed"}],
         \A n \in Hashes("reject") : rejectTx'[n] = "landed" <=> rejectTx[n] = "landed"
  PROVE  MirrorInv'
  <1> USE DEF MirrorInv
  <1>1. /\ call' \in [Requests -> MirrorCalls]
        /\ call'[c] = NoMirrorCall /\ \A d \in Requests : d # c => call'[d] = call[d]
    BY MirrorTypes, CallIsSet
  <1>2. \A d \in Requests : ~Holds(d)'
    BY <1>1 DEF HolderHasTheRow, Holds, NoMirrorCall
  <1>3. /\ row' \in RowStates /\ row'.tx = row.tx
        /\ row'.status = "submitted" \/ row'.status = row.status
    BY MirrorTypes DEF RolledBack, RowStates
  <1>4. row.tx["submit"] # NoTx
    BY DEF HolderHasTheRow
  <1>5. HolderHasTheRow' /\ SubmittedHasHash'
    BY <1>2, <1>3, <1>4 DEF HolderHasTheRow, SubmittedHasHash
  <1>6. MirrorTypeOK'
    BY <1>1, <1>3, MirrorTypes, TypesOfMirror DEF MirrorTypeOK, RowStates, MirrorCalls, MirrorHashes
  <1>7. CarriesMined'
    BY <1>1 DEF CarriesMined, MirrorAt, NoMirrorCall, Staged
  <1>8. MinedIsDone'
    BY DEF MinedIsDone
  <1> QED
    BY <1>5, <1>6, <1>7, <1>8 DEF FeedbackIsEarned

LEMMA HolderMoves ==
  ASSUME MirrorInv, NEW c \in Requests, Holds(c), NEW q \in MirrorCalls, call' = [call EXCEPT ![c] = q],
         q.kind = "rejecting", q.stage \in {"wait", "attach"} => q.hash \in Hashes("reject"),
         q.stage = "attach" => rejectTx[q.hash] = "landed",
         UNCHANGED <<row, onchainJob, mined, feedback, mirrorCrashes>>,
         rejectTx' \in [Hashes("reject") -> {"none", "live", "landed", "failed"}],
         \A n \in Hashes("reject") : rejectTx'[n] = "landed" <=> rejectTx[n] = "landed"
  PROVE  MirrorInv'
  <1> USE DEF MirrorInv
  <1>1. /\ call' \in [Requests -> MirrorCalls]
        /\ call'[c] = q /\ \A d \in Requests : d # c => call'[d] = call[d]
    BY CallIsSet
  <1>2. \A d \in Requests : Holds(d)' => Holds(d)
    BY <1>1 DEF Holds
  <1>3. HolderHasTheRow' /\ SubmittedHasHash'
    BY <1>2 DEF HolderHasTheRow, SubmittedHasHash
  <1>4. MirrorTypeOK'
    BY <1>1, MirrorTypes, TypesOfMirror DEF MirrorTypeOK, MirrorCalls, MirrorHashes
  <1>5. CarriesMined'
    BY <1>1 DEF CarriesMined, MirrorAt, Staged
  <1>6. MinedIsDone'
    BY DEF MinedIsDone
  <1> QED
    BY <1>3, <1>4, <1>5, <1>6 DEF FeedbackIsEarned

LEMMA RejectRouteKeeps == ASSUME MirrorInv, NEW c \in Requests, RejectRoute(c) PROVE MirrorInv'
  <1> USE DEF MirrorInv
  <1>1. /\ row \in RowStates /\ NoMirrorCall \in MirrorCalls /\ call[c] \in MirrorCalls
        /\ mirrorCrashes \in 0 .. MaxMirrorCrashes
        /\ rejectTx \in [Hashes("reject") -> {"none", "live", "landed", "failed"}]
    BY MirrorTypes
  <1>2. CASE AskReject(c)
    <2>1. PICK q : q = [NoMirrorCall EXCEPT !.kind = "rejecting", !.stage = "claim"]
      OBVIOUS
    <2>2. q \in MirrorCalls /\ q.kind = "rejecting" /\ q.stage = "claim"
      BY <1>1, <2>1 DEF MirrorCalls, RejectStages, NoMirrorCall
    <2>3. UNCHANGED <<row, onchainJob, mined, rejectTx, feedback>> /\ mirrorCrashes' \in 0 .. MaxMirrorCrashes
          /\ call' = [call EXCEPT ![c] = q]
      BY <1>1, <1>2, <2>1 DEF AskReject, Step
    <2> QED
      BY <2>2, <2>3, RequestMoves DEF Holding, Staged
  <1>3. CASE ClaimReject(c)
    <2>1. CASE ~RejectClaimable
      BY <1>1, <1>3, <2>1, RequestMoves DEF ClaimReject, Step, NoMirrorCall, Staged
    <2>2. CASE RejectClaimable
      <3>1. PICK q : q = [call[c] EXCEPT !.stage = "check"]
        OBVIOUS
      <3>2. q \in MirrorCalls /\ q.kind = "rejecting" /\ q.stage = "check"
        BY <1>1, <1>3, <3>1 DEF MirrorCalls, RejectStages, ClaimReject, MirrorAt
      <3>3. /\ row' = [row EXCEPT !.status = "rejecting"] /\ call' = [call EXCEPT ![c] = q]
            /\ UNCHANGED <<onchainJob, mined, rejectTx, feedback, mirrorCrashes>>
            /\ row.status = "submitted"
        BY <1>3, <2>2, <3>1 DEF ClaimReject, Step, RejectClaimable
      <3>4. /\ call' \in [Requests -> MirrorCalls]
            /\ call'[c] = q /\ \A d \in Requests : d # c => call'[d] = call[d]
        BY <3>2, <3>3, CallIsSet
      <3>5. row' \in RowStates /\ row'.status = "rejecting" /\ row'.tx = row.tx
        BY <1>1, <3>3 DEF RowStates
      <3>6. \A d \in Requests : ~Holds(d)
        BY <3>3 DEF HolderHasTheRow
      <3>7. HolderHasTheRow' /\ SubmittedHasHash'
        BY <3>3, <3>4, <3>5, <3>6 DEF HolderHasTheRow, SubmittedHasHash, Holds
      <3>8. MirrorTypeOK'
        BY <3>3, <3>4, <3>5, MirrorTypes, TypesOfMirror DEF MirrorTypeOK, RowStates, MirrorCalls, MirrorHashes
      <3>9. CarriesMined' /\ MinedIsDone'
        BY <3>2, <3>3, <3>4 DEF CarriesMined, MirrorAt, Staged, MinedIsDone
      <3> QED
        BY <3>3, <3>7, <3>8, <3>9 DEF FeedbackIsEarned
    <2> QED
      BY <2>1, <2>2
  <1>4. CASE GiveUpReject(c) \/ RejectTimesOut(c)
    BY <1>1, <1>4, GivesBack DEF GiveUpReject, RejectTimesOut, MirrorAt, Step, Holds, Holding
  <1>5. CASE CheckReject(c)
    <2>1. PICK q : q = [call[c] EXCEPT !.stage = "send"]
      OBVIOUS
    <2>2. q \in MirrorCalls /\ q.kind = "rejecting" /\ q.stage = "send" /\ Holds(c)
      BY <1>1, <1>5, <2>1 DEF MirrorCalls, RejectStages, CheckReject, MirrorAt, Holds, Holding
    <2>3. UNCHANGED <<row, onchainJob, mined, rejectTx, feedback, mirrorCrashes>>
          /\ call' = [call EXCEPT ![c] = q]
      BY <1>5, <2>1 DEF CheckReject, Step
    <2> QED
      BY <1>1, <2>2, <2>3, HolderMoves
  <1>6. ASSUME NEW n \in Hashes("reject"), SendReject(c, n) PROVE MirrorInv'
    <2>1. PICK q : q = [call[c] EXCEPT !.stage = "wait", !.hash = n]
      OBVIOUS
    <2>2. q \in MirrorCalls /\ q.kind = "rejecting" /\ q.stage = "wait" /\ q.hash = n /\ Holds(c)
      BY <1>1, <1>6, <2>1, HashesAreSmall
      DEF MirrorCalls, RejectStages, SendReject, MirrorAt, Holds, Holding
    <2>3. /\ rejectTx' \in [Hashes("reject") -> {"none", "live", "landed", "failed"}]
          /\ \A x \in Hashes("reject") : rejectTx'[x] = "landed" <=> rejectTx[x] = "landed"
      BY <1>1, <1>6 DEF SendReject
    <2>4. UNCHANGED <<onchainJob, mined, feedback, mirrorCrashes>>
          /\ \/ row' = row /\ call' = [call EXCEPT ![c] = q]
             \/ row' = RolledBack /\ call' = [call EXCEPT ![c] = NoMirrorCall]
      BY <1>6, <2>1 DEF SendReject
    <2> QED
      BY <2>2, <2>3, <2>4, HolderMoves, GivesBack
  <1>7. CASE AwaitReject(c)
    <2>1. PICK q : q = [call[c] EXCEPT !.stage = "attach"]
      OBVIOUS
    <2>2. q \in MirrorCalls /\ q.kind = "rejecting" /\ q.stage = "attach" /\ q.hash = call[c].hash /\ Holds(c)
      BY <1>1, <1>7, <2>1 DEF MirrorCalls, RejectStages, AwaitReject, MirrorAt, Holds, Holding
    <2>3. UNCHANGED <<row, onchainJob, mined, rejectTx, feedback, mirrorCrashes>>
          /\ call' = [call EXCEPT ![c] = q]
      BY <1>7, <2>1 DEF AwaitReject, Step
    <2>4. q.hash \in Hashes("reject") /\ rejectTx[q.hash] = "landed"
      BY <1>7, <2>2 DEF AwaitReject, ReceiptIsSuccess, CarriesMined
    <2> QED
      BY <1>1, <2>2, <2>3, <2>4, HolderMoves
  <1>8. CASE AttachReject(c)
    <2>1. PICK n : n = call[c].hash
      OBVIOUS
    <2>2. n \in Hashes("reject") /\ onchainJob.status = "Rejected" /\ Holds(c)
      BY <1>8, <2>1 DEF AttachReject, CarriesMined, MinedIsDone, MirrorAt, Holds, Holding
    <2>3. n \in 1 .. (MaxRejects + 2) /\ "Rejected" \in EscrowStatuses /\ "reject" \in Columns
      BY <2>2, HashesAreSmall DEF EscrowStatuses, Columns
    <2>4. /\ row' = Attached("reject", n, "Rejected") /\ feedback' = feedback \cup {"rejected"}
          /\ call' = [call EXCEPT ![c] = NoMirrorCall]
          /\ UNCHANGED <<onchainJob, mined, rejectTx, mirrorCrashes>>
      BY <1>8, <2>1 DEF AttachReject, Step
    <2>5. /\ row' \in RowStates /\ \A x \in Columns : row.tx[x] # NoTx => row'.tx[x] = row.tx[x]
          /\ row'.status = row.status \/ row'.status \in {"settled", "rejected"}
      BY <2>3, <2>4, AttachedRow
    <2>6. /\ call' \in [Requests -> MirrorCalls]
          /\ call'[c] = NoMirrorCall /\ \A d \in Requests : d # c => call'[d] = call[d]
      BY <1>1, <2>4, CallIsSet
    <2>7. \A d \in Requests : Holds(d)' => Holds(d)
      BY <2>6 DEF Holds, NoMirrorCall
    <2>8. HolderHasTheRow' /\ SubmittedHasHash'
      BY <2>4, <2>5, <2>7, RowMoves
    <2>9. FeedbackIsEarned' /\ feedback' \subseteq {"delivered", "failed", "rejected"}
      BY <2>2, <2>4, MirrorTypes DEF FeedbackIsEarned
    <2>10. MirrorTypeOK'
      BY <2>4, <2>5, <2>6, <2>9, MirrorTypes, TypesOfMirror DEF MirrorTypeOK, RowStates, MirrorCalls, MirrorHashes
    <2>11. CarriesMined' /\ MinedIsDone'
      BY <2>4, <2>6 DEF CarriesMined, MirrorAt, NoMirrorCall, Staged, MinedIsDone
    <2> QED
      BY <2>8, <2>9, <2>10, <2>11
  <1> QED
    BY <1>2, <1>3, <1>4, <1>5, <1>6, <1>7, <1>8 DEF RejectRoute

LEMMA ReconcileKeeps ==
  ASSUME MirrorInv, NEW c \in Requests, Reconcile(c) \/ RequestDies(c)
  PROVE  MirrorInv'
  <1> USE DEF MirrorInv
  <1>1. /\ row \in RowStates /\ NoMirrorCall \in MirrorCalls /\ call[c] \in MirrorCalls
        /\ onchainJob.status \in EscrowStatuses /\ mirrorCrashes \in 0 .. MaxMirrorCrashes
    BY MirrorTypes DEF OnchainJobs
  <1>2. CASE ReconcileJob(c)
    <2>1. PICK q : q = [NoMirrorCall EXCEPT !.kind = "reconcile", !.stage = "read", !.old = row.erc]
      OBVIOUS
    <2>2. q \in MirrorCalls /\ q.kind = "reconcile"
      BY <1>1, <2>1 DEF MirrorCalls, RowStates, NoMirrorCall
    <2> QED
      BY <1>1, <1>2, <2>1, <2>2, RequestMoves DEF ReconcileJob, Step, Staged
  <1>3. CASE ReconcileReads(c)
    <2>1. PICK q : q = IF onchainJob.status = call[c].old THEN NoMirrorCall
                       ELSE [call[c] EXCEPT !.stage = "write", !.seen = onchainJob.status]
      OBVIOUS
    <2>2. q \in MirrorCalls /\ q.kind \in {"reconcile", "none"}
      BY <1>1, <1>3, <2>1 DEF MirrorCalls, ReconcileReads, MirrorAt, NoMirrorCall
    <2> QED
      BY <1>1, <1>3, <2>1, <2>2, RequestMoves DEF ReconcileReads, Step, Staged
  <1>4. CASE ReconcileWrites(c)
    <2>1. row' \in RowStates /\ row'.status = row.status /\ row'.tx = row.tx
      BY <1>1, <1>4 DEF ReconcileWrites, RowStates, MirrorCalls
    <2>2. /\ call' \in [Requests -> MirrorCalls]
          /\ call'[c] = NoMirrorCall /\ \A d \in Requests : d # c => call'[d] = call[d]
      BY <1>1, <1>4, CallIsSet DEF ReconcileWrites, Step
    <2>3. HolderHasTheRow' /\ SubmittedHasHash'
      BY <2>1, <2>2 DEF HolderHasTheRow, SubmittedHasHash, Holds, NoMirrorCall
    <2>4. UNCHANGED <<onchainJob, mined, rejectTx, feedback, mirrorCrashes>>
      BY <1>4 DEF ReconcileWrites, Step
    <2>5. MirrorTypeOK'
      BY <2>1, <2>2, <2>4, MirrorTypes, TypesOfMirror DEF MirrorTypeOK, RowStates, MirrorCalls, MirrorHashes
    <2>6. CarriesMined' /\ MinedIsDone'
      BY <2>2, <2>4 DEF CarriesMined, MirrorAt, NoMirrorCall, Staged, MinedIsDone
    <2> QED
      BY <2>3, <2>4, <2>5, <2>6 DEF FeedbackIsEarned
  <1>5. CASE RequestDies(c)
    <2>1. NoMirrorCall.kind \notin Staged /\ NoMirrorCall.kind # "rejecting"
      BY DEF NoMirrorCall, Staged
    <2>2. mirrorCrashes' \in 0 .. MaxMirrorCrashes
      BY <1>1, <1>5, MirrorAssumption DEF RequestDies
    <2> QED
      BY <1>1, <1>5, <2>1, <2>2, RequestMoves DEF RequestDies
  <1> QED
    BY <1>2, <1>3, <1>4, <1>5 DEF Reconcile

LEMMA NextMirrorInv == MirrorInv /\ [MirrorNext]_mirrorVars => MirrorInv'
  <1> SUFFICES ASSUME MirrorInv, [MirrorNext]_mirrorVars PROVE MirrorInv'
    OBVIOUS
  <1>1. CASE UNCHANGED mirrorVars
    BY <1>1
    DEF mirrorVars, MirrorInv, MirrorTypeOK, FeedbackIsEarned, HolderHasTheRow, Holds, SubmittedHasHash,
        CarriesMined, MirrorAt, MinedIsDone
  <1> QED
    BY <1>1, ChainKeeps, RoutesKeep, TxRouteKeeps, RejectRouteKeeps, ReconcileKeeps DEF MirrorNext

LEMMA MirrorInvGives == MirrorInv => MirrorTypeOK /\ RejectsAreSerial /\ FeedbackIsEarned
  <1> SUFFICES ASSUME MirrorInv PROVE RejectsAreSerial
    BY DEF MirrorInv
  <1>1. \A c, d \in {x \in Requests : Holds(x)} : c = d
    BY DEF MirrorInv, HolderHasTheRow
  <1> QED
    BY <1>1, AtMostOne DEF RejectsAreSerial, Holds

\* No step replaces a hash.
LEMMA HashesStay ==
  ASSUME MirrorInv, [MirrorNext]_mirrorVars, NEW k \in Columns, row.tx[k] # NoTx
  PROVE  row'.tx[k] = row.tx[k]
  <1> USE DEF MirrorInv
  <1>1. row \in RowStates /\ onchainJob.status \in EscrowStatuses /\ "Rejected" \in EscrowStatuses
    BY MirrorTypes DEF OnchainJobs, EscrowStatuses
  <1>2. CASE UNCHANGED row \/ Routes \/ AttachRefund
             \/ \E c \in Requests : Reconcile(c) \/ RequestDies(c)
    BY <1>1, <1>2
    DEF Routes, PreparedSubmit, PreparedComplete, ClaimJob, MarkRunning, RowWritten, RowOfRefund, AttachRefund,
        Reconcile, ReconcileJob, ReconcileReads, ReconcileWrites, RequestDies, RowStates
  <1>3. CASE Chain
    BY <1>3 DEF Chain, MineOther, MineFund, MineRefund, MineSubmit, MineComplete, MineReject, LoseReject
  <1>4. ASSUME NEW c \in Requests, AttachStaged(c) PROVE row'.tx[k] = row.tx[k]
    <2>1. call[c].kind \in Columns /\ call[c].hash \in 1 .. (MaxRejects + 2) /\ call[c].seen \in EscrowStatuses
      <3>1. call[c] \in MirrorCalls /\ <<call[c].kind, call[c].hash>> \in mined /\ call[c].kind \in Staged
        BY <1>4, MirrorTypes DEF AttachStaged, MirrorAt, CarriesMined
      <3> QED
        BY <3>1, MirrorTypes DEF MirrorCalls, Staged, Columns
    <2> QED
      BY <1>4, <2>1, AttachedRow DEF AttachStaged
  <1>5. ASSUME NEW x \in Columns, NEW n \in Hashes(x), AttachAtOnce(x, n) \/ AttachRejected(n) PROVE row'.tx[k] = row.tx[k]
    <2>1. n \in 1 .. (MaxRejects + 2) /\ "reject" \in Columns
      BY HashesAreSmall DEF Columns
    <2> QED
      BY <1>1, <1>5, <2>1, AttachedRow DEF AttachAtOnce, AttachRejected, RowWritten
  <1>6. ASSUME NEW c \in Requests, RejectRoute(c) PROVE row'.tx[k] = row.tx[k]
    <2>1. CASE AttachReject(c)
      <3>1. call[c].hash \in 1 .. (MaxRejects + 2) /\ "reject" \in Columns
        BY <2>1, HashesAreSmall DEF AttachReject, CarriesMined, Columns
      <3> QED
        BY <1>1, <2>1, <3>1, AttachedRow DEF AttachReject
    <2>2. CASE ~AttachReject(c)
      BY <1>1, <1>6, <2>2
      DEF RejectRoute, AskReject, ClaimReject, GiveUpReject, CheckReject, SendReject, AwaitReject, RejectTimesOut,
          RolledBack, RowStates
    <2> QED
      BY <2>1, <2>2
  <1>7. CASE TxRoute
    <2>1. CASE \E c \in Requests : (\E x \in Staged : \E n \in Hashes(x) : ConfirmTx(c, x, n)) \/ ReadOnchainJob(c)
      BY <2>1 DEF ConfirmTx, ReadOnchainJob
    <2> QED
      BY <1>2, <1>4, <1>5, <1>7, <2>1 DEF TxRoute, Columns
  <1> QED
    BY <1>2, <1>3, <1>6, <1>7 DEF MirrorNext, mirrorVars
-----------------------------------------------------------------------------
(***************************************************************************)
(* JobCreation: a preparation becomes one local job.                       *)
(***************************************************************************)
\* The records of the three tables.
PostRecords == [kind : {"none", "hire", "created"}, stage : {"idle", "receipt", "create", "attach", "mark"},
                prep : Preparations \cup {NoPreparation}, tx : CreateTxs \cup {NoCreateTx},
                row : Rows \cup {NoRow}]
PrepRecords == [status : {"none", "prepared", "creating", "created", "failed", "expired"},
                names : [Sides -> Controllers], tx : CreateTxs \cup {NoCreateTx}]
RowRecords  == [exists : BOOLEAN, prep : Preparations \cup {NoPreparation},
                names : [Sides -> Controllers], tx : CreateTxs \cup {NoCreateTx}]

LEMMA CreationTypes ==
  CreationTypeOK <=> /\ registeredTo \in [Sides -> Controllers]
                     /\ prep \in [Preparations -> PrepRecords] /\ job \in [Rows -> RowRecords]
                     /\ createTx \in [CreateTxs -> {"none", "live", "mined", "reverted"}]
                     /\ post \in [Posts -> PostRecords] /\ creationCrashes \in 0 .. MaxCreationCrashes
  BY DEF CreationTypeOK, PostRecords, PrepRecords, RowRecords

LEMMA TypesOfCreation ==
  CreationTypeOK' <=> /\ registeredTo' \in [Sides -> Controllers]
                      /\ prep' \in [Preparations -> PrepRecords] /\ job' \in [Rows -> RowRecords]
                      /\ createTx' \in [CreateTxs -> {"none", "live", "mined", "reverted"}]
                      /\ post' \in [Posts -> PostRecords] /\ creationCrashes' \in 0 .. MaxCreationCrashes
  BY DEF CreationTypeOK, PostRecords, PrepRecords, RowRecords

\* A confirmation of a hire has its preparation to itself, in status creating ...
ClaimIsAlone ==
    /\ \A p \in Posts : post[p].kind = "hire" =>
          /\ post[p].prep \in Preparations /\ post[p].tx \in CreateTxs
          /\ prep[post[p].prep].status = "creating"
    /\ \A p, o \in Posts : post[p].kind = "hire" /\ post[o].kind = "hire" /\ post[p].prep = post[o].prep => p = o

\* ... and how far it is says whether a row was made of the preparation.
RowsOfClaims ==
    \A p \in Posts : post[p].kind = "hire" =>
        /\ post[p].stage \in {"receipt", "create"} => \A l \in Rows : job[l].prep # post[p].prep
        /\ post[p].stage \in {"attach", "mark"} => post[p].row \in Rows /\ job[post[p].row].prep = post[p].prep
        /\ post[p].stage = "mark" => job[post[p].row].tx # NoCreateTx

\* A confirmation of the row itself is of a row there is.
ConfirmsARow ==
    \A p \in Posts : post[p].kind = "created" =>
        post[p].row \in Rows /\ post[p].tx \in CreateTxs /\ job[post[p].row].exists

\* A row that does not exist is empty; two rows are not of one preparation,
\* which was claimed before it had one, and has one attached when it is created.
RowsArePreparations ==
    /\ \A l \in Rows : ~job[l].exists => job[l].prep = NoPreparation
    /\ \A l, m \in Rows : job[l].prep = job[m].prep /\ job[l].prep # NoPreparation => l = m
    /\ \A l \in Rows : job[l].prep # NoPreparation => prep[job[l].prep].status \notin {"none", "prepared"}
    /\ \A q \in Preparations : prep[q].status = "created" =>
           \E l \in Rows : job[l].prep = q /\ job[l].tx # NoCreateTx

CreationInv == CreationTypeOK /\ ClaimIsAlone /\ RowsOfClaims /\ ConfirmsARow /\ RowsArePreparations

LEMMA InitCreationInv == CreationInit => CreationInv
  BY CreationAssumption
  DEF CreationInit, CreationInv, CreationTypeOK, ClaimIsAlone, RowsOfClaims, ConfirmsARow, RowsArePreparations, NoPost

\* Setting one entry of a table.
LEMMA PostIsSet ==
  ASSUME CreationTypeOK, NEW p \in Posts, NEW n \in PostRecords, Goes(p, n)
  PROVE  post'[p] = n /\ (\A o \in Posts : o # p => post'[o] = post[o]) /\ post' \in [Posts -> PostRecords]
  BY CreationTypes DEF Goes

LEMMA PrepIsSet ==
  ASSUME CreationTypeOK, NEW q \in Preparations, NEW r \in PrepRecords, prep' = [prep EXCEPT ![q] = r]
  PROVE  /\ prep'[q] = r /\ \A o \in Preparations : o # q => prep'[o] = prep[o]
         /\ prep' \in [Preparations -> PrepRecords]
  BY CreationTypes

LEMMA RowIsSet ==
  ASSUME CreationTypeOK, NEW l \in Rows, NEW r \in RowRecords, job' = [job EXCEPT ![l] = r]
  PROVE  job'[l] = r /\ (\A m \in Rows : m # l => job'[m] = job[m]) /\ job' \in [Rows -> RowRecords]
  BY CreationTypes

LEMMA IdlePost == NoPost \in PostRecords /\ NoPost.kind = "none" /\ NoPost.prep = NoPreparation
  BY DEF NoPost, PostRecords

\* A preparation gets another status.
LEMMA StatusIsSet ==
  ASSUME CreationTypeOK, NEW q \in Preparations,
         NEW s \in {"none", "prepared", "creating", "created", "failed", "expired"},
         prep' = [prep EXCEPT ![q].status = s]
  PROVE  /\ prep'[q].status = s /\ \A o \in Preparations : o # q => prep'[o] = prep[o]
         /\ prep' \in [Preparations -> PrepRecords]
  <1>1. prep \in [Preparations -> PrepRecords]
    BY CreationTypes
  <1>2. PICK r : r = [prep[q] EXCEPT !.status = s]
    OBVIOUS
  <1>3. r \in PrepRecords /\ r.status = s
    BY <1>1, <1>2 DEF PrepRecords
  <1>4. prep' = [prep EXCEPT ![q] = r]
    BY <1>1, <1>2
  <1> QED
    BY <1>3, <1>4, PrepIsSet

\* A confirmation that ends leaves the rest as it is.
LEMMA PostEnds ==
  ASSUME CreationInv, NEW p \in Posts, Goes(p, NoPost), UNCHANGED <<registeredTo, prep, job, createTx>>,
         creationCrashes' \in 0 .. MaxCreationCrashes
  PROVE  CreationInv'
  <1> USE DEF CreationInv
  <1>1. /\ post'[p] = NoPost /\ \A o \in Posts : o # p => post'[o] = post[o]
        /\ post' \in [Posts -> PostRecords]
    BY IdlePost, PostIsSet
  <1>2. CreationTypeOK'
    BY <1>1, CreationTypes, TypesOfCreation
  <1> QED
    BY <1>1, <1>2, IdlePost DEF ClaimIsAlone, RowsOfClaims, ConfirmsARow, RowsArePreparations

\* The wallet, the registry and what is prepared.
LEMMA OutsideKeepsCreation ==
  ASSUME CreationInv,
         \/ \E t \in CreateTxs : SendCreate(t) \/ MineCreate(t)
         \/ \E side \in Sides, w \in Controllers : TransferAgent(side, w)
         \/ \E q \in Preparations, h \in HireRequests : Prepare(q, h)
         \/ \E l \in Rows, t \in CreateTxs : CreateLocal(l, TxNames[t])
  PROVE  CreationInv'
  <1> USE DEF CreationInv
  <1>1. CASE \E t \in CreateTxs : SendCreate(t) \/ MineCreate(t)
    <2>1. UNCHANGED <<registeredTo, prep, job, post, creationCrashes>>
      BY <1>1 DEF SendCreate, MineCreate
    <2>2. createTx' \in [CreateTxs -> {"none", "live", "mined", "reverted"}]
      BY <1>1, CreationTypes DEF SendCreate, MineCreate
    <2> QED
      BY <2>1, <2>2, CreationTypes, TypesOfCreation
      DEF ClaimIsAlone, RowsOfClaims, ConfirmsARow, RowsArePreparations
  <1>2. CASE \E side \in Sides, w \in Controllers : TransferAgent(side, w)
    BY <1>2, CreationTypes, TypesOfCreation
    DEF TransferAgent, ClaimIsAlone, RowsOfClaims, ConfirmsARow, RowsArePreparations
  <1>3. ASSUME NEW q \in Preparations, NEW h \in HireRequests, Prepare(q, h) PROVE CreationInv'
    <2>1. Resolved(h) \in [Sides -> Controllers] /\ prep \in [Preparations -> PrepRecords]
      BY CreationTypes DEF Resolved, Sides
    <2>2. PICK r : r = [prep[q] EXCEPT !.status = "prepared", !.names = Resolved(h)]
      OBVIOUS
    <2>3. r \in PrepRecords /\ r.status = "prepared"
      BY <2>1, <2>2 DEF PrepRecords
    <2>4. prep' = [prep EXCEPT ![q] = r]
      BY <1>3, <2>1, <2>2 DEF Prepare
    <2>5. /\ prep'[q] = r /\ \A o \in Preparations : o # q => prep'[o] = prep[o]
          /\ prep' \in [Preparations -> PrepRecords]
      BY <2>3, <2>4, PrepIsSet
    <2>6. UNCHANGED <<registeredTo, job, createTx, post, creationCrashes>> /\ prep[q].status = "none"
      BY <1>3 DEF Prepare
    <2>7. CreationTypeOK'
      BY <2>5, <2>6, CreationTypes, TypesOfCreation
    <2>8. ClaimIsAlone' /\ RowsOfClaims' /\ ConfirmsARow'
      BY <2>5, <2>6 DEF ClaimIsAlone, RowsOfClaims, ConfirmsARow
    <2>9. RowsArePreparations'
      BY <2>3, <2>5, <2>6, CreationTypes DEF RowsArePreparations, RowRecords
    <2> QED
      BY <2>7, <2>8, <2>9
  <1>4. ASSUME NEW l \in Rows, NEW t \in CreateTxs, CreateLocal(l, TxNames[t]) PROVE CreationInv'
    <2>1. TxNames[t] \in [Sides -> Controllers] /\ job[l] \in RowRecords /\ job \in [Rows -> RowRecords]
      BY CreationAssumption, CreationTypes
    <2>2. PICK r : r = [job[l] EXCEPT !.exists = TRUE, !.names = TxNames[t]]
      OBVIOUS
    <2>3. r \in RowRecords
      BY <2>1, <2>2 DEF RowRecords
    <2>4. r.exists /\ r.prep = job[l].prep /\ r.tx = job[l].tx
      BY <2>1, <2>2 DEF RowRecords
    <2>5. job' = [job EXCEPT ![l] = r]
      BY <1>4, <2>1, <2>2 DEF CreateLocal
    <2>6. job'[l] = r /\ (\A m \in Rows : m # l => job'[m] = job[m]) /\ job' \in [Rows -> RowRecords]
      BY <2>3, <2>5, RowIsSet
    <2>7. UNCHANGED <<registeredTo, prep, createTx, post, creationCrashes>>
      BY <1>4 DEF CreateLocal
    <2>8. CreationTypeOK'
      BY <2>6, <2>7, CreationTypes, TypesOfCreation
    <2>9. \A m \in Rows : job'[m].prep = job[m].prep /\ job'[m].tx = job[m].tx /\ (job[m].exists => job'[m].exists)
      BY <2>4, <2>6
    <2> QED
      BY <2>4, <2>6, <2>7, <2>8, <2>9 DEF ClaimIsAlone, RowsOfClaims, ConfirmsARow, RowsArePreparations
  <1> QED
    BY <1>1, <1>2, <1>3, <1>4

\* POST web-hire/created, up to the row.
LEMMA HireStartsKeepsCreation ==
  ASSUME CreationInv, NEW p \in Posts,
         \/ \E q \in Preparations, t \in CreateTxs : ClaimPreparation(p, q, t)
         \/ ReceiptMissing(p) \/ ReceiptRefused(p) \/ ReceiptMatches(p)
  PROVE  CreationInv'
  <1> USE DEF CreationInv
  <1>1. ASSUME NEW q \in Preparations, NEW t \in CreateTxs, ClaimPreparation(p, q, t) PROVE CreationInv'
    <2>1. /\ prep[q].status = "prepared" /\ post[p] = NoPost
          /\ UNCHANGED <<registeredTo, job, createTx, creationCrashes>>
      BY <1>1 DEF ClaimPreparation, Claimable
    <2>2. \A o \in Posts : post[o].kind = "hire" => post[o].prep # q
      BY <2>1 DEF ClaimIsAlone
    <2>3. \A l \in Rows : job[l].prep # q
      BY <2>1, CreationAssumption DEF RowsArePreparations
    <2>4. CASE \E status \in {"expired", "failed"} : prep' = [prep EXCEPT ![q].status = status] /\ UNCHANGED post
      <3>1. PICK status \in {"expired", "failed"} : prep' = [prep EXCEPT ![q].status = status] /\ UNCHANGED post
        BY <2>4
      <3>2. /\ prep'[q].status = status /\ \A o \in Preparations : o # q => prep'[o] = prep[o]
            /\ prep' \in [Preparations -> PrepRecords]
        BY <3>1, StatusIsSet
      <3>3. CreationTypeOK'
        BY <2>1, <3>1, <3>2, CreationTypes, TypesOfCreation
      <3>4. ClaimIsAlone' /\ RowsOfClaims' /\ ConfirmsARow'
        BY <2>1, <2>2, <3>1, <3>2 DEF ClaimIsAlone, RowsOfClaims, ConfirmsARow
      <3>5. RowsArePreparations'
        BY <2>1, <2>3, <3>2, CreationTypes DEF RowsArePreparations, RowRecords
      <3> QED
        BY <3>3, <3>4, <3>5
    <2>5. CASE /\ prep' = [prep EXCEPT ![q].status = "creating"]
               /\ Goes(p, [NoPost EXCEPT !.kind = "hire", !.stage = "receipt", !.prep = q, !.tx = t])
      <3>1. PICK n : n = [NoPost EXCEPT !.kind = "hire", !.stage = "receipt", !.prep = q, !.tx = t]
        OBVIOUS
      <3>2. n.kind = "hire" /\ n.stage = "receipt" /\ n.prep = q /\ n.tx = t /\ n \in PostRecords
        BY <3>1 DEF NoPost, PostRecords
      <3>3. /\ post'[p] = n /\ \A o \in Posts : o # p => post'[o] = post[o]
            /\ post' \in [Posts -> PostRecords]
        BY <2>5, <3>1, <3>2, PostIsSet
      <3>4. /\ prep'[q].status = "creating" /\ \A o \in Preparations : o # q => prep'[o] = prep[o]
            /\ prep' \in [Preparations -> PrepRecords]
        BY <2>5, StatusIsSet
      <3>5. CreationTypeOK'
        BY <2>1, <3>3, <3>4, CreationTypes, TypesOfCreation
      <3>6. ClaimIsAlone'
        BY <2>2, <3>2, <3>3, <3>4 DEF ClaimIsAlone
      <3>7. RowsOfClaims' /\ ConfirmsARow'
        BY <2>1, <2>3, <3>2, <3>3 DEF RowsOfClaims, ConfirmsARow
      <3>8. RowsArePreparations'
        BY <2>1, <2>3, <3>4, CreationTypes DEF RowsArePreparations, RowRecords
      <3> QED
        BY <3>5, <3>6, <3>7, <3>8
    <2> QED
      BY <1>1, <2>4, <2>5 DEF ClaimPreparation
  <1>2. CASE ReceiptMissing(p)
    BY <1>2, PostEnds, CreationTypes DEF ReceiptMissing
  <1>3. CASE ReceiptRefused(p)
    <2>1. PICK q : q = post[p].prep
      OBVIOUS
    <2>2. /\ Goes(p, NoPost) /\ UNCHANGED <<registeredTo, job, createTx, creationCrashes>>
          /\ q \in Preparations /\ prep[q].status = "creating" /\ post[p].kind = "hire" /\ post[p].stage = "receipt"
      BY <1>3, <2>1 DEF ReceiptRefused, HireAt, ClaimIsAlone
    <2>3. prep' = [prep EXCEPT ![q].status = "failed"]
      BY <1>3, <2>1, <2>2, CreationTypes DEF ReceiptRefused
    <2>4. /\ prep'[q].status = "failed" /\ \A o \in Preparations : o # q => prep'[o] = prep[o]
          /\ prep' \in [Preparations -> PrepRecords]
      BY <2>2, <2>3, StatusIsSet
    <2>5. /\ post'[p] = NoPost /\ \A o \in Posts : o # p => post'[o] = post[o]
          /\ post' \in [Posts -> PostRecords]
      BY <2>2, IdlePost, PostIsSet
    <2>6. CreationTypeOK'
      BY <2>2, <2>4, <2>5, CreationTypes, TypesOfCreation
    <2>7. ClaimIsAlone' /\ RowsOfClaims' /\ ConfirmsARow'
      BY <2>1, <2>2, <2>4, <2>5, IdlePost DEF ClaimIsAlone, RowsOfClaims, ConfirmsARow
    <2>8. RowsArePreparations'
      BY <2>2, <2>4, CreationTypes DEF RowsArePreparations, RowRecords
    <2> QED
      BY <2>6, <2>7, <2>8
  <1>4. CASE ReceiptMatches(p)
    <2>1. PICK n : n = [post[p] EXCEPT !.stage = "create"]
      OBVIOUS
    <2>2. /\ Goes(p, n) /\ UNCHANGED <<registeredTo, prep, job, createTx, creationCrashes>>
          /\ post[p].kind = "hire" /\ post[p].stage = "receipt"
      BY <1>4, <2>1 DEF ReceiptMatches, HireAt
    <2>3. n.kind = "hire" /\ n.stage = "create" /\ n.prep = post[p].prep /\ n.tx = post[p].tx /\ n \in PostRecords
      BY <2>1, <2>2, CreationTypes DEF PostRecords
    <2>4. /\ post'[p] = n /\ \A o \in Posts : o # p => post'[o] = post[o]
          /\ post' \in [Posts -> PostRecords]
      BY <2>2, <2>3, PostIsSet
    <2>5. CreationTypeOK'
      BY <2>2, <2>4, CreationTypes, TypesOfCreation
    <2> QED
      BY <2>2, <2>3, <2>4, <2>5 DEF ClaimIsAlone, RowsOfClaims, ConfirmsARow, RowsArePreparations
  <1> QED
    BY <1>1, <1>2, <1>3, <1>4

\* POST web-hire/created, from the row on.
LEMMA HireEndsKeepsCreation ==
  ASSUME CreationInv, NEW p \in Posts, (\E l \in Rows : CreateHired(p, l)) \/ AttachHired(p) \/ MarkCreated(p)
  PROVE  CreationInv'
  <1> USE DEF CreationInv
  <1>1. ASSUME NEW l \in Rows, CreateHired(p, l) PROVE CreationInv'
    <2>1. PICK q : q = post[p].prep
      OBVIOUS
    <2>2. /\ post[p].kind = "hire" /\ post[p].stage = "create" /\ ~job[l].exists /\ job[l].prep = NoPreparation
          /\ q \in Preparations /\ prep[q].status = "creating" /\ \A m \in Rows : job[m].prep # q
          /\ prep[q] \in PrepRecords /\ post[p] \in PostRecords
          /\ UNCHANGED <<registeredTo, prep, createTx, creationCrashes>>
      BY <1>1, <2>1, CreationTypes DEF CreateHired, HireAt, ClaimIsAlone, RowsOfClaims, RowsArePreparations
    <2>3. PICK r : r = [exists |-> TRUE, prep |-> q, names |-> prep[q].names, tx |-> NoCreateTx]
      OBVIOUS
    <2>4. r \in RowRecords /\ r.exists /\ r.prep = q /\ r.tx = NoCreateTx
      BY <2>2, <2>3 DEF RowRecords, PrepRecords
    <2>5. job'[l] = r /\ (\A m \in Rows : m # l => job'[m] = job[m]) /\ job' \in [Rows -> RowRecords]
      BY <1>1, <2>1, <2>3, <2>4, RowIsSet DEF CreateHired
    <2>6. PICK n : n = [post[p] EXCEPT !.stage = "attach", !.row = l]
      OBVIOUS
    <2>7. n \in PostRecords /\ n.kind = "hire" /\ n.stage = "attach" /\ n.prep = q /\ n.row = l /\ n.tx = post[p].tx
      BY <2>1, <2>2, <2>6 DEF PostRecords
    <2>8. post'[p] = n /\ (\A o \in Posts : o # p => post'[o] = post[o]) /\ post' \in [Posts -> PostRecords]
      BY <1>1, <2>6, <2>7, PostIsSet DEF CreateHired
    <2>9. CreationTypeOK'
      BY <2>2, <2>5, <2>8, CreationTypes, TypesOfCreation
    <2>10. ClaimIsAlone'
      BY <2>1, <2>2, <2>7, <2>8 DEF ClaimIsAlone
    <2>11. RowsOfClaims'
      <3>1. \A o \in Posts : o # p /\ post[o].kind = "hire" => post[o].prep # q /\ post[o].prep # NoPreparation
        BY <2>1, <2>2, CreationAssumption DEF ClaimIsAlone
      <3> QED
        BY <2>2, <2>4, <2>5, <2>7, <2>8, <3>1 DEF RowsOfClaims
    <2>12. ConfirmsARow'
      BY <2>4, <2>5, <2>7, <2>8 DEF ConfirmsARow
    <2>13. RowsArePreparations'
      BY <2>2, <2>4, <2>5, CreationAssumption DEF RowsArePreparations
    <2> QED
      BY <2>9, <2>10, <2>11, <2>12, <2>13
  <1>2. CASE AttachHired(p)
    <2>1. PICK l, t : l = post[p].row /\ t = post[p].tx
      OBVIOUS
    <2>2. /\ post[p].kind = "hire" /\ post[p].stage = "attach" /\ post[p] \in PostRecords
          /\ l \in Rows /\ t \in CreateTxs /\ t # NoCreateTx /\ job[l].prep = post[p].prep /\ job[l] \in RowRecords
          /\ UNCHANGED <<registeredTo, prep, createTx, creationCrashes>>
      BY <1>2, <2>1, CreationTypes, CreationAssumption DEF AttachHired, HireAt, ClaimIsAlone, RowsOfClaims
    <2>3. CASE Taken(l, t)
      BY <1>2, <2>1, <2>2, <2>3, PostEnds, CreationTypes DEF AttachHired
    <2>4. CASE ~Taken(l, t)
      <3>1. PICK r : r = [job[l] EXCEPT !.tx = t]
        OBVIOUS
      <3>2. r \in RowRecords /\ r.tx = t /\ r.exists = job[l].exists /\ r.prep = job[l].prep
        BY <2>2, <3>1 DEF RowRecords
      <3>3. job' = [job EXCEPT ![l] = r]
        BY <1>2, <2>1, <2>2, <2>4, <3>1, CreationTypes DEF AttachHired, Attach
      <3>4. job'[l] = r /\ (\A m \in Rows : m # l => job'[m] = job[m]) /\ job' \in [Rows -> RowRecords]
        BY <2>2, <3>2, <3>3, RowIsSet
      <3>5. PICK n : n = [post[p] EXCEPT !.stage = "mark"]
        OBVIOUS
      <3>6. /\ n \in PostRecords /\ n.kind = "hire" /\ n.stage = "mark" /\ n.prep = post[p].prep /\ n.row = l
            /\ n.tx = t
        BY <2>1, <2>2, <3>5 DEF PostRecords
      <3>7. post'[p] = n /\ (\A o \in Posts : o # p => post'[o] = post[o]) /\ post' \in [Posts -> PostRecords]
        BY <1>2, <2>1, <2>4, <3>5, <3>6, PostIsSet DEF AttachHired
      <3>8. CreationTypeOK'
        BY <2>2, <3>4, <3>7, CreationTypes, TypesOfCreation
      <3>9. ClaimIsAlone'
        BY <2>1, <2>2, <3>6, <3>7 DEF ClaimIsAlone
      <3>10. RowsOfClaims'
        BY <2>2, <3>2, <3>4, <3>6, <3>7 DEF RowsOfClaims
      <3>11. ConfirmsARow'
        BY <3>2, <3>4, <3>6, <3>7 DEF ConfirmsARow
      <3>12. RowsArePreparations'
        BY <2>2, <3>2, <3>4 DEF RowsArePreparations
      <3> QED
        BY <3>8, <3>9, <3>10, <3>11, <3>12
    <2> QED
      BY <2>3, <2>4
  <1>3. CASE MarkCreated(p)
    <2>1. PICK q, t, l : q = post[p].prep /\ t = post[p].tx /\ l = post[p].row
      OBVIOUS
    <2>2. /\ post[p].kind = "hire" /\ post[p].stage = "mark" /\ Goes(p, NoPost)
          /\ q \in Preparations /\ t \in CreateTxs /\ prep[q].status = "creating"
          /\ l \in Rows /\ job[l].prep = q /\ job[l].tx # NoCreateTx /\ prep[q] \in PrepRecords
          /\ UNCHANGED <<registeredTo, job, createTx, creationCrashes>>
      BY <1>3, <2>1, CreationTypes DEF MarkCreated, HireAt, ClaimIsAlone, RowsOfClaims
    <2>3. PICK r : r = [prep[q] EXCEPT !.status = "created", !.tx = t]
      OBVIOUS
    <2>4. r \in PrepRecords /\ r.status = "created"
      BY <2>2, <2>3 DEF PrepRecords
    <2>5. prep' = [prep EXCEPT ![q] = r]
      BY <1>3, <2>1, <2>2, <2>3, CreationTypes DEF MarkCreated
    <2>6. prep'[q] = r /\ (\A o \in Preparations : o # q => prep'[o] = prep[o]) /\ prep' \in [Preparations -> PrepRecords]
      BY <2>2, <2>4, <2>5, PrepIsSet
    <2>7. post'[p] = NoPost /\ (\A o \in Posts : o # p => post'[o] = post[o]) /\ post' \in [Posts -> PostRecords]
      BY <2>2, IdlePost, PostIsSet
    <2>8. CreationTypeOK'
      BY <2>2, <2>6, <2>7, CreationTypes, TypesOfCreation
    <2>9. ClaimIsAlone' /\ RowsOfClaims' /\ ConfirmsARow'
      BY <2>1, <2>2, <2>6, <2>7, IdlePost DEF ClaimIsAlone, RowsOfClaims, ConfirmsARow
    <2>10. RowsArePreparations'
      BY <2>2, <2>4, <2>6, CreationTypes DEF RowsArePreparations, RowRecords
    <2> QED
      BY <2>8, <2>9, <2>10
  <1> QED
    BY <1>1, <1>2, <1>3

\* POST [localJobId]/created, and a confirmation that is lost.
LEMMA CreatedRouteKeepsCreation ==
  ASSUME CreationInv, NEW p \in Posts, CreatedRoute(p) \/ PostDies(p)
  PROVE  CreationInv'
  <1> USE DEF CreationInv
  <1>1. ASSUME NEW l \in Rows, NEW t \in CreateTxs, ReadRow(p, l, t) PROVE CreationInv'
    <2>1. PICK n : n = [NoPost EXCEPT !.kind = "created", !.stage = "attach", !.row = l, !.tx = t]
      OBVIOUS
    <2>2. n \in PostRecords /\ n.kind = "created" /\ n.row = l /\ n.tx = t
      BY <2>1 DEF NoPost, PostRecords
    <2>3. Goes(p, n) /\ job[l].exists /\ UNCHANGED <<registeredTo, prep, job, createTx, creationCrashes>>
      BY <1>1, <2>1 DEF ReadRow
    <2>4. post'[p] = n /\ (\A o \in Posts : o # p => post'[o] = post[o]) /\ post' \in [Posts -> PostRecords]
      BY <2>2, <2>3, PostIsSet
    <2>5. CreationTypeOK'
      BY <2>3, <2>4, CreationTypes, TypesOfCreation
    <2> QED
      BY <2>2, <2>3, <2>4, <2>5 DEF ClaimIsAlone, RowsOfClaims, ConfirmsARow, RowsArePreparations
  <1>2. CASE AttachCreated(p)
    <2>1. PICK l, t : l = post[p].row /\ t = post[p].tx
      OBVIOUS
    <2>2. /\ post[p].kind = "created" /\ Goes(p, NoPost) /\ l \in Rows /\ job[l].exists
          /\ t \in CreateTxs /\ t # NoCreateTx /\ job[l] \in RowRecords /\ job \in [Rows -> RowRecords]
          /\ UNCHANGED <<registeredTo, prep, createTx, creationCrashes>>
      BY <1>2, <2>1, CreationTypes, CreationAssumption DEF AttachCreated, ConfirmsARow
    <2>3. CASE Taken(l, t)
      BY <1>2, <2>1, <2>2, <2>3, PostEnds, CreationTypes DEF AttachCreated
    <2>4. CASE ~Taken(l, t)
      <3>1. PICK r : r = [job[l] EXCEPT !.tx = t]
        OBVIOUS
      <3>2. r \in RowRecords /\ r.tx = t /\ r.exists = job[l].exists /\ r.prep = job[l].prep
        BY <2>2, <3>1 DEF RowRecords
      <3>3. job' = [job EXCEPT ![l] = r]
        BY <1>2, <2>1, <2>2, <2>4, <3>1 DEF AttachCreated, Attach
      <3>4. job'[l] = r /\ (\A m \in Rows : m # l => job'[m] = job[m]) /\ job' \in [Rows -> RowRecords]
        BY <2>2, <3>2, <3>3, RowIsSet
      <3>5. post'[p] = NoPost /\ (\A o \in Posts : o # p => post'[o] = post[o]) /\ post' \in [Posts -> PostRecords]
        BY <2>2, IdlePost, PostIsSet
      <3>6. CreationTypeOK'
        BY <2>2, <3>4, <3>5, CreationTypes, TypesOfCreation
      <3>7. \A m \in Rows : /\ job'[m].prep = job[m].prep /\ (job'[m].exists <=> job[m].exists)
                            /\ job[m].tx # NoCreateTx => job'[m].tx # NoCreateTx
        BY <2>2, <3>2, <3>4
      <3>8. ClaimIsAlone' /\ ConfirmsARow'
        BY <2>2, <3>5, <3>7, IdlePost DEF ClaimIsAlone, ConfirmsARow
      <3>9. RowsOfClaims'
        BY <2>2, <3>5, <3>7, IdlePost DEF RowsOfClaims
      <3>10. RowsArePreparations'
        BY <2>2, <3>7 DEF RowsArePreparations
      <3> QED
        BY <3>6, <3>8, <3>9, <3>10
    <2> QED
      BY <2>3, <2>4
  <1>3. CASE PostDies(p)
    BY <1>3, PostEnds, CreationTypes, CreationAssumption DEF PostDies
  <1> QED
    BY <1>1, <1>2, <1>3 DEF CreatedRoute

LEMMA NextCreationInv == CreationInv /\ [CreationNext]_creationVars => CreationInv'
  <1> SUFFICES ASSUME CreationInv, [CreationNext]_creationVars PROVE CreationInv'
    OBVIOUS
  <1>1. CASE UNCHANGED creationVars
    BY <1>1
    DEF creationVars, CreationInv, CreationTypeOK, ClaimIsAlone, RowsOfClaims, ConfirmsARow, RowsArePreparations
  <1> QED
    BY <1>1, OutsideKeepsCreation, HireStartsKeepsCreation, HireEndsKeepsCreation, CreatedRouteKeepsCreation
    DEF CreationNext, HireRoute

LEMMA CreationInvGives == CreationInv => PreparationBecomesOneJob
  <1> SUFFICES ASSUME CreationInv, NEW q \in Preparations
               PROVE  /\ Cardinality({l \in Rows : job[l].prep = q}) <= 1
                      /\ prep[q].status = "created" =>
                             \E l \in {m \in Rows : job[m].prep = q} : job[l].tx # NoCreateTx
    BY DEF PreparationBecomesOneJob
  <1>1. \A x, y \in {l \in Rows : job[l].prep = q} : x = y
    BY CreationAssumption DEF CreationInv, RowsArePreparations
  <1>2. Cardinality({l \in Rows : job[l].prep = q}) <= 1
    BY <1>1, AtMostOne
  <1> QED
    BY <1>2 DEF CreationInv, RowsArePreparations

-----------------------------------------------------------------------------
(***************************************************************************)
(* Validations: one request and one response of a hash are sent.           *)
(***************************************************************************)
VrowRecords == [there : BOOLEAN, requestTx : Sends \cup {NoSend}, responseTx : Sends \cup {NoSend},
                locked : BOOLEAN, response : {0} \cup Verdicts]
SentRecords == [kind : {"none", "request", "response"}, verdict : {0} \cup Verdicts,
                state : {"unsent", "live", "success", "reverted"}]
WorkRecords == [stage : {"free", "claim", "write", "undo", "store", "await", "record"},
                kind : {"none", "request", "response"}, send : Sends \cup {NoSend}, verdict : {0} \cup Verdicts]

LEMMA ValidationTypes ==
  ValidationTypeOK <=> /\ vrow \in VrowRecords /\ registry \in [requested : BOOLEAN, response : {0} \cup Verdicts]
                       /\ sent \in [Sends -> SentRecords] /\ worker \in [Validators -> WorkRecords]
                       /\ lateErrors \in 0 .. MaxLateErrors
  BY DEF ValidationTypeOK, VrowRecords, SentRecords, WorkRecords

LEMMA TypesOfValidation ==
  ValidationTypeOK' <=> /\ vrow' \in VrowRecords
                        /\ registry' \in [requested : BOOLEAN, response : {0} \cup Verdicts]
                        /\ sent' \in [Sends -> SentRecords] /\ worker' \in [Validators -> WorkRecords]
                        /\ lateErrors' \in 0 .. MaxLateErrors
  BY DEF ValidationTypeOK, VrowRecords, SentRecords, WorkRecords

Kinds == {"request", "response"}

\* A call about to send a transaction of a kind, or to give back what it took for that.
Sending(v, k) == worker[v].kind = k /\ worker[v].stage \in {"write", "undo"}
SentOne(k)    == \E t \in Sends : sent[t].kind = k

\* Of each kind, one call is about to send or one transaction is sent ...
OneOfAKind ==
    \A k \in Kinds :
        /\ \A v, o \in Validators : Sending(v, k) /\ Sending(o, k) => v = o
        /\ \A t, s \in Sends : sent[t].kind = k /\ sent[s].kind = k => t = s
        /\ \A v \in Validators : Sending(v, k) => ~SentOne(k)

\* ... while the row is there for it, or locked; and a response follows a request.
RowIsTaken ==
    /\ SentOne("request") \/ (\E v \in Validators : Sending(v, "request")) => vrow.there
    /\ SentOne("response") \/ (\E v \in Validators : Sending(v, "response")) => vrow.locked
    /\ registry.requested \/ SentOne("response") \/ (\E v \in Validators : worker[v].kind = "response")
           => SentOne("request")

\* A call under way has a kind, and one that takes the lock is a response.
CallsHaveAKind ==
    \A v \in Validators : /\ worker[v].stage # "free" => worker[v].kind # "none"
                          /\ worker[v].stage = "claim" => worker[v].kind = "response"

ValidationInv == ValidationTypeOK /\ CallsHaveAKind /\ (lateErrors = 0 => OneOfAKind /\ RowIsTaken)

LEMMA InitValidationInv == ValidationInit => ValidationInv
  <1> SUFFICES ASSUME ValidationInit PROVE ValidationInv
    OBVIOUS
  <1> USE DEF ValidationInit
  <1>1. NoVrow \in VrowRecords /\ Free \in WorkRecords /\ Unsent \in SentRecords
    BY DEF NoVrow, Free, Unsent, VrowRecords, WorkRecords, SentRecords
  <1>2. ValidationTypeOK
    BY <1>1, ValidationTypes, ValidationsAssumption
  <1>3. (\A v \in Validators : worker[v].kind = "none" /\ worker[v].stage = "free") /\ (\A t \in Sends : sent[t].kind = "none")
    BY DEF Free, Unsent
  <1> QED
    BY <1>2, <1>3 DEF ValidationInv, CallsHaveAKind, OneOfAKind, RowIsTaken, Sending, SentOne, Kinds

\* The effect of a call's step on the table of calls.
LEMMA WorkerIsSet ==
  ASSUME ValidationTypeOK, NEW v \in Validators, NEW n \in WorkRecords, worker' = [worker EXCEPT ![v] = n]
  PROVE  worker'[v] = n /\ (\A o \in Validators : o # v => worker'[o] = worker[o]) /\ worker' \in [Validators -> WorkRecords]
  BY ValidationTypes

LEMMA StageIsSet ==
  ASSUME ValidationTypeOK, NEW v \in Validators,
         NEW s \in {"free", "claim", "write", "undo", "store", "await", "record"}, Turns(v, s)
  PROVE  /\ worker'[v].kind = worker[v].kind /\ worker'[v].stage = s
         /\ \A o \in Validators : o # v => worker'[o] = worker[o]
         /\ worker' \in [Validators -> WorkRecords]
  <1>1. worker \in [Validators -> WorkRecords]
    BY ValidationTypes
  <1>2. PICK n : n = [worker[v] EXCEPT !.stage = s]
    OBVIOUS
  <1>3. n \in WorkRecords /\ n.kind = worker[v].kind /\ n.stage = s
    BY <1>1, <1>2 DEF WorkRecords
  <1>4. worker' = [worker EXCEPT ![v] = n]
    BY <1>1, <1>2 DEF Turns
  <1> QED
    BY <1>3, <1>4, WorkerIsSet

LEMMA WorkerIsFree ==
  ASSUME ValidationTypeOK, NEW v \in Validators, Ends(v)
  PROVE  /\ worker'[v].kind = "none" /\ worker'[v].stage = "free"
         /\ \A o \in Validators : o # v => worker'[o] = worker[o]
         /\ worker' \in [Validators -> WorkRecords]
  <1>1. Free \in WorkRecords /\ Free.kind = "none" /\ Free.stage = "free"
    BY DEF Free, WorkRecords
  <1> QED
    BY <1>1, WorkerIsSet DEF Ends

\* A step after which fewer calls are about to send, or as many, and nothing else is different.
LEMMA CallSteps ==
  ASSUME ValidationInv, ValidationTypeOK', CallsHaveAKind', lateErrors' = lateErrors,
         \A t \in Sends : sent'[t].kind = sent[t].kind,
         registry'.requested => registry.requested \/ SentOne("request"),
         vrow.there => vrow'.there, vrow.locked => vrow'.locked,
         \A v \in Validators, k \in Kinds : Sending(v, k)' => Sending(v, k),
         \A v \in Validators : worker'[v].kind = "response" => worker[v].kind = "response" \/ registry.requested
  PROVE  ValidationInv'
  <1> SUFFICES ASSUME lateErrors = 0 PROVE OneOfAKind' /\ RowIsTaken'
    BY DEF ValidationInv
  <1>1. OneOfAKind /\ RowIsTaken
    BY DEF ValidationInv
  <1>2. \A k \in Kinds : SentOne(k)' <=> SentOne(k)
    BY DEF SentOne
  <1>3. OneOfAKind'
    BY <1>1, <1>2 DEF OneOfAKind
  <1>4. RowIsTaken'
    BY <1>1, <1>2 DEF RowIsTaken, Kinds
  <1> QED
    BY <1>3, <1>4

\* A call is made, or ends, or goes on without sending.
LEMMA QuietCallsKeep ==
  ASSUME ValidationInv, NEW v \in Validators,
         \/ Await(v) \/ Record(v) \/ StoreHash(v) \/ GiveUp(v)
         \/ \E verdict \in Verdicts : Respond(v, verdict)
  PROVE  ValidationInv'
  <1>1. ValidationTypeOK /\ CallsHaveAKind /\ worker[v] \in WorkRecords /\ vrow \in VrowRecords
    BY ValidationTypes DEF ValidationInv
  <1>2. CASE Await(v)
    <2>1. Turns(v, "record") /\ worker[v].stage = "await" /\ UNCHANGED <<vrow, registry, sent, lateErrors>>
      BY <1>2 DEF Await, WorkerOnly
    <2>2. /\ worker'[v].kind = worker[v].kind /\ worker'[v].stage = "record"
          /\ \A o \in Validators : o # v => worker'[o] = worker[o]
          /\ worker' \in [Validators -> WorkRecords]
      BY <1>1, <2>1, StageIsSet
    <2>3. ValidationTypeOK' /\ CallsHaveAKind'
      BY <1>1, <2>1, <2>2, ValidationTypes, TypesOfValidation DEF CallsHaveAKind
    <2> QED
      BY <2>1, <2>2, <2>3, CallSteps DEF Sending
  <1>3. CASE GiveUp(v)
    <2>1. Ends(v) /\ UNCHANGED <<vrow, registry, sent, lateErrors>>
      BY <1>3 DEF GiveUp, WorkerOnly
    <2>2. /\ worker'[v].kind = "none" /\ worker'[v].stage = "free"
          /\ \A o \in Validators : o # v => worker'[o] = worker[o]
          /\ worker' \in [Validators -> WorkRecords]
      BY <1>1, <2>1, WorkerIsFree
    <2>3. ValidationTypeOK' /\ CallsHaveAKind'
      BY <1>1, <2>1, <2>2, ValidationTypes, TypesOfValidation DEF CallsHaveAKind
    <2> QED
      BY <2>1, <2>2, <2>3, CallSteps DEF Sending
  <1>4. CASE Record(v)
    <2>1. Ends(v) /\ UNCHANGED <<registry, sent, lateErrors>>
      BY <1>4 DEF Record, RowOnlyV
    <2>2. /\ worker'[v].kind = "none" /\ worker'[v].stage = "free"
          /\ \A o \in Validators : o # v => worker'[o] = worker[o]
          /\ worker' \in [Validators -> WorkRecords]
      BY <1>1, <2>1, WorkerIsFree
    <2>3. vrow' \in VrowRecords /\ (vrow.there => vrow'.there) /\ (vrow.locked => vrow'.locked)
      BY <1>1, <1>4 DEF Record, VrowRecords, WorkRecords
    <2>4. ValidationTypeOK' /\ CallsHaveAKind'
      BY <1>1, <2>1, <2>2, <2>3, ValidationTypes, TypesOfValidation DEF CallsHaveAKind
    <2> QED
      BY <2>1, <2>2, <2>3, <2>4, CallSteps DEF Sending
  <1>5. CASE StoreHash(v)
    <2>1. Turns(v, "await") /\ worker[v].stage = "store" /\ UNCHANGED <<registry, sent, lateErrors>>
      BY <1>5 DEF StoreHash, RowOnlyV
    <2>2. /\ worker'[v].kind = worker[v].kind /\ worker'[v].stage = "await"
          /\ \A o \in Validators : o # v => worker'[o] = worker[o]
          /\ worker' \in [Validators -> WorkRecords]
      BY <1>1, <2>1, StageIsSet
    <2>3. vrow' \in VrowRecords /\ (vrow.there => vrow'.there) /\ (vrow.locked => vrow'.locked)
      BY <1>1, <1>5 DEF StoreHash, VrowRecords, WorkRecords
    <2>4. ValidationTypeOK' /\ CallsHaveAKind'
      BY <1>1, <2>1, <2>2, <2>3, ValidationTypes, TypesOfValidation DEF CallsHaveAKind
    <2> QED
      BY <2>1, <2>2, <2>3, <2>4, CallSteps DEF Sending
  <1>6. ASSUME NEW verdict \in Verdicts, Respond(v, verdict) PROVE ValidationInv'
    <2>1. PICK n : n = [stage |-> "claim", kind |-> "response", send |-> NoSend, verdict |-> verdict]
      OBVIOUS
    <2>2. n \in WorkRecords /\ n.stage = "claim" /\ n.kind = "response"
      BY <2>1 DEF WorkRecords
    <2>3. worker'[v] = n /\ (\A o \in Validators : o # v => worker'[o] = worker[o]) /\ worker' \in [Validators -> WorkRecords]
      BY <1>1, <1>6, <2>1, <2>2, WorkerIsSet DEF Respond
    <2>4. registry.requested /\ UNCHANGED <<vrow, registry, sent, lateErrors>>
      BY <1>6 DEF Respond, WorkerOnly
    <2>5. ValidationTypeOK' /\ CallsHaveAKind'
      BY <1>1, <2>2, <2>3, <2>4, ValidationTypes, TypesOfValidation DEF CallsHaveAKind
    <2> QED
      BY <2>2, <2>3, <2>4, <2>5, CallSteps DEF Sending
  <1> QED
    BY <1>2, <1>3, <1>4, <1>5, <1>6

\* The row is inserted, or the lock taken: nobody else had it.
LEMMA ClaimsKeep ==
  ASSUME ValidationInv, NEW v \in Validators, AskForValidation(v) \/ LockResponse(v)
  PROVE  ValidationInv'
  <1>1. ValidationTypeOK /\ CallsHaveAKind /\ worker[v] \in WorkRecords /\ vrow \in VrowRecords
    BY ValidationTypes DEF ValidationInv
  <1>2. CASE AskForValidation(v)
    <2>1. PICK n : n = [worker[v] EXCEPT !.stage = "write", !.kind = "request"]
      OBVIOUS
    <2>2. n \in WorkRecords /\ n.stage = "write" /\ n.kind = "request"
      BY <1>1, <2>1 DEF WorkRecords
    <2>3. worker' = [worker EXCEPT ![v] = n]
      BY <1>1, <1>2, <2>1, ValidationTypes DEF AskForValidation
    <2>4. worker'[v] = n /\ (\A o \in Validators : o # v => worker'[o] = worker[o]) /\ worker' \in [Validators -> WorkRecords]
      BY <1>1, <2>2, <2>3, WorkerIsSet
    <2>5. /\ vrow' \in VrowRecords /\ vrow'.there /\ vrow'.locked = vrow.locked /\ ~vrow.there
          /\ UNCHANGED <<registry, sent, lateErrors>>
      BY <1>1, <1>2 DEF AskForValidation, Insertable, RowOnlyV, VrowRecords
    <2>6. ValidationTypeOK' /\ CallsHaveAKind'
      BY <1>1, <2>2, <2>4, <2>5, ValidationTypes, TypesOfValidation DEF CallsHaveAKind
    <2>7. ASSUME lateErrors = 0 PROVE OneOfAKind' /\ RowIsTaken'
      <3>1. OneOfAKind /\ RowIsTaken
        BY <2>7 DEF ValidationInv
      <3>2. \A k \in Kinds : SentOne(k)' <=> SentOne(k)
        BY <2>5 DEF SentOne
      <3>3. ~SentOne("request") /\ \A o \in Validators : ~Sending(o, "request")
        BY <2>5, <3>1 DEF RowIsTaken
      <3>4. \A o \in Validators : (Sending(o, "request")' => o = v) /\ (Sending(o, "response")' => Sending(o, "response"))
        BY <2>2, <2>4, <3>3 DEF Sending
      <3>5. OneOfAKind'
        BY <2>5, <3>1, <3>2, <3>3, <3>4 DEF OneOfAKind, Kinds
      <3>6. \A o \in Validators : worker'[o].kind = "response" => worker[o].kind = "response"
        BY <2>2, <2>4
      <3> QED
        BY <2>5, <3>1, <3>2, <3>3, <3>4, <3>5, <3>6 DEF RowIsTaken, Kinds
    <2> QED
      BY <2>5, <2>6, <2>7 DEF ValidationInv
  <1>3. CASE LockResponse(v) /\ ~Lockable
    <2>1. Ends(v) /\ UNCHANGED <<vrow, registry, sent, lateErrors>>
      BY <1>3 DEF LockResponse, RowOnlyV
    <2>2. /\ worker'[v].kind = "none" /\ worker'[v].stage = "free"
          /\ \A o \in Validators : o # v => worker'[o] = worker[o]
          /\ worker' \in [Validators -> WorkRecords]
      BY <1>1, <2>1, WorkerIsFree
    <2>3. ValidationTypeOK' /\ CallsHaveAKind'
      BY <1>1, <2>1, <2>2, ValidationTypes, TypesOfValidation DEF CallsHaveAKind
    <2> QED
      BY <2>1, <2>2, <2>3, CallSteps DEF Sending
  <1>4. CASE LockResponse(v) /\ Lockable
    <2>1. /\ Turns(v, "write") /\ worker[v].stage = "claim" /\ worker[v].kind = "response"
          /\ UNCHANGED <<registry, sent, lateErrors>>
      BY <1>1, <1>4 DEF LockResponse, RowOnlyV, CallsHaveAKind
    <2>2. /\ worker'[v].kind = worker[v].kind /\ worker'[v].stage = "write"
          /\ \A o \in Validators : o # v => worker'[o] = worker[o]
          /\ worker' \in [Validators -> WorkRecords]
      BY <1>1, <2>1, StageIsSet
    <2>3. vrow' \in VrowRecords /\ vrow'.there = vrow.there /\ vrow'.locked /\ ~vrow.locked
      BY <1>1, <1>4 DEF LockResponse, Lockable, VrowRecords
    <2>4. ValidationTypeOK' /\ CallsHaveAKind'
      BY <1>1, <2>1, <2>2, <2>3, ValidationTypes, TypesOfValidation DEF CallsHaveAKind
    <2>5. ASSUME lateErrors = 0 PROVE OneOfAKind' /\ RowIsTaken'
      <3>1. OneOfAKind /\ RowIsTaken
        BY <2>5 DEF ValidationInv
      <3>2. \A k \in Kinds : SentOne(k)' <=> SentOne(k)
        BY <2>1 DEF SentOne
      <3>3. ~SentOne("response") /\ \A o \in Validators : ~Sending(o, "response")
        BY <2>3, <3>1 DEF RowIsTaken
      <3>4. \A o \in Validators : (Sending(o, "response")' => o = v) /\ (Sending(o, "request")' => Sending(o, "request"))
        BY <2>1, <2>2, <3>3 DEF Sending
      <3>5. OneOfAKind'
        BY <2>1, <3>1, <3>2, <3>3, <3>4 DEF OneOfAKind, Kinds
      <3>6. \A o \in Validators : worker'[o].kind = worker[o].kind
        BY <2>2
      <3> QED
        BY <2>1, <2>3, <3>1, <3>2, <3>3, <3>4, <3>5, <3>6 DEF RowIsTaken, Kinds
    <2> QED
      BY <2>1, <2>4, <2>5 DEF ValidationInv
  <1> QED
    BY <1>2, <1>3, <1>4

\* writeContract: a transaction is sent by the one call that may, or the call fails.
LEMMA WriteKeeps ==
  ASSUME ValidationInv, NEW v \in Validators, Write(v)
  PROVE  ValidationInv'
  <1>1. /\ ValidationTypeOK /\ CallsHaveAKind /\ worker[v] \in WorkRecords /\ worker \in [Validators -> WorkRecords]
        /\ worker[v].stage = "write" /\ worker[v].kind \in Kinds /\ UNCHANGED <<vrow, registry>>
    BY ValidationTypes DEF ValidationInv, Write, CallsHaveAKind, WorkRecords, Kinds
  <1>2. CASE Turns(v, "undo") /\ UNCHANGED <<sent, lateErrors>>
    <2>1. /\ worker'[v].kind = worker[v].kind /\ worker'[v].stage = "undo"
          /\ \A o \in Validators : o # v => worker'[o] = worker[o]
          /\ worker' \in [Validators -> WorkRecords]
      BY <1>1, <1>2, StageIsSet
    <2>2. ValidationTypeOK' /\ CallsHaveAKind'
      BY <1>1, <1>2, <2>1, ValidationTypes, TypesOfValidation DEF CallsHaveAKind
    <2>3. \A o \in Validators, k \in Kinds : Sending(o, k)' => Sending(o, k)
      BY <1>1, <2>1 DEF Sending
    <2> QED
      BY <1>1, <1>2, <2>1, <2>2, <2>3, CallSteps
  <1>3. ASSUME NEW t \in Sends, NEW returned \in BOOLEAN, sent[t] = Unsent,
               sent' = [sent EXCEPT ![t] = [kind |-> worker[v].kind, state |-> "live", verdict |-> worker[v].verdict]],
               IF returned THEN /\ worker' = [worker EXCEPT ![v].stage = "store", ![v].send = t]
                            /\ UNCHANGED lateErrors
               ELSE /\ lateErrors < MaxLateErrors /\ lateErrors' = lateErrors + 1
                    /\ Turns(v, "undo")
        PROVE  ValidationInv'
    <2>1. PICK s : s = [kind |-> worker[v].kind, state |-> "live", verdict |-> worker[v].verdict]
      OBVIOUS
    <2>2. s \in SentRecords /\ s.kind = worker[v].kind
      BY <1>1, <2>1 DEF SentRecords, WorkRecords
    <2>3. /\ sent'[t] = s /\ \A u \in Sends : u # t => sent'[u] = sent[u]
          /\ sent' \in [Sends -> SentRecords]
      BY <1>1, <1>3, <2>1, <2>2, ValidationTypes
    <2>4. CASE ~returned
      <3>1. /\ worker'[v].kind = worker[v].kind /\ worker'[v].stage = "undo"
            /\ \A o \in Validators : o # v => worker'[o] = worker[o]
            /\ worker' \in [Validators -> WorkRecords]
        BY <1>1, <1>3, <2>4, StageIsSet
      <3>2. lateErrors' \in 0 .. MaxLateErrors /\ lateErrors' # 0
        BY <1>1, <1>3, <2>4, ValidationTypes, ValidationsAssumption
      <3>3. ValidationTypeOK' /\ CallsHaveAKind'
        BY <1>1, <2>3, <3>1, <3>2, ValidationTypes, TypesOfValidation DEF CallsHaveAKind
      <3> QED
        BY <3>2, <3>3 DEF ValidationInv
    <2>5. CASE returned
      <3>1. PICK n : n = [worker[v] EXCEPT !.stage = "store", !.send = t]
        OBVIOUS
      <3>2. n \in WorkRecords /\ n.stage = "store" /\ n.kind = worker[v].kind
        BY <1>1, <3>1 DEF WorkRecords
      <3>3. worker' = [worker EXCEPT ![v] = n] /\ lateErrors' = lateErrors
        BY <1>1, <1>3, <2>5, <3>1
      <3>4. /\ worker'[v] = n /\ \A o \in Validators : o # v => worker'[o] = worker[o]
            /\ worker' \in [Validators -> WorkRecords]
        BY <1>1, <3>2, <3>3, WorkerIsSet
      <3>5. ValidationTypeOK' /\ CallsHaveAKind'
        BY <1>1, <2>3, <3>2, <3>3, <3>4, ValidationTypes, TypesOfValidation DEF CallsHaveAKind
      <3>6. ASSUME lateErrors = 0 PROVE OneOfAKind' /\ RowIsTaken'
        <4>1. OneOfAKind /\ RowIsTaken /\ Sending(v, worker[v].kind) /\ ~SentOne(worker[v].kind)
          BY <1>1, <3>6 DEF ValidationInv, Sending, OneOfAKind
        <4>2. \A o \in Validators, k \in Kinds : Sending(o, k)' => Sending(o, k) /\ k # worker[v].kind
          BY <1>1, <3>2, <3>4, <4>1 DEF Sending, OneOfAKind
        <4>3. \A k \in Kinds : SentOne(k)' <=> SentOne(k) \/ k = worker[v].kind
          BY <1>1, <1>3, <2>2, <2>3 DEF SentOne, Unsent, Kinds
        <4>4. \A k \in Kinds, u, w \in Sends : sent'[u].kind = k /\ sent'[w].kind = k => u = w
          BY <1>1, <2>2, <2>3, <4>1 DEF SentOne, OneOfAKind
        <4>5. OneOfAKind'
          BY <4>1, <4>2, <4>3, <4>4 DEF OneOfAKind
        <4>6. \A o \in Validators : worker'[o].kind = worker[o].kind
          BY <3>2, <3>4
        <4>7. /\ worker[v].kind = "request" => vrow.there
              /\ worker[v].kind = "response" => vrow.locked /\ SentOne("request")
          BY <4>1 DEF RowIsTaken
        <4> QED
          BY <1>1, <4>1, <4>2, <4>3, <4>5, <4>6, <4>7 DEF RowIsTaken, Kinds
      <3> QED
        BY <3>3, <3>5, <3>6 DEF ValidationInv
    <2> QED
      BY <2>4, <2>5
  <1>4. \/ Turns(v, "undo") /\ UNCHANGED <<sent, lateErrors>>
        \/ \E t \in Sends, returned \in BOOLEAN :
              /\ sent[t] = Unsent
              /\ sent' = [sent EXCEPT ![t] = [kind |-> worker[v].kind, state |-> "live", verdict |-> worker[v].verdict]]
              /\ IF returned THEN /\ worker' = [worker EXCEPT ![v].stage = "store", ![v].send = t]
                              /\ UNCHANGED lateErrors
                 ELSE /\ lateErrors < MaxLateErrors /\ lateErrors' = lateErrors + 1
                      /\ Turns(v, "undo")
    BY DEF Write
  <1> QED
    BY <1>2, <1>3, <1>4

\* The error path gives back what only this call had, and nothing was sent for it.
LEMMA UndoKeeps ==
  ASSUME ValidationInv, NEW v \in Validators, Undo(v)
  PROVE  ValidationInv'
  <1>1. /\ ValidationTypeOK /\ CallsHaveAKind /\ worker[v] \in WorkRecords /\ vrow \in VrowRecords
        /\ worker[v].stage = "undo" /\ worker[v].kind \in Kinds
        /\ Ends(v) /\ UNCHANGED <<registry, sent, lateErrors>>
    BY ValidationTypes DEF ValidationInv, Undo, RowOnlyV, CallsHaveAKind, WorkRecords, Kinds
  <1>2. /\ worker'[v].kind = "none" /\ worker'[v].stage = "free"
        /\ \A o \in Validators : o # v => worker'[o] = worker[o]
        /\ worker' \in [Validators -> WorkRecords]
    BY <1>1, WorkerIsFree
  <1>3. /\ vrow' \in VrowRecords
        /\ worker[v].kind = "response" => vrow'.there = vrow.there
    BY <1>1 DEF Undo, VrowRecords, NoVrow, Kinds
  <1>4. ValidationTypeOK' /\ CallsHaveAKind'
    BY <1>1, <1>2, <1>3, ValidationTypes, TypesOfValidation DEF CallsHaveAKind
  <1>5. ASSUME lateErrors = 0 PROVE OneOfAKind' /\ RowIsTaken'
    <2>1. OneOfAKind /\ RowIsTaken /\ Sending(v, worker[v].kind) /\ ~SentOne(worker[v].kind)
      BY <1>1, <1>5 DEF ValidationInv, Sending, OneOfAKind
    <2>2. \A o \in Validators, k \in Kinds : Sending(o, k)' => Sending(o, k) /\ k # worker[v].kind
      BY <1>1, <1>2, <2>1 DEF Sending, OneOfAKind, Kinds
    <2>3. \A k \in Kinds : SentOne(k)' <=> SentOne(k)
      BY <1>1 DEF SentOne
    <2>4. OneOfAKind'
      BY <1>1, <2>1, <2>2, <2>3 DEF OneOfAKind
    <2>5. \A o \in Validators : worker'[o].kind = "response" => worker[o].kind = "response"
      BY <1>2
    <2>6. CASE worker[v].kind = "request"
      <3>1. /\ ~SentOne("request") /\ ~SentOne("response") /\ ~registry.requested
            /\ \A o \in Validators : worker[o].kind # "response"
        BY <2>1, <2>6 DEF RowIsTaken
      <3> QED
        BY <1>1, <2>2, <2>3, <2>4, <2>5, <2>6, <3>1 DEF RowIsTaken, Kinds, Sending
    <2>7. CASE worker[v].kind = "response"
      BY <1>1, <1>3, <2>1, <2>2, <2>3, <2>4, <2>5, <2>7 DEF RowIsTaken, Kinds
    <2> QED
      BY <1>1, <2>6, <2>7 DEF Kinds
  <1> QED
    BY <1>1, <1>4, <1>5 DEF ValidationInv

\* The registry takes or refuses a transaction.
LEMMA MinedKeeps ==
  ASSUME ValidationInv, NEW t \in Sends, SendIsMined(t)
  PROVE  ValidationInv'
  <1>1. /\ ValidationTypeOK /\ CallsHaveAKind /\ sent \in [Sends -> SentRecords]
        /\ registry \in [requested : BOOLEAN, response : {0} \cup Verdicts]
        /\ UNCHANGED <<vrow, worker, lateErrors>>
    BY ValidationTypes DEF ValidationInv, SendIsMined
  <1>2. PICK s : s \in {"success", "reverted"} /\ sent' = [sent EXCEPT ![t].state = s]
    BY DEF SendIsMined
  <1>3. sent' \in [Sends -> SentRecords] /\ \A u \in Sends : sent'[u].kind = sent[u].kind
    BY <1>1, <1>2 DEF SentRecords
  <1>4. /\ registry' \in [requested : BOOLEAN, response : {0} \cup Verdicts]
        /\ registry'.requested => registry.requested \/ SentOne("request")
    BY <1>1 DEF SendIsMined, SentOne, SentRecords
  <1>5. ValidationTypeOK' /\ CallsHaveAKind'
    BY <1>1, <1>3, <1>4, ValidationTypes, TypesOfValidation DEF CallsHaveAKind
  <1> QED
    BY <1>1, <1>3, <1>4, <1>5, CallSteps DEF Sending

LEMMA NextValidationInv == ValidationInv /\ [ValidationNext]_validationVars => ValidationInv'
  <1> SUFFICES ASSUME ValidationInv, [ValidationNext]_validationVars PROVE ValidationInv'
    OBVIOUS
  <1>1. CASE UNCHANGED validationVars
    BY <1>1
    DEF validationVars, ValidationInv, ValidationTypeOK, CallsHaveAKind, OneOfAKind, RowIsTaken, Sending, SentOne
  <1> QED
    BY <1>1, QuietCallsKeep, ClaimsKeep, WriteKeeps, UndoKeeps, MinedKeeps DEF ValidationNext

LEMMA ValidationInvGives == ValidationInv => ValidatedOnce
  <1> SUFFICES ASSUME ValidationInv, lateErrors = 0, NEW k \in Kinds
               PROVE  Cardinality({t \in Sends : sent[t].kind = k}) <= 1
    BY DEF ValidatedOnce, Kinds
  <1>1. \A x, y \in {t \in Sends : sent[t].kind = k} : x = y
    BY DEF ValidationInv, OneOfAKind
  <1> QED
    BY <1>1, AtMostOne

-----------------------------------------------------------------------------
(***************************************************************************)
(* AgentDirectory: the file of registered agents.                          *)
(***************************************************************************)
Entries == [agent : Entities, address : Signers, status : {"pending", "approved", "blocked"}]

\* A file has an agent once, and what is approved in it was approved.
SoundFile(entries, approved) ==
    /\ entries \subseteq Entries
    /\ \A e, g \in entries : e.agent = g.agent => e = g
    /\ \A e \in entries : e.status = "approved" => <<e.agent, e.address>> \in approved

\* The file is sound, and the one a request will write is, with what the request approves.
RegistryInv ==
    /\ SoundFile(file, approvals) /\ filing = [f \in Filings |-> filing[f]]
    /\ \A f \in Filings : filing[f].stage = "read" => SoundFile(filing[f].next, approvals \cup filing[f].approves)

LEMMA InitRegistryInv == DirectoryInit => RegistryInv
  BY DEF DirectoryInit, RegistryInv, SoundFile, NoRequest

LEMMA RegisteredIsSound ==
  ASSUME NEW entries, NEW approved, SoundFile(entries, approved),
         NEW a \in Entities, NEW w \in Signers, NEW verified \in BOOLEAN, MayRegister(entries, a, w)
  PROVE  SoundFile(Registered(entries, a, w, verified),
                   approved \cup (IF AutoApprove /\ verified THEN {<<a, w>>} ELSE {}))
  <1>1. PICK n : n = [agent |-> a, address |-> w, status |-> StatusFor(verified)]
    OBVIOUS
  <1>2. /\ n \in Entries /\ n.agent = a /\ n.address = w
        /\ n.status = "approved" => AutoApprove /\ verified
    BY <1>1 DEF Entries, StatusFor
  <1>3. Registered(entries, a, w, verified) = {e \in entries : e.agent # a \/ e.address # w} \cup {n}
    BY <1>1 DEF Registered
  <1>4. \A e \in entries : e.agent = a => e.address = w
    BY DEF MayRegister, EntriesOf
  <1> QED
    BY <1>2, <1>3, <1>4 DEF SoundFile

LEMMA StatusIsSound ==
  ASSUME NEW entries, NEW approved, SoundFile(entries, approved),
         NEW a \in Entities, NEW status \in {"approved", "blocked"}
  PROVE  SoundFile(WithStatus(entries, a, status),
                   approved \cup (IF status = "approved"
                                  THEN {<<a, e.address>> : e \in EntriesOf(entries, a)} ELSE {}))
  <1> DEFINE Put(e) == IF e.agent = a THEN [e EXCEPT !.status = status] ELSE e
  <1>1. \A e \in entries : /\ Put(e) \in Entries /\ Put(e).agent = e.agent /\ Put(e).address = e.address
                           /\ Put(e).status = IF e.agent = a THEN status ELSE e.status
    BY DEF SoundFile, Entries
  <1>2. WithStatus(entries, a, status) = {Put(e) : e \in entries}
    BY DEF WithStatus
  <1>3. \A e \in entries : e.agent = a => e \in EntriesOf(entries, a)
    BY DEF EntriesOf
  <1> HIDE DEF Put
  <1>4. \A e \in entries : Put(e).status = "approved" =>
            <<e.agent, e.address>> \in approved \cup (IF status = "approved"
                THEN {<<a, g.address>> : g \in EntriesOf(entries, a)} ELSE {})
    BY <1>1, <1>3 DEF SoundFile
  <1>5. \A e, g \in entries : Put(e).agent = Put(g).agent => Put(e) = Put(g)
    BY <1>1 DEF SoundFile
  <1> QED
    BY <1>1, <1>2, <1>4, <1>5 DEF SoundFile

\* The file that is read becomes the one the request will write.
LEMMA ReadKeepsRegistry ==
  ASSUME RegistryInv, NEW f \in Filings, NEW entries, NEW approved,
         filing' = [filing EXCEPT ![f] = [stage |-> "read", next |-> entries, approves |-> approved]],
         SoundFile(entries, approvals \cup approved), UNCHANGED <<file, approvals>>
  PROVE  RegistryInv'
  <1>1. PICK n : n = [stage |-> "read", next |-> entries, approves |-> approved]
    OBVIOUS
  <1>2. n.next = entries /\ n.approves = approved
    BY <1>1
  <1>3. filing'[f] = n /\ \A g \in Filings : g # f => filing'[g] = filing[g]
    BY <1>1 DEF RegistryInv
  <1>4. filing' = [g \in Filings |-> filing'[g]]
    BY DEF RegistryInv
  <1> QED
    BY <1>2, <1>3, <1>4 DEF RegistryInv

LEMMA NextRegistryInv == RegistryInv /\ [RegistryNext]_registryVars => RegistryInv'
  <1> SUFFICES ASSUME RegistryInv, [RegistryNext]_registryVars PROVE RegistryInv'
    OBVIOUS
  <1>1. CASE UNCHANGED registryVars
    BY <1>1 DEF registryVars, RegistryInv
  <1>5. SoundFile(file, approvals)
    BY DEF RegistryInv
  <1>2. ASSUME NEW f \in Filings, NEW a \in Entities, NEW w \in Signers, NEW verified \in BOOLEAN,
               ReadForRegister(f, a, w, verified)
        PROVE  RegistryInv'
    BY <1>2, <1>5, RegisteredIsSound, ReadKeepsRegistry DEF ReadForRegister
  <1>3. ASSUME NEW f \in Filings, NEW a \in Entities, NEW status \in {"approved", "blocked"},
               ReadForStatus(f, a, status)
        PROVE  RegistryInv'
    BY <1>3, <1>5, StatusIsSound, ReadKeepsRegistry DEF ReadForStatus
  <1>4. ASSUME NEW f \in Filings, Renamed(f) PROVE RegistryInv'
    <2>1. /\ file' = filing[f].next /\ approvals' = approvals \cup filing[f].approves
          /\ filing' = [filing EXCEPT ![f] = NoRequest] /\ filing[f].stage = "read"
      BY <1>4 DEF Renamed
    <2>2. NoRequest.stage = "idle"
      BY DEF NoRequest
    <2>3. filing'[f] = NoRequest /\ \A g \in Filings : g # f => filing'[g] = filing[g]
      BY <2>1 DEF RegistryInv
    <2>4. filing' = [g \in Filings |-> filing'[g]]
      BY <2>1 DEF RegistryInv
    <2>5. SoundFile(file', approvals')
      BY <2>1 DEF RegistryInv
    <2>6. \A g \in Filings : filing'[g].stage = "read" => SoundFile(filing'[g].next, approvals' \cup filing'[g].approves)
      BY <2>1, <2>2, <2>3 DEF RegistryInv, SoundFile
    <2> QED
      BY <2>4, <2>5, <2>6 DEF RegistryInv
  <1> QED
    BY <1>1, <1>2, <1>3, <1>4 DEF RegistryNext

LEMMA RegistryInvGives == RegistryInv => RegistryIsSound
  BY DEF RegistryInv, SoundFile, RegistryIsSound

-----------------------------------------------------------------------------
(***************************************************************************)
(* GoldskyReads: nobody is shown an earlier status of a job.               *)
(***************************************************************************)
\* With more logs a job that is shown is not at an earlier status.
LEMMA StatusGrows ==
  ASSUME NEW E, NEW F, E \subseteq F, NEW W, NEW V, NEW j \in ChainJobs,
         JobsShown(F, V)[j] # NotShown
  PROVE  Rank(JobsShown(E, W)[j]) <= Rank(JobsShown(F, V)[j])
  <1>1. \A name : Occurred(E, j, name) => Occurred(F, j, name)
    BY DEF Occurred
  <1>2. PICK f : f = [status |-> ProjectedStatus(F, j), funded |-> Occurred(F, j, "JobFunded")]
    OBVIOUS
  <1>3. JobsShown(F, V)[j] = f /\ f.status = ProjectedStatus(F, j) /\ f # NotShown
    BY <1>2 DEF JobsShown
  <1>4. PICK e : e = [status |-> ProjectedStatus(E, j), funded |-> Occurred(E, j, "JobFunded")]
    OBVIOUS
  <1>5. (JobsShown(E, W)[j] = e \/ JobsShown(E, W)[j] = NotShown) /\ e.status = ProjectedStatus(E, j)
    BY <1>4 DEF JobsShown
  <1>6. Rank(f) = IF ProjectedStatus(F, j) = "Open" THEN 1 ELSE IF ProjectedStatus(F, j) = "Funded" THEN 2
                  ELSE IF ProjectedStatus(F, j) = "Submitted" THEN 3 ELSE 4
    BY <1>3 DEF Rank
  <1>7. Rank(NotShown) = 0
    BY DEF Rank
  <1>8. Rank(e) \in {0, IF ProjectedStatus(E, j) = "Open" THEN 1 ELSE IF ProjectedStatus(E, j) = "Funded" THEN 2
                        ELSE IF ProjectedStatus(E, j) = "Submitted" THEN 3 ELSE 4}
    BY <1>5 DEF Rank
  <1> QED
    BY <1>1, <1>3, <1>5, <1>6, <1>7, <1>8 DEF ProjectedStatus

\* The first rows of a page come before the others, and are all where they are few.
LEMMA FirstRowsFirst ==
  ASSUME NEW R, IsFiniteSet(R), R \subseteq Nat
  PROVE  /\ FirstRows(R) \subseteq R
         /\ \A i \in FirstRows(R), k \in R : k < i => k \in FirstRows(R)
         /\ Cardinality(R) < PageSize => FirstRows(R) = R
  <1>1. \A S \in SUBSET R : IsFiniteSet(S) /\ Cardinality(S) \in Nat /\ Cardinality(S) <= Cardinality(R)
    BY FS_Subset, FS_CardinalityType
  <1>2. ASSUME NEW i \in FirstRows(R), NEW k \in R, k < i PROVE k \in FirstRows(R)
    <2>4. i \in Nat /\ k \in Nat /\ \A x \in R : x \in Nat
      BY DEF FirstRows
    <2>1. {x \in R : x < k} \subseteq {x \in R : x < i} /\ {x \in R : x < i} \in SUBSET R /\ {x \in R : x < k} \in SUBSET R
      <3>1. \A x \in R : x < k => x < i
        BY <1>2, <2>4
      <3> QED
        BY <3>1
    <2>2. Cardinality({x \in R : x < k}) <= Cardinality({x \in R : x < i})
      BY <1>1, <2>1, FS_Subset
    <2>3. Cardinality({x \in R : x < i}) < PageSize
      BY DEF FirstRows
    <2> QED
      BY <1>1, <2>1, <2>2, <2>3, GoldskyAssumption DEF FirstRows
  <1>3. ASSUME Cardinality(R) < PageSize, NEW i \in R PROVE Cardinality({x \in R : x < i}) < PageSize
    BY <1>1, <1>3, FS_CardinalityType, GoldskyAssumption
  <1> QED
    BY <1>2, <1>3 DEF FirstRows

-----------------------------------------------------------------------------
EventNames == {"Registered", "Transfer", "JobCreated", "JobFunded", "JobExpired", "JobSubmitted", "JobRejected",
               "JobCompleted"}
Logs == [of : ChainJobs \cup ChainAgents, name : EventNames, holder : Holders, block : Nat]
Asked == [ask : Asks \cup {""}, stage : {"idle", "lists", "fetch", "answer"}, wallets : SUBSET Holders,
          rows : [Tables -> SUBSET Nat], open : SUBSET Tables]

GoldskyTypes ==
    /\ logs \in Seq(Logs) /\ sunk \in [Tables -> 0 .. Len(logs)] /\ manifests \subseteq Holders
    /\ request \in [Readers -> Asked] /\ answers = [r \in Readers |-> answers[r]]

BlocksGrow == \A i, k \in 1 .. Len(logs) : i <= k => logs[i].block <= logs[k].block

\* The rows of a table that a request asks for, of the first n logs.
OfAsk(t, ask, n) == {i \in RowsOf(t, n) : logs[i].block >= FromBlock(ask)}

\* The pages of a request have no gap ...
NoGap ==
    \A r \in Readers, t \in Tables :
        /\ request[r].rows[t] \subseteq OfAsk(t, request[r].ask, sunk[t])
        /\ \A k \in request[r].rows[t] : OfAsk(t, request[r].ask, k) \subseteq request[r].rows[t]

\* ... it begins without a page, reads the jobs, and answers with both tables read ...
ReadsToTheEnd ==
    \A r \in Readers :
        /\ request[r].stage = "idle" => \A t \in Tables : request[r].rows[t] = {}
        /\ request[r].stage = "answer" => request[r].open = {}
        /\ request[r].stage = "lists" /\ request[r].ask = "overview" => request[r].open = {}

\* ... and has then read every row that the answer before it showed.
ShowsWhatWasShown ==
    \A r \in Readers :
        \E S \in SUBSET OfAsk("erc8183", answers[r].asked, sunk["erc8183"]) :
            /\ answers[r].jobs = JobsShown(Items(S), answers[r].wallets)
            /\ request[r].stage # "idle" /\ request[r].ask = answers[r].asked /\ "erc8183" \notin request[r].open
                   => S \subseteq request[r].rows["erc8183"]

GoldskyInv == GoldskyTypes /\ BlocksGrow /\ NoGap /\ ReadsToTheEnd /\ ShowsWhatWasShown

\* Rows that were of the logs still are when the chain has more.
LEMMA LogsStay ==
  ASSUME GoldskyTypes, NEW e \in Logs, logs' = Append(logs, e)
  PROVE  /\ logs' \in Seq(Logs) /\ Len(logs') = Len(logs) + 1 /\ Len(logs) \in Nat
         /\ \A i \in 1 .. Len(logs) : logs'[i] = logs[i] /\ logs[i] \in Logs
         /\ logs'[Len(logs) + 1] = e
  BY DEF GoldskyTypes

LEMMA OfAskIsOfLogs ==
  ASSUME NEW t, NEW ask, NEW n \in Nat
  PROVE  OfAsk(t, ask, n) \subseteq 1 .. n
  BY DEF OfAsk, RowsOf

LEMMA OfAskGrows ==
  ASSUME NEW t, NEW ask, NEW m \in Nat, NEW n \in Nat, m <= n
  PROVE  OfAsk(t, ask, m) \subseteq OfAsk(t, ask, n)
  BY DEF OfAsk, RowsOf

LEMMA ItemsStay ==
  ASSUME NEW S, \A i \in S : logs'[i] = logs[i]
  PROVE  Items(S)' = {logs'[i] : i \in S} /\ {logs'[i] : i \in S} = Items(S)
  BY DEF Items

LEMMA InitGoldskyInv == GoldskyInit => GoldskyInv
  <1> SUFFICES ASSUME GoldskyInit PROVE GoldskyInv
    OBVIOUS
  <1> USE DEF GoldskyInit
  <1>1. Waiting \in Asked /\ Waiting.stage = "idle" /\ Waiting.open = {} /\ \A t \in Tables : Waiting.rows[t] = {}
    BY DEF Waiting, Asked, NoRows
  <1>2. GoldskyTypes
    BY <1>1 DEF GoldskyTypes
  <1>3. BlocksGrow /\ NoGap /\ ReadsToTheEnd
    BY <1>1 DEF BlocksGrow, NoGap, ReadsToTheEnd
  <1>4. ASSUME NEW r \in Readers PROVE answers[r].jobs = JobsShown(Items({}), answers[r].wallets)
    <2>1. answers[r].jobs = [j \in ChainJobs |-> NotShown]
      BY DEF NoAnswer
    <2>2. \A j \in ChainJobs : ~JobKept(Items({}), answers[r].wallets, j)
      BY DEF JobKept, Occurred, Items
    <2> QED
      BY <2>1, <2>2 DEF JobsShown
  <1>5. ShowsWhatWasShown
    BY <1>1, <1>4 DEF ShowsWhatWasShown
  <1> QED
    BY <1>2, <1>3, <1>5 DEF GoldskyInv

LEMMA LogMinedKeeps ==
  ASSUME GoldskyInv, LogMined
  PROVE  GoldskyInv'
  <1> USE DEF GoldskyInv
  <1>1. UNCHANGED <<sunk, known, manifests, request, answers, readTroubles>>
    BY DEF LogMined
  <1>2. PICK x \in ChainJobs \cup ChainAgents, b \in {Block, Block + 1}, w \in Holders : \E name \in NextOf(x) :
            logs' = Append(logs, [of |-> x, name |-> name, holder |-> w, block |-> b])
    BY DEF LogMined
  <1>3. PICK name \in NextOf(x) : logs' = Append(logs, [of |-> x, name |-> name, holder |-> w, block |-> b])
    BY <1>2
  <1>4. PICK e : e = [of |-> x, name |-> name, holder |-> w, block |-> b]
    OBVIOUS
  <1>5. name \in EventNames
    <2>1. PICK seen : NextOf(x) =
              IF x \in ChainAgents THEN IF seen = {} THEN {"Registered"} ELSE {"Transfer"}
              ELSE IF seen = {} THEN {"JobCreated"}
              ELSE IF seen = {"JobCreated"} THEN {"JobFunded", "JobExpired"}
              ELSE IF seen = {"JobCreated", "JobFunded"} THEN {"JobSubmitted", "JobRejected", "JobExpired"}
              ELSE IF seen = {"JobCreated", "JobFunded", "JobSubmitted"} THEN {"JobCompleted", "JobRejected"}
              ELSE {}
      BY DEF NextOf
    <2> QED
      BY <1>3, <2>1 DEF EventNames
  <1>6. Block \in Nat /\ \A i \in 1 .. Len(logs) : logs[i].block \in Nat /\ logs[i].block <= Block
    <2>1. logs \in Seq(Logs) /\ Len(logs) \in Nat /\ \A i \in 1 .. Len(logs) : logs[i] \in Logs
      BY DEF GoldskyTypes
    <2>4. \A i \in 1 .. Len(logs) : logs[i].block \in Nat
      BY <2>1 DEF Logs
    <2>2. CASE logs = <<>>
      BY <2>1, <2>2, <2>4 DEF Block
    <2>3. CASE logs # <<>>
      <3>1. Len(logs) \in 1 .. Len(logs) /\ Block = logs[Len(logs)].block
        BY <2>1, <2>3 DEF Block
      <3> QED
        BY <2>1, <2>4, <3>1 DEF BlocksGrow
    <2> QED
      BY <2>2, <2>3
  <1>7. e \in Logs /\ e.block = b /\ b \in Nat
    BY <1>4, <1>5, <1>6 DEF Logs
  <1>8. /\ logs' \in Seq(Logs) /\ Len(logs') = Len(logs) + 1 /\ Len(logs) \in Nat
        /\ \A i \in 1 .. Len(logs) : logs'[i] = logs[i] /\ logs[i] \in Logs
        /\ logs'[Len(logs) + 1] = e
    BY <1>3, <1>4, <1>7, LogsStay
  <1>9. GoldskyTypes'
    BY <1>1, <1>8 DEF GoldskyTypes
  <1>10. BlocksGrow'
    <2> SUFFICES ASSUME NEW i \in 1 .. Len(logs) + 1, NEW k \in 1 .. Len(logs) + 1, i <= k
                 PROVE  logs'[i].block <= logs'[k].block
      BY <1>8 DEF BlocksGrow
    <2>1. CASE k \in 1 .. Len(logs)
      <3>1. i \in 1 .. Len(logs)
        BY <1>8, <2>1
      <3> QED
        BY <1>8, <2>1, <3>1 DEF BlocksGrow
    <2>2. CASE k \notin 1 .. Len(logs)
      <3>1. k = Len(logs) + 1 /\ logs'[k].block = b
        BY <1>7, <1>8, <2>2
      <3>2. CASE i = k
        BY <1>7, <3>1, <3>2
      <3>3. CASE i # k
        <4>1. i \in 1 .. Len(logs) /\ logs[i].block \in Nat /\ logs[i].block <= Block /\ logs'[i] = logs[i]
          BY <1>6, <1>8, <3>1, <3>3
        <4> QED
          BY <1>2, <1>6, <1>7, <3>1, <4>1
      <3> QED
        BY <3>2, <3>3
    <2> QED
      BY <2>1, <2>2
  <1>11. \A t \in Tables : sunk[t] \in 0 .. Len(logs)
    BY DEF GoldskyTypes
  <1>12. \A t \in Tables, n \in 0 .. Len(logs) : \A ask : OfAsk(t, ask, n)' = OfAsk(t, ask, n)
    BY <1>8 DEF OfAsk, RowsOf
  <1>13. NoGap'
    <2> SUFFICES ASSUME NEW r \in Readers, NEW t \in Tables
                 PROVE  /\ request[r].rows[t] \subseteq OfAsk(t, request[r].ask, sunk[t])'
                        /\ \A k \in request[r].rows[t] : OfAsk(t, request[r].ask, k)' \subseteq request[r].rows[t]
      BY <1>1 DEF NoGap
    <2>1. request[r].rows[t] \subseteq OfAsk(t, request[r].ask, sunk[t]) /\ request[r].rows[t] \subseteq 0 .. Len(logs)
      BY <1>8, <1>11, OfAskIsOfLogs DEF NoGap
    <2> QED
      BY <1>1, <1>11, <1>12, <2>1 DEF NoGap
  <1>14. ReadsToTheEnd'
    BY <1>1 DEF ReadsToTheEnd
  <1>15. ShowsWhatWasShown'
    <2> SUFFICES ASSUME NEW r \in Readers
                 PROVE  \E S \in SUBSET OfAsk("erc8183", answers[r].asked, sunk["erc8183"])' :
                          /\ answers[r].jobs = JobsShown(Items(S)', answers[r].wallets)
                          /\ request[r].stage # "idle" /\ request[r].ask = answers[r].asked
                                /\ "erc8183" \notin request[r].open => S \subseteq request[r].rows["erc8183"]
      BY <1>1 DEF ShowsWhatWasShown
    <2>1. PICK S \in SUBSET OfAsk("erc8183", answers[r].asked, sunk["erc8183"]) :
                          /\ answers[r].jobs = JobsShown(Items(S), answers[r].wallets)
                          /\ request[r].stage # "idle" /\ request[r].ask = answers[r].asked
                                /\ "erc8183" \notin request[r].open => S \subseteq request[r].rows["erc8183"]
      BY DEF ShowsWhatWasShown
    <2>2. S \subseteq 1 .. Len(logs)
      BY <1>8, <1>11, <2>1, OfAskIsOfLogs DEF Tables
    <2>3. Items(S)' = Items(S)
      BY <1>8, <2>2, ItemsStay
    <2>4. OfAsk("erc8183", answers[r].asked, sunk["erc8183"])' = OfAsk("erc8183", answers[r].asked, sunk["erc8183"])
      BY <1>1, <1>11, <1>12 DEF Tables
    <2> QED
      BY <2>1, <2>3, <2>4
  <1> QED
    BY <1>9, <1>10, <1>13, <1>14, <1>15

\* Setting the request of a reader.
LEMMA RequestIsSet ==
  ASSUME GoldskyTypes, NEW r \in Readers, NEW q \in Asked, request' = [request EXCEPT ![r] = q]
  PROVE  /\ request'[r] = q /\ \A o \in Readers : o # r => request'[o] = request[o]
         /\ request' \in [Readers -> Asked]
  BY DEF GoldskyTypes

\* What is shown of a reader at rest, or whose rows and answer stay, is as before.
LEMMA RequestSteps ==
  ASSUME GoldskyInv, NEW r \in Readers, NEW q \in Asked, request' = [request EXCEPT ![r] = q],
         UNCHANGED <<logs, sunk, manifests, answers>>,
         \A t \in Tables : /\ q.rows[t] \subseteq OfAsk(t, q.ask, sunk[t])
                           /\ \A k \in q.rows[t] : OfAsk(t, q.ask, k) \subseteq q.rows[t],
         q.stage = "idle" => \A t \in Tables : q.rows[t] = {},
         q.stage = "answer" => q.open = {},
         q.stage = "lists" /\ q.ask = "overview" => q.open = {},
         \A S \in SUBSET OfAsk("erc8183", answers[r].asked, sunk["erc8183"]) :
            (request[r].stage # "idle" /\ request[r].ask = answers[r].asked /\ "erc8183" \notin request[r].open
                 => S \subseteq request[r].rows["erc8183"])
            => (q.stage # "idle" /\ q.ask = answers[r].asked /\ "erc8183" \notin q.open
                    => S \subseteq q.rows["erc8183"])
  PROVE  GoldskyInv'
  <1> USE DEF GoldskyInv
  <1>1. /\ request'[r] = q /\ \A o \in Readers : o # r => request'[o] = request[o]
        /\ request' \in [Readers -> Asked]
    BY RequestIsSet
  <1>2. GoldskyTypes' /\ BlocksGrow'
    BY <1>1 DEF GoldskyTypes, BlocksGrow
  <1>3. \A t, ask, n : OfAsk(t, ask, n)' = OfAsk(t, ask, n)
    BY DEF OfAsk, RowsOf
  <1>4. NoGap'
    BY <1>1, <1>3 DEF NoGap
  <1>5. ReadsToTheEnd'
    BY <1>1 DEF ReadsToTheEnd
  <1>6. ShowsWhatWasShown'
    <2>4. \A S : Items(S)' = Items(S)
      BY DEF Items
    <2>5. ShowsWhatWasShown' <=>
              \A o \in Readers : \E S \in SUBSET OfAsk("erc8183", answers[o].asked, sunk["erc8183"])' :
                /\ answers'[o].jobs = JobsShown(Items(S)', answers'[o].wallets)
                /\ request'[o].stage # "idle" /\ request'[o].ask = answers'[o].asked
                      /\ "erc8183" \notin request'[o].open => S \subseteq request'[o].rows["erc8183"]
      BY DEF ShowsWhatWasShown
    <2> SUFFICES ASSUME NEW o \in Readers
                 PROVE  \E S \in SUBSET OfAsk("erc8183", answers[o].asked, sunk["erc8183"]) :
                          /\ answers[o].jobs = JobsShown(Items(S), answers[o].wallets)
                          /\ request'[o].stage # "idle" /\ request'[o].ask = answers[o].asked
                                /\ "erc8183" \notin request'[o].open => S \subseteq request'[o].rows["erc8183"]
      BY <1>3, <2>4, <2>5
    <2>1. PICK S \in SUBSET OfAsk("erc8183", answers[o].asked, sunk["erc8183"]) :
                          /\ answers[o].jobs = JobsShown(Items(S), answers[o].wallets)
                          /\ request[o].stage # "idle" /\ request[o].ask = answers[o].asked
                                /\ "erc8183" \notin request[o].open => S \subseteq request[o].rows["erc8183"]
      BY DEF ShowsWhatWasShown
    <2>2. CASE o = r
      BY <1>1, <2>1, <2>2
    <2>3. CASE o # r
      BY <1>1, <2>1, <2>3
    <2> QED
      BY <2>2, <2>3
  <1> QED
    BY <1>2, <1>4, <1>5, <1>6

\* A request at rest.
LEMMA AtRest ==
  /\ Waiting \in Asked /\ Waiting.stage = "idle" /\ Waiting.ask = "" /\ Waiting.wallets = {}
  /\ Waiting.open = {} /\ \A t \in Tables : Waiting.rows[t] = {}
  BY DEF Waiting, Asked, NoRows

LEMMA AskKeeps ==
  ASSUME GoldskyInv, NEW r \in Readers, NEW ask \in Asks, Ask(r, ask)
  PROVE  GoldskyInv'
  <1> USE DEF GoldskyInv
  <1>1. request[r].stage = "idle" /\ request[r] \in Asked /\ request \in [Readers -> Asked]
    BY DEF Ask, GoldskyTypes
  <1>2. PICK s, op : /\ s = IF ask = "overview" THEN "fetch" ELSE "lists"
                     /\ op = IF ask = "detail" THEN {"erc8183"} ELSE Tables
    OBVIOUS
  <1>3. PICK q : q = [request[r] EXCEPT !.ask = ask, !.stage = s, !.open = op]
    OBVIOUS
  <1>4. /\ q \in Asked /\ q.ask = ask /\ q.stage = s /\ q.open = op /\ q.rows = request[r].rows
        /\ s \in {"fetch", "lists"} /\ op \in SUBSET Tables
    BY <1>1, <1>2, <1>3 DEF Asked, Tables
  <1>5. request' = [request EXCEPT ![r] = q]
    BY <1>1, <1>2, <1>3 DEF Ask
  <1>6. \A t \in Tables : q.rows[t] = {}
    BY <1>1, <1>4 DEF ReadsToTheEnd
  <1>7. "erc8183" \in q.open /\ (q.stage = "lists" => q.ask # "overview")
    BY <1>2, <1>4 DEF Tables
  <1>8. UNCHANGED <<logs, sunk, manifests, answers>>
    BY DEF Ask, OfTheReads
  <1> QED
    BY <1>4, <1>5, <1>6, <1>7, <1>8, RequestSteps

LEMMA ListsKeep ==
  ASSUME GoldskyInv, NEW r \in Readers, LoadDynamicAllowlists(r)
  PROVE  GoldskyInv'
  <1> USE DEF GoldskyInv
  <1>1. /\ request[r].stage = "lists" /\ request[r] \in Asked /\ request \in [Readers -> Asked]
        /\ UNCHANGED <<logs, sunk, manifests, answers>> /\ manifests \subseteq Holders
    BY DEF LoadDynamicAllowlists, GoldskyTypes
  <1>2. PICK s : s = IF request[r].ask = "overview" THEN "answer" ELSE "fetch"
    OBVIOUS
  <1>3. PICK W \in {EnvWallets \cup manifests, EnvWallets} :
            request' = [request EXCEPT ![r].wallets = W, ![r].stage = s]
    BY <1>2 DEF LoadDynamicAllowlists
  <1>4. PICK q : q = [request[r] EXCEPT !.wallets = W, !.stage = s]
    OBVIOUS
  <1>5. W \in SUBSET Holders
    BY <1>1, GoldskyAssumption
  <1>6. /\ q \in Asked /\ q.ask = request[r].ask /\ q.stage = s /\ q.open = request[r].open
        /\ q.rows = request[r].rows
    BY <1>1, <1>2, <1>4, <1>5 DEF Asked
  <1>7. request' = [request EXCEPT ![r] = q]
    BY <1>1, <1>3, <1>4
  <1>8. s \in {"answer", "fetch"} /\ (s = "answer" => q.open = {})
    BY <1>1, <1>2, <1>6 DEF ReadsToTheEnd
  <1>9. \A t \in Tables : /\ q.rows[t] \subseteq OfAsk(t, q.ask, sunk[t])
                          /\ \A k \in q.rows[t] : OfAsk(t, q.ask, k) \subseteq q.rows[t]
    BY <1>6 DEF NoGap
  <1> QED
    BY <1>1, <1>6, <1>7, <1>8, <1>9, RequestSteps

\* The answer is of the rows that were read, of which the old answer showed some.
LEMMA AnswerKeeps ==
  ASSUME GoldskyInv, NEW r \in Readers, Answer(r)
  PROVE  /\ GoldskyInv'
         /\ answers'[r].asked = request[r].ask
         /\ answers'[r].jobs = JobsShown(Items(request[r].rows["erc8183"]), request[r].wallets)
         /\ \A o \in Readers : o # r => answers'[o] = answers[o]
  <1> USE DEF GoldskyInv
  <1>1. PICK n : n = [asked |-> request[r].ask, wallets |-> request[r].wallets,
                      jobs |-> JobsShown(Items(request[r].rows["erc8183"]), request[r].wallets),
                      agents |-> Projection(request[r].rows, request[r].wallets).agents]
    OBVIOUS
  <1>2. /\ n.asked = request[r].ask /\ n.wallets = request[r].wallets
        /\ n.jobs = JobsShown(Items(request[r].rows["erc8183"]), request[r].wallets)
    BY <1>1
  <1>3. /\ UNCHANGED <<logs, sunk, manifests>> /\ request' = [request EXCEPT ![r] = Waiting]
        /\ answers' = [answers EXCEPT ![r] = n]
    BY <1>1 DEF Answer, Answered, Projection, OfTheReads
  <1>4. answers'[r] = n /\ \A o \in Readers : o # r => answers'[o] = answers[o]
    BY <1>3 DEF GoldskyTypes
  <1>5. answers' = [o \in Readers |-> answers'[o]]
    BY <1>3 DEF GoldskyTypes
  <1>6. /\ request'[r] = Waiting /\ \A o \in Readers : o # r => request'[o] = request[o]
        /\ request' \in [Readers -> Asked]
    BY <1>3, AtRest, RequestIsSet
  <1>7. GoldskyTypes' /\ BlocksGrow'
    BY <1>3, <1>5, <1>6 DEF GoldskyTypes, BlocksGrow
  <1>8. \A t, ask, m : OfAsk(t, ask, m)' = OfAsk(t, ask, m)
    BY <1>3 DEF OfAsk, RowsOf
  <1>9. NoGap'
    BY <1>3, <1>6, <1>8, AtRest DEF NoGap
  <1>10. ReadsToTheEnd'
    BY <1>6, AtRest DEF ReadsToTheEnd
  <1>11. \A S : Items(S)' = Items(S)
    BY <1>3 DEF Items
  <1>12. ShowsWhatWasShown'
    <2> DEFINE Shown(o, S) == /\ answers'[o].jobs = JobsShown(Items(S)', answers'[o].wallets)
                              /\ request'[o].stage # "idle" /\ request'[o].ask = answers'[o].asked
                                    /\ "erc8183" \notin request'[o].open => S \subseteq request'[o].rows["erc8183"]
    <2>1. ShowsWhatWasShown' <=>
              \A o \in Readers : \E S \in SUBSET OfAsk("erc8183", answers[o].asked, sunk["erc8183"])' : Shown(o, S)
      BY DEF ShowsWhatWasShown
    <2>2. ASSUME NEW o \in Readers, o = r
          PROVE  \E S \in SUBSET OfAsk("erc8183", answers[o].asked, sunk["erc8183"])' : Shown(o, S)
      <3>0. PICK T : T = request[r].rows["erc8183"]
        OBVIOUS
      <3>1. T \in SUBSET OfAsk("erc8183", request[r].ask, sunk["erc8183"])
        BY <3>0 DEF NoGap, Tables
      <3>2. OfAsk("erc8183", answers[o].asked, sunk["erc8183"])' = OfAsk("erc8183", request[r].ask, sunk["erc8183"])
        BY <1>2, <1>3, <1>4, <1>8, <2>2
      <3>3. Shown(o, T)
        BY <1>2, <1>4, <1>6, <1>11, <2>2, <3>0, AtRest
      <3> QED
        BY <3>1, <3>2, <3>3
    <2>3. ASSUME NEW o \in Readers, o # r
          PROVE  \E S \in SUBSET OfAsk("erc8183", answers[o].asked, sunk["erc8183"])' : Shown(o, S)
      <3>1. PICK S \in SUBSET OfAsk("erc8183", answers[o].asked, sunk["erc8183"]) :
                  /\ answers[o].jobs = JobsShown(Items(S), answers[o].wallets)
                  /\ request[o].stage # "idle" /\ request[o].ask = answers[o].asked
                        /\ "erc8183" \notin request[o].open => S \subseteq request[o].rows["erc8183"]
        BY DEF ShowsWhatWasShown
      <3>2. Shown(o, S)
        BY <1>4, <1>6, <1>11, <2>3, <3>1
      <3>3. OfAsk("erc8183", answers[o].asked, sunk["erc8183"])' = OfAsk("erc8183", answers[o].asked, sunk["erc8183"])
        BY <1>3, <1>4, <1>8, <2>3
      <3> QED
        BY <3>1, <3>2, <3>3
    <2> QED
      BY <2>1, <2>2, <2>3
  <1> QED
    BY <1>2, <1>4, <1>7, <1>9, <1>10, <1>12

LEMMA FetchFailsKeeps ==
  ASSUME GoldskyInv, NEW r \in Readers, FetchFails(r)
  PROVE  GoldskyInv' /\ UNCHANGED answers
  <1>1. /\ UNCHANGED <<logs, sunk, manifests, answers>> /\ request' = [request EXCEPT ![r] = Waiting]
    BY DEF FetchFails, Answered, FallbackProvider
  <1> QED
    BY <1>1, AtRest, RequestSteps

\* A page holds the rows after those before it, and the last page all of them.
LEMMA FetchPageKeeps ==
  ASSUME GoldskyInv, NEW r \in Readers, NEW t \in Tables, FetchPage(r, t)
  PROVE  GoldskyInv'
  <1> USE DEF GoldskyInv
  <1>1. PICK got, ask, rest, open : /\ got = request[r].rows[t] /\ ask = request[r].ask /\ rest = Eligible(r, t)
                                    /\ open = IF Cardinality(rest) < PageSize THEN request[r].open \ {t}
                                              ELSE request[r].open
    OBVIOUS
  <1>2. PICK s : s = IF open # {} THEN request[r].stage
                     ELSE IF request[r].ask = "overview" THEN "lists" ELSE "answer"
    OBVIOUS
  <1>3. PICK R : R = [request[r].rows EXCEPT ![t] = got \cup FirstRows(rest)]
    OBVIOUS
  <1>4. PICK q : q = [request[r] EXCEPT !.rows = R, !.open = open, !.stage = s]
    OBVIOUS
  <1>5. /\ request[r] \in Asked /\ request \in [Readers -> Asked] /\ request[r].stage = "fetch"
        /\ sunk[t] \in Nat /\ sunk[t] <= Len(logs) /\ Len(logs) \in Nat
        /\ UNCHANGED <<logs, sunk, manifests, answers>>
    BY DEF FetchPage, GoldskyTypes, OfTheReads
  <1>6. request' = [request EXCEPT ![r] = q]
    BY <1>1, <1>2, <1>3, <1>4, <1>5 DEF FetchPage, Asked
  <1>7. /\ rest \subseteq RowsOf(t, sunk[t]) /\ rest \subseteq 1 .. sunk[t] /\ IsFiniteSet(rest)
    <2>1. rest \subseteq RowsOf(t, sunk[t])
      BY <1>1 DEF Eligible
    <2>2. RowsOf(t, sunk[t]) \subseteq 1 .. sunk[t]
      BY DEF RowsOf
    <2>3. IsFiniteSet(1 .. sunk[t])
      BY <1>5, FS_Interval
    <2> QED
      BY <2>1, <2>2, <2>3, FS_Subset
  <1>8. /\ FirstRows(rest) \subseteq rest
        /\ \A i \in FirstRows(rest), k \in rest : k < i => k \in FirstRows(rest)
        /\ Cardinality(rest) < PageSize => FirstRows(rest) = rest
    <2>1. rest \subseteq Nat
      BY <1>7
    <2> QED
      BY <1>7, <2>1, FirstRowsFirst
  <1>9. /\ got \subseteq OfAsk(t, ask, sunk[t]) /\ got \subseteq 1 .. sunk[t]
        /\ \A k \in got : OfAsk(t, ask, k) \subseteq got
    BY <1>1, <1>5, OfAskIsOfLogs DEF NoGap
  <1>10. \A i \in rest : IF got = {} THEN logs[i].block >= FromBlock(ask) ELSE \A k \in got : i > k
    BY <1>1 DEF Eligible, AfterCursor
  <1>11. \A i \in 1 .. Len(logs) : logs[i].block \in Nat
    <2>1. \A i \in 1 .. Len(logs) : logs[i] \in Logs
      BY DEF GoldskyTypes
    <2> QED
      BY <2>1 DEF Logs
  <1>12. rest \subseteq OfAsk(t, ask, sunk[t])
    <2> SUFFICES ASSUME NEW i \in rest PROVE logs[i].block >= FromBlock(ask)
      BY <1>7 DEF OfAsk
    <2>1. CASE got = {}
      BY <1>10, <2>1
    <2>2. CASE got # {}
      <3>1. PICK k \in got : TRUE
        BY <2>2
      <3>2. i > k /\ i \in 1 .. Len(logs) /\ k \in 1 .. Len(logs) /\ logs[k].block >= FromBlock(ask)
        BY <1>5, <1>7, <1>9, <1>10, <2>2, <3>1 DEF OfAsk
      <3>3. logs[k].block <= logs[i].block /\ FromBlock(ask) \in Nat
        BY <3>2, GoldskyAssumption DEF BlocksGrow, FromBlock
      <3> QED
        BY <1>11, <3>2, <3>3
    <2> QED
      BY <2>1, <2>2
  <1>13. \A i \in OfAsk(t, ask, sunk[t]) : i \in got \/ i \in rest
    <2> SUFFICES ASSUME NEW i \in OfAsk(t, ask, sunk[t]), i \notin got PROVE i \in rest
      OBVIOUS
    <2>1. i \in RowsOf(t, sunk[t]) /\ i \in 1 .. sunk[t] /\ logs[i].block >= FromBlock(ask)
      BY <1>5 DEF OfAsk, RowsOf
    <2>2. \A k \in got : i > k
      <3> SUFFICES ASSUME NEW k \in got, i <= k PROVE FALSE
        BY <1>5, <1>9, <2>1
      <3>1. i \in OfAsk(t, ask, k)
        BY <1>5, <1>9, <2>1 DEF OfAsk, RowsOf
      <3> QED
        BY <1>9, <3>1
    <2> QED
      BY <1>1, <2>1, <2>2 DEF Eligible, AfterCursor
  <1>14. \A k \in got \cup FirstRows(rest) : OfAsk(t, ask, k) \subseteq got \cup FirstRows(rest)
    <2> SUFFICES ASSUME NEW k \in FirstRows(rest), NEW i \in OfAsk(t, ask, k) PROVE i \in got \cup FirstRows(rest)
      BY <1>9
    <2>1. k \in rest /\ k \in 1 .. sunk[t] /\ i \in 1 .. k
      BY <1>5, <1>7, <1>8 DEF OfAsk, RowsOf
    <2>2. i \in OfAsk(t, ask, sunk[t])
      BY <1>5, <2>1 DEF OfAsk, RowsOf
    <2> QED
      BY <1>5, <1>8, <1>13, <2>1, <2>2
  <1>15. /\ R \in [Tables -> SUBSET Nat] /\ R[t] = got \cup FirstRows(rest)
         /\ \A u \in Tables : u # t => R[u] = request[r].rows[u]
    <2>2. 1 .. sunk[t] \subseteq Nat
      BY <1>5
    <2>3. got \subseteq Nat /\ FirstRows(rest) \subseteq Nat
      BY <1>7, <1>8, <1>9, <2>2
    <2>1. got \cup FirstRows(rest) \in SUBSET Nat /\ request[r].rows \in [Tables -> SUBSET Nat]
      BY <1>5, <2>3 DEF Asked
    <2> QED
      BY <1>3, <2>1
  <1>16. /\ q \in Asked /\ q.ask = ask /\ q.rows = R /\ q.open = open /\ q.stage = s
         /\ s \in {"fetch", "lists", "answer"}
    <2>1. open \in SUBSET Tables /\ s \in {"fetch", "lists", "answer"}
      BY <1>1, <1>2, <1>5 DEF Asked
    <2> QED
      BY <1>1, <1>4, <1>5, <1>15, <2>1 DEF Asked
  <1>17. \A u \in Tables : /\ q.rows[u] \subseteq OfAsk(u, q.ask, sunk[u])
                           /\ \A k \in q.rows[u] : OfAsk(u, q.ask, k) \subseteq q.rows[u]
    <2>1. q.rows[t] \subseteq OfAsk(t, q.ask, sunk[t]) /\ \A k \in q.rows[t] : OfAsk(t, q.ask, k) \subseteq q.rows[t]
      BY <1>8, <1>9, <1>12, <1>14, <1>15, <1>16
    <2>2. ASSUME NEW u \in Tables, u # t
          PROVE  q.rows[u] \subseteq OfAsk(u, q.ask, sunk[u]) /\ \A k \in q.rows[u] : OfAsk(u, q.ask, k) \subseteq q.rows[u]
      BY <1>1, <1>15, <1>16, <2>2 DEF NoGap
    <2> QED
      BY <2>1, <2>2
  <1>18. ASSUME NEW S \in SUBSET OfAsk("erc8183", answers[r].asked, sunk["erc8183"]),
                request[r].stage # "idle" /\ request[r].ask = answers[r].asked /\ "erc8183" \notin request[r].open
                    => S \subseteq request[r].rows["erc8183"],
                q.stage # "idle" /\ q.ask = answers[r].asked /\ "erc8183" \notin q.open
         PROVE  S \subseteq q.rows["erc8183"]
    <2>1. CASE "erc8183" \notin request[r].open
      <3>1. S \subseteq request[r].rows["erc8183"]
        BY <1>1, <1>5, <1>16, <1>18, <2>1
      <3> QED
        BY <1>1, <1>15, <1>16, <3>1 DEF Tables
    <2>2. CASE "erc8183" \in request[r].open
      <3>1. t = "erc8183" /\ Cardinality(rest) < PageSize
        BY <1>1, <1>16, <1>18, <2>2
      <3> QED
        BY <1>8, <1>13, <1>15, <1>16, <1>18, <3>1
    <2> QED
      BY <2>1, <2>2
  <1>19. (q.stage = "answer" => q.open = {}) /\ (q.stage = "lists" => q.open = {})
    BY <1>2, <1>5, <1>16
  <1> QED
    BY <1>5, <1>6, <1>16, <1>17, <1>18, <1>19, RequestSteps

\* The pipeline, the SQLite indexer and the allowlists.
LEMMA OutsideKeepsGoldsky ==
  ASSUME GoldskyInv, SqliteSyncs \/ (\E t \in Tables : RowArrives(t)) \/ (\E w \in Holders : WalletIsListed(w))
  PROVE  GoldskyInv'
  <1> USE DEF GoldskyInv
  <1>1. UNCHANGED <<logs, request, answers>>
    BY DEF SqliteSyncs, RowArrives, WalletIsListed
  <1>2. Len(logs) \in Nat /\ sunk \in [Tables -> 0 .. Len(logs)]
    BY DEF GoldskyTypes
  <1>3. sunk' \in [Tables -> 0 .. Len(logs)] /\ \A t \in Tables : sunk[t] <= sunk'[t]
    <2>1. CASE UNCHANGED sunk
      BY <1>2, <2>1
    <2>2. ASSUME NEW t \in Tables, RowArrives(t)
          PROVE  sunk' \in [Tables -> 0 .. Len(logs)] /\ \A u \in Tables : sunk[u] <= sunk'[u]
      <3>1. PICK i \in RowsOf(t, Len(logs)) : i > sunk[t] /\ sunk' = [sunk EXCEPT ![t] = i]
        BY <2>2 DEF RowArrives
      <3>2. i \in 1 .. Len(logs)
        BY <3>1 DEF RowsOf
      <3> QED
        BY <1>2, <3>1, <3>2
    <2> QED
      BY <2>1, <2>2 DEF SqliteSyncs, WalletIsListed
  <1>4. manifests' \subseteq Holders
    BY DEF GoldskyTypes, SqliteSyncs, RowArrives, WalletIsListed
  <1>5. GoldskyTypes' /\ BlocksGrow' /\ ReadsToTheEnd'
    BY <1>1, <1>3, <1>4 DEF GoldskyTypes, BlocksGrow, ReadsToTheEnd
  <1>6. \A t, ask, n : OfAsk(t, ask, n)' = OfAsk(t, ask, n)
    BY <1>1 DEF OfAsk, RowsOf
  <1>7. \A t \in Tables : \A ask : OfAsk(t, ask, sunk[t]) \subseteq OfAsk(t, ask, sunk'[t])
    <2> TAKE t \in Tables
    <2>1. sunk[t] \in Nat /\ sunk'[t] \in Nat /\ sunk[t] <= sunk'[t]
      BY <1>2, <1>3
    <2> QED
      BY <2>1, OfAskGrows
  <1>8. NoGap'
    BY <1>1, <1>6, <1>7 DEF NoGap
  <1>9. \A S : Items(S)' = Items(S)
    BY <1>1 DEF Items
  <1>10. ShowsWhatWasShown'
    <2>1. ShowsWhatWasShown' <=>
            \A r \in Readers : \E S \in SUBSET OfAsk("erc8183", answers[r].asked, sunk["erc8183"])' :
              /\ answers'[r].jobs = JobsShown(Items(S)', answers'[r].wallets)
              /\ request'[r].stage # "idle" /\ request'[r].ask = answers'[r].asked /\ "erc8183" \notin request'[r].open
                     => S \subseteq request'[r].rows["erc8183"]
      BY DEF ShowsWhatWasShown
    <2>2. \A r \in Readers : OfAsk("erc8183", answers[r].asked, sunk["erc8183"])
                                 \subseteq OfAsk("erc8183", answers[r].asked, sunk["erc8183"])'
      BY <1>1, <1>6, <1>7 DEF Tables
    <2> QED
      BY <1>1, <1>9, <2>1, <2>2 DEF ShowsWhatWasShown
  <1> QED
    BY <1>5, <1>8, <1>10

LEMMA NextGoldskyInv == GoldskyInv /\ [GoldskyNext]_goldskyVars => GoldskyInv'
  <1> SUFFICES ASSUME GoldskyInv, [GoldskyNext]_goldskyVars PROVE GoldskyInv'
    OBVIOUS
  <1>1. CASE UNCHANGED goldskyVars
    <2>1. UNCHANGED <<logs, sunk, manifests, request, answers>>
      BY <1>1 DEF goldskyVars
    <2>2. (GoldskyTypes /\ BlocksGrow /\ ReadsToTheEnd)'
      BY <2>1 DEF GoldskyInv, GoldskyTypes, BlocksGrow, ReadsToTheEnd
    <2>3. NoGap'
      BY <2>1 DEF GoldskyInv, NoGap, OfAsk, RowsOf
    <2>4. ShowsWhatWasShown'
      <3>1. \A S : Items(S)' = Items(S)
        BY <2>1 DEF Items
      <3>2. \A t, ask, n : OfAsk(t, ask, n)' = OfAsk(t, ask, n)
        BY <2>1 DEF OfAsk, RowsOf
      <3>3. ShowsWhatWasShown' <=>
              \A r \in Readers : \E S \in SUBSET OfAsk("erc8183", answers[r].asked, sunk["erc8183"])' :
                /\ answers'[r].jobs = JobsShown(Items(S)', answers'[r].wallets)
                /\ request'[r].stage # "idle" /\ request'[r].ask = answers'[r].asked /\ "erc8183" \notin request'[r].open
                       => S \subseteq request'[r].rows["erc8183"]
        BY DEF ShowsWhatWasShown
      <3> QED
        BY <2>1, <3>1, <3>2, <3>3 DEF GoldskyInv, ShowsWhatWasShown
    <2> QED
      BY <2>2, <2>3, <2>4 DEF GoldskyInv
  <1> QED
    BY <1>1, LogMinedKeeps, OutsideKeepsGoldsky, AskKeeps, ListsKeep, FetchPageKeeps, AnswerKeeps, FetchFailsKeeps
    DEF GoldskyNext

\* No step shows a reader an earlier status than before.
LEMMA AnswersGrow ==
  ASSUME GoldskyInv, [GoldskyNext]_goldskyVars, NEW r \in Readers, NEW j \in ChainJobs,
         answers'[r].jobs[j] # NotShown, answers'[r].asked = answers[r].asked
  PROVE  Rank(answers[r].jobs[j]) <= Rank(answers'[r].jobs[j])
  <1>1. \A shown : Rank(shown) <= Rank(shown)
    BY DEF Rank
  <1>2. CASE answers'[r] = answers[r]
    BY <1>1, <1>2
  <1>3. ASSUME NEW o \in Readers, Answer(o), o # r PROVE answers'[r] = answers[r]
    BY <1>3, AnswerKeeps
  <1>4. CASE Answer(r)
    <2>1. /\ answers'[r].asked = request[r].ask /\ request[r].stage = "answer" /\ request[r].open = {}
          /\ answers'[r].jobs = JobsShown(Items(request[r].rows["erc8183"]), request[r].wallets)
      BY <1>4, AnswerKeeps DEF Answer, GoldskyInv, ReadsToTheEnd
    <2>2. PICK S : /\ answers[r].jobs = JobsShown(Items(S), answers[r].wallets)
                   /\ S \subseteq request[r].rows["erc8183"]
      BY <2>1 DEF GoldskyInv, ShowsWhatWasShown
    <2>3. Items(S) \subseteq Items(request[r].rows["erc8183"])
      BY <2>2 DEF Items
    <2> QED
      BY <2>1, <2>2, <2>3, StatusGrows
  <1>5. answers'[r] = answers[r] \/ \E o \in Readers : Answer(o)
    BY FetchFailsKeeps
    DEF GoldskyNext, goldskyVars, LogMined, SqliteSyncs, RowArrives, WalletIsListed, Ask, LoadDynamicAllowlists, FetchPage
  <1> QED
    BY <1>2, <1>3, <1>4, <1>5

-----------------------------------------------------------------------------
(***************************************************************************)
(* The Console: each component takes its steps or rests.                   *)
(***************************************************************************)
LEMMA OneComponentSteps ==
  ASSUME [Next]_vars
  PROVE  /\ focus' = focus /\ [MirrorNext]_mirrorVars /\ [CreationNext]_creationVars
         /\ [ValidationNext]_validationVars /\ [GoldskyNext]_goldskyVars
         /\ focus = "registry" => [RegistryNext]_registryVars
  <1>1. CASE UNCHANGED vars
    BY <1>1 DEF vars, directoryVars
  <1>2. CASE Next
    <2>1. OthersRest
      BY <1>2
      DEF Next, MirrorAtWork, CreationAtWork, PeersAtWork, ValidationsAtWork, IndexerAtWork, JobPagesAtWork,
          HirePageAtWork, FeedAtWork, ReadsAtWork, ManifestsAtWork, RegistryAtWork, ListsAtWork,
          StandingAtWork, PillAtWork, StripAtWork, AgentPageAtWork
    <2>2. /\ focus = "mirror" => MirrorNext
          /\ focus = "creation" => CreationNext
          /\ focus = "validations" => ValidationNext
          /\ focus = "reads" => GoldskyNext
          /\ focus = "registry" => RegistryNext
      BY <1>2
      DEF Next, MirrorAtWork, CreationAtWork, PeersAtWork, ValidationsAtWork, IndexerAtWork, JobPagesAtWork,
          HirePageAtWork, FeedAtWork, ReadsAtWork, ManifestsAtWork, RegistryAtWork, ListsAtWork,
          StandingAtWork, PillAtWork, StripAtWork, AgentPageAtWork
    <2> QED
      BY <2>1, <2>2 DEF OthersRest
  <1> QED
    BY <1>1, <1>2

ConsoleInv ==
    /\ MirrorInv /\ CreationInv /\ ValidationInv /\ GoldskyInv
    /\ focus = "registry" => RegistryInv

\* The inductive invariant of the components that two requests race in.
THEOREM ConsoleInvariant == Spec => []ConsoleInv
  <1>1. Init => ConsoleInv
    BY InitMirrorInv, InitCreationInv, InitValidationInv, InitGoldskyInv, InitRegistryInv DEF Init, ConsoleInv
  <1>2. ConsoleInv /\ [Next]_vars => ConsoleInv'
    <2> SUFFICES ASSUME ConsoleInv, [Next]_vars PROVE ConsoleInv'
      OBVIOUS
    <2>1. MirrorInv'
      BY OneComponentSteps, NextMirrorInv DEF ConsoleInv
    <2>2. CreationInv'
      BY OneComponentSteps, NextCreationInv DEF ConsoleInv
    <2>3. ValidationInv'
      BY OneComponentSteps, NextValidationInv DEF ConsoleInv
    <2>4. GoldskyInv'
      BY OneComponentSteps, NextGoldskyInv DEF ConsoleInv
    <2>5. (focus = "registry" => RegistryInv)'
      BY OneComponentSteps, NextRegistryInv DEF ConsoleInv
    <2> QED
      BY <2>1, <2>2, <2>3, <2>4, <2>5 DEF ConsoleInv
  <1> QED
    BY <1>1, <1>2, PTL DEF Spec

\* However many requests and calls race, fail or die, reject transactions of a
\* job follow one another, feedback is given once and for a completed job, a
\* preparation becomes one job, a hash has one validation request and one
\* response, and the file of registered agents has an agent once.
THEOREM RacesAreWonOnce == Spec => []RacesHaveOneWinner
  <1>1. ConsoleInv => RacesHaveOneWinner
    BY MirrorInvGives, CreationInvGives, ValidationInvGives, RegistryInvGives DEF ConsoleInv, RacesHaveOneWinner
  <1> QED
    BY <1>1, ConsoleInvariant, PTL

\* A transaction hash once attached to a stage of a local job is not replaced,
\* whatever routes and reconcilers write, and a reader that asks again is not
\* shown an earlier status of a job, however the tables grow between two pages.
THEOREM KnownThingsStay == Spec => NothingIsUndone
  <1>1. ConsoleInv /\ [Next]_vars => [\A k \in Columns : row.tx[k] # NoTx => row'.tx[k] = row.tx[k]]_mirrorVars
    BY OneComponentSteps, HashesStay DEF ConsoleInv
  <1>2. ConsoleInv /\ [Next]_vars =>
          [\A r \in Readers, j \in ChainJobs :
             LET old == answers[r]  new == answers'[r] IN
             \/ new.jobs[j] = NotShown
             \/ old.asked # new.asked
             \/ Rank(old.jobs[j]) <= Rank(new.jobs[j])]_goldskyVars
    BY OneComponentSteps, AnswersGrow DEF ConsoleInv
  <1>3. Spec => HashesAreFinal
    BY <1>1, ConsoleInvariant, PTL DEF Spec, HashesAreFinal
  <1>4. Spec => JobsNeverGoBack
    BY <1>2, ConsoleInvariant, PTL DEF Spec, JobsNeverGoBack
  <1> QED
    BY <1>3, <1>4 DEF NothingIsUndone
=============================================================================
