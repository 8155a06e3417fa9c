------------------------ MODULE ConsoleRecordsProofs ------------------------
(***************************************************************************)
(* What MCConsole promises of the Console's records and of the guidance    *)
(* its pages and tools give, for any number of jobs, agents, peers,        *)
(* readers, wallets, tabs, blocks, preparations and requests.              *)
(*                                                                         *)
(* It goes on from ConsoleProofs, whose invariant the mirror, the          *)
(* preparations and the readers' need: each component has an invariant, a  *)
(* lemma for each of its handlers, one that the invariant holds at the     *)
(* start (Init...), one that a step keeps it (Next...) and one for what it *)
(* gives (...Gives).  The components share no variable, so the Console's   *)
(* invariant is their conjunction.                                         *)
(***************************************************************************)
EXTENDS ConsoleProofs

-----------------------------------------------------------------------------
(***************************************************************************)
(* The mirror of a job, and what the chain has acknowledged.               *)
(***************************************************************************)
\* The status s is one the job has been in, and a final one is the job's.
NotAhead(s) == s = onchainJob.status \/ Depth(s) < Depth(onchainJob.status)

\* What a hash in the row, or among those mined, tells of the job.
Tells(k) ==
    /\ k = "fund"     => onchainJob.status # "Open"
    /\ k = "submit"   => onchainJob.status \notin {"Open", "Funded"}
    /\ k = "complete" => onchainJob.status = "Completed"
    /\ k = "reject"   => onchainJob.status = "Rejected"

RowIsTrue ==
    /\ MirrorNeverLeads
    /\ row.status \in {"claimed", "running"} => onchainJob.status # "Open"
    /\ \A k \in Columns : row.tx[k] # NoTx => Tells(k)

MirrorTruth ==
    /\ RowIsTrue
    /\ \A c \in Requests : NotAhead(call[c].seen)
    /\ \A x \in mined : Tells(x[1])

LEMMA InitMirrorTruth == MirrorInit => MirrorTruth
  BY DEF MirrorInit, MirrorTruth, RowIsTrue, MirrorNeverLeads, NotAhead, NoMirrorCall, NoTx

\* The job on chain moves forwards.
LEMMA ChainAdvances ==
  ASSUME MirrorInv, MirrorTruth, Chain
  PROVE  /\ \A s \in EscrowStatuses : NotAhead(s) => NotAhead(s)'
         /\ \A k : Tells(k) => Tells(k)'
         /\ \A x \in mined' : Tells(x[1])'
  <1>1. onchainJob \in OnchainJobs
    BY MirrorTypes DEF MirrorInv
  <1>2. /\ onchainJob' = onchainJob \/ Depth(onchainJob.status) < Depth(onchainJob'.status)
        /\ onchainJob.status \in {"Completed", "Rejected", "Expired"} => onchainJob' = onchainJob
        /\ onchainJob.status \notin {"Open", "Funded"} => onchainJob'.status \notin {"Open", "Funded"}
        /\ onchainJob.status # "Open" => onchainJob'.status # "Open"
    <2>1. \/ onchainJob' = onchainJob
          \/ /\ onchainJob.status \in {"Open", "Funded", "Submitted"}
             /\ onchainJob'.status \in {"Completed", "Rejected", "Expired"}
          \/ onchainJob.status = "Open" /\ onchainJob'.status = "Funded"
          \/ onchainJob.status = "Funded" /\ onchainJob'.status = "Submitted"
      BY <1>1
      DEF Chain, MineOther, MineFund, MineRefund, MineSubmit, MineComplete, MineReject, LoseReject, Rejectable,
          OnchainJobs
    <2>2. Depth("Open") = 1 /\ Depth("Funded") = 2 /\ Depth("Submitted") = 3
          /\ Depth("Completed") = 4 /\ Depth("Rejected") = 4 /\ Depth("Expired") = 4
      BY DEF Depth
    <2> QED
      BY <2>1, <2>2
  <1>3. \A k : Tells(k) => Tells(k)'
    BY <1>2 DEF Tells
  <1>4. \A s \in EscrowStatuses : NotAhead(s) => NotAhead(s)'
    <2>1. \A s \in EscrowStatuses : Depth(s) \in Nat
      BY DEF EscrowStatuses, Depth
    <2>2. onchainJob.status \in EscrowStatuses
      BY <1>1 DEF OnchainJobs
    <2>3. onchainJob'.status \in EscrowStatuses
      BY <2>2, <1>1
      DEF Chain, MineOther, MineFund, MineRefund, MineSubmit, MineComplete, MineReject, LoseReject,
          OnchainJobs, EscrowStatuses
    <2> QED
      BY <1>2, <2>1, <2>2, <2>3 DEF NotAhead
  <1>5. \A x \in mined' : x \in mined \/ Tells(x[1])'
    <2>1. ASSUME NEW k \in Columns, NEW n \in Hashes(k), MineOther(k, n) PROVE <1>5!:
      BY <2>1 DEF MineOther, Tells
    <2>2. CASE MineFund \/ MineRefund
      BY <1>1, <2>2 DEF MineFund, MineRefund, Tells, OnchainJobs
    <2>3. ASSUME NEW d, MineSubmit(d) PROVE <1>5!:
      BY <1>1, <2>3 DEF MineSubmit, Tells, OnchainJobs
    <2>4. ASSUME NEW d, MineComplete(d) PROVE <1>5!:
      BY <1>1, <2>4 DEF MineComplete, Tells, OnchainJobs
    <2>5. ASSUME NEW n, MineReject(n) \/ LoseReject(n) PROVE <1>5!:
      BY <1>1, <2>5 DEF MineReject, LoseReject, Tells, OnchainJobs
    <2> QED
      BY <2>1, <2>2, <2>3, <2>4, <2>5 DEF Chain
  <1> QED
    BY <1>3, <1>4, <1>5 DEF MirrorTruth

\* The rest of the mirror: the job on chain stands, and what is new in the row
\* and in the requests is true of it.
LEMMA OffChainKeepsTruth ==
  ASSUME MirrorInv, MirrorTruth, UNCHANGED <<onchainJob, mined>>, RowIsTrue',
         \A c \in Requests : call'[c] = call[c] \/ NotAhead(call'[c].seen)
  PROVE  MirrorTruth'
  BY DEF MirrorTruth, NotAhead, Tells

LEMMA AttachedIsTrue ==
  ASSUME MirrorInv, MirrorTruth, NEW k \in Columns, NEW n \in 1 .. (MaxRejects + 2), NEW s \in EscrowStatuses,
         Tells(k), NotAhead(s), row' = Attached(k, n, s), UNCHANGED onchainJob
  PROVE  RowIsTrue'
  <1>1. row \in RowStates
    BY MirrorTypes DEF MirrorInv
  <1>2. row'.erc \in {row.erc, s} /\ \A c \in Columns : row'.tx[c] # NoTx => row.tx[c] # NoTx \/ c = k
    <2>1. row'.erc \in {row.erc, s}
      BY AttachedRow DEF MirrorInv
    <2>2. row'.tx = row.tx \/ row'.tx = [row.tx EXCEPT ![k] = n]
      BY <1>1 DEF Attached, RowStates
    <2>3. row.tx \in [Columns -> MirrorHashes]
      BY <1>1 DEF RowStates
    <2> QED
      BY <2>1, <2>2, <2>3
  <1>3. \/ row'.status = row.status
        \/ k = "submit" /\ row'.status = "submitted"
        \/ k = "complete" /\ row'.status = "settled"
        \/ k = "reject" /\ row'.status = "rejected"
    BY <1>1 DEF Attached, MirrorStatus, RowStates
  <1>4. MirrorNeverLeads'
    BY <1>2, <1>3 DEF MirrorTruth, RowIsTrue, MirrorNeverLeads, NotAhead, Tells
  <1> QED
    BY <1>2, <1>3, <1>4 DEF MirrorTruth, RowIsTrue, Tells

LEMMA NextMirrorTruth == MirrorInv /\ MirrorTruth /\ [MirrorNext]_mirrorVars => MirrorTruth'
  <1> SUFFICES ASSUME MirrorInv, MirrorTruth, [MirrorNext]_mirrorVars PROVE MirrorTruth'
    OBVIOUS
  <1>1. /\ row \in RowStates /\ onchainJob \in OnchainJobs /\ NoMirrorCall \in MirrorCalls
        /\ \A c \in Requests : call[c] \in MirrorCalls
        /\ call \in [Requests -> MirrorCalls]
    BY MirrorTypes DEF MirrorInv
  <1>2. NotAhead(NoMirrorCall.seen)
    BY <1>1 DEF NotAhead, NoMirrorCall, OnchainJobs, EscrowStatuses, Depth
  <1>3. CASE UNCHANGED mirrorVars
    BY <1>3 DEF mirrorVars, MirrorTruth, RowIsTrue, MirrorNeverLeads, NotAhead, Tells
  <1>4. CASE Chain
    <2>1. UNCHANGED <<row, call>>
      BY <1>4 DEF Chain, MineOther, MineFund, MineRefund, MineSubmit, MineComplete, MineReject, LoseReject
    <2>2. RowIsTrue'
      <3>1. NotAhead(row.erc)' /\ row.erc \in EscrowStatuses
        BY <1>1, <1>4, <2>1, ChainAdvances DEF MirrorTruth, RowIsTrue, MirrorNeverLeads, NotAhead, RowStates
      <3>2. /\ onchainJob.status \in {"Completed", "Rejected", "Expired"} => onchainJob' = onchainJob
            /\ onchainJob.status # "Open" => onchainJob'.status # "Open"
        BY <1>1, <1>4
        DEF Chain, MineOther, MineFund, MineRefund, MineSubmit, MineComplete, MineReject, LoseReject, Rejectable,
            OnchainJobs
      <3> QED
        BY <1>4, <2>1, <3>1, <3>2, ChainAdvances DEF MirrorTruth, RowIsTrue, MirrorNeverLeads, NotAhead
    <2>3. \A c \in Requests : NotAhead(call[c].seen)'
      BY <1>1, <1>4, <2>1, ChainAdvances DEF MirrorTruth, MirrorCalls
    <2> QED
      BY <1>4, <2>2, <2>3, ChainAdvances DEF MirrorTruth
  <1>5. CASE Routes
    <2>1. /\ row'.erc = row.erc /\ row'.tx = row.tx
          /\ \/ row'.status = row.status
             \/ row'.status \in {"claimed", "running"} /\ (row.erc = "Funded" \/ row.status = "claimed")
          /\ UNCHANGED <<onchainJob, mined, call>>
      BY <1>1, <1>5
      DEF Routes, PreparedSubmit, PreparedComplete, ClaimJob, MarkRunning, RowWritten, JobClaimable, JobRunnable,
          RowStates
    <2>2. row.erc = "Funded" => onchainJob.status # "Open"
      BY DEF MirrorTruth, RowIsTrue, MirrorNeverLeads, Depth
    <2>3. RowIsTrue'
      BY <2>1, <2>2 DEF MirrorTruth, RowIsTrue, MirrorNeverLeads, Tells
    <2> QED
      BY <2>1, <2>3, OffChainKeepsTruth
  <1>6. CASE TxRoute
    <2>1. ASSUME NEW c \in Requests, NEW k \in Staged, NEW n \in Hashes(k), ConfirmTx(c, k, n) PROVE MirrorTruth'
      BY <1>1, <1>2, <2>1, OffChainKeepsTruth DEF ConfirmTx, Step, NoMirrorCall, MirrorTruth, RowIsTrue, MirrorNeverLeads, Tells
    <2>2. ASSUME NEW c \in Requests, ReadOnchainJob(c) PROVE MirrorTruth'
      BY <1>1, <2>2, OffChainKeepsTruth
      DEF ReadOnchainJob, Step, MirrorCalls, MirrorTruth, RowIsTrue, MirrorNeverLeads, Tells, NotAhead
    <2>3. ASSUME NEW c \in Requests, AttachStaged(c) PROVE MirrorTruth'
      <3>1. PICK k \in Staged, n \in 1 .. (MaxRejects + 2), s \in EscrowStatuses :
              <<k, n>> \in mined /\ NotAhead(s) /\ row' = Attached(k, n, s)
        BY <1>1, <2>3, MirrorTypes DEF AttachStaged, MirrorAt, MirrorInv, CarriesMined, MirrorCalls, MirrorTruth
      <3>2. k \in Columns /\ Tells(k)
        BY <3>1 DEF Staged, Columns, MirrorTruth
      <3>3. RowIsTrue'
        BY <2>3, <3>1, <3>2, AttachedIsTrue DEF AttachStaged, Step
      <3> QED
        BY <1>1, <1>2, <2>3, <3>3, OffChainKeepsTruth DEF AttachStaged, Step
    <2>4. ASSUME NEW k \in {"set_budget", "approve"}, NEW n \in Hashes(k), AttachAtOnce(k, n) PROVE MirrorTruth'
      <3>1. k \in Columns /\ Tells(k) /\ n \in 1 .. (MaxRejects + 2)
        BY <2>4, HashesAreSmall DEF Columns, Tells
      <3>2. onchainJob.status \in EscrowStatuses /\ NotAhead(onchainJob.status)
        BY <1>1 DEF OnchainJobs, NotAhead
      <3>3. RowIsTrue'
        BY <2>4, <3>1, <3>2, AttachedIsTrue DEF AttachAtOnce, RowWritten
      <3> QED
        BY <2>4, <3>3, OffChainKeepsTruth DEF AttachAtOnce, RowWritten
    <2>5. ASSUME NEW n \in Hashes("reject"), AttachRejected(n) PROVE MirrorTruth'
      <3>1. "reject" \in Columns /\ Tells("reject") /\ n \in 1 .. (MaxRejects + 2)
        BY <2>5, HashesAreSmall DEF Columns, Tells, AttachRejected
      <3>2. "Rejected" \in EscrowStatuses /\ NotAhead("Rejected")
        BY <2>5 DEF AttachRejected, EscrowStatuses, NotAhead
      <3>3. RowIsTrue'
        BY <2>5, <3>1, <3>2, AttachedIsTrue DEF AttachRejected
      <3> QED
        BY <2>5, <3>3, OffChainKeepsTruth DEF AttachRejected
    <2>6. CASE AttachRefund
      <3>1. RowIsTrue'
        BY <1>1, <2>6 DEF AttachRefund, RowOfRefund, RowWritten, MirrorTruth, RowIsTrue, MirrorNeverLeads, Tells, RowStates
      <3> QED
        BY <2>6, <3>1, OffChainKeepsTruth DEF AttachRefund, RowWritten
    <2> QED
      BY <1>6, <2>1, <2>2, <2>3, <2>4, <2>5, <2>6 DEF TxRoute
  <1>7. ASSUME NEW c \in Requests, RejectRoute(c) PROVE MirrorTruth'
    <2>1. CASE AttachReject(c)
      <3>1. call[c].hash \in Hashes("reject") /\ onchainJob.status = "Rejected"
        BY <2>1 DEF AttachReject, MirrorInv, CarriesMined, MinedIsDone
      <3>2. "reject" \in Columns /\ Tells("reject") /\ call[c].hash \in 1 .. (MaxRejects + 2)
        BY <3>1, HashesAreSmall DEF Columns, Tells
      <3>3. "Rejected" \in EscrowStatuses /\ NotAhead("Rejected")
        BY <3>1 DEF EscrowStatuses, NotAhead
      <3>4. RowIsTrue'
        BY <2>1, <3>2, <3>3, AttachedIsTrue DEF AttachReject, Step
      <3> QED
        BY <1>1, <1>2, <2>1, <3>4, OffChainKeepsTruth DEF AttachReject, Step
    <2>2. CASE ~AttachReject(c)
      <3>1. /\ UNCHANGED <<onchainJob, mined>>
            /\ call'[c].seen \in {call[c].seen, NoMirrorCall.seen}
            /\ \A d \in Requests : d # c => call'[d] = call[d]
        <4>1. CASE AskReject(c) \/ GiveUpReject(c) \/ RejectTimesOut(c)
          BY <1>1, <4>1 DEF AskReject, GiveUpReject, RejectTimesOut, Step, NoMirrorCall
        <4>2. CASE ClaimReject(c) \/ CheckReject(c) \/ AwaitReject(c)
          BY <1>1, <4>2 DEF ClaimReject, CheckReject, AwaitReject, Step, MirrorCalls
        <4>3. CASE \E n \in Hashes("reject") : SendReject(c, n)
          BY <1>1, <4>3 DEF SendReject, MirrorCalls
        <4> QED
          BY <1>7, <2>2, <4>1, <4>2, <4>3 DEF RejectRoute
      <3>2. row' \in {row, [row EXCEPT !.status = "rejecting"], [row EXCEPT !.status = "submitted"]}
        BY <1>7, <2>2
        DEF RejectRoute, AskReject, ClaimReject, GiveUpReject, CheckReject, SendReject, AwaitReject, RejectTimesOut,
            RolledBack
      <3>3. RowIsTrue'
        BY <1>1, <3>1, <3>2 DEF MirrorTruth, RowIsTrue, MirrorNeverLeads, Tells, RowStates
      <3> QED
        BY <1>1, <1>2, <3>1, <3>3, OffChainKeepsTruth DEF MirrorTruth
    <2> QED
      BY <2>1, <2>2
  <1>8. ASSUME NEW c \in Requests, Reconcile(c) \/ RequestDies(c) PROVE MirrorTruth'
    <2>1. UNCHANGED <<onchainJob, mined>>
      BY <1>8 DEF Reconcile, ReconcileJob, ReconcileReads, ReconcileWrites, RequestDies, Step
    <2>2. \A d \in Requests : call'[d] = call[d] \/ NotAhead(call'[d].seen)
      <3>1. /\ call'[c].seen \in {onchainJob.status, NoMirrorCall.seen}
            /\ \A d \in Requests : d # c => call'[d] = call[d]
        <4>1. CASE ReconcileJob(c) \/ ReconcileWrites(c) \/ RequestDies(c)
          BY <1>1, <4>1 DEF ReconcileJob, ReconcileWrites, RequestDies, Step, NoMirrorCall
        <4>2. CASE ReconcileReads(c)
          BY <1>1, <4>2 DEF ReconcileReads, Step, MirrorCalls
        <4> QED
          BY <1>8, <4>1, <4>2 DEF Reconcile
      <3>2. NotAhead(onchainJob.status)
        BY DEF NotAhead
      <3> QED
        BY <1>1, <1>2, <3>1, <3>2
    <2>3. row' = row \/ \E s \in EscrowStatuses : NotAhead(s) /\ row' = [row EXCEPT !.erc = s]
      BY <1>1, <1>8
      DEF Reconcile, ReconcileJob, ReconcileReads, ReconcileWrites, RequestDies, MirrorTruth, MirrorCalls
    <2>4. RowIsTrue'
      BY <1>1, <2>1, <2>3 DEF MirrorTruth, RowIsTrue, MirrorNeverLeads, Tells, RowStates, NotAhead
    <2> QED
      BY <2>1, <2>2, <2>4, OffChainKeepsTruth
  <1> QED
    BY <1>3, <1>4, <1>5, <1>6, <1>7, <1>8 DEF MirrorNext

\* What the row and its detail tell a reader, and offer it.
LEMMA MirrorTruthGives == MirrorInv /\ MirrorTruth => MirrorNeverLeads /\ DetailNeverLeads /\ OfferedIsAccepted
  <1> SUFFICES ASSUME MirrorInv, MirrorTruth PROVE DetailNeverLeads /\ OfferedIsAccepted
    BY DEF MirrorTruth, RowIsTrue
  <1>1. row \in RowStates /\ onchainJob \in OnchainJobs /\ "set_budget" \in Columns /\ "fund" \in Columns
        /\ "submit" \in Columns /\ "complete" \in Columns /\ "reject" \in Columns
    BY MirrorTypes DEF MirrorInv, Columns
  <1>2. /\ row.status \in {"submitted", "rejecting"} => onchainJob.status \notin {"Open", "Funded"}
        /\ row.status = "settled"  => onchainJob.status = "Completed"
        /\ row.status = "rejected" => onchainJob.status = "Rejected"
        /\ row.status = "expired"  => onchainJob.status = "Expired"
        /\ row.status \in {"claimed", "running"} => onchainJob.status # "Open"
        /\ row.tx["fund"] # NoTx => onchainJob.status # "Open"
        /\ row.tx["submit"] # NoTx => onchainJob.status \notin {"Open", "Funded"}
        /\ row.tx["complete"] # NoTx => onchainJob.status = "Completed"
        /\ row.tx["reject"] # NoTx => onchainJob.status = "Rejected"
    BY <1>1 DEF MirrorInv, MirrorTruth, RowIsTrue, MirrorNeverLeads, SubmittedHasHash, Tells
  <1>3. DetailNeverLeads
    BY <1>1, <1>2
    DEF DetailNeverLeads, Detail, LifecycleByChain, LifecycleByRow, LifecycleDepth, RowStates, OnchainJobs,
        EscrowStatuses
  <1>4. PICK r : r = [row EXCEPT !.erc = onchainJob.status]
    OBVIOUS
  <1>5. r.erc = onchainJob.status /\ r.status = row.status /\ r.tx = row.tx /\ r.worker = row.worker
    BY <1>1, <1>4 DEF RowStates
  <1>6. ASSUME NEW action \in Detail(TRUE).actions PROVE Admits(action, r)
    <2>1. PICK l : l = LifecycleByChain(onchainJob.status)
      OBVIOUS
    <2>2. action \in AllowedActions(l)
      BY <1>6, <2>1 DEF Detail
    <2>3. CASE action \in {"approve", "fund"}
      <3>1. l = "BudgetSet"
        BY <2>2, <2>3 DEF AllowedActions
      <3>2. onchainJob.status = "Open" /\ row.tx["set_budget"] # NoTx
        BY <1>1, <2>1, <3>1 DEF LifecycleByChain, OnchainJobs, EscrowStatuses
      <3> QED
        BY <1>1, <1>2, <1>5, <2>3, <3>2 DEF Admits, Fundable, Unfundable, RowStates
    <2>4. CASE action = "claim"
      <3>1. l = "Funded"
        BY <2>2, <2>4 DEF AllowedActions
      <3>2. onchainJob.status = "Funded" /\ row.status \notin {"running", "claimed"}
        BY <1>1, <2>1, <3>1 DEF LifecycleByChain, OnchainJobs, EscrowStatuses
      <3>3. row.status = "created"
        BY <1>1, <1>2, <3>2 DEF RowStates
      <3> QED
        BY <1>5, <2>4, <3>2, <3>3 DEF Admits, JobClaimable
    <2>5. CASE action = "running"
      <3>1. l = "Claimed"
        BY <2>2, <2>5 DEF AllowedActions
      <3>2. row.status = "claimed"
        BY <1>1, <2>1, <3>1 DEF LifecycleByChain, OnchainJobs, EscrowStatuses
      <3> QED
        BY <1>5, <2>5, <3>2 DEF Admits, JobRunnable
    <2>6. CASE action \notin {"approve", "fund", "claim", "running"}
      BY <2>6 DEF Admits
    <2> QED
      BY <2>3, <2>4, <2>5, <2>6
  <1> QED
    BY <1>3, <1>4, <1>6 DEF OfferedIsAccepted

-----------------------------------------------------------------------------
(***************************************************************************)
(* The preparation of a job: who it names.                                 *)
(***************************************************************************)
\* Wallets the agents of a job have belonged to.
OfTheAgents(names) ==
    \A side \in Sides :
        \/ names[side] \in {FirstController[side], registeredTo[side]}
        \/ side = "evaluator" /\ names[side] = names["buyer"]

\* What a confirmation is about to attach names who the row names, or will.
AttachesItsOwn(p) ==
    /\ HireAt(p, "create") => TxNames[post[p].tx] = prep[post[p].prep].names
    /\ HireAt(p, "attach") \/ post[p].kind = "created" => TxNames[post[p].tx] = job[post[p].row].names

CreationTruth ==
    /\ \A q \in Preparations : OfTheAgents(prep[q].names)
    /\ \A l \in Rows : /\ job[l].prep # NoPreparation => OfTheAgents(job[l].names)
                       /\ job[l].tx # NoCreateTx => job[l].exists /\ TxNames[job[l].tx] = job[l].names
    /\ \A p \in Posts : AttachesItsOwn(p)

LEMMA InitCreationTruth == CreationInit => CreationTruth
  BY DEF CreationInit, CreationTruth, OfTheAgents, AttachesItsOwn, HireAt, NoPost

\* Nobody is transferred: who a job may name stands.
LEMMA AgentsStand ==
  ASSUME UNCHANGED registeredTo
  PROVE  \A n : OfTheAgents(n) => OfTheAgents(n)'
  BY DEF OfTheAgents

LEMMA OutsideKeepsCreationTruth ==
  ASSUME CreationInv, CreationTruth,
         \/ \E t \in CreateTxs : SendCreate(t) \/ MineCreate(t)
         \/ \E side \in Sides, w \in Controllers : TransferAgent(side, w)
         \/ \E q \in Preparations, h \in HireRequests : Prepare(q, h)
         \/ \E l \in Rows, t \in CreateTxs : CreateLocal(l, TxNames[t])
  PROVE  CreationTruth'
  <1>1. /\ registeredTo \in [Sides -> Controllers] /\ prep \in [Preparations -> PrepRecords]
        /\ job \in [Rows -> RowRecords]
    BY CreationTypes DEF CreationInv
  <1>2. CASE \E t \in CreateTxs : SendCreate(t) \/ MineCreate(t)
    BY <1>2, AgentsStand DEF SendCreate, MineCreate, CreationTruth, AttachesItsOwn, HireAt
  <1>3. ASSUME NEW side \in Sides, NEW w \in Controllers, TransferAgent(side, w) PROVE CreationTruth'
    <2>1. ASSUME NEW n, OfTheAgents(n) PROVE OfTheAgents(n)'
      BY <1>1, <1>3, <2>1 DEF OfTheAgents, TransferAgent
    <2> QED
      BY <1>3, <2>1 DEF TransferAgent, CreationTruth, AttachesItsOwn, HireAt
  <1>4. ASSUME NEW q \in Preparations, NEW h \in HireRequests, Prepare(q, h) PROVE CreationTruth'
    <2>1. OfTheAgents(Resolved(h))
      BY DEF OfTheAgents, Resolved, Sides
    <2>2. /\ \A o \in Preparations : o # q => prep'[o] = prep[o]
          /\ prep'[q].names = Resolved(h)
      BY <1>1, <1>4 DEF Prepare, PrepRecords
    <2>3. \A p \in Posts : post[p].kind = "hire" => post[p].prep \in Preparations /\ post[p].prep # q
      BY <1>4 DEF Prepare, CreationInv, ClaimIsAlone
    <2>4. ASSUME NEW p \in Posts PROVE AttachesItsOwn(p)'
      <3>1. UNCHANGED <<post, job>> /\ AttachesItsOwn(p)
        BY <1>4 DEF Prepare, CreationTruth
      <3>2. post[p].kind = "hire" => prep'[post[p].prep] = prep[post[p].prep]
        BY <2>2, <2>3
      <3> QED
        BY <3>1, <3>2 DEF AttachesItsOwn, HireAt
    <2>5. \A n : OfTheAgents(n) => OfTheAgents(n)'
      BY <1>4, AgentsStand DEF Prepare
    <2>6. \A o \in Preparations : OfTheAgents(prep'[o].names)
      BY <2>1, <2>2 DEF CreationTruth
    <2> QED
      BY <1>4, <2>4, <2>5, <2>6 DEF Prepare, CreationTruth
  <1>5. ASSUME NEW l \in Rows, NEW t \in CreateTxs, CreateLocal(l, TxNames[t]) PROVE CreationTruth'
    <2>1. /\ \A m \in Rows : m # l => job'[m] = job[m]
          /\ job'[l].prep = job[l].prep /\ job'[l].tx = job[l].tx
      BY <1>1, <1>5 DEF CreateLocal, RowRecords
    <2>2. job[l].tx = NoCreateTx /\ job[l].prep = NoPreparation
      BY <1>5 DEF CreateLocal, CreationTruth, CreationInv, RowsArePreparations
    <2>3. \A p \in Posts : HireAt(p, "attach") \/ post[p].kind = "created" => post[p].row \in Rows \ {l}
      BY <1>5, <2>2, CreationAssumption DEF CreateLocal, CreationInv, ConfirmsARow, RowsOfClaims, ClaimIsAlone, HireAt
    <2>4. ASSUME NEW p \in Posts PROVE AttachesItsOwn(p)'
      <3>1. UNCHANGED <<post, prep>> /\ AttachesItsOwn(p)
        BY <1>5 DEF CreateLocal, CreationTruth
      <3>2. HireAt(p, "attach") \/ post[p].kind = "created" => job'[post[p].row] = job[post[p].row]
        BY <2>1, <2>3
      <3> QED
        BY <3>1, <3>2 DEF AttachesItsOwn, HireAt
    <2>5. \A n : OfTheAgents(n) => OfTheAgents(n)'
      BY <1>5, AgentsStand DEF CreateLocal
    <2> QED
      BY <1>5, <2>1, <2>2, <2>4, <2>5 DEF CreateLocal, CreationTruth
  <1> QED
    BY <1>2, <1>3, <1>4, <1>5

LEMMA HiresKeepCreationTruth == ASSUME CreationInv, CreationTruth, NEW p \in Posts, HireRoute(p) PROVE CreationTruth'
  <1>1. /\ prep \in [Preparations -> PrepRecords] /\ job \in [Rows -> RowRecords] /\ post \in [Posts -> PostRecords]
    BY CreationTypes DEF CreationInv
  <1>2. UNCHANGED registeredTo
    BY DEF HireRoute, ClaimPreparation, ReceiptMissing, ReceiptRefused, ReceiptMatches, CreateHired, AttachHired, MarkCreated
  <1>3. \A n : OfTheAgents(n) => OfTheAgents(n)'
    BY <1>2, AgentsStand
  <1>4. \A o \in Posts : o # p => post'[o] = post[o]
    BY <1>1
    DEF HireRoute, ClaimPreparation, ReceiptMissing, ReceiptRefused, ReceiptMatches, CreateHired, AttachHired,
        MarkCreated, Goes
  <1>5. CASE UNCHANGED job
    <2>1. \A q \in Preparations : prep'[q].names = prep[q].names
      <3>1. CASE \E q \in Preparations, t \in CreateTxs : ClaimPreparation(p, q, t)
        <4>1. \E q \in Preparations : \E s : prep' = [prep EXCEPT ![q].status = s]
          BY <3>1 DEF ClaimPreparation
        <4> QED
          BY <1>1, <4>1 DEF PrepRecords
      <3>2. CASE ReceiptRefused(p) \/ MarkCreated(p)
        <4>1. post[p].prep \in Preparations
          BY <3>2 DEF ReceiptRefused, MarkCreated, HireAt, CreationInv, ClaimIsAlone
        <4>2. CASE ReceiptRefused(p)
          BY <1>1, <4>1, <4>2 DEF ReceiptRefused, PrepRecords
        <4>3. CASE MarkCreated(p)
          BY <1>1, <4>1, <4>3 DEF MarkCreated, PrepRecords
        <4> QED
          BY <3>2, <4>2, <4>3
      <3>3. CASE ReceiptMissing(p) \/ ReceiptMatches(p) \/ AttachHired(p) \/ \E l \in Rows : CreateHired(p, l)
        BY <3>3 DEF ReceiptMissing, ReceiptMatches, AttachHired, CreateHired
      <3> QED
        BY <3>1, <3>2, <3>3 DEF HireRoute
    <2>2. \/ post'[p] = post[p]
          \/ post'[p].kind = "none"
          \/ post'[p].stage \notin {"create", "attach"} /\ post'[p].kind # "created"
          \/ /\ post'[p].stage = "create" /\ post'[p].kind # "created" /\ post'[p].tx = post[p].tx
             /\ post'[p].prep = post[p].prep /\ post[p].kind = "hire"
             /\ TxNames[post[p].tx] = prep[post[p].prep].names
      <3>1. CASE \E q \in Preparations, t \in CreateTxs : ClaimPreparation(p, q, t)
        BY <1>1, <3>1 DEF ClaimPreparation, Goes, NoPost
      <3>2. CASE ReceiptMissing(p) \/ ReceiptRefused(p) \/ MarkCreated(p)
        BY <1>1, <3>2 DEF ReceiptMissing, ReceiptRefused, MarkCreated, Goes, NoPost
      <3>3. CASE ReceiptMatches(p)
        BY <1>1, <3>3 DEF ReceiptMatches, HireAt, Names, Goes, PostRecords
      <3>4. CASE AttachHired(p)
        BY <1>1, <3>4 DEF AttachHired, HireAt, Goes, PostRecords, NoPost
      <3>5. CASE \E l \in Rows : CreateHired(p, l)
        BY <1>1, <1>5, <3>5 DEF CreateHired, RowRecords
      <3> QED
        BY <3>1, <3>2, <3>3, <3>4, <3>5 DEF HireRoute
    <2>3. \A o \in Posts : post[o].kind = "hire" => post[o].prep \in Preparations
      BY DEF CreationInv, ClaimIsAlone
    <2>4. \A o \in Posts : o # p => AttachesItsOwn(o)'
      BY <1>4, <1>5, <2>1, <2>3 DEF CreationTruth, AttachesItsOwn, HireAt
    <2>5. AttachesItsOwn(p)'
      <3>1. AttachesItsOwn(p)
        BY DEF CreationTruth
      <3>2. CASE post'[p] = post[p]
        BY <1>5, <2>1, <2>3, <3>1, <3>2 DEF AttachesItsOwn, HireAt
      <3>3. CASE \/ post'[p].kind = "none"
                 \/ post'[p].stage \notin {"create", "attach"} /\ post'[p].kind # "created"
        BY <3>3 DEF AttachesItsOwn, HireAt
      <3>4. CASE /\ post'[p].stage = "create" /\ post'[p].kind # "created" /\ post'[p].tx = post[p].tx
                 /\ post'[p].prep = post[p].prep /\ post[p].kind = "hire"
                 /\ TxNames[post[p].tx] = prep[post[p].prep].names
        BY <2>1, <2>3, <3>4 DEF AttachesItsOwn, HireAt
      <3> QED
        BY <2>2, <3>2, <3>3, <3>4
    <2> QED
      BY <1>3, <1>5, <2>1, <2>4, <2>5 DEF CreationTruth
  <1>6. ASSUME NEW l \in Rows, CreateHired(p, l) PROVE CreationTruth'
    <2>1. PICK q \in Preparations : q = post[p].prep
      BY <1>6 DEF CreateHired, HireAt, CreationInv, ClaimIsAlone
    <2>2. /\ job'[l].exists /\ job'[l].prep = q /\ job'[l].names = prep[q].names /\ job'[l].tx = NoCreateTx
          /\ \A m \in Rows : m # l => job'[m] = job[m]
          /\ UNCHANGED prep
      BY <1>1, <1>6, <2>1 DEF CreateHired
    <2>3. post'[p].kind = "hire" /\ post'[p].stage = "attach" /\ post'[p].row = l /\ post'[p].tx = post[p].tx
      BY <1>1, <1>6 DEF CreateHired, Goes, PostRecords, HireAt
    <2>4. AttachesItsOwn(p)'
      BY <1>6, <2>1, <2>2, <2>3 DEF CreateHired, CreationTruth, AttachesItsOwn, HireAt
    <2>5. \A o \in Posts : HireAt(o, "attach") \/ post[o].kind = "created" => post[o].row \in Rows \ {l}
      BY <1>6, CreationAssumption
      DEF CreateHired, CreationInv, ConfirmsARow, RowsOfClaims, ClaimIsAlone, HireAt, RowsArePreparations
    <2>6. \A o \in Posts : o # p => AttachesItsOwn(o)'
      BY <1>4, <2>2, <2>5 DEF CreationTruth, AttachesItsOwn, HireAt
    <2>7. \A m \in Rows : /\ job'[m].prep # NoPreparation => OfTheAgents(job'[m].names)
                          /\ job'[m].tx # NoCreateTx => job'[m].exists /\ TxNames[job'[m].tx] = job'[m].names
      BY <2>2 DEF CreationTruth
    <2> QED
      BY <1>3, <2>2, <2>4, <2>6, <2>7 DEF CreationTruth
  <1>7. CASE AttachHired(p) /\ job' # job
    <2>1. PICK l \in Rows : l = post[p].row /\ job[l].exists
      BY <1>7, CreationAssumption
      DEF AttachHired, HireAt, CreationInv, RowsOfClaims, ClaimIsAlone, RowsArePreparations
    <2>2. /\ job'[l].exists /\ job'[l].prep = job[l].prep /\ job'[l].names = job[l].names /\ job'[l].tx = post[p].tx
          /\ \A m \in Rows : m # l => job'[m] = job[m]
          /\ UNCHANGED prep
          /\ post'[p].stage = "mark" /\ post'[p].kind = "hire"
      BY <1>1, <1>7, <2>1 DEF AttachHired, Attach, Goes, HireAt, RowRecords, PostRecords
    <2>3. TxNames[post[p].tx] = job[l].names
      BY <1>7, <2>1 DEF AttachHired, CreationTruth, AttachesItsOwn
    <2>4. \A m \in Rows : job'[m].names = job[m].names
      BY <2>2
    <2>5. \A o \in Posts : HireAt(o, "attach") \/ post[o].kind = "created" => post[o].row \in Rows
      BY DEF CreationInv, ConfirmsARow, RowsOfClaims, HireAt
    <2>6. \A o \in Posts : AttachesItsOwn(o)'
      BY <1>4, <2>2, <2>4, <2>5 DEF CreationTruth, AttachesItsOwn, HireAt
    <2>7. \A m \in Rows : /\ job'[m].prep # NoPreparation => OfTheAgents(job'[m].names)
                          /\ job'[m].tx # NoCreateTx => job'[m].exists /\ TxNames[job'[m].tx] = job'[m].names
      BY <2>2, <2>3 DEF CreationTruth
    <2> QED
      BY <1>3, <2>2, <2>6, <2>7 DEF CreationTruth
  <1>8. job' = job \/ AttachHired(p) \/ \E l \in Rows : CreateHired(p, l)
    BY DEF HireRoute, ClaimPreparation, ReceiptMissing, ReceiptRefused, ReceiptMatches, MarkCreated
  <1> QED
    BY <1>5, <1>6, <1>7, <1>8

LEMMA NextCreationTruth == CreationInv /\ CreationTruth /\ [CreationNext]_creationVars => CreationTruth'
  <1> SUFFICES ASSUME CreationInv, CreationTruth, [CreationNext]_creationVars PROVE CreationTruth'
    OBVIOUS
  <1>1. /\ prep \in [Preparations -> PrepRecords] /\ job \in [Rows -> RowRecords] /\ post \in [Posts -> PostRecords]
    BY CreationTypes DEF CreationInv
  <1>2. CASE UNCHANGED creationVars
    BY <1>2 DEF creationVars, CreationTruth, OfTheAgents, AttachesItsOwn, HireAt
  <1>3. ASSUME NEW p \in Posts, \/ \E l \in Rows, t \in CreateTxs : ReadRow(p, l, t)
                                \/ AttachCreated(p) \/ PostDies(p)
        PROVE  CreationTruth'
    <2>1. UNCHANGED registeredTo /\ UNCHANGED prep /\ \A o \in Posts : o # p => post'[o] = post[o]
      BY <1>1, <1>3 DEF ReadRow, AttachCreated, PostDies, Goes
    <2>2. \A n : OfTheAgents(n) => OfTheAgents(n)'
      BY <2>1, AgentsStand
    <2>3. \/ UNCHANGED job
          \/ /\ post[p].kind = "created" /\ post[p].row \in Rows /\ job[post[p].row].exists
             /\ job' = [job EXCEPT ![post[p].row].tx = post[p].tx]
      BY <1>3 DEF ReadRow, AttachCreated, PostDies, Attach, CreationInv, ConfirmsARow
    <2>4. \A m \in Rows : /\ job'[m].names = job[m].names /\ job'[m].prep = job[m].prep /\ job'[m].exists = job[m].exists
                          /\ \/ job'[m].tx = job[m].tx
                             \/ /\ m = post[p].row /\ job'[m].tx = post[p].tx /\ job[m].exists
                                /\ post[p].kind = "created"
      BY <1>1, <2>3 DEF RowRecords
    <2>5. \A m \in Rows : /\ job'[m].prep # NoPreparation => OfTheAgents(job'[m].names)
                          /\ job'[m].tx # NoCreateTx => job'[m].exists /\ TxNames[job'[m].tx] = job'[m].names
      BY <2>4 DEF CreationTruth, AttachesItsOwn
    <2>6. \/ post'[p].kind = "none"
          \/ /\ post'[p].kind = "created" /\ post'[p].row \in Rows
             /\ TxNames[post'[p].tx] = job[post'[p].row].names
      <3>1. CASE AttachCreated(p) \/ PostDies(p)
        BY <1>1, <3>1 DEF AttachCreated, PostDies, Goes, NoPost
      <3>2. ASSUME NEW l \in Rows, NEW t \in CreateTxs, ReadRow(p, l, t)
            PROVE  post'[p].kind = "created" /\ post'[p].row = l /\ TxNames[post'[p].tx] = job[l].names
        BY <1>1, <3>2 DEF ReadRow, Goes, NoPost, Names
      <3> QED
        BY <1>3, <3>1, <3>2
    <2>7. \A o \in Posts : HireAt(o, "attach") \/ post[o].kind = "created" => post[o].row \in Rows
      BY DEF CreationInv, ConfirmsARow, RowsOfClaims, HireAt
    <2>8. \A o \in Posts : AttachesItsOwn(o)'
      BY <2>1, <2>4, <2>6, <2>7 DEF CreationTruth, AttachesItsOwn, HireAt
    <2> QED
      BY <2>1, <2>2, <2>5, <2>8 DEF CreationTruth
  <1> QED
    BY <1>2, <1>3, OutsideKeepsCreationTruth, HiresKeepCreationTruth DEF CreationNext, CreatedRoute

LEMMA CreationTruthGives == CreationTruth => HiresNameTheRegistered
  BY DEF CreationTruth, HiresNameTheRegistered, OfTheAgents

-----------------------------------------------------------------------------
(***************************************************************************)
(* Jobs between peers, and their subscribers.                              *)
(***************************************************************************)
PeerJobs == [status : {"none", "open", "claimed", "submitted", "completed"}, claimedBy : Peers \cup {NoPeer},
             onchain : BOOLEAN, settlement : (0 .. 5) \cup {9}, submitTx : BOOLEAN]
PeerRequests == [stage : {"away", "claim", "submit", "verify submit", "escrow submit", "verify complete", "complete"},
                 peer : Peers \cup {NoPeer}, unclaimed : BOOLEAN]
DeliveryRecords == [event : {"none", "job.created", "job.claimed", "job.submitted"},
                    stage : {"none", "record", "post", "timer", "over"},
                    attempt : 0 .. MaxRetries, posts : 0 .. MaxRetries, known : BOOLEAN,
                    record : {"none", "pending", "delivered", "failed", "retrying"}, taken : 0 .. MaxRetries]

LEMMA A2ATypes ==
  A2ATypeOK <=> /\ peerJob \in PeerJobs /\ peerEscrow \in DOMAIN PeerRank
                /\ peerRequest \in [Handlers -> PeerRequests] /\ winners \subseteq Peers
                /\ patches \in 0 .. MaxPatches /\ hook \in {"none", "active", "deleted"}
                /\ delivery \in [Deliveries -> DeliveryRecords]
  BY DEF A2ATypeOK, PeerJobs, PeerRequests, DeliveryRecords

LEMMA TypesOfA2A ==
  A2ATypeOK' <=> /\ peerJob' \in PeerJobs /\ peerEscrow' \in DOMAIN PeerRank
                 /\ peerRequest' \in [Handlers -> PeerRequests] /\ winners' \subseteq Peers
                 /\ patches' \in 0 .. MaxPatches /\ hook' \in {"none", "active", "deleted"}
                 /\ delivery' \in [Deliveries -> DeliveryRecords]
  BY DEF A2ATypeOK, PeerJobs, PeerRequests, DeliveryRecords

LEMMA PeerRanks ==
  /\ DOMAIN PeerRank = {"Open", "Funded", "Submitted", "Completed", "Rejected", "Expired"}
  /\ PeerRank["Open"] = 0 /\ PeerRank["Funded"] = 1 /\ PeerRank["Submitted"] = 2
  /\ PeerRank["Completed"] = 3 /\ PeerRank["Rejected"] = 4 /\ PeerRank["Expired"] = 5
  BY DEF PeerRank

\* A request is an agent's, about a job there is; a claim it saw is not taken back.
OfAPeer(q) == q.stage # "away" => /\ q.peer \in Peers /\ peerJob.status # "none"
                                  /\ q.unclaimed \/ peerJob.claimedBy # NoPeer

\* What a request has verified stays true.
Verified(q) == /\ q.stage = "escrow submit" => peerEscrow \in {"Submitted", "Completed", "Rejected"}
               /\ q.stage = "complete" => peerEscrow = "Completed"

\* A delivery posts once in an attempt and ends when it is taken.
OncePerAttempt(x) ==
    /\ x.stage = "record" => x.attempt = 1 /\ x.posts = 0
    /\ x.stage \in {"post", "timer"} => x.posts + 1 = x.attempt
    /\ x.stage # "over" => x.taken = 0
    /\ x.taken <= 1 /\ (x.record = "delivered" => x.taken = 1)

\* It tells of what has happened.
TellsWhatWas(x) == /\ x.event = "job.claimed" => winners # {}
                   /\ x.event = "job.submitted" => peerJob.claimedBy # NoPeer

A2AInv ==
    /\ A2ATypeOK /\ PeerJobNeverLeads
    /\ peerJob.status = "none" => ~peerJob.onchain /\ peerJob.settlement = 9
    /\ \A r \in Handlers : OfAPeer(peerRequest[r]) /\ Verified(peerRequest[r])
    /\ \A d \in Deliveries : OncePerAttempt(delivery[d]) /\ TellsWhatWas(delivery[d])

LEMMA InitA2AInv == A2AInit => A2AInv
  <1> SUFFICES ASSUME A2AInit PROVE A2AInv
    OBVIOUS
  <1>1. A2ATypeOK
    BY A2AAssumption, PeerRanks DEF A2AInit, A2ATypeOK, Unhandled, Undispatched
  <1>2. PeerJobNeverLeads /\ peerJob.status = "none" /\ ~peerJob.onchain /\ peerJob.settlement = 9
    BY DEF A2AInit, PeerJobNeverLeads
  <1>3. \A r \in Handlers : OfAPeer(peerRequest[r]) /\ Verified(peerRequest[r])
    BY DEF A2AInit, OfAPeer, Verified, Unhandled
  <1>4. \A d \in Deliveries : OncePerAttempt(delivery[d]) /\ TellsWhatWas(delivery[d])
    BY DEF A2AInit, OncePerAttempt, TellsWhatWas, Undispatched
  <1> QED
    BY <1>1, <1>2, <1>3, <1>4 DEF A2AInv

LEMMA RequestOfPeerIsSet ==
  ASSUME A2ATypeOK, NEW r \in Handlers, NEW q \in PeerRequests, peerRequest' = [peerRequest EXCEPT ![r] = q]
  PROVE  /\ peerRequest' \in [Handlers -> PeerRequests]
         /\ peerRequest'[r] = q /\ \A o \in Handlers : o # r => peerRequest'[o] = peerRequest[o]
  BY A2ATypes

LEMMA DeliveryIsSet ==
  ASSUME A2ATypeOK, NEW d \in Deliveries, NEW x \in DeliveryRecords, delivery' = [delivery EXCEPT ![d] = x]
  PROVE  /\ delivery' \in [Deliveries -> DeliveryRecords]
         /\ delivery'[d] = x /\ \A o \in Deliveries : o # d => delivery'[o] = delivery[o]
  BY A2ATypes

\* An event is dispatched of what has just happened.
LEMMA DispatchIsTrue ==
  ASSUME A2AInv, NEW event \in {"job.created", "job.claimed", "job.submitted"}, Dispatched(event),
         event = "job.claimed" => winners' # {}, event = "job.submitted" => peerJob'.claimedBy # NoPeer,
         winners \subseteq winners', peerJob.claimedBy # NoPeer => peerJob'.claimedBy # NoPeer
  PROVE  /\ delivery' \in [Deliveries -> DeliveryRecords] /\ hook' = hook
         /\ \A d \in Deliveries : OncePerAttempt(delivery'[d]) /\ TellsWhatWas(delivery[d])'
  <1>1. \A d \in Deliveries : TellsWhatWas(delivery[d]) /\ OncePerAttempt(delivery[d])
    BY DEF A2AInv
  <1>2. \A x : TellsWhatWas(x) => TellsWhatWas(x)'
    BY DEF TellsWhatWas
  <1>3. CASE UNCHANGED delivery
    BY <1>1, <1>2, <1>3, A2ATypes DEF A2AInv, Dispatched
  <1>4. ASSUME NEW d \in Deliveries, delivery[d] = Undispatched, hook' = hook,
               delivery' = [delivery EXCEPT ![d] = [@ EXCEPT !.event = event, !.stage = "record", !.attempt = 1]]
        PROVE  /\ delivery' \in [Deliveries -> DeliveryRecords] /\ hook' = hook
               /\ \A o \in Deliveries : OncePerAttempt(delivery'[o]) /\ TellsWhatWas(delivery[o])'
    <2>1. PICK x : x = [Undispatched EXCEPT !.event = event, !.stage = "record", !.attempt = 1]
      OBVIOUS
    <2>2. x = [event |-> event, stage |-> "record", attempt |-> 1, posts |-> 0, known |-> FALSE,
               record |-> "none", taken |-> 0]
      BY <2>1 DEF Undispatched
    <2>3. x \in DeliveryRecords /\ OncePerAttempt(x) /\ TellsWhatWas(x)'
      BY <2>2, A2AAssumption DEF DeliveryRecords, OncePerAttempt, TellsWhatWas
    <2>4. delivery' = [delivery EXCEPT ![d] = x]
      BY <1>4, <2>1
    <2>5. /\ delivery' \in [Deliveries -> DeliveryRecords] /\ delivery'[d] = x
          /\ \A o \in Deliveries : o # d => delivery'[o] = delivery[o]
      BY <2>3, <2>4, DeliveryIsSet DEF A2AInv
    <2> QED
      BY <1>1, <1>2, <1>4, <2>3, <2>5
  <1> QED
    BY <1>3, <1>4 DEF Dispatched

\* The row is written and the request that wrote it ends.
LEMMA RowOfPeersIsWritten ==
  ASSUME A2AInv, NEW r \in Handlers, Done(r), peerJob' \in PeerJobs, peerJob'.status # "none",
         peerJob'.claimedBy # NoPeer \/ peerJob'.claimedBy = peerJob.claimedBy,
         UNCHANGED <<peerEscrow, patches>>, winners \subseteq winners', winners' \subseteq Peers,
         hook' = hook, delivery' \in [Deliveries -> DeliveryRecords],
         \A d \in Deliveries : OncePerAttempt(delivery'[d]) /\ TellsWhatWas(delivery[d])',
         PeerJobNeverLeads'
  PROVE  A2AInv'
  <1>1. Unhandled \in PeerRequests /\ Unhandled.stage = "away"
    BY DEF Unhandled, PeerRequests
  <1>2. /\ peerRequest' \in [Handlers -> PeerRequests]
        /\ peerRequest'[r] = Unhandled /\ \A o \in Handlers : o # r => peerRequest'[o] = peerRequest[o]
    BY <1>1, RequestOfPeerIsSet DEF A2AInv, Done
  <1>3. \A o \in Handlers : OfAPeer(peerRequest[o])' /\ Verified(peerRequest[o])'
    BY <1>1, <1>2 DEF A2AInv, OfAPeer, Verified
  <1>4. A2ATypeOK'
    BY <1>2, A2ATypes, TypesOfA2A DEF A2AInv
  <1> QED
    BY <1>3, <1>4 DEF A2AInv, OncePerAttempt

LEMMA WritesKeepA2A ==
  ASSUME A2AInv, NEW r \in Handlers, WriteClaim(r) \/ WriteSubmit(r) \/ WriteEscrowSubmit(r) \/ WriteComplete(r)
  PROVE  A2AInv'
  <1>1. peerJob \in PeerJobs /\ peerRequest[r] \in PeerRequests /\ winners \subseteq Peers
    BY A2ATypes DEF A2AInv
  <1>2. OfAPeer(peerRequest[r]) /\ Verified(peerRequest[r]) /\ PeerJobNeverLeads
    BY DEF A2AInv
  <1>3. peerRequest[r].stage # "away"
    BY DEF WriteClaim, WriteSubmit, WriteEscrowSubmit, WriteComplete
  <1>4. PICK p \in Peers : p = peerRequest[r].peer
    BY <1>2, <1>3 DEF OfAPeer
  <1>5. NoPeer \notin Peers
    BY A2AAssumption
  <1>6. Claims(r) \in Peers
    BY <1>1, <1>2, <1>3, <1>4, <1>5 DEF Claims, OfAPeer, PeerJobs
  <1>7. \A d \in Deliveries : OncePerAttempt(delivery[d]) /\ TellsWhatWas(delivery[d])
    BY DEF A2AInv
  <1>8. CASE WriteClaim(r)
    <2>1. /\ peerJob' \in PeerJobs /\ peerJob'.status = "claimed" /\ peerJob'.claimedBy = p
          /\ peerJob'.onchain = peerJob.onchain /\ peerJob'.settlement = peerJob.settlement
          /\ winners' = winners \cup {p} /\ Dispatched("job.claimed") /\ UNCHANGED <<peerEscrow, patches>> /\ Done(r)
      BY <1>1, <1>4, <1>8 DEF WriteClaim, PeerJobs
    <2>2. PeerJobNeverLeads'
      BY <1>2, <2>1 DEF PeerJobNeverLeads
    <2>3. /\ delivery' \in [Deliveries -> DeliveryRecords] /\ hook' = hook
          /\ \A d \in Deliveries : OncePerAttempt(delivery'[d]) /\ TellsWhatWas(delivery[d])'
      BY <1>5, <2>1, DispatchIsTrue
    <2> QED
      BY <1>1, <1>5, <2>1, <2>2, <2>3, RowOfPeersIsWritten
  <1>9. CASE WriteSubmit(r)
    <2>1. /\ peerJob' \in PeerJobs /\ peerJob'.status = "submitted" /\ peerJob'.claimedBy = Claims(r)
          /\ peerJob'.onchain = peerJob.onchain /\ peerJob'.settlement = peerJob.settlement
          /\ Dispatched("job.submitted") /\ UNCHANGED <<peerEscrow, winners, patches>> /\ Done(r)
      BY <1>1, <1>6, <1>9 DEF WriteSubmit, PeerJobs, RowOnly
    <2>2. PeerJobNeverLeads'
      BY <1>2, <2>1 DEF PeerJobNeverLeads
    <2>3. /\ delivery' \in [Deliveries -> DeliveryRecords] /\ hook' = hook
          /\ \A d \in Deliveries : OncePerAttempt(delivery'[d]) /\ TellsWhatWas(delivery[d])'
      BY <1>5, <1>6, <2>1, DispatchIsTrue
    <2> QED
      BY <1>1, <1>5, <1>6, <2>1, <2>2, <2>3, RowOfPeersIsWritten
  <1>10. CASE WriteEscrowSubmit(r)
    <2>1. /\ peerJob' \in PeerJobs /\ peerJob'.status = "submitted" /\ peerJob'.claimedBy = Claims(r)
          /\ peerJob'.onchain = peerJob.onchain /\ peerJob'.settlement = 2
          /\ UNCHANGED <<peerEscrow, winners, patches, hook, delivery>> /\ Done(r)
      <3>2. PICK tx \in BOOLEAN : tx = TRUE
        OBVIOUS
      <3>3. peerJob' = [peerJob EXCEPT !.status = "submitted", !.claimedBy = Claims(r), !.submitTx = tx, !.settlement = 2]
        BY <1>10, <3>2, PeerRanks DEF WriteEscrowSubmit
      <3>1. peerJob' = [status |-> "submitted", claimedBy |-> Claims(r), onchain |-> peerJob.onchain,
                        settlement |-> 2, submitTx |-> tx]
        BY <1>1, <3>2, <3>3 DEF PeerJobs
      <3>4. UNCHANGED <<peerEscrow, winners, patches, hook, delivery>> /\ Done(r)
        BY <1>10 DEF WriteEscrowSubmit, RowOnly, hookVars
      <3> QED
        BY <1>1, <1>6, <3>1, <3>2, <3>4 DEF PeerJobs
    <2>2. peerEscrow \in {"Submitted", "Completed", "Rejected"}
      BY <1>2, <1>10 DEF WriteEscrowSubmit, Verified
    <2>4. PeerJobNeverLeads'
      BY <2>1, <2>2, PeerRanks DEF PeerJobNeverLeads
    <2>3. \A d \in Deliveries : OncePerAttempt(delivery'[d]) /\ TellsWhatWas(delivery[d])'
      BY <1>5, <1>6, <1>7, <2>1 DEF TellsWhatWas
    <2> QED
      BY <1>1, <1>5, <1>6, <2>1, <2>3, <2>4, A2ATypes, RowOfPeersIsWritten DEF A2AInv
  <1>11. CASE WriteComplete(r)
    <2>1. /\ peerJob' \in PeerJobs /\ peerJob'.status = "completed" /\ peerJob'.claimedBy = peerJob.claimedBy
          /\ peerJob'.onchain = peerJob.onchain /\ peerJob'.settlement = 3
          /\ UNCHANGED <<peerEscrow, winners, patches, hook, delivery>> /\ Done(r)
      <3>1. UNCHANGED <<peerEscrow, winners, patches, hook, delivery>> /\ Done(r)
        BY <1>11 DEF WriteComplete, RowOnly, hookVars
      <3>2. peerJob' = [peerJob EXCEPT !.status = "completed", !.settlement = 3]
        BY <1>11, PeerRanks DEF WriteComplete
      <3> QED
        <4>1. peerJob' = [status |-> "completed", claimedBy |-> peerJob.claimedBy, onchain |-> peerJob.onchain,
                          settlement |-> 3, submitTx |-> peerJob.submitTx]
          BY <1>1, <3>2 DEF PeerJobs
        <4> QED
          BY <1>1, <3>1, <4>1 DEF PeerJobs
    <2>2. peerEscrow = "Completed"
      BY <1>2, <1>11 DEF WriteComplete, Verified
    <2>3. PeerJobNeverLeads'
      <3>1. peerEscrow' = "Completed" /\ peerJob'.settlement = 3
        BY <2>1, <2>2
      <3> QED
        BY <3>1, PeerRanks DEF PeerJobNeverLeads
    <2>4. \A d \in Deliveries : OncePerAttempt(delivery'[d]) /\ TellsWhatWas(delivery[d])'
      BY <1>7, <2>1 DEF TellsWhatWas
    <2> QED
      BY <1>1, <2>1, <2>3, <2>4, A2ATypes, RowOfPeersIsWritten DEF A2AInv
  <1> QED
    BY <1>8, <1>9, <1>10, <1>11

\* The requests that only read, and end.
LEMMA ReadsKeepA2A ==
  ASSUME A2AInv, NEW r \in Handlers,
         \/ VerifySubmit(r) \/ VerifyComplete(r) \/ Abandon(r)
         \/ \E p \in Peers : ReadForClaim(r, p) \/ ReadForSubmit(r, p) \/ ReadForComplete(r, p)
  PROVE  A2AInv'
  <1>1. UNCHANGED <<peerJob, peerEscrow, winners, patches, hook, delivery>>
    BY DEF VerifySubmit, VerifyComplete, Abandon, ReadForClaim, ReadForSubmit, ReadForComplete, HandlerOnly, hookVars
  <1>2. peerRequest \in [Handlers -> PeerRequests] /\ OfAPeer(peerRequest[r]) /\ peerJob \in PeerJobs
    BY A2ATypes DEF A2AInv
  <1>3. Unhandled \in PeerRequests /\ OfAPeer(Unhandled) /\ Verified(Unhandled)
    BY DEF Unhandled, PeerRequests, OfAPeer, Verified
  <1>4. \E q \in PeerRequests : OfAPeer(q) /\ Verified(q) /\ peerRequest' = [peerRequest EXCEPT ![r] = q]
    <2>1. CASE Abandon(r)
      BY <1>3, <2>1 DEF Abandon, Done
    <2>2. ASSUME NEW s \in {"escrow submit", "complete"}, Now(r, s), peerRequest[r].stage # "away",
                 s = "escrow submit" => peerEscrow = "Submitted", s = "complete" => peerEscrow = "Completed"
          PROVE  <1>4!:
      <3>1. PICK q : q = [peerRequest[r] EXCEPT !.stage = s]
        OBVIOUS
      <3>2. q \in PeerRequests /\ q.stage = s /\ q.peer = peerRequest[r].peer /\ q.unclaimed = peerRequest[r].unclaimed
        BY <1>2, <3>1 DEF PeerRequests
      <3>3. peerRequest' = [peerRequest EXCEPT ![r] = q]
        BY <1>2, <2>2, <3>1 DEF Now
      <3> QED
        BY <1>2, <2>2, <3>2, <3>3 DEF OfAPeer, Verified
    <2>3. CASE VerifySubmit(r)
      BY <1>3, <2>2, <2>3 DEF VerifySubmit, SubmitIsProven, Done
    <2>4. CASE VerifyComplete(r)
      BY <1>3, <2>2, <2>4 DEF VerifyComplete, CompleteIsProven, Done
    <2>5. ASSUME NEW p \in Peers, ReadForClaim(r, p) \/ ReadForSubmit(r, p) \/ ReadForComplete(r, p) PROVE <1>4!:
      <3>1. PICK s \in {"claim", "submit", "verify submit", "verify complete"} :
              Reads(r, p, s) /\ peerJob.status # "none"
        BY <2>5 DEF ReadForClaim, ReadForSubmit, ReadForComplete
      <3>2. PICK q : q = [stage |-> s, peer |-> p, unclaimed |-> peerJob.claimedBy = NoPeer]
        OBVIOUS
      <3>3. q \in PeerRequests /\ OfAPeer(q) /\ Verified(q)
        BY <3>1, <3>2 DEF PeerRequests, OfAPeer, Verified
      <3> QED
        BY <3>1, <3>2, <3>3 DEF Reads
    <2> QED
      BY <2>1, <2>3, <2>4, <2>5
  <1>5. /\ peerRequest' \in [Handlers -> PeerRequests] /\ OfAPeer(peerRequest'[r]) /\ Verified(peerRequest'[r])
        /\ \A o \in Handlers : o # r => peerRequest'[o] = peerRequest[o]
    BY <1>4, RequestOfPeerIsSet DEF A2AInv
  <1>6. \A o \in Handlers : OfAPeer(peerRequest[o])' /\ Verified(peerRequest[o])'
    BY <1>1, <1>5 DEF A2AInv, OfAPeer, Verified
  <1>7. A2ATypeOK'
    BY <1>1, <1>5, A2ATypes, TypesOfA2A DEF A2AInv
  <1> QED
    BY <1>1, <1>6, <1>7 DEF A2AInv, PeerJobNeverLeads, OncePerAttempt, TellsWhatWas

LEMMA OutsideKeepsA2A ==
  ASSUME A2AInv, \/ \E b \in BOOLEAN : CreateA2AJob(b)
                 \/ EscrowMoves \/ \E e \in DOMAIN PeerRank : IndexerPatches(e)
  PROVE  A2AInv'
  <1>1. /\ peerJob \in PeerJobs /\ peerEscrow \in DOMAIN PeerRank /\ patches \in 0 .. MaxPatches
        /\ peerRequest \in [Handlers -> PeerRequests] /\ PeerJobNeverLeads
    BY A2ATypes DEF A2AInv
  <1>4. ASSUME NEW b \in BOOLEAN, CreateA2AJob(b) PROVE A2AInv'
    <2>1. /\ peerJob' \in PeerJobs /\ peerJob'.status = "open" /\ peerJob'.claimedBy = peerJob.claimedBy
          /\ peerJob'.settlement = 9 /\ UNCHANGED <<peerEscrow, winners, patches, peerRequest>>
          /\ Dispatched("job.created")
      BY <1>1, <1>4 DEF CreateA2AJob, PeerJobs, RowOnly, A2AInv
    <2>2. PeerJobNeverLeads'
      BY PeerRanks, <2>1 DEF PeerJobNeverLeads
    <2>3. /\ delivery' \in [Deliveries -> DeliveryRecords] /\ hook' = hook
          /\ \A d \in Deliveries : OncePerAttempt(delivery'[d]) /\ TellsWhatWas(delivery[d])'
      BY <2>1, DispatchIsTrue
    <2>4. A2ATypeOK'
      BY <2>1, <2>3, A2ATypes, TypesOfA2A DEF A2AInv
    <2> QED
      BY <2>1, <2>2, <2>3, <2>4 DEF A2AInv, OfAPeer, Verified, OncePerAttempt
  <1>5. CASE EscrowMoves
    <2>1. UNCHANGED <<peerJob, peerRequest, winners, patches, hook, delivery>>
      BY <1>5 DEF EscrowMoves, hookVars
    <2>2. /\ peerEscrow' \in DOMAIN PeerRank
          /\ peerEscrow # "Completed" /\ (peerEscrow \in {"Submitted", "Rejected"} => peerEscrow' \in {"Completed", "Rejected"})
      BY <1>1, PeerRanks, <1>5 DEF EscrowMoves
    <2>3. PeerJobNeverLeads'
      BY <1>1, <2>1, <2>2 DEF PeerJobNeverLeads
    <2>4. \A r \in Handlers : Verified(peerRequest[r])'
      BY <2>1, <2>2 DEF A2AInv, Verified
    <2>5. A2ATypeOK'
      BY <2>1, <2>2, A2ATypes, TypesOfA2A DEF A2AInv
    <2> QED
      BY <2>1, <2>3, <2>4, <2>5 DEF A2AInv, OfAPeer, OncePerAttempt, TellsWhatWas
  <1>6. ASSUME NEW e \in DOMAIN PeerRank, IndexerPatches(e) PROVE A2AInv'
    <2>1. /\ UNCHANGED <<peerEscrow, peerRequest, winners, hook, delivery>> /\ patches' \in 0 .. MaxPatches
          /\ peerJob' = Patched(e) /\ e \in Happened
      BY <1>1, <1>6, A2AAssumption DEF IndexerPatches, hookVars
    <2>2. PeerRank[e] \in 0 .. 5
      BY PeerRanks
    <2>3. PICK st : st = IF e = "Submitted" THEN "submitted" ELSE peerJob.status
      OBVIOUS
    <2>4. PICK tx \in BOOLEAN : tx = (peerJob.submitTx \/ e = "Submitted")
      BY <1>1 DEF PeerJobs
    <2>5. peerJob' = [status |-> st, claimedBy |-> peerJob.claimedBy, onchain |-> peerJob.onchain,
                      settlement |-> PeerRank[e], submitTx |-> tx]
      BY <1>1, <2>1, <2>3, <2>4 DEF Patched, PeerJobs
    <2>6. /\ peerJob' \in PeerJobs /\ peerJob'.claimedBy = peerJob.claimedBy /\ peerJob'.onchain = peerJob.onchain
          /\ peerJob'.settlement = PeerRank[e] /\ peerJob'.status \in {peerJob.status, "submitted"}
      BY <1>1, <2>2, <2>3, <2>5 DEF PeerJobs
    <2>7. /\ e = "Submitted" => peerEscrow \in {"Submitted", "Completed"}
          /\ e = "Completed" => peerEscrow = "Completed"
      BY <1>1, PeerRanks, <2>1 DEF Happened
    <2>8. PeerJobNeverLeads'
      BY <1>1, PeerRanks, <2>1, <2>6, <2>7 DEF PeerJobNeverLeads
    <2>9. peerJob.status # "none"
      BY <1>6 DEF IndexerPatches, A2AInv
    <2>10. A2ATypeOK'
      BY <2>1, <2>6, A2ATypes, TypesOfA2A DEF A2AInv
    <2> QED
      BY <2>1, <2>6, <2>8, <2>9, <2>10 DEF A2AInv, OfAPeer, Verified, OncePerAttempt, TellsWhatWas
  <1> QED
    BY <1>4, <1>5, <1>6

\* A delivery is set to what keeps its record straight.
LEMMA DeliveryGoesOn ==
  ASSUME A2AInv, NEW d \in Deliveries, NEW x \in DeliveryRecords, DeliveryGoes(d, x), OncePerAttempt(x),
         x.event = delivery[d].event
  PROVE  A2AInv'
  <1>1. /\ delivery' \in [Deliveries -> DeliveryRecords] /\ delivery'[d] = x
        /\ \A o \in Deliveries : o # d => delivery'[o] = delivery[o]
    BY DeliveryIsSet DEF A2AInv, DeliveryGoes
  <1>2. UNCHANGED <<peerJob, peerEscrow, peerRequest, winners, patches, hook>>
    BY DEF DeliveryGoes, HooksOnly
  <1>3. A2ATypeOK'
    BY <1>1, <1>2, A2ATypes, TypesOfA2A DEF A2AInv
  <1>4. \A o \in Deliveries : OncePerAttempt(delivery'[o]) /\ TellsWhatWas(delivery[o])'
    BY <1>1, <1>2 DEF A2AInv, TellsWhatWas
  <1> QED
    BY <1>2, <1>3, <1>4 DEF A2AInv, PeerJobNeverLeads, OfAPeer, Verified, OncePerAttempt

\* A post that was taken, or not.
PostTaken(d, taken) == [Posted(d) EXCEPT !.taken = taken]

\* What comes of a post: the delivery waits for its timer, or is over.
LEMMA DeliveryIsPosted ==
  ASSUME A2AInv, NEW d \in Deliveries, delivery[d].stage = "post",
         NEW taken \in {0, 1}, NEW status \in {"delivered", "failed", "retrying"},
         status = "delivered" => taken = 1,
         NEW noted, noted \in Notes(PostTaken(d, taken), status),
         \/ DeliveryGoes(d, Rescheduled(noted, FALSE))
         \/ /\ taken = 0 /\ delivery[d].attempt < MaxRetries
            /\ DeliveryGoes(d, Rescheduled(noted, TRUE))
  PROVE  A2AInv'
  <1>1. delivery[d] \in DeliveryRecords /\ OncePerAttempt(delivery[d])
    BY A2ATypes DEF A2AInv
  <1>2. delivery[d].posts + 1 = delivery[d].attempt /\ delivery[d].taken = 0 /\ delivery[d].record # "delivered"
    BY <1>1 DEF OncePerAttempt, DeliveryRecords
  <1>3. /\ noted \in DeliveryRecords /\ noted.event = delivery[d].event /\ noted.stage = "post"
        /\ noted.attempt = delivery[d].attempt /\ noted.posts = delivery[d].attempt /\ noted.taken = taken
        /\ noted.record \in {delivery[d].record, status}
    <2>1. PICK y : y = PostTaken(d, taken)
      OBVIOUS
    <2>2. y = [event |-> delivery[d].event, stage |-> "post", attempt |-> delivery[d].attempt,
               posts |-> delivery[d].attempt, known |-> delivery[d].known, record |-> delivery[d].record,
               taken |-> taken]
      BY <1>1, <1>2, <2>1 DEF PostTaken, Posted, DeliveryRecords
    <2>3. y \in DeliveryRecords
      BY <1>1, <2>2, A2AAssumption DEF DeliveryRecords
    <2>4. noted = y \/ noted = [y EXCEPT !.record = status]
      BY <2>1 DEF Notes
    <2> QED
      BY <2>2, <2>3, <2>4 DEF DeliveryRecords
  <1>4. CASE DeliveryGoes(d, Rescheduled(noted, FALSE))
    <2>1. PICK x : x = [noted EXCEPT !.stage = "over"]
      OBVIOUS
    <2>2. /\ x \in DeliveryRecords /\ x.event = delivery[d].event /\ x.stage = "over" /\ x.taken = taken
          /\ x.record = noted.record
      BY <1>3, <2>1 DEF DeliveryRecords
    <2>3. OncePerAttempt(x)
      BY <1>2, <1>3, <2>2 DEF OncePerAttempt
    <2>4. DeliveryGoes(d, x)
      BY <1>4, <2>1 DEF Rescheduled
    <2> QED
      BY <2>2, <2>3, <2>4, DeliveryGoesOn
  <1>5. CASE taken = 0 /\ delivery[d].attempt < MaxRetries /\ DeliveryGoes(d, Rescheduled(noted, TRUE))
    <2>1. PICK x : x = [event |-> noted.event, stage |-> "timer", attempt |-> noted.attempt + 1,
                        posts |-> noted.posts, known |-> FALSE, record |-> noted.record, taken |-> noted.taken]
      OBVIOUS
    <2>2. x = [noted EXCEPT !.stage = "timer", !.attempt = @ + 1, !.known = FALSE]
      <3>1. PICK no \in BOOLEAN : no = FALSE
        OBVIOUS
      <3>2. PICK y : y = [noted EXCEPT !.stage = "timer", !.attempt = @ + 1, !.known = no]
        OBVIOUS
      <3>3. y = [event |-> noted.event, stage |-> "timer", attempt |-> noted.attempt + 1,
                 posts |-> noted.posts, known |-> no, record |-> noted.record, taken |-> noted.taken]
        BY <1>3, <3>2 DEF DeliveryRecords
      <3> QED
        BY <2>1, <3>1, <3>2, <3>3, Zenon
    <2>3. x \in DeliveryRecords
      BY <1>1, <1>3, <1>5, <2>1, A2AAssumption DEF DeliveryRecords
    <2>4. OncePerAttempt(x)
      BY <1>1, <1>2, <1>3, <1>5, <2>1 DEF OncePerAttempt, DeliveryRecords
    <2>5. DeliveryGoes(d, x)
      BY <1>5, <2>2 DEF Rescheduled
    <2> QED
      BY <1>3, <2>1, <2>3, <2>4, <2>5, DeliveryGoesOn
  <1> QED
    BY <1>4, <1>5

LEMMA PostsKeepA2A ==
  ASSUME A2AInv, NEW d \in Deliveries, PostAnswered(d) \/ PostThrows(d)
  PROVE  A2AInv'
  <1>1. delivery[d] \in DeliveryRecords /\ OncePerAttempt(delivery[d]) /\ delivery[d].stage = "post"
    BY A2ATypes DEF A2AInv, PostAnswered, PostThrows
  <1>2. /\ Posted(d) = PostTaken(d, 0) /\ Posted(d).taken = 0 /\ Posted(d).attempt = delivery[d].attempt
        /\ delivery[d].attempt \in Nat
    <2>1. delivery[d].taken = 0 /\ delivery[d].attempt \in Nat /\ delivery[d].posts \in Nat
      BY <1>1, A2AAssumption DEF DeliveryRecords, OncePerAttempt
    <2>2. PICK old \in DeliveryRecords : old = delivery[d]
      BY <1>1
    <2>3. PICK x : x = [old EXCEPT !.posts = @ + 1]
      OBVIOUS
    <2>4. x = [event |-> old.event, stage |-> old.stage, attempt |-> old.attempt, posts |-> old.posts + 1,
               known |-> old.known, record |-> old.record, taken |-> old.taken]
      BY <2>3 DEF DeliveryRecords
    <2>5. Posted(d) = x
      BY <2>2, <2>3 DEF Posted
    <2>6. x = [x EXCEPT !.taken = 0]
      BY <2>1, <2>2, <2>4
    <2> QED
      BY <2>1, <2>2, <2>4, <2>5, <2>6 DEF PostTaken
  <1>3. CASE PostAnswered(d)
    <2>0. PICK y : y = Posted(d)
      OBVIOUS
    <2>1. PICK answer \in {"ok", "4xx", "5xx"} :
            \E noted \in Notes([y EXCEPT !.taken = IF answer = "ok" THEN @ + 1 ELSE @],
                               IF answer = "ok" THEN "delivered" ELSE "failed") :
               DeliveryGoes(d, Rescheduled(noted, TriesAgain(answer,
                  [y EXCEPT !.taken = IF answer = "ok" THEN @ + 1 ELSE @].attempt)))
      BY <1>3, <2>0, Zenon DEF PostAnswered
    <2>5. PICK x : x = [y EXCEPT !.taken = IF answer = "ok" THEN @ + 1 ELSE @]
      OBVIOUS
    <2>2. x.attempt = delivery[d].attempt /\ x = PostTaken(d, IF answer = "ok" THEN 1 ELSE 0)
      <3>1. y = [event |-> y.event, stage |-> y.stage, attempt |-> y.attempt, posts |-> y.posts,
                 known |-> y.known, record |-> y.record, taken |-> y.taken]
        BY <1>1, <2>0 DEF Posted, DeliveryRecords
      <3>2. PostTaken(d, IF answer = "ok" THEN 1 ELSE 0) = [y EXCEPT !.taken = IF answer = "ok" THEN 1 ELSE 0]
        BY <2>0 DEF PostTaken
      <3> QED
        BY <1>2, <2>0, <2>5, <3>1, <3>2
    <2>3. CASE answer = "ok"
      <3>2. PICK noted \in Notes(PostTaken(d, 1), "delivered") :
              DeliveryGoes(d, Rescheduled(noted, TriesAgain(answer, delivery[d].attempt)))
        BY <2>1, <2>2, <2>3, <2>5
      <3>3. DeliveryGoes(d, Rescheduled(noted, FALSE))
        BY <2>3, <3>2 DEF TriesAgain, Rescheduled
      <3> QED
        BY <1>1, <3>2, <3>3, DeliveryIsPosted, Zenon
    <2>4. CASE answer # "ok"
      <3>2. PICK noted \in Notes(PostTaken(d, 0), "failed") :
              DeliveryGoes(d, Rescheduled(noted, TriesAgain(answer, delivery[d].attempt)))
        BY <2>1, <2>2, <2>4, <2>5
      <3>3. CASE TriesAgain(answer, delivery[d].attempt)
        <4>1. DeliveryGoes(d, Rescheduled(noted, TRUE)) /\ delivery[d].attempt < MaxRetries
          BY <3>2, <3>3 DEF TriesAgain, Rescheduled
        <4> QED
          BY <1>1, <3>2, <4>1, DeliveryIsPosted, Zenon
      <3>4. CASE ~TriesAgain(answer, delivery[d].attempt)
        <4>1. DeliveryGoes(d, Rescheduled(noted, FALSE))
          BY <3>2, <3>4 DEF Rescheduled
        <4> QED
          BY <1>1, <3>2, <4>1, DeliveryIsPosted, Zenon
      <3> QED
        BY <3>3, <3>4
    <2> QED
      BY <2>3, <2>4
  <1>4. CASE PostThrows(d)
    <2>1. PICK noted \in Notes(Posted(d), IF Posted(d).attempt >= MaxRetries THEN "failed" ELSE "retrying") :
            DeliveryGoes(d, Rescheduled(noted, Posted(d).attempt < MaxRetries))
      BY <1>4 DEF PostThrows
    <2>2. CASE delivery[d].attempt < MaxRetries
      <3>1. noted \in Notes(PostTaken(d, 0), "retrying") /\ DeliveryGoes(d, Rescheduled(noted, TRUE))
        BY <1>2, <2>1, <2>2, A2AAssumption DEF Rescheduled
      <3> QED
        BY <1>1, <1>2, <2>2, <3>1, DeliveryIsPosted, Zenon
    <2>3. CASE ~(delivery[d].attempt < MaxRetries)
      <3>1. noted \in Notes(PostTaken(d, 0), "failed") /\ DeliveryGoes(d, Rescheduled(noted, FALSE))
        BY <1>2, <2>1, <2>3, A2AAssumption DEF Rescheduled
      <3> QED
        BY <1>1, <1>2, <3>1, DeliveryIsPosted, Zenon
    <2> QED
      BY <2>2, <2>3
  <1> QED
    BY <1>3, <1>4

LEMMA HooksKeepA2A ==
  ASSUME A2AInv, HookNext
  PROVE  A2AInv'
  <1>1. \A d \in Deliveries : delivery[d] \in DeliveryRecords /\ OncePerAttempt(delivery[d]) /\ TellsWhatWas(delivery[d])
    BY A2ATypes DEF A2AInv
  <1>2. CASE CreateWebhook \/ DeleteWebhook
    <2>1. hook' \in {"active", "deleted"} /\ UNCHANGED <<peerJob, peerEscrow, peerRequest, winners, patches, delivery>>
      BY <1>2 DEF CreateWebhook, DeleteWebhook, HooksOnly
    <2>2. A2ATypeOK'
      BY <2>1, A2ATypes, TypesOfA2A DEF A2AInv
    <2> QED
      BY <2>1, <2>2 DEF A2AInv, PeerJobNeverLeads, OfAPeer, Verified, OncePerAttempt, TellsWhatWas
  <1>3. CASE ServerEnds
    <2>1. UNCHANGED <<peerJob, peerEscrow, peerRequest, winners, patches, hook>>
      BY <1>3 DEF ServerEnds, HooksOnly
    <2>2. \A d \in Deliveries : /\ delivery'[d] \in DeliveryRecords /\ delivery'[d].event = delivery[d].event
                                /\ OncePerAttempt(delivery'[d])
      <3>1. SUFFICES ASSUME NEW d \in Deliveries
                     PROVE  /\ delivery'[d] \in DeliveryRecords /\ delivery'[d].event = delivery[d].event
                            /\ OncePerAttempt(delivery'[d])
        OBVIOUS
      <3>2. PICK st \in {"none", "over"} : st = IF delivery[d].stage = "none" THEN "none" ELSE "over"
        OBVIOUS
      <3>3. delivery'[d] = [delivery[d] EXCEPT !.stage = st]
        BY <1>3, <3>2 DEF ServerEnds
      <3>4. delivery'[d] = [event |-> delivery[d].event, stage |-> st, attempt |-> delivery[d].attempt,
                            posts |-> delivery[d].posts, known |-> delivery[d].known,
                            record |-> delivery[d].record, taken |-> delivery[d].taken]
        BY <1>1, <3>3 DEF DeliveryRecords
      <3> QED
        BY <1>1, <3>2, <3>4 DEF DeliveryRecords, OncePerAttempt
    <2>3. delivery' \in [Deliveries -> DeliveryRecords]
      BY <1>3, <2>2 DEF ServerEnds
    <2>4. A2ATypeOK'
      BY <2>1, <2>3, A2ATypes, TypesOfA2A DEF A2AInv
    <2>5. \A d \in Deliveries : OncePerAttempt(delivery'[d]) /\ TellsWhatWas(delivery[d])'
      BY <1>1, <2>1, <2>2 DEF TellsWhatWas
    <2> QED
      BY <2>1, <2>4, <2>5 DEF A2AInv, PeerJobNeverLeads, OfAPeer, Verified, OncePerAttempt
  <1>4. ASSUME NEW d \in Deliveries, RecordDelivery(d) PROVE A2AInv'
    <2>1. PICK written \in {"none", "pending"}, knows \in BOOLEAN :
            DeliveryGoes(d, [delivery[d] EXCEPT !.stage = "post", !.known = knows, !.record = written])
      BY <1>4 DEF RecordDelivery
    <2>2. PICK x : x = [delivery[d] EXCEPT !.stage = "post", !.known = knows, !.record = written]
      OBVIOUS
    <2>3. x = [event |-> delivery[d].event, stage |-> "post", attempt |-> delivery[d].attempt,
               posts |-> delivery[d].posts, known |-> knows, record |-> written, taken |-> delivery[d].taken]
      BY <1>1, <2>2 DEF DeliveryRecords
    <2>4. x \in DeliveryRecords /\ x.event = delivery[d].event
      BY <1>1, <2>3 DEF DeliveryRecords
    <2>5. OncePerAttempt(x)
      BY <1>1, <1>4, <2>3 DEF OncePerAttempt, RecordDelivery, DeliveryRecords
    <2> QED
      BY <2>1, <2>2, <2>4, <2>5, DeliveryGoesOn
  <1>5. ASSUME NEW d \in Deliveries, TimerFires(d) PROVE A2AInv'
    <2>1. PICK x : x = [delivery[d] EXCEPT !.stage = "post"]
      OBVIOUS
    <2>2. x = [event |-> delivery[d].event, stage |-> "post", attempt |-> delivery[d].attempt,
               posts |-> delivery[d].posts, known |-> delivery[d].known, record |-> delivery[d].record,
               taken |-> delivery[d].taken]
      BY <1>1, <2>1 DEF DeliveryRecords
    <2>3. x \in DeliveryRecords /\ x.event = delivery[d].event /\ OncePerAttempt(x)
      BY <1>1, <1>5, <2>2 DEF DeliveryRecords, OncePerAttempt, TimerFires
    <2> QED
      BY <1>5, <2>1, <2>3, DeliveryGoesOn DEF TimerFires
  <1> QED
    BY <1>2, <1>3, <1>4, <1>5, PostsKeepA2A DEF HookNext

LEMMA NextA2AInv == A2AInv /\ [A2ANext]_a2aVars => A2AInv'
  <1> SUFFICES ASSUME A2AInv, [A2ANext]_a2aVars PROVE A2AInv'
    OBVIOUS
  <1>1. CASE UNCHANGED a2aVars
    BY <1>1 DEF a2aVars, hookVars, A2AInv, A2ATypeOK, PeerJobNeverLeads, OfAPeer, Verified, OncePerAttempt, TellsWhatWas
  <1>2. CASE A2ANext
    BY <1>2, OutsideKeepsA2A, HooksKeepA2A, WritesKeepA2A, ReadsKeepA2A DEF A2ANext
  <1> QED
    BY <1>1, <1>2

LEMMA A2AInvGives == A2AInv => A2ATypeOK /\ PeerJobNeverLeads /\ HooksTellTheTruth
  <1> SUFFICES ASSUME A2AInv, NEW d \in Deliveries
               PROVE  LET x == delivery[d] IN
                      /\ x.taken <= 1 /\ (x.taken = 1 => x.stage = "over")
                      /\ x.posts <= MaxRetries
                      /\ x.record = "delivered" => x.taken = 1
                      /\ x.event = "job.claimed" => winners # {}
                      /\ x.event = "job.submitted" => peerJob.claimedBy # NoPeer
    BY DEF A2AInv, HooksTellTheTruth
  <1>1. delivery[d] \in DeliveryRecords /\ OncePerAttempt(delivery[d]) /\ TellsWhatWas(delivery[d])
    BY A2ATypes DEF A2AInv
  <1> QED
    BY <1>1, A2AAssumption DEF DeliveryRecords, OncePerAttempt, TellsWhatWas

-----------------------------------------------------------------------------
(***************************************************************************)
(* Presence: the pill, the strip and the agent's page.                     *)
(***************************************************************************)
WordRecords == [by : Beings \cup {NoBeing}, of : Beings, status : PresenceStates, at : 0 .. MaxClock]
EventWords  == [by : Beings \cup {NoBeing}, of : Beings, status : {"heartbeat", "error"}, at : 0 .. MaxClock]
BeatRecords == {NoBeat, BeatDone} \cup [stage : {"event"}, said : EventWords] \cup [stage : {"presence"}, said : WordRecords]
PresenceEntries == {NoPresence} \cup [status : PresenceStates, at : 0 .. MaxClock]
PillRecords == [of : Beings, flights : SUBSET Beings,
                health : [of : Beings \cup {NoBeing}, status : {"", "online", "offline", "unknown"}, at : 0 .. MaxClock]]
StripRecords == [theme : Themes, roster : SUBSET Beings, rows : SUBSET [of : Beings, row : PresenceEntries],
                 shown : SUBSET [of : Beings, at : 0 .. MaxClock], flights : SUBSET ({"roster", "live"} \X Themes)]
PageRecords == [of : Beings, loading : BOOLEAN, shown : Beings \cup {NoBeing}, error : BOOLEAN,
                loads : SUBSET (Beings \X BOOLEAN)]

PresenceTypes ==
    /\ clock \in 0 .. MaxClock /\ presence \in [Beings -> PresenceEntries] /\ told \subseteq WordRecords
    /\ liveEvents \subseteq Beings \X {"heartbeat", "error"} /\ beat \in [Beats -> BeatRecords]
    /\ pill \in PillRecords /\ strip \in StripRecords /\ page \in PageRecords

\* A row of the table is a word that was said of the agent, with its key or the operator's.
SaidOf(a, entry) == entry # NoPresence =>
    \E w \in HeardOf(a) : w.status = entry.status /\ w.at = entry.at

\* A word on its way has been let in: an event's, with the operator's token too.
LetIn(x) == /\ x.stage = "event" => x.said.by \in {x.said.of, NoBeing} /\ x.said.at <= clock
            /\ x.stage = "presence" => x.said \in told /\ x.said.by \in {x.said.of, NoBeing} /\ x.said.at <= clock

HeardInTime ==
    /\ pill.health.status = "online" =>
         \E w \in HeardOf(pill.health.of) : pill.health.at - w.at < OnlineFor
    /\ \A x \in strip.shown :
         \E w \in HeardOf(x.of) : w.status = "online" /\ x.at - w.at < FreshFor

\* The load of the page that is still wanted is of the agent it is open for.
LoadsItsAgent ==
    /\ \A l \in page.loads : l[2] = TRUE => l[1] = page.of
    /\ PageShowsItsAgent
    /\ IF page.loading THEN page.error = FALSE ELSE \A l \in page.loads : l[2] = FALSE

PresenceInv ==
    /\ PresenceTypes
    /\ \A a \in Beings : SaidOf(a, presence[a]) /\ (presence[a] # NoPresence => presence[a].at <= clock)
    /\ \A b \in Beats : LetIn(beat[b])
    /\ \A x \in strip.rows : SaidOf(x.of, x.row)
    /\ HeardInTime /\ LoadsItsAgent

LEMMA InitPresenceInv == PresenceInit => PresenceInv
  <1> SUFFICES ASSUME PresenceInit PROVE PresenceInv
    OBVIOUS
  <1>1. PresenceTypes
    <2>1. NoBeat \in BeatRecords /\ NoPresence \in PresenceEntries /\ 0 \in 0 .. MaxClock
      BY PresenceAssumption DEF BeatRecords, PresenceEntries
    <2>2. NoHealth \in [of : Beings \cup {NoBeing}, status : {"", "online", "offline", "unknown"}, at : 0 .. MaxClock]
      BY <2>1 DEF NoHealth
    <2>3. clock \in 0 .. MaxClock /\ presence \in [Beings -> PresenceEntries] /\ told \subseteq WordRecords
      BY <2>1 DEF PresenceInit
    <2>4. liveEvents \subseteq Beings \X {"heartbeat", "error"} /\ beat \in [Beats -> BeatRecords]
      BY <2>1 DEF PresenceInit
    <2>5. pill \in PillRecords
      <3>1. PICK a \in Beings : pill = [of |-> a, health |-> NoHealth, flights |-> {a}]
        BY DEF PresenceInit
      <3> QED
        BY <2>2, <3>1 DEF PillRecords
    <2>6. strip \in StripRecords
      BY DEF PresenceInit, StripRecords
    <2>7. page \in PageRecords
      <3>1. PICK a \in Beings : page = [of |-> a, loading |-> TRUE, shown |-> NoBeing, error |-> FALSE,
                                        loads |-> {<<a, TRUE>>}]
        BY DEF PresenceInit
      <3>2. {<<a, TRUE>>} \in SUBSET (Beings \X BOOLEAN)
        <4>1. PICK yes \in BOOLEAN : yes = TRUE
          OBVIOUS
        <4>2. {<<a, yes>>} \in SUBSET (Beings \X BOOLEAN)
          BY <3>1
        <4> QED
          BY <4>1, <4>2
      <3> QED
        BY <3>1, <3>2, Zenon DEF PageRecords
    <2> QED
      BY <2>3, <2>4, <2>5, <2>6, <2>7 DEF PresenceTypes
  <1>2. \A a \in Beings : presence[a] = NoPresence
    BY DEF PresenceInit
  <1>3. \A b \in Beats : LetIn(beat[b])
    BY DEF PresenceInit, NoBeat, LetIn
  <1>4. HeardInTime /\ \A x \in strip.rows : SaidOf(x.of, x.row)
    <2>1. PICK a \in Beings : pill = [of |-> a, health |-> NoHealth, flights |-> {a}]
      BY DEF PresenceInit
    <2>2. pill.health.status = ""
      BY <2>1 DEF NoHealth
    <2>3. strip.rows = {} /\ strip.shown = {}
      BY DEF PresenceInit
    <2> QED
      BY <2>2, <2>3 DEF HeardInTime
  <1>5. LoadsItsAgent
    <2>1. PICK a \in Beings : page = [of |-> a, loading |-> TRUE, shown |-> NoBeing, error |-> FALSE,
                                      loads |-> {<<a, TRUE>>}]
      BY DEF PresenceInit
    <2>2. page.of = a /\ page.loading /\ page.loads = {<<a, TRUE>>} /\ page.error = FALSE
      BY <2>1
    <2> QED
      BY <2>2 DEF LoadsItsAgent, PageShowsItsAgent
  <1> QED
    BY <1>1, <1>2, <1>3, <1>4, <1>5 DEF PresenceInv, SaidOf

\* More is said: what was said before still was.
LEMMA SaidStays ==
  ASSUME told \subseteq told', NEW a, NEW w, SaidOf(a, w)
  PROVE  SaidOf(a, w)'
  BY DEF SaidOf, HeardOf

LEMMA HeardStays ==
  ASSUME told \subseteq told', HeardInTime, UNCHANGED <<pill, strip>>
  PROVE  HeardInTime'
  <1>1. \A a : HeardOf(a) \subseteq HeardOf(a)'
    BY DEF HeardOf
  <1> QED
    BY <1>1 DEF HeardInTime

LEMMA BeatIsSet ==
  ASSUME PresenceTypes, NEW b \in Beats, NEW x \in BeatRecords, beat' = [beat EXCEPT ![b] = x]
  PROVE  beat' \in [Beats -> BeatRecords] /\ beat'[b] = x /\ \A o \in Beats : o # b => beat'[o] = beat[o]
  BY DEF PresenceTypes

LEMMA ServerKeepsPresence ==
  ASSUME PresenceInv, ServerNext
  PROVE  PresenceInv'
  <1>1. PresenceTypes /\ clock \in Nat
    BY PresenceAssumption DEF PresenceInv, PresenceTypes
  <1>2. UNCHANGED <<pill, strip, page>>
    BY DEF ServerNext, Tick, HeartbeatSent, EventSent, EventInserted, PresenceUpserted
  <1>3. LoadsItsAgent'
    BY <1>2 DEF PresenceInv, LoadsItsAgent, PageShowsItsAgent
  <1>4. ASSUME clock' \in 0 .. MaxClock, clock <= clock', told \subseteq told', told' \subseteq WordRecords,
               liveEvents' \subseteq Beings \X {"heartbeat", "error"}, beat' \in [Beats -> BeatRecords],
               presence' \in [Beings -> PresenceEntries],
               \A a \in Beings : SaidOf(a, presence[a])' /\ (presence'[a] # NoPresence => presence'[a].at <= clock'),
               \A b \in Beats : LetIn(beat[b])'
        PROVE  PresenceInv'
    <2>1. PresenceTypes'
      BY <1>1, <1>2, <1>4 DEF PresenceTypes
    <2>2. HeardInTime'
      BY <1>2, <1>4, HeardStays DEF PresenceInv
    <2>3. (\A x \in strip.rows : SaidOf(x.of, x.row))'
      BY <1>2, <1>4, SaidStays DEF PresenceInv
    <2> QED
      BY <1>3, <1>4, <2>1, <2>2, <2>3 DEF PresenceInv
  <1>5. \A a \in Beings : /\ SaidOf(a, presence[a]) /\ (presence[a] # NoPresence => presence[a].at <= clock)
                          /\ presence[a] \in PresenceEntries
    BY DEF PresenceInv, PresenceTypes
  <1>6. \A b \in Beats : LetIn(beat[b]) /\ beat[b] \in BeatRecords
    BY DEF PresenceInv, PresenceTypes
  <1>7. \A b \in Beats : beat[b].stage = "event" => beat[b].said \in EventWords
    BY <1>6 DEF BeatRecords, NoBeat, BeatDone
  <1>8. \A b \in Beats : beat[b].stage = "presence" => beat[b].said \in WordRecords
    BY <1>6 DEF BeatRecords, NoBeat, BeatDone
  <1>9. CASE Tick
    <2>1. clock' = clock + 1 /\ clock' \in 0 .. MaxClock /\ UNCHANGED <<presence, told, liveEvents, beat>>
      BY <1>1, <1>9, PresenceAssumption DEF Tick
    <2>2. \A b \in Beats : LetIn(beat[b])'
      <3> SUFFICES ASSUME NEW b \in Beats PROVE LetIn(beat[b])'
        OBVIOUS
      <3>1. beat[b].stage = "event" => beat[b].said.at \in Nat
        BY <1>7 DEF EventWords
      <3>2. beat[b].stage = "presence" => beat[b].said.at \in Nat
        BY <1>8 DEF WordRecords
      <3> QED
        BY <1>1, <1>6, <2>1, <3>1, <3>2 DEF LetIn
    <2>3. \A a \in Beings : SaidOf(a, presence[a])'
      BY <1>5, <2>1, SaidStays
    <2>4. \A a \in Beings : presence'[a] # NoPresence => presence'[a].at <= clock'
      BY <1>1, <1>5, <2>1, PresenceAssumption DEF PresenceEntries
    <2> QED
      BY <1>1, <1>4, <2>1, <2>2, <2>3, <2>4 DEF PresenceTypes
  <1>10. ASSUME NEW b \in Beats, NEW x \in BeatRecords, beat' = [beat EXCEPT ![b] = x],
                clock' = clock, told \subseteq told', LetIn(x)'
         PROVE  beat' \in [Beats -> BeatRecords] /\ \A o \in Beats : LetIn(beat[o])'
    <2>1. beat' \in [Beats -> BeatRecords] /\ beat'[b] = x /\ \A o \in Beats : o # b => beat'[o] = beat[o]
      BY <1>1, <1>10, BeatIsSet
    <2>2. \A o \in Beats : LetIn(beat[o]) => LetIn(beat[o]) /\ (beat'[o] = beat[o] => LetIn(beat[o])')
      BY <1>10 DEF LetIn
    <2>3. LetIn(beat[b])'
      BY <1>10, <2>1 DEF LetIn
    <2> QED
      BY <1>6, <2>1, <2>2, <2>3
  <1>11. ASSUME NEW b \in Beats, NEW key \in Beings, NEW of \in Beings, NEW status \in PresenceStates,
                HeartbeatSent(b, key, of, status)
         PROVE  PresenceInv'
    <2>1. PICK w : w = Telling(key, of, status)
      OBVIOUS
    <2>2. w = [by |-> of, of |-> of, status |-> status, at |-> clock] /\ w \in WordRecords
      BY <1>1, <1>11, <2>1 DEF Telling, HeartbeatSent, KeyFits, WordRecords, PresenceTypes
    <2>3. /\ beat' = [beat EXCEPT ![b] = [stage |-> "presence", said |-> w]] /\ told' = told \cup {w}
          /\ UNCHANGED <<clock, presence, liveEvents>>
      BY <1>11, <2>1 DEF HeartbeatSent, Sent
    <2>4. PICK x : x = [stage |-> "presence", said |-> w]
      OBVIOUS
    <2>5. x \in BeatRecords /\ x.stage = "presence" /\ x.said = w
      BY <2>2, <2>4 DEF BeatRecords
    <2>6. LetIn(x)'
      BY <1>1, <2>2, <2>3, <2>5 DEF LetIn
    <2>7. beat' \in [Beats -> BeatRecords] /\ \A o \in Beats : LetIn(beat[o])'
      BY <1>10, <2>3, <2>4, <2>5, <2>6
    <2>8. \A a \in Beings : SaidOf(a, presence[a])'
      BY <1>5, <2>3, SaidStays
    <2> QED
      BY <1>1, <1>4, <1>5, <2>2, <2>3, <2>7, <2>8 DEF PresenceTypes
  <1>12. ASSUME NEW b \in Beats, NEW key \in Beings \cup {NoBeing}, NEW of \in Beings,
                NEW type \in {"heartbeat", "error"}, EventSent(b, key, of, type)
         PROVE  PresenceInv'
    <2>1. PICK w : w = Telling(key, of, type)
      OBVIOUS
    <2>2. w = [by |-> key, of |-> of, status |-> type, at |-> clock] /\ w \in EventWords /\ key \in {of, NoBeing}
      BY <1>1, <1>12, <2>1 DEF Telling, EventSent, KeyFits, EventWords, PresenceTypes
    <2>3. /\ beat' = [beat EXCEPT ![b] = [stage |-> "event", said |-> w]]
          /\ UNCHANGED <<clock, presence, liveEvents, told>>
      BY <1>12, <2>1 DEF EventSent, Sent
    <2>4. PICK x : x = [stage |-> "event", said |-> w]
      OBVIOUS
    <2>5. x \in BeatRecords /\ x.stage = "event" /\ x.said = w
      BY <2>2, <2>4 DEF BeatRecords
    <2>6. LetIn(x)'
      BY <1>1, <2>2, <2>3, <2>5 DEF LetIn
    <2>7. beat' \in [Beats -> BeatRecords] /\ \A o \in Beats : LetIn(beat[o])'
      BY <1>10, <2>3, <2>4, <2>5, <2>6
    <2>8. \A a \in Beings : SaidOf(a, presence[a])'
      BY <1>5, <2>3, SaidStays
    <2> QED
      BY <1>1, <1>4, <1>5, <2>2, <2>3, <2>7, <2>8 DEF PresenceTypes
  <1>13. BeatDone \in BeatRecords /\ LetIn(BeatDone)'
    BY DEF BeatDone, BeatRecords, LetIn
  <1>14. ASSUME NEW b \in Beats, EventInserted(b) PROVE PresenceInv'
    <2>1. PICK e : e = beat[b].said
      OBVIOUS
    <2>2. e \in EventWords /\ e.by \in {e.of, NoBeing} /\ e.at <= clock
      BY <1>6, <1>7, <1>14, <2>1 DEF LetIn, EventInserted
    <2>3. PICK w : w = Telling(e.by, e.of, IF e.status = "error" THEN "error" ELSE "online")
      OBVIOUS
    <2>4. /\ w = [by |-> e.by, of |-> e.of, status |-> IF e.status = "error" THEN "error" ELSE "online", at |-> clock]
          /\ w \in WordRecords
      BY <1>1, <2>2, <2>3 DEF Telling, WordRecords, EventWords, PresenceStates, PresenceTypes
    <2>5. /\ UNCHANGED <<clock, presence>>
          /\ \/ /\ beat' = [beat EXCEPT ![b] = [stage |-> "presence", said |-> w]]
                /\ liveEvents' = liveEvents \cup {<<e.of, e.status>>} /\ told' = told \cup {w}
             \/ beat' = [beat EXCEPT ![b] = BeatDone] /\ UNCHANGED <<liveEvents, told>>
      BY <1>14, <2>1, <2>3 DEF EventInserted
    <2>6. CASE beat' = [beat EXCEPT ![b] = BeatDone] /\ UNCHANGED <<liveEvents, told>>
      <3>1. beat' \in [Beats -> BeatRecords] /\ \A o \in Beats : LetIn(beat[o])'
        BY <1>10, <1>13, <2>5, <2>6
      <3>2. \A a \in Beings : SaidOf(a, presence[a])'
        BY <1>5, <2>5, <2>6, SaidStays
      <3> QED
        BY <1>1, <1>4, <1>5, <2>5, <2>6, <3>1, <3>2 DEF PresenceTypes
    <2>7. CASE /\ beat' = [beat EXCEPT ![b] = [stage |-> "presence", said |-> w]]
               /\ liveEvents' = liveEvents \cup {<<e.of, e.status>>} /\ told' = told \cup {w}
      <3>1. PICK x : x = [stage |-> "presence", said |-> w]
        OBVIOUS
      <3>2. x \in BeatRecords /\ x.stage = "presence" /\ x.said = w
        BY <2>4, <3>1 DEF BeatRecords
      <3>3. LetIn(x)'
        BY <1>1, <2>2, <2>4, <2>5, <2>7, <3>2 DEF LetIn
      <3>4. beat' \in [Beats -> BeatRecords] /\ \A o \in Beats : LetIn(beat[o])'
        BY <1>10, <2>5, <2>7, <3>1, <3>2, <3>3
      <3>5. \A a \in Beings : SaidOf(a, presence[a])'
        BY <1>5, <2>5, <2>7, SaidStays
      <3>6. liveEvents' \subseteq Beings \X {"heartbeat", "error"}
        BY <1>1, <2>2, <2>7 DEF PresenceTypes, EventWords
      <3> QED
        BY <1>1, <1>4, <1>5, <2>4, <2>5, <2>7, <3>4, <3>5, <3>6 DEF PresenceTypes
    <2> QED
      BY <2>5, <2>6, <2>7
  <1>15. ASSUME NEW b \in Beats, PresenceUpserted(b) PROVE PresenceInv'
    <2>1. PICK w : w = beat[b].said
      OBVIOUS
    <2>2. w \in WordRecords /\ w.by \in {w.of, NoBeing} /\ w.at <= clock /\ w \in told
      BY <1>6, <1>8, <1>15, <2>1 DEF LetIn, PresenceUpserted
    <2>3. beat' = [beat EXCEPT ![b] = BeatDone] /\ UNCHANGED <<clock, told, liveEvents>>
      BY <1>15 DEF PresenceUpserted
    <2>4. beat' \in [Beats -> BeatRecords] /\ \A o \in Beats : LetIn(beat[o])'
      BY <1>10, <1>13, <2>3
    <2>5. CASE UNCHANGED presence
      <3>1. \A a \in Beings : SaidOf(a, presence[a])'
        BY <1>5, <2>3, <2>5, SaidStays
      <3> QED
        BY <1>1, <1>4, <1>5, <2>3, <2>4, <2>5, <3>1 DEF PresenceTypes
    <2>6. CASE presence' = [presence EXCEPT ![w.of] = [status |-> w.status, at |-> w.at]]
      <3>1. PICK p : p = [status |-> w.status, at |-> w.at]
        OBVIOUS
      <3>2. p \in PresenceEntries /\ p.at <= clock /\ w.of \in Beings
        BY <2>2, <3>1 DEF PresenceEntries, WordRecords
      <3>3. /\ presence' \in [Beings -> PresenceEntries] /\ presence'[w.of] = p
            /\ \A a \in Beings : a # w.of => presence'[a] = presence[a]
        BY <1>1, <2>6, <3>1, <3>2 DEF PresenceTypes
      <3>4. SaidOf(w.of, p)'
        BY <2>2, <2>3, <3>1 DEF SaidOf, HeardOf
      <3>5. \A a \in Beings : SaidOf(a, presence[a])'
        BY <1>5, <2>3, <3>3, <3>4, SaidStays
      <3> QED
        BY <1>1, <1>4, <1>5, <2>3, <2>4, <3>2, <3>3, <3>5 DEF PresenceTypes
    <2> QED
      BY <1>15, <2>1, <2>5, <2>6 DEF PresenceUpserted
  <1> QED
    BY <1>9, <1>11, <1>12, <1>14, <1>15 DEF ServerNext

\* A component that shows: the words, and the rest of what is on screen, stay.
LEMMA ServerRests ==
  ASSUME PresenceInv, UNCHANGED serverVars
  PROVE  /\ UNCHANGED <<clock, presence, told, liveEvents, beat>>
         /\ \A a \in Beings : SaidOf(a, presence[a])' /\ (presence'[a] # NoPresence => presence'[a].at <= clock')
         /\ \A b \in Beats : LetIn(beat[b])'
         /\ \A a : HeardOf(a)' = HeardOf(a)
         /\ \A a, x : SaidOf(a, x) => SaidOf(a, x)'
  BY DEF serverVars, PresenceInv, SaidOf, LetIn, HeardOf

\* What a health answered "online" says.
LEMMA OnlineWasHeard ==
  ASSUME PresenceInv, NEW a \in Beings
  PROVE  /\ HealthOf(a) = [of |-> a, status |-> DerivedStatus(presence[a]), at |-> clock]
         /\ HealthOf(a) \in [of : Beings \cup {NoBeing}, status : {"", "online", "offline", "unknown"}, at : 0 .. MaxClock]
         /\ HealthOf(a).status = "online" => \E w \in HeardOf(a) : clock - w.at < OnlineFor
         /\ Unknown(a) \in [of : Beings \cup {NoBeing}, status : {"", "online", "offline", "unknown"}, at : 0 .. MaxClock]
         /\ Unknown(a).status = "unknown"
  <1>1. clock \in 0 .. MaxClock /\ SaidOf(a, presence[a])
    BY DEF PresenceInv, PresenceTypes
  <1>2. DerivedStatus(presence[a]) \in {"online", "offline"}
    BY DEF DerivedStatus
  <1>3. DerivedStatus(presence[a]) = "online" => presence[a] # NoPresence /\ clock - presence[a].at < OnlineFor
    BY DEF DerivedStatus
  <1> QED
    BY <1>1, <1>2, <1>3 DEF HealthOf, Unknown, SaidOf

LEMMA PillKeepsPresence ==
  ASSUME PresenceInv, PillNext
  PROVE  PresenceInv'
  <1>1. UNCHANGED serverVars /\ UNCHANGED <<strip, page>>
    BY DEF PillNext, PillPolls, PillMoves, PillAnswered
  <1>2. PresenceTypes
    BY DEF PresenceInv
  <1>3. ASSUME pill' \in PillRecords,
               pill'.health.status = "online" =>
                 \E w \in HeardOf(pill'.health.of) : pill'.health.at - w.at < OnlineFor
        PROVE  PresenceInv'
    <2>1. HeardInTime'
      BY <1>1, <1>3, ServerRests DEF PresenceInv, HeardInTime
    <2>2. PresenceTypes'
      BY <1>1, <1>2, <1>3, ServerRests DEF PresenceTypes
    <2>3. (\A x \in strip.rows : SaidOf(x.of, x.row))'
      BY <1>1, ServerRests DEF PresenceInv
    <2>4. LoadsItsAgent'
      BY <1>1 DEF PresenceInv, LoadsItsAgent, PageShowsItsAgent
    <2> QED
      BY <1>1, <2>1, <2>2, <2>3, <2>4, ServerRests DEF PresenceInv
  <1>4. ASSUME NEW of \in Beings, NEW flights \in SUBSET Beings, NEW health,
               health = pill.health \/ \E a \in Beings : health \in {HealthOf(a), Unknown(a)},
               pill' = [of |-> of, health |-> health, flights |-> flights]
        PROVE  PresenceInv'
    <2>1. CASE health = pill.health
      BY <1>2, <1>3, <1>4, <2>1 DEF PresenceTypes, PillRecords, PresenceInv, HeardInTime
    <2>2. ASSUME NEW a \in Beings, health \in {HealthOf(a), Unknown(a)} PROVE PresenceInv'
      <3>1. /\ health \in [of : Beings \cup {NoBeing}, status : {"", "online", "offline", "unknown"}, at : 0 .. MaxClock]
            /\ health.status = "online" =>
                 \E w \in HeardOf(health.of) : health.at - w.at < OnlineFor
        <4>1. /\ HealthOf(a).of = a /\ HealthOf(a).at = clock
              /\ HealthOf(a).status = "online" => \E w \in HeardOf(a) : clock - w.at < OnlineFor
          BY OnlineWasHeard DEF HealthOf
        <4>2. CASE health = HealthOf(a)
          BY <4>1, <4>2, OnlineWasHeard
        <4>3. CASE health = Unknown(a)
          BY <4>3, OnlineWasHeard
        <4> QED
          BY <2>2, <4>2, <4>3
      <3>2. pill' \in PillRecords /\ pill'.health = health
        BY <1>4, <3>1 DEF PillRecords
      <3> QED
        BY <1>3, <3>1, <3>2
    <2> QED
      BY <1>4, <2>1, <2>2
  <1>5. pill = [of |-> pill.of, health |-> pill.health, flights |-> pill.flights] /\ pill.of \in Beings
        /\ pill.flights \in SUBSET Beings
    BY <1>2 DEF PresenceTypes, PillRecords
  <1>6. CASE PillPolls
    <2>1. pill' = [of |-> pill.of, health |-> pill.health, flights |-> pill.flights \cup {pill.of}]
      BY <1>2, <1>6 DEF PillPolls, PresenceTypes, PillRecords
    <2> QED
      BY <1>4, <1>5, <2>1
  <1>7. ASSUME NEW a \in Beings, PillMoves(a) PROVE PresenceInv'
    <2>1. pill' = [of |-> a, health |-> pill.health, flights |-> pill.flights \cup {a}]
      BY <1>2, <1>7 DEF PillMoves, PresenceTypes, PillRecords
    <2> QED
      BY <1>4, <1>5, <2>1
  <1>8. ASSUME NEW a \in Beings, PillAnswered(a) PROVE PresenceInv'
    <2>1. PICK health : /\ health = pill.health \/ \E o \in Beings : health \in {HealthOf(o), Unknown(o)}
                        /\ pill' = [pill EXCEPT !.flights = @ \ {a}, !.health = health]
      <3>1. CASE pill' = [pill EXCEPT !.flights = @ \ {a}, !.health = HealthOf(a)]
        BY <3>1
      <3>2. CASE pill' = [pill EXCEPT !.flights = @ \ {a}, !.health = Unknown(a)]
        BY <3>2
      <3>3. CASE pill' = [pill EXCEPT !.flights = @ \ {a}, !.health = IF @ = NoHealth THEN Unknown(pill.of) ELSE @]
        <4>1. PICK h : h = IF pill.health = NoHealth THEN Unknown(pill.of) ELSE pill.health
          OBVIOUS
        <4>2. pill' = [pill EXCEPT !.flights = @ \ {a}, !.health = h]
          BY <1>2, <3>3, <4>1 DEF PresenceTypes, PillRecords
        <4> QED
          BY <1>5, <4>1, <4>2
      <3> QED
        BY <1>8, <3>1, <3>2, <3>3 DEF PillAnswered
    <2>2. pill' = [of |-> pill.of, health |-> health, flights |-> pill.flights \ {a}]
      BY <1>2, <2>1 DEF PresenceTypes, PillRecords
    <2> QED
      BY <1>4, <1>5, <2>1, <2>2
  <1> QED
    BY <1>6, <1>7, <1>8 DEF PillNext

LEMMA PageKeepsPresence ==
  ASSUME PresenceInv, PageNext
  PROVE  PresenceInv'
  <1>1. UNCHANGED serverVars /\ UNCHANGED <<strip, pill>>
    BY DEF PageNext, PageMoves, PageLoaded
  <1>2. PresenceTypes /\ page \in PageRecords /\ LoadsItsAgent
    BY DEF PresenceInv, PresenceTypes
  <1>3. ASSUME page' \in PageRecords, LoadsItsAgent' PROVE PresenceInv'
    <2>1. HeardInTime'
      BY <1>1, ServerRests DEF PresenceInv, HeardInTime
    <2>2. PresenceTypes'
      BY <1>1, <1>2, <1>3, ServerRests DEF PresenceTypes
    <2>3. (\A x \in strip.rows : SaidOf(x.of, x.row))'
      BY <1>1, ServerRests DEF PresenceInv
    <2> QED
      BY <1>1, <1>3, <2>1, <2>2, <2>3, ServerRests DEF PresenceInv
  <1>4. ASSUME NEW a \in Beings, PageMoves(a) PROVE PresenceInv'
    <2>1. PICK loads : loads = {<<l[1], FALSE>> : l \in page.loads} \cup {<<a, TRUE>>}
      OBVIOUS
    <2>2. loads \in SUBSET (Beings \X BOOLEAN) /\ \A l \in loads : l[2] = TRUE => l[1] = a
      <3>1. PICK no \in BOOLEAN : no = FALSE
        OBVIOUS
      <3>2. PICK yes \in BOOLEAN : yes = TRUE
        OBVIOUS
      <3>3. loads = {<<l[1], no>> : l \in page.loads} \cup {<<a, yes>>} /\ yes # no
        BY <2>1, <3>1, <3>2
      <3>4. page.loads \subseteq Beings \X BOOLEAN
        BY <1>2 DEF PageRecords
      <3>5. \A l \in loads : l = <<a, yes>> \/ \E k \in page.loads : l = <<k[1], no>>
        BY <3>3
      <3>6. \A l \in loads : l \in Beings \X BOOLEAN /\ (l[2] = yes => l[1] = a)
        BY <3>3, <3>4, <3>5
      <3> QED
        BY <3>2, <3>6
    <2>3. page'.of = a /\ page'.loading = TRUE /\ page'.loads = loads /\ page'.error = FALSE /\ page' \in PageRecords
      <3>1. PICK yes \in BOOLEAN, no \in BOOLEAN : yes = TRUE /\ no = FALSE
        OBVIOUS
      <3>2. page' = [page EXCEPT !.of = a, !.loading = yes, !.error = no, !.loads = loads]
        BY <1>4, <2>1, <3>1 DEF PageMoves
      <3>3. page' = [of |-> a, loading |-> yes, shown |-> page.shown, error |-> no, loads |-> loads]
        BY <1>2, <3>2 DEF PageRecords
      <3> QED
        BY <1>2, <2>2, <3>1, <3>3 DEF PageRecords
    <2>4. LoadsItsAgent'
      BY <2>2, <2>3 DEF LoadsItsAgent, PageShowsItsAgent
    <2> QED
      BY <1>3, <2>3, <2>4
  <1>5. ASSUME NEW a \in Beings, NEW wanted \in BOOLEAN, PageLoaded(a, wanted) PROVE PresenceInv'
    <2>1. <<a, wanted>> \in page.loads
      BY <1>5 DEF PageLoaded
    <2>2. PICK p : p = [page EXCEPT !.loads = @ \ {<<a, wanted>>}]
      OBVIOUS
    <2>3. p = [of |-> page.of, loading |-> page.loading, shown |-> page.shown, error |-> page.error,
               loads |-> page.loads \ {<<a, wanted>>}]
      BY <1>2, <2>2 DEF PageRecords
    <2>4. p \in PageRecords
      BY <1>2, <2>3 DEF PageRecords
    <2>5. page' = Displayed(p, wanted, a) \/ page' = Emptied(p, wanted)
      BY <1>5, <2>2 DEF PageLoaded
    <2>6. CASE ~wanted
      <3>1. page' = p
        BY <2>5, <2>6 DEF Displayed, Emptied
      <3>2. page' \in PageRecords /\ page'.of = page.of /\ page'.shown = page.shown /\ page'.loads \subseteq page.loads
        BY <2>3, <2>4, <3>1
      <3>3. page'.loading = page.loading /\ page'.error = page.error
        BY <2>3, <3>1
      <3> QED
        BY <1>2, <1>3, <3>2, <3>3 DEF LoadsItsAgent, PageShowsItsAgent
    <2>7. CASE wanted
      <3>1. a = page.of /\ \A l \in p.loads : l[2] = FALSE
        <4>1. wanted = TRUE
          BY <2>7
        <4>2. a = page.of
          BY <1>2, <2>1, <4>1 DEF LoadsItsAgent
        <4>3. \A l \in p.loads : l \in page.loads /\ l # <<a, TRUE>>
          BY <2>3, <4>1
        <4>4. \A l \in page.loads : l = <<l[1], l[2]>> /\ l[2] \in BOOLEAN
          BY <1>2 DEF PageRecords
        <4> QED
          BY <1>2, <4>2, <4>3, <4>4 DEF LoadsItsAgent
      <3>2. PICK no \in BOOLEAN, yes \in BOOLEAN : no = FALSE /\ yes = TRUE
        OBVIOUS
      <3>3. CASE page' = Displayed(p, wanted, a)
        <4>1. page' = [p EXCEPT !.shown = a, !.loading = no]
          BY <2>7, <3>2, <3>3 DEF Displayed
        <4>2. page' = [of |-> page.of, loading |-> no, shown |-> a, error |-> page.error, loads |-> p.loads]
          BY <2>3, <2>4, <4>1 DEF PageRecords
        <4>3. page' \in PageRecords /\ page'.of = page.of /\ page'.loading = FALSE /\ page'.shown = a /\ page'.loads = p.loads
          BY <1>2, <1>5, <2>4, <3>2, <4>2 DEF PageRecords
        <4>4. page'.error = FALSE
          BY <1>2, <2>1, <2>7, <4>2 DEF LoadsItsAgent
        <4> QED
          BY <1>3, <3>1, <4>3, <4>4 DEF LoadsItsAgent, PageShowsItsAgent
      <3>4. CASE page' = Emptied(p, wanted)
        <4>1. page' = [p EXCEPT !.shown = NoBeing, !.error = yes, !.loading = no]
          BY <2>7, <3>2, <3>4 DEF Emptied
        <4>2. page' = [of |-> page.of, loading |-> no, shown |-> NoBeing, error |-> yes, loads |-> p.loads]
          BY <2>3, <2>4, <4>1 DEF PageRecords
        <4>3. /\ page' \in PageRecords /\ page'.of = page.of /\ page'.loading = FALSE /\ page'.shown = NoBeing
              /\ page'.loads = p.loads /\ page'.error = TRUE
          BY <1>2, <1>5, <2>4, <3>2, <4>2 DEF PageRecords
        <4> QED
          BY <1>3, <3>1, <4>3 DEF LoadsItsAgent, PageShowsItsAgent
      <3> QED
        BY <2>5, <3>3, <3>4
    <2> QED
      BY <2>6, <2>7
  <1> QED
    BY <1>4, <1>5 DEF PageNext

LEMMA StripKeepsPresence ==
  ASSUME PresenceInv, StripNext
  PROVE  PresenceInv'
  <1>1. UNCHANGED serverVars /\ UNCHANGED <<pill, page>>
    BY DEF StripNext, StripPolls, StripMoves, StripAnswered
  <1>2. PresenceTypes /\ strip \in StripRecords /\ HeardInTime /\ clock \in 0 .. MaxClock
    BY DEF PresenceInv, PresenceTypes
  <1>3. ASSUME strip' \in StripRecords, \A x \in strip'.rows : SaidOf(x.of, x.row),
               \A x \in strip'.shown : \E w \in HeardOf(x.of) : w.status = "online" /\ x.at - w.at < FreshFor
        PROVE  PresenceInv'
    <2>1. HeardInTime'
      BY <1>1, <1>2, <1>3, ServerRests DEF HeardInTime
    <2>2. PresenceTypes'
      BY <1>1, <1>2, <1>3, ServerRests DEF PresenceTypes
    <2>3. (\A x \in strip.rows : SaidOf(x.of, x.row))'
      BY <1>1, <1>3, ServerRests
    <2>4. LoadsItsAgent'
      BY <1>1 DEF PresenceInv, LoadsItsAgent, PageShowsItsAgent
    <2> QED
      BY <1>1, <2>1, <2>2, <2>3, <2>4, ServerRests DEF PresenceInv
  <1>4. ASSUME strip' \in StripRecords, strip'.rows = strip.rows, strip'.shown = strip.shown PROVE PresenceInv'
    BY <1>2, <1>3, <1>4 DEF PresenceInv, HeardInTime
  <1>5. ASSUME NEW s \in StripRecords, \A x \in s.rows : SaidOf(x.of, x.row), strip' = Memo(s)
        PROVE  PresenceInv'
    <2>1. PICK shown : shown = {[of |-> a, at |-> clock] : a \in ActiveOf(s.roster, s.rows)}
      OBVIOUS
    <2>2. strip' = [theme |-> s.theme, roster |-> s.roster, rows |-> s.rows, shown |-> shown, flights |-> s.flights]
      BY <1>5, <2>1 DEF Memo, StripRecords
    <2>3. ActiveOf(s.roster, s.rows) \subseteq Beings
      BY DEF ActiveOf, StripRecords
    <2>4. shown \in SUBSET [of : Beings, at : 0 .. MaxClock]
      BY <1>2, <2>1, <2>3
    <2>5. strip' \in StripRecords
      BY <2>2, <2>4 DEF StripRecords
    <2>6. ASSUME NEW x \in shown PROVE \E w \in HeardOf(x.of) : w.status = "online" /\ x.at - w.at < FreshFor
      <3>1. PICK a \in ActiveOf(s.roster, s.rows) : x = [of |-> a, at |-> clock]
        BY <2>1, <2>6
      <3>2. PICK y \in s.rows : y.of = a /\ FreshRow(y.row)
        BY <3>1 DEF ActiveOf
      <3>3. y.row.status = "online" /\ clock - y.row.at < FreshFor
        BY <3>2 DEF FreshRow
      <3>4. PICK w \in HeardOf(a) : w.status = y.row.status /\ w.at = y.row.at
        BY <1>5, <3>2, <3>3 DEF SaidOf, NoPresence
      <3> QED
        BY <3>1, <3>3, <3>4
    <2> QED
      BY <1>3, <1>5, <2>2, <2>5, <2>6
  <1>6. ASSUME NEW what \in {"roster", "live"}, StripPolls(what) PROVE PresenceInv'
    <2>1. strip' = [theme |-> strip.theme, roster |-> strip.roster, rows |-> strip.rows, shown |-> strip.shown,
                    flights |-> strip.flights \cup {<<what, strip.theme>>}]
      BY <1>2, <1>6 DEF StripPolls, StripRecords
    <2>2. strip' \in StripRecords
      BY <1>2, <2>1 DEF StripRecords
    <2> QED
      BY <1>4, <2>1, <2>2
  <1>7. ASSUME NEW t \in Themes, StripMoves(t) PROVE PresenceInv'
    <2>1. strip' = [theme |-> t, roster |-> strip.roster, rows |-> strip.rows, shown |-> strip.shown,
                    flights |-> strip.flights \cup {<<"roster", t>>, <<"live", t>>}]
      BY <1>2, <1>7 DEF StripMoves, StripRecords
    <2>2. strip' \in StripRecords
      BY <1>2, <2>1 DEF StripRecords
    <2> QED
      BY <1>4, <2>1, <2>2
  <1>8. ASSUME NEW what \in {"roster", "live"}, NEW t \in Themes, StripAnswered(what, t) PROVE PresenceInv'
    <2>1. PICK landed : landed = [strip EXCEPT !.flights = @ \ {<<what, t>>}]
      OBVIOUS
    <2>2. landed = [theme |-> strip.theme, roster |-> strip.roster, rows |-> strip.rows, shown |-> strip.shown,
                    flights |-> strip.flights \ {<<what, t>>}]
      BY <1>2, <2>1 DEF StripRecords
    <2>3. landed \in StripRecords /\ OfTheme[t] \in SUBSET Beings
      BY <1>2, <2>2, PresenceAssumption DEF StripRecords
    <2>4. CASE strip' = landed
      BY <1>4, <2>2, <2>3, <2>4
    <2>5. PICK withRoster : withRoster = [landed EXCEPT !.roster = OfTheme[t]]
      OBVIOUS
    <2>6. withRoster \in StripRecords /\ withRoster.rows = strip.rows
      BY <2>2, <2>3, <2>5 DEF StripRecords
    <2>7. PICK withRows : withRows = [landed EXCEPT !.rows = PresenceRows(t)]
      OBVIOUS
    <2>8. \A x \in PresenceRows(t) : x \in [of : Beings, row : PresenceEntries] /\ SaidOf(x.of, x.row)
      BY <1>2, <2>3 DEF PresenceRows, PresenceTypes, PresenceInv
    <2>9. withRows \in StripRecords /\ withRows.rows = PresenceRows(t)
      BY <2>2, <2>3, <2>7, <2>8 DEF StripRecords
    <2>10. strip' = landed \/ strip' = Memo(withRoster) \/ strip' = Memo(withRows)
      BY <1>8, <2>1, <2>5, <2>7 DEF StripAnswered
    <2>11. \A x \in strip.rows : SaidOf(x.of, x.row)
      BY DEF PresenceInv
    <2> QED
      BY <1>5, <2>4, <2>6, <2>8, <2>9, <2>10, <2>11
  <1> QED
    BY <1>6, <1>7, <1>8 DEF StripNext

LEMMA NextPresenceInv == PresenceInv /\ [PresenceNext]_presenceVars => PresenceInv'
  <1> SUFFICES ASSUME PresenceInv, [PresenceNext]_presenceVars PROVE PresenceInv'
    OBVIOUS
  <1>1. CASE UNCHANGED presenceVars
    <2>1. UNCHANGED serverVars /\ UNCHANGED <<pill, strip, page>>
      BY <1>1 DEF presenceVars
    <2>2. PresenceTypes'
      BY <2>1, ServerRests DEF PresenceInv, PresenceTypes
    <2>3. HeardInTime' /\ (\A x \in strip.rows : SaidOf(x.of, x.row))'
      BY <2>1, ServerRests DEF PresenceInv, HeardInTime
    <2>4. LoadsItsAgent'
      BY <2>1 DEF PresenceInv, LoadsItsAgent, PageShowsItsAgent
    <2> QED
      BY <2>1, <2>2, <2>3, <2>4, ServerRests DEF PresenceInv
  <1> QED
    BY <1>1, ServerKeepsPresence, PillKeepsPresence, StripKeepsPresence, PageKeepsPresence DEF PresenceNext

LEMMA PresenceInvGives ==
  PresenceInv => PresenceTypeOK /\ PresenceIsItsOwn /\ AliveWasHeard /\ PageShowsItsAgent
  <1> SUFFICES ASSUME PresenceInv PROVE PresenceTypeOK /\ PresenceIsItsOwn /\ AliveWasHeard /\ PageShowsItsAgent
    OBVIOUS
  <1>1. PresenceTypeOK
    <2>1. \A a \in Beings : presence[a] \in PresenceEntries /\ (presence[a] # NoPresence => presence[a].at <= clock)
      BY DEF PresenceInv, PresenceTypes
    <2>2. \A a \in Beings : presence[a] = NoPresence \/ presence[a] \in [status : PresenceStates, at : 0 .. clock]
      <3> SUFFICES ASSUME NEW a \in Beings, presence[a] # NoPresence
                   PROVE  presence[a] \in [status : PresenceStates, at : 0 .. clock]
        OBVIOUS
      <3>1. PICK p \in [status : PresenceStates, at : 0 .. MaxClock] : p = presence[a]
        BY <2>1 DEF PresenceEntries
      <3>2. p.at <= clock /\ p.at \in Nat /\ clock \in Nat
        BY <2>1, <3>1, PresenceAssumption DEF PresenceInv, PresenceTypes
      <3> QED
        BY <3>1, <3>2
    <2> QED
      BY <2>2 DEF PresenceInv, PresenceTypes, PresenceTypeOK, PillRecords, StripRecords, PageRecords
  <1>2. PresenceIsItsOwn
    BY DEF PresenceInv, PresenceIsItsOwn, SaidOf
  <1> QED
    BY <1>1, <1>2 DEF PresenceInv, AliveWasHeard, HeardInTime, LoadsItsAgent

-----------------------------------------------------------------------------
(***************************************************************************)
(* Manifests, the registry and the lists of agents.                        *)
(***************************************************************************)
Owners == Signers \cup {NoSigner}
ManifestRecords == [controller : Owners, signer : Owners, afterMint : BOOLEAN]
PublicationRecords ==
    {NoRequest} \cup [stage : {"signed", "allowed"}, agent : Entities, signer : Signers,
                      how : {"manifest", "avatar"}, controller : Owners, afterMint : BOOLEAN]

ManifestTypes ==
    /\ tokenOwner \in [Entities -> Owners] /\ seenOwner \in [Entities -> Owners]
    /\ everOwned \in [Entities -> SUBSET Signers]
    /\ described \in [Entities -> ManifestRecords] /\ publication \in [Publications -> PublicationRecords]
    /\ directoryTroubles \in Nat

\* The owner, and the one the indexer saw, have owned the agent.
OwnersOwned ==
    \A a \in Entities : /\ tokenOwner[a] \in everOwned[a] \cup {NoSigner}
                        /\ seenOwner[a] \in everOwned[a] \cup {NoSigner}

\* The manifest names its signer, who has owned the agent if it had been minted and no lookup failed.
Owns(a, manifest) ==
    manifest.controller = manifest.signer
        /\ (directoryTroubles = 0 /\ manifest.afterMint => manifest.signer \in everOwned[a])

\* An agent once minted stays so; a request that was let through will store its owner's manifest.
RequestIsOwners(q) ==
    /\ q.stage \in {"signed", "allowed"} => (q.afterMint => tokenOwner[q.agent] # NoSigner)
    /\ q.stage = "allowed" => Owns(q.agent, q)

ManifestInv ==
    /\ ManifestTypes /\ OwnersOwned
    /\ \A a \in Entities : Owns(a, described[a])
    /\ \A p \in Publications : RequestIsOwners(publication[p])

LEMMA InitManifestInv == DirectoryInit => ManifestInv
  <1> SUFFICES ASSUME DirectoryInit PROVE ManifestInv
    OBVIOUS
  <1>1. NoManifest = [controller |-> NoSigner, signer |-> NoSigner, afterMint |-> FALSE]
    BY DEF NoManifest
  <1>2. NoManifest \in ManifestRecords
    BY DEF NoManifest, ManifestRecords, Owners
  <1>3. ManifestTypes
    BY <1>2 DEF DirectoryInit, ManifestTypes, PublicationRecords, Owners
  <1>4. OwnersOwned
    BY DEF DirectoryInit, OwnersOwned
  <1>5. \A a \in Entities : Owns(a, described[a])
    BY <1>1 DEF DirectoryInit, Owns
  <1>6. \A p \in Publications : RequestIsOwners(publication[p])
    BY DEF DirectoryInit, RequestIsOwners, NoRequest
  <1> QED
    BY <1>3, <1>4, <1>5, <1>6 DEF ManifestInv

\* Owners are added, failures counted: what was true of a manifest stays so.
LEMMA OwnersStay ==
  ASSUME ManifestTypes, directoryTroubles' \in Nat, directoryTroubles' >= directoryTroubles,
         \A a \in Entities : /\ everOwned[a] \subseteq everOwned'[a]
                             /\ tokenOwner[a] # NoSigner => tokenOwner'[a] # NoSigner
  PROVE  /\ \A a \in Entities : \A m : Owns(a, m) => Owns(a, m)'
         /\ \A p \in Publications : RequestIsOwners(publication[p]) =>
               (publication'[p] = publication[p] => RequestIsOwners(publication[p])')
  <1>1. directoryTroubles' = 0 => directoryTroubles = 0
    BY DEF ManifestTypes
  <1>2. \A a \in Entities : \A m : Owns(a, m) => Owns(a, m)'
    BY <1>1 DEF Owns
  <1>3. ASSUME NEW p \in Publications, RequestIsOwners(publication[p]), publication'[p] = publication[p]
        PROVE  RequestIsOwners(publication[p])'
    <2>1. publication[p].stage \in {"signed", "allowed"} => publication[p].agent \in Entities
      BY DEF ManifestTypes, PublicationRecords, NoRequest
    <2> QED
      BY <1>1, <1>3, <2>1 DEF RequestIsOwners, Owns
  <1> QED
    BY <1>2, <1>3

LEMMA PublicationIsSet ==
  ASSUME ManifestTypes, NEW p \in Publications, NEW q \in PublicationRecords,
         publication' = [publication EXCEPT ![p] = q]
  PROVE  /\ publication' \in [Publications -> PublicationRecords] /\ publication'[p] = q
         /\ \A o \in Publications : o # p => publication'[o] = publication[o]
  BY DEF ManifestTypes

LEMMA ChainKeepsManifests ==
  ASSUME ManifestInv, \/ \E a \in Entities, w \in Signers : Owned(a, w)
                      \/ \E a \in Entities : IndexedNow(a)
  PROVE  ManifestInv'
  <1>1. ManifestTypes /\ OwnersOwned /\ NoSigner \notin Signers
    BY DirectoryAssumption DEF ManifestInv
  <1>2. UNCHANGED <<described, publication, directoryTroubles>>
    BY DEF Owned, IndexedNow
  <1>3. /\ tokenOwner' \in [Entities -> Owners] /\ seenOwner' \in [Entities -> Owners]
        /\ everOwned' \in [Entities -> SUBSET Signers] /\ OwnersOwned'
        /\ \A a \in Entities : /\ everOwned[a] \subseteq everOwned'[a]
                               /\ tokenOwner[a] # NoSigner => tokenOwner'[a] # NoSigner
    <2>1. ASSUME NEW a \in Entities, NEW w \in Signers, Owned(a, w) PROVE <1>3!:
      <3>1. /\ tokenOwner' = [tokenOwner EXCEPT ![a] = w] /\ seenOwner' = seenOwner
            /\ everOwned' = [everOwned EXCEPT ![a] = everOwned[a] \cup {w}]
        BY <2>1 DEF Owned
      <3>2. /\ tokenOwner' \in [Entities -> Owners] /\ everOwned' \in [Entities -> SUBSET Signers]
            /\ \A o \in Entities : /\ tokenOwner'[o] = IF o = a THEN w ELSE tokenOwner[o]
                                   /\ everOwned'[o] = IF o = a THEN everOwned[a] \cup {w} ELSE everOwned[o]
        BY <1>1, <3>1 DEF ManifestTypes, Owners
      <3> QED
        BY <1>1, <3>1, <3>2 DEF ManifestTypes, OwnersOwned
    <2>2. ASSUME NEW a \in Entities, IndexedNow(a) PROVE <1>3!:
      <3>1. /\ seenOwner' = [seenOwner EXCEPT ![a] = tokenOwner[a]]
            /\ UNCHANGED <<tokenOwner, everOwned>>
        BY <2>2 DEF IndexedNow
      <3> QED
        BY <1>1, <3>1 DEF ManifestTypes, OwnersOwned, Owners
    <2> QED
      BY <2>1, <2>2
  <1>4. ManifestTypes'
    BY <1>1, <1>2, <1>3 DEF ManifestTypes
  <1>5. directoryTroubles' \in Nat /\ directoryTroubles' >= directoryTroubles
    BY <1>1, <1>2 DEF ManifestTypes
  <1>6. \A a \in Entities : Owns(a, described[a])'
    BY <1>1, <1>2, <1>3, <1>5, OwnersStay DEF ManifestInv, Owns
  <1>7. \A p \in Publications : RequestIsOwners(publication[p])'
    BY <1>1, <1>2, <1>3, <1>5, OwnersStay DEF ManifestInv
  <1> QED
    BY <1>3, <1>4, <1>6, <1>7 DEF ManifestInv

\* The steps of a publication change no owner.
LEMMA PublicationGoesOn ==
  ASSUME ManifestInv, UNCHANGED <<tokenOwner, everOwned, seenOwner>>,
         directoryTroubles' \in Nat, directoryTroubles' >= directoryTroubles,
         NEW p \in Publications, NEW q \in PublicationRecords, publication' = [publication EXCEPT ![p] = q],
         RequestIsOwners(q)',
         described' \in [Entities -> ManifestRecords], \A a \in Entities : Owns(a, described[a])'
  PROVE  ManifestInv'
  <1>1. ManifestTypes /\ OwnersOwned
    BY DEF ManifestInv
  <1>2. /\ publication' \in [Publications -> PublicationRecords] /\ publication'[p] = q
        /\ \A o \in Publications : o # p => publication'[o] = publication[o]
    BY <1>1, PublicationIsSet
  <1>3. \A o \in Publications : RequestIsOwners(publication[o]) =>
               (publication'[o] = publication[o] => RequestIsOwners(publication[o])')
    BY <1>1, OwnersStay
  <1>4. RequestIsOwners(publication[p])'
    BY <1>2 DEF RequestIsOwners, Owns
  <1>5. \A o \in Publications : RequestIsOwners(publication[o])'
    BY <1>2, <1>3, <1>4 DEF ManifestInv
  <1>6. ManifestTypes' /\ OwnersOwned'
    BY <1>1, <1>2 DEF ManifestTypes, OwnersOwned
  <1> QED
    BY <1>5, <1>6 DEF ManifestInv

LEMMA ManifestRests ==
  ASSUME ManifestInv, UNCHANGED <<everOwned, described>>,
         directoryTroubles' \in Nat, directoryTroubles' >= directoryTroubles
  PROVE  described' \in [Entities -> ManifestRecords] /\ \A a \in Entities : Owns(a, described[a])'
  BY DEF ManifestInv, ManifestTypes, Owns

LEMMA PublishedKeeps ==
  ASSUME ManifestInv, NEW p \in Publications, NEW a \in Entities, NEW w \in Signers,
         NEW how \in {"manifest", "avatar"}, Published(p, a, w, how)
  PROVE  ManifestInv'
  <1>1. ManifestTypes
    BY DEF ManifestInv
  <1>2. PICK minted \in BOOLEAN : minted = (tokenOwner[a] # NoSigner)
    OBVIOUS
  <1>3. PICK q : q = [stage |-> "signed", agent |-> a, signer |-> w, how |-> how, controller |-> NoSigner,
                      afterMint |-> minted]
    OBVIOUS
  <1>4. q \in PublicationRecords
    BY <1>3 DEF PublicationRecords, Owners
  <1>5. publication' = [publication EXCEPT ![p] = q] /\ UNCHANGED <<tokenOwner, everOwned, seenOwner, described, directoryTroubles>>
    BY <1>2, <1>3 DEF Published
  <1>6. RequestIsOwners(q)'
    BY <1>2, <1>3, <1>5 DEF RequestIsOwners
  <1>7. directoryTroubles' \in Nat /\ directoryTroubles' >= directoryTroubles
    BY <1>1, <1>5 DEF ManifestTypes
  <1> QED
    BY <1>4, <1>5, <1>6, <1>7, ManifestRests, PublicationGoesOn

LEMMA JudgedKeeps ==
  ASSUME ManifestInv, NEW p \in Publications, Judged(p)
  PROVE  ManifestInv'
  <1>1. ManifestTypes /\ OwnersOwned /\ NoSigner \notin Signers
    BY DirectoryAssumption DEF ManifestInv
  <1>2. PICK q : q = publication[p]
    OBVIOUS
  <1>3. q \in PublicationRecords /\ q.stage = "signed" /\ RequestIsOwners(q)
    BY <1>1, <1>2 DEF ManifestInv, ManifestTypes, Judged
  <1>4. /\ q \in [stage : {"signed", "allowed"}, agent : Entities, signer : Signers,
                  how : {"manifest", "avatar"}, controller : Owners, afterMint : BOOLEAN]
        /\ q.afterMint => tokenOwner[q.agent] # NoSigner
    BY <1>3 DEF PublicationRecords, NoRequest, RequestIsOwners
  <1>5. PICK answer \in {tokenOwner[q.agent], NoSigner} :
          /\ LookedUp(p, q.agent, answer)
          /\ publication' = [publication EXCEPT ![p] =
                IF MayWrite(q.signer, answer, q.how)
                THEN [q EXCEPT !.stage = "allowed",
                               !.controller = IF answer = NoSigner THEN q.signer ELSE answer]
                ELSE NoRequest]
    BY <1>2 DEF Judged
  <1>6. UNCHANGED <<tokenOwner, everOwned, seenOwner, described>>
    BY DEF Judged
  <1>7. /\ directoryTroubles' \in Nat /\ directoryTroubles' >= directoryTroubles
        /\ directoryTroubles' = 0 => answer = tokenOwner[q.agent]
    BY <1>1, <1>5 DEF LookedUp, Trouble, ManifestTypes
  <1>8. described' \in [Entities -> ManifestRecords] /\ \A a \in Entities : Owns(a, described[a])'
    BY <1>6, <1>7, ManifestRests
  <1>9. CASE ~MayWrite(q.signer, answer, q.how)
    <2>1. NoRequest \in PublicationRecords /\ RequestIsOwners(NoRequest)'
      BY DEF PublicationRecords, NoRequest, RequestIsOwners
    <2>2. publication' = [publication EXCEPT ![p] = NoRequest]
      BY <1>5, <1>9
    <2> QED
      BY <1>6, <1>7, <1>8, <2>1, <2>2, PublicationGoesOn
  <1>10. CASE MayWrite(q.signer, answer, q.how)
    <2>1. PICK c : c = IF answer = NoSigner THEN q.signer ELSE answer
      OBVIOUS
    <2>2. c = q.signer
      BY <1>10, <2>1 DEF MayWrite
    <2>3. PICK x : x = [q EXCEPT !.stage = "allowed", !.controller = c]
      OBVIOUS
    <2>4. x = [stage |-> "allowed", agent |-> q.agent, signer |-> q.signer, how |-> q.how, controller |-> c,
               afterMint |-> q.afterMint]
      BY <1>4, <2>3
    <2>5. x \in PublicationRecords
      BY <1>4, <2>2, <2>4 DEF PublicationRecords, Owners
    <2>6. publication' = [publication EXCEPT ![p] = x]
      BY <1>5, <1>10, <2>1, <2>3
    <2>7. RequestIsOwners(x)'
      <3>1. x.stage = "allowed" /\ x.agent = q.agent /\ x.signer = q.signer /\ x.controller = q.signer
        BY <2>2, <2>4
      <3>2. x.afterMint = q.afterMint
        BY <2>4
      <3>3. q.agent \in Entities /\ q.signer \in Signers
        BY <1>4
      <3>4. directoryTroubles' = 0 /\ q.afterMint => q.signer = tokenOwner[q.agent]
        BY <1>4, <1>7, <1>10 DEF MayWrite
      <3>5. directoryTroubles' = 0 /\ q.afterMint => q.signer \in everOwned[q.agent]
        BY <1>1, <3>3, <3>4 DEF OwnersOwned
      <3> QED
        BY <1>4, <1>6, <3>1, <3>2, <3>5 DEF RequestIsOwners, Owns
    <2> QED
      BY <1>6, <1>7, <1>8, <2>5, <2>6, <2>7, PublicationGoesOn
  <1> QED
    BY <1>9, <1>10

LEMMA ManifestStoredKeeps ==
  ASSUME ManifestInv, NEW p \in Publications, ManifestStored(p)
  PROVE  ManifestInv'
  <1>1. ManifestTypes /\ OwnersOwned /\ NoSigner \notin Signers
    BY DirectoryAssumption DEF ManifestInv
  <1>2. PICK q : q = publication[p]
    OBVIOUS
  <1>3. q \in PublicationRecords /\ q.stage = "allowed" /\ RequestIsOwners(q)
    BY <1>1, <1>2 DEF ManifestInv, ManifestTypes, ManifestStored
  <1>4. /\ q \in [stage : {"signed", "allowed"}, agent : Entities, signer : Signers,
                  how : {"manifest", "avatar"}, controller : Owners, afterMint : BOOLEAN]
        /\ Owns(q.agent, q)
    BY <1>3 DEF PublicationRecords, NoRequest, RequestIsOwners
  <1>5. publication' = [publication EXCEPT ![p] = NoRequest] /\ UNCHANGED <<tokenOwner, everOwned, seenOwner>>
    BY DEF ManifestStored
  <1>6. NoRequest \in PublicationRecords /\ RequestIsOwners(NoRequest)'
    BY DEF PublicationRecords, NoRequest, RequestIsOwners
  <1>7. directoryTroubles' \in Nat /\ directoryTroubles' >= directoryTroubles
    BY <1>1 DEF ManifestStored, Trouble, ManifestTypes
  <1>8. CASE UNCHANGED described
    BY <1>5, <1>6, <1>7, <1>8, ManifestRests, PublicationGoesOn
  <1>9. CASE described' = [described EXCEPT ![q.agent] =
                 [controller |-> q.controller, signer |-> q.signer, afterMint |-> q.afterMint]]
             /\ UNCHANGED directoryTroubles
    <2>1. PICK m : m = [controller |-> q.controller, signer |-> q.signer, afterMint |-> q.afterMint]
      OBVIOUS
    <2>2. m \in ManifestRecords
      BY <1>4, <2>1 DEF ManifestRecords, Owners
    <2>3. Owns(q.agent, m)'
      BY <1>4, <1>5, <1>9, <2>1 DEF Owns
    <2>4. /\ described' \in [Entities -> ManifestRecords] /\ described'[q.agent] = m
          /\ \A a \in Entities : a # q.agent => described'[a] = described[a]
      BY <1>1, <1>4, <1>9, <2>1, <2>2 DEF ManifestTypes
    <2>5. \A a \in Entities : Owns(a, described[a])'
      BY <1>5, <1>9, <2>3, <2>4 DEF ManifestInv, Owns
    <2> QED
      BY <1>5, <1>6, <1>7, <2>4, <2>5, PublicationGoesOn
  <1> QED
    BY <1>2, <1>8, <1>9 DEF ManifestStored

\* The lists, the file and the jobs leave the manifests alone; failures may be counted.
LEMMA OthersKeepManifests ==
  ASSUME ManifestInv, UNCHANGED manifestVars, directoryTroubles' \in Nat, directoryTroubles' >= directoryTroubles
  PROVE  ManifestInv'
  <1>1. UNCHANGED <<tokenOwner, everOwned, seenOwner, described, publication>> /\ ManifestTypes
    BY DEF manifestVars, ManifestInv
  <1>2. \A p \in Publications : RequestIsOwners(publication[p])'
    BY <1>1, OwnersStay DEF ManifestInv
  <1>3. \A a \in Entities : Owns(a, described[a])'
    BY <1>1, ManifestRests
  <1> QED
    BY <1>1, <1>2, <1>3 DEF ManifestInv, ManifestTypes, OwnersOwned

LEMMA NextManifestInv == ManifestInv /\ ManifestNext => ManifestInv'
  BY ChainKeepsManifests, PublishedKeeps, JudgedKeeps, ManifestStoredKeeps DEF ManifestNext

\* What a list must be, as ListsAreWhole says it of an answer.
WholeList(ask, rows, known_) ==
    /\ ask # "category" => /\ \A x, y \in rows : x.agent = y.agent => x = y
                           /\ \A x \in rows : x.agent \in Entities
    /\ ask \in {"merged", "supabase"} => \A x \in rows : x.agent \notin HiddenEntities
    /\ \A x \in rows : x.onchain /\ ask # "category" => everOwned[x.agent] # {}
    /\ \A a \in known_ \ HiddenEntities : \E x \in rows : x.agent = a /\ x.named
    /\ \A x, y \in rows : x.source = "local" /\ y.source = "supabase" => x.agent # y.agent

ListInv ==
    /\ list = [r \in Lists |-> list[r]]
    /\ \A r \in Lists :
          /\ list[r].stage \in {"idle", "manifests", "answered"}
          /\ list[r].stage = "manifests" => /\ list[r].read \in [Entities -> ManifestRecords]
                                            /\ list[r].known = ManifestsOf(list[r].read)
          /\ list[r].stage = "answered" => WholeList(list[r].ask, list[r].rows, list[r].known)
    /\ \A rows \in rosterCache : \A x \in rows : x.source = "local" /\ x.named = TRUE

LEMMA InitListInv == DirectoryInit => ListInv
  <1> SUFFICES ASSUME DirectoryInit PROVE ListInv
    OBVIOUS
  <1>1. list = [r \in Lists |-> NoList] /\ NoList.stage = "idle" /\ rosterCache = {}
    BY DEF DirectoryInit, NoList
  <1> QED
    BY <1>1 DEF ListInv

\* The rows of the indexer: an agent once, and only agents that have had an owner.
LEMMA IndexerRowsAre ==
  ASSUME ManifestInv, NEW m, NEW fetched, NEW x \in IndexerRows(seenOwner, m, fetched)
  PROVE  /\ x.agent \in Entities /\ x.source = "indexer" /\ everOwned[x.agent] # {}
         /\ \A y \in IndexerRows(seenOwner, m, fetched) : x.agent = y.agent => x = y
  <1>1. PICK a \in KnownTo(seenOwner) : x = ListRow(a, seenOwner[a], TRUE, MetadataOf(a, m, fetched), "indexer")
    BY DEF IndexerRows
  <1>2. x.agent = a /\ x.source = "indexer"
    BY <1>1 DEF ListRow
  <1>3. a \in Entities /\ everOwned[a] # {}
    BY <1>1 DEF KnownTo, ManifestInv, OwnersOwned
  <1>4. ASSUME NEW y \in IndexerRows(seenOwner, m, fetched), x.agent = y.agent PROVE x = y
    <2>1. PICK b \in KnownTo(seenOwner) : y = ListRow(b, seenOwner[b], TRUE, MetadataOf(b, m, fetched), "indexer")
      BY DEF IndexerRows
    <2>2. y.agent = b
      BY <2>1 DEF ListRow
    <2> QED
      BY <1>1, <1>2, <1>4, <2>1, <2>2
  <1> QED
    BY <1>2, <1>3, <1>4

LEMMA MergedIsWhole ==
  ASSUME ManifestInv, NEW m \in [Entities -> ManifestRecords], NEW fetched
  PROVE  WholeList("merged", MergedAnswer(m, seenOwner, fetched), ManifestsOf(m))
  <1>1. PICK own : own = {ListRow(a, m[a].controller, seenOwner[a] # NoSigner, TRUE, "manifest") : a \in ManifestsOf(m)}
    OBVIOUS
  <1>2. PICK rest : rest = {x \in IndexerRows(seenOwner, described, fetched) : m[x.agent] = NoManifest}
    OBVIOUS
  <1>3. PICK rows : rows = MergedAnswer(m, seenOwner, fetched)
    OBVIOUS
  <1>4. /\ \A x \in rows : (x \in own \/ x \in rest) /\ x.agent \notin HiddenEntities
        /\ \A x \in own : x.agent \notin HiddenEntities /\ x.source = "manifest" => x \in rows
    BY <1>1, <1>2, <1>3 DEF MergedAnswer, Exposed, OfPlatform, NotHidden, Merged
  <1>5. ASSUME NEW x \in own
        PROVE  /\ x.agent \in ManifestsOf(m) /\ x.named = TRUE /\ x.source = "manifest"
               /\ x = ListRow(x.agent, m[x.agent].controller, seenOwner[x.agent] # NoSigner, TRUE, "manifest")
               /\ x.onchain = (seenOwner[x.agent] # NoSigner)
    <2>1. PICK a \in ManifestsOf(m) : x = ListRow(a, m[a].controller, seenOwner[a] # NoSigner, TRUE, "manifest")
      BY <1>1
    <2>2. PICK o : o = (seenOwner[a] # NoSigner)
      OBVIOUS
    <2>3. x = ListRow(a, m[a].controller, o, TRUE, "manifest")
      BY <2>1, <2>2
    <2>4. x.agent = a /\ x.named = TRUE /\ x.source = "manifest" /\ x.onchain = o
      BY <2>3 DEF ListRow
    <2> QED
      BY <2>1, <2>2, <2>4, Zenon
  <1>6. \A x, y \in rows : x.agent = y.agent => x = y
    <2> SUFFICES ASSUME NEW x \in rows, NEW y \in rows, x.agent = y.agent PROVE x = y
      OBVIOUS
    <2>1. CASE x \in own /\ y \in own
      <3>1. x = ListRow(x.agent, m[x.agent].controller, seenOwner[x.agent] # NoSigner, TRUE, "manifest")
        BY <1>5, <2>1, Zenon
      <3>2. y = ListRow(y.agent, m[y.agent].controller, seenOwner[y.agent] # NoSigner, TRUE, "manifest")
        BY <1>5, <2>1, Zenon
      <3> QED
        BY <3>1, <3>2, Zenon
    <2>2. CASE x \in rest /\ y \in rest
      BY <1>2, <2>2, IndexerRowsAre
    <2>3. CASE x \in own /\ y \in rest
      BY <1>2, <1>5, <2>3 DEF ManifestsOf
    <2>4. CASE x \in rest /\ y \in own
      BY <1>2, <1>5, <2>4 DEF ManifestsOf
    <2> QED
      BY <1>4, <2>1, <2>2, <2>3, <2>4
  <1>7. \A x \in rows : x.onchain => everOwned[x.agent] # {}
    <2> SUFFICES ASSUME NEW x \in rows, x.onchain PROVE everOwned[x.agent] # {}
      OBVIOUS
    <2>1. CASE x \in rest
      BY <1>2, <2>1, IndexerRowsAre
    <2>2. CASE x \in own
      <3>1. x.agent \in Entities /\ seenOwner[x.agent] # NoSigner
        BY <1>5, <2>2 DEF ManifestsOf
      <3> QED
        BY <3>1 DEF ManifestInv, OwnersOwned
    <2> QED
      BY <1>4, <2>1, <2>2
  <1>8. \A a \in ManifestsOf(m) \ HiddenEntities : \E x \in rows : x.agent = a /\ x.named
    <2> SUFFICES ASSUME NEW a \in ManifestsOf(m), a \notin HiddenEntities PROVE \E x \in rows : x.agent = a /\ x.named
      OBVIOUS
    <2>1. PICK x : x = ListRow(a, m[a].controller, seenOwner[a] # NoSigner, TRUE, "manifest")
      OBVIOUS
    <2>2. x \in own
      BY <1>1, <2>1
    <2>3. PICK o : x = ListRow(a, m[a].controller, o, TRUE, "manifest")
      BY <2>1
    <2>4. x.agent = a /\ x.named = TRUE
      BY <2>3 DEF ListRow
    <2> QED
      BY <1>4, <1>5, <2>2, <2>4
  <1>9. \A x \in rows : x.source # "local"
    BY <1>2, <1>4, <1>5, IndexerRowsAre
  <1>10. \A x \in rows : x.agent \in Entities
    BY <1>2, <1>4, <1>5, IndexerRowsAre DEF ManifestsOf
  <1> QED
    BY <1>3, <1>4, <1>6, <1>7, <1>8, <1>9, <1>10 DEF WholeList

LEMMA SupabaseIsWhole ==
  ASSUME ManifestInv
  PROVE  WholeList("supabase", SupabaseAnswer, {})
  <1>1. \A x \in SupabaseAnswer : x \in IndexerRows(seenOwner, described, TRUE) /\ x.agent \notin HiddenEntities
    BY DEF SupabaseAnswer, Exposed, NotHidden
  <1> QED
    BY <1>1, IndexerRowsAre DEF WholeList

LEMMA RegisteredIsWhole ==
  ASSUME SoundFile(file, approvals)
  PROVE  WholeList("registered", RegisteredAnswer, {})
  <1>1. ASSUME NEW x \in RegisteredAnswer
        PROVE  \E e \in file : /\ x = ListRow(e.agent, e.address, FALSE, TRUE, "external")
                               /\ x.agent = e.agent /\ x.onchain = FALSE /\ x.source = "external"
    BY DEF RegisteredAnswer, ListRow
  <1>2. \A x, y \in RegisteredAnswer : x.agent = y.agent => x = y
    <2> SUFFICES ASSUME NEW x \in RegisteredAnswer, NEW y \in RegisteredAnswer, x.agent = y.agent PROVE x = y
      OBVIOUS
    <2>1. PICK e \in file : x = ListRow(e.agent, e.address, FALSE, TRUE, "external") /\ x.agent = e.agent
      BY <1>1, Zenon
    <2>2. PICK g \in file : y = ListRow(g.agent, g.address, FALSE, TRUE, "external") /\ y.agent = g.agent
      BY <1>1, Zenon
    <2>3. e = g
      BY <2>1, <2>2 DEF SoundFile
    <2> QED
      BY <2>1, <2>2, <2>3, Zenon
  <1>3. \A x \in RegisteredAnswer : x.agent \in Entities
    BY <1>1 DEF SoundFile, Entries
  <1> QED
    BY <1>1, <1>2, <1>3 DEF WholeList

LEMMA CategoryIsWhole ==
  ASSUME NEW m \in [Entities -> ManifestRecords], NEW local,
         \A x \in local : x.source = "local" /\ x.named = TRUE
  PROVE  WholeList("category", CategoryAnswer(m, local), ManifestsOf(m))
  <1>1. PICK rows : rows = CategoryAnswer(m, local)
    OBVIOUS
  <1>2. ASSUME NEW x \in rows, x \notin local
        PROVE  x.source = "supabase" /\ x.agent \notin {y.agent : y \in local}
    <2>1. PICK a \in ManifestsOf(m) \ {y.agent : y \in local} : x = ListRow(a, m[a].controller, FALSE, TRUE, "supabase")
      BY <1>1, <1>2 DEF CategoryAnswer
    <2> QED
      BY <2>1 DEF ListRow
  <1>3. \A x, y \in rows : x.source = "local" /\ y.source = "supabase" => x.agent # y.agent
    BY <1>2
  <1>4. \A a \in ManifestsOf(m) \ HiddenEntities : \E x \in rows : x.agent = a /\ x.named
    <2> SUFFICES ASSUME NEW a \in ManifestsOf(m) PROVE \E x \in rows : x.agent = a /\ x.named = TRUE
      OBVIOUS
    <2>1. CASE a \in {y.agent : y \in local}
      BY <1>1, <2>1 DEF CategoryAnswer
    <2>2. CASE a \notin {y.agent : y \in local}
      <3>1. PICK x : x = ListRow(a, m[a].controller, FALSE, TRUE, "supabase")
        OBVIOUS
      <3>2. x \in rows
        BY <1>1, <2>2, <3>1 DEF CategoryAnswer
      <3> QED
        BY <3>1, <3>2 DEF ListRow
    <2> QED
      BY <2>1, <2>2
  <1> QED
    BY <1>1, <1>3, <1>4 DEF WholeList

\* Owners are only added: an answer that was whole stays so.
LEMMA WholeStays ==
  ASSUME ListInv, UNCHANGED list, \A a \in Entities : everOwned[a] \subseteq everOwned'[a],
         \A rows \in rosterCache' : \A x \in rows : x.source = "local" /\ x.named = TRUE
  PROVE  ListInv'
  <1>1. \A ask, rows, seen : WholeList(ask, rows, seen) => WholeList(ask, rows, seen)'
    BY DEF WholeList
  <1>2. \A r \in Lists : WholeList(list[r].ask, list[r].rows, list[r].known) =>
                           WholeList(list[r].ask, list[r].rows, list[r].known)'
    BY <1>1 DEF WholeList
  <1> QED
    BY <1>2 DEF ListInv

\* One list goes on: it starts, or is answered whole.
LEMMA ListGoesOn ==
  ASSUME ListInv, UNCHANGED everOwned, NEW r \in Lists, NEW l, list' = [list EXCEPT ![r] = l],
         l.stage \in {"idle", "manifests", "answered"},
         l.stage = "manifests" => l.read \in [Entities -> ManifestRecords] /\ l.known = ManifestsOf(l.read),
         l.stage = "answered" => WholeList(l.ask, l.rows, l.known),
         \A rows \in rosterCache' : \A x \in rows : x.source = "local" /\ x.named = TRUE
  PROVE  ListInv'
  <1>1. list'[r] = l /\ (\A o \in Lists : o # r => list'[o] = list[o]) /\ list' = [o \in Lists |-> list'[o]]
    BY DEF ListInv
  <1>2. \A o \in Lists : list'[o].stage = "answered" =>
          WholeList(list'[o].ask, list'[o].rows, list'[o].known)
    BY <1>1 DEF ListInv
  <1>3. \A o \in Lists : list'[o].stage = "answered" =>
          WholeList(list[o].ask, list[o].rows, list[o].known)'
    BY <1>2 DEF WholeList
  <1>4. \A o \in Lists : /\ list'[o].stage \in {"idle", "manifests", "answered"}
                         /\ list'[o].stage = "manifests" => /\ list'[o].read \in [Entities -> ManifestRecords]
                                                            /\ list'[o].known = ManifestsOf(list'[o].read)
    BY <1>1 DEF ListInv
  <1> QED
    BY <1>1, <1>3, <1>4 DEF ListInv

LEMMA ListStepsKeepLists ==
  ASSUME ManifestInv, SoundFile(file, approvals), ListInv, ListNext
  PROVE  ListInv'
  <1>1. UNCHANGED everOwned
    BY DEF ListNext, AskedList, AskedIndexer, AskedRoster, RosterExpires, ReadList, manifestVars
  <1>2. \A rows \in rosterCache : \A x \in rows : x.source = "local" /\ x.named = TRUE
    BY DEF ListInv
  <1>3. described \in [Entities -> ManifestRecords] /\ NoManifests \in [Entities -> ManifestRecords]
    BY DEF ManifestInv, ManifestTypes, NoManifests, NoManifest, ManifestRecords, Owners
  <1>4. ASSUME NEW r \in Lists, NEW ask \in {"merged", "registered", "supabase", "category"}, AskedList(r, ask)
        PROVE  ListInv'
    <2>1. UNCHANGED rosterCache
      BY <1>4 DEF AskedList
    <2>2. CASE ask \in {"registered", "supabase"}
      <3>1. PICK l : l = [ask |-> ask, stage |-> "answered",
                          rows |-> IF ask = "registered" THEN RegisteredAnswer ELSE SupabaseAnswer, known |-> {}]
        OBVIOUS
      <3>2. list' = [list EXCEPT ![r] = l]
        BY <1>4, <2>2, <3>1 DEF AskedList
      <3>3. WholeList(ask, IF ask = "registered" THEN RegisteredAnswer ELSE SupabaseAnswer, {})
        BY <2>2, SupabaseIsWhole, RegisteredIsWhole
      <3>4. l.stage = "answered" /\ WholeList(l.ask, l.rows, l.known)
        BY <3>1, <3>3
      <3> QED
        BY <1>1, <1>2, <2>1, <3>2, <3>4, ListGoesOn
    <2>3. CASE ask \notin {"registered", "supabase"}
      <3>1. PICK read \in {described, NoManifests} :
              list' = [list EXCEPT ![r] = [ask |-> ask, stage |-> "manifests", read |-> read,
                                           known |-> ManifestsOf(read)]]
        BY <1>4, <2>3 DEF AskedList
      <3>2. PICK l : l = [ask |-> ask, stage |-> "manifests", read |-> read, known |-> ManifestsOf(read)]
        OBVIOUS
      <3>3. l.stage = "manifests" /\ l.read \in [Entities -> ManifestRecords] /\ l.known = ManifestsOf(l.read)
        BY <1>3, <3>2
      <3> QED
        BY <1>1, <1>2, <2>1, <3>1, <3>2, <3>3, ListGoesOn
    <2> QED
      BY <2>2, <2>3
  <1>5. ASSUME NEW r \in Lists, NEW rows, WholeList(list[r].ask, rows, list[r].known), ListAnswered(r, rows),
               \A local \in rosterCache' : \A x \in local : x.source = "local" /\ x.named = TRUE
        PROVE  ListInv'
    <2>1. PICK l : l = [ask |-> list[r].ask, stage |-> "answered", rows |-> rows, known |-> list[r].known]
      OBVIOUS
    <2>2. list' = [list EXCEPT ![r] = l] /\ l.stage = "answered" /\ WholeList(l.ask, l.rows, l.known)
      BY <1>5, <2>1 DEF ListAnswered
    <2> QED
      BY <1>1, <1>5, <2>2, ListGoesOn
  <1>6. ASSUME NEW r \in Lists, list' = [list EXCEPT ![r] = NoList], UNCHANGED rosterCache PROVE ListInv'
    <2>1. NoList.stage = "idle"
      BY DEF NoList
    <2> QED
      BY <1>1, <1>2, <1>6, <2>1, ListGoesOn
  <1>7. ASSUME NEW r \in Lists, AskedIndexer(r) PROVE ListInv'
    <2>1. /\ list[r].ask = "merged" /\ list[r].read \in [Entities -> ManifestRecords]
          /\ list[r].known = ManifestsOf(list[r].read) /\ UNCHANGED rosterCache
      BY <1>7 DEF AskedIndexer, ListInv
    <2>2. \A fetched : WholeList("merged", MergedAnswer(list[r].read, seenOwner, fetched), ManifestsOf(list[r].read))
      BY <2>1, MergedIsWhole
    <2>3. CASE ListAnswered(r, MergedAnswer(list[r].read, seenOwner, TRUE))
      BY <1>2, <1>5, <2>1, <2>2, <2>3
    <2>4. CASE ListAnswered(r, MergedAnswer(list[r].read, seenOwner, FALSE))
      BY <1>2, <1>5, <2>1, <2>2, <2>4
    <2>5. CASE list' = [list EXCEPT ![r] = NoList]
      BY <1>6, <2>1, <2>5
    <2> QED
      BY <1>7, <2>3, <2>4, <2>5 DEF AskedIndexer
  <1>8. \A x \in LocalRows(seenOwner) : x.source = "local" /\ x.named = TRUE
    BY DEF LocalRows, ListRow
  <1>9. ASSUME NEW r \in Lists, AskedRoster(r) PROVE ListInv'
    <2>1. /\ list[r].ask = "category" /\ list[r].read \in [Entities -> ManifestRecords]
          /\ list[r].known = ManifestsOf(list[r].read)
      BY <1>9 DEF AskedRoster, ListInv
    <2>2. ASSUME NEW local, \A x \in local : x.source = "local" /\ x.named = TRUE
          PROVE  WholeList("category", CategoryAnswer(list[r].read, local), ManifestsOf(list[r].read))
      BY <2>1, <2>2, CategoryIsWhole
    <2>3. ASSUME NEW local \in rosterCache, UNCHANGED rosterCache, ListAnswered(r, CategoryAnswer(list[r].read, local))
          PROVE  ListInv'
      BY <1>2, <1>5, <2>1, <2>2, <2>3
    <2>4. CASE rosterCache' = {LocalRows(seenOwner)} /\ ListAnswered(r, CategoryAnswer(list[r].read, LocalRows(seenOwner)))
      BY <1>5, <1>8, <2>1, <2>2, <2>4
    <2>5. CASE UNCHANGED rosterCache /\ ListAnswered(r, CategoryAnswer(list[r].read, {}))
      BY <1>2, <1>5, <2>1, <2>2, <2>5
    <2> QED
      BY <1>9, <2>3, <2>4, <2>5 DEF AskedRoster
  <1>10. CASE RosterExpires
    BY <1>1, <1>10, WholeStays DEF RosterExpires
  <1>11. ASSUME NEW r \in Lists, ReadList(r) PROVE ListInv'
    BY <1>6, <1>11 DEF ReadList
  <1> QED
    BY <1>4, <1>7, <1>9, <1>10, <1>11 DEF ListNext

LEMMA EverOwnedGrows ==
  ASSUME ManifestTypes, ManifestNext
  PROVE  \A a \in Entities : everOwned[a] \subseteq everOwned'[a]
  BY DEF ManifestTypes, ManifestNext, Owned, IndexedNow, Published, Judged, ManifestStored

\* The three parts of the directory that name agents, together.
ListedInv == ManifestInv /\ RegistryInv /\ ListInv

LEMMA InitListedInv == DirectoryInit => ListedInv
  BY InitManifestInv, InitRegistryInv, InitListInv DEF ListedInv

LEMMA NextListedInv == ListedInv /\ [DirectoryNext]_directoryVars => ListedInv'
  <1> SUFFICES ASSUME ListedInv, [DirectoryNext]_directoryVars PROVE ListedInv'
    OBVIOUS
  <1>1. ManifestInv /\ RegistryInv /\ ListInv /\ directoryTroubles \in Nat /\ SoundFile(file, approvals)
    BY DEF ListedInv, ManifestInv, ManifestTypes, RegistryInv
  <1>2. ASSUME UNCHANGED registryVars PROVE RegistryInv'
    BY <1>1, <1>2, NextRegistryInv
  <1>3. ASSUME UNCHANGED manifestVars, UNCHANGED directoryTroubles \/ Trouble PROVE ManifestInv'
    <2>1. directoryTroubles' \in Nat /\ directoryTroubles' >= directoryTroubles
      BY <1>1, <1>3 DEF Trouble
    <2> QED
      BY <1>1, <1>3, <2>1, OthersKeepManifests
  <1>4. ASSUME UNCHANGED listVars, \A a \in Entities : everOwned[a] \subseteq everOwned'[a] PROVE ListInv'
    BY <1>1, <1>4, WholeStays DEF listVars, ListInv
  <1>5. CASE ManifestNext
    <2>1. UNCHANGED <<registryVars, listVars>>
      BY <1>5 DEF ManifestNext, Owned, IndexedNow, Published, Judged, ManifestStored
    <2>2. \A a \in Entities : everOwned[a] \subseteq everOwned'[a]
      BY <1>1, <1>5, EverOwnedGrows DEF ManifestInv
    <2> QED
      BY <1>1, <1>2, <1>4, <1>5, <2>1, <2>2, NextManifestInv DEF ListedInv
  <1>6. CASE RegistryNext
    <2>1. UNCHANGED <<manifestVars, listVars, directoryTroubles>>
      BY <1>6 DEF RegistryNext, ReadForRegister, ReadForStatus, Renamed
    <2>2. RegistryInv'
      BY <1>1, <1>6, NextRegistryInv
    <2>3. \A a \in Entities : everOwned[a] \subseteq everOwned'[a]
      BY <2>1 DEF manifestVars
    <2> QED
      BY <1>3, <1>4, <2>1, <2>2, <2>3 DEF ListedInv
  <1>7. CASE ListNext
    <2>1. UNCHANGED <<manifestVars, registryVars>>
      BY <1>7 DEF ListNext, AskedList, AskedIndexer, AskedRoster, RosterExpires, ReadList
    <2>2. UNCHANGED directoryTroubles \/ Trouble
      <3>1. ASSUME NEW r \in Lists, NEW ask, AskedList(r, ask) PROVE <2>2
        BY <3>1 DEF AskedList
      <3> QED
        BY <1>7, <3>1 DEF ListNext, AskedIndexer, AskedRoster, RosterExpires, ReadList
    <2> QED
      BY <1>1, <1>2, <1>3, <1>7, <2>1, <2>2, ListStepsKeepLists DEF ListedInv
  <1>8. CASE DealNext \/ UNCHANGED directoryVars
    <2>1. UNCHANGED <<manifestVars, registryVars, listVars, directoryTroubles>>
      BY <1>8 DEF DealNext, DealGoes, directoryVars
    <2>2. \A a \in Entities : everOwned[a] \subseteq everOwned'[a]
      BY <2>1 DEF manifestVars
    <2> QED
      BY <1>2, <1>3, <1>4, <2>1, <2>2 DEF ListedInv
  <1> QED
    BY <1>5, <1>6, <1>7, <1>8 DEF DirectoryNext

LEMMA ListedInvGives == ListedInv => DirectoryTypeOK /\ ManifestsAreOwners /\ ListsAreWhole
  <1> SUFFICES ASSUME ListedInv PROVE DirectoryTypeOK /\ ManifestsAreOwners /\ ListsAreWhole
    OBVIOUS
  <1>1. DirectoryTypeOK
    <2>1. \A a \in Entities : /\ tokenOwner[a] \in Signers \cup {NoSigner}
                              /\ seenOwner[a] \in everOwned[a] \cup {NoSigner}
                              /\ described[a].controller \in Signers \cup {NoSigner}
      BY DEF ListedInv, ManifestInv, ManifestTypes, OwnersOwned, Owners, ManifestRecords
    <2>2. \A e \in file : e.agent \in Entities /\ e.address \in Signers /\ e.status \in {"pending", "approved", "blocked"}
      BY DEF ListedInv, RegistryInv, SoundFile, Entries
    <2> QED
      BY <2>1, <2>2 DEF DirectoryTypeOK, ListedInv, ListInv
  <1>2. ManifestsAreOwners
    BY DEF ListedInv, ManifestInv, ManifestsAreOwners, Owns, ManifestsOf
  <1>3. ListsAreWhole
    BY DEF ListedInv, ListInv, ListsAreWhole, WholeList
  <1> QED
    BY <1>1, <1>2, <1>3

-----------------------------------------------------------------------------
(***************************************************************************)
(* An agent's standing, from what became of its jobs.                      *)
(***************************************************************************)
DealRows == {NoDeal, Started, Funded, Delivered, Settled, GivenUp, Lapsed, Refused, [Settled EXCEPT !.recent = FALSE]}
DealInv  == deal \in [Deals -> DealRows]

LEMMA InitDealInv == DirectoryInit => DealInv
  BY DEF DirectoryInit, DealInv, DealRows

LEMMA NextDealInv == DealInv /\ [DirectoryNext]_directoryVars => DealInv'
  <1> SUFFICES ASSUME DealInv, [DirectoryNext]_directoryVars PROVE DealInv'
    OBVIOUS
  <1>1. ASSUME NEW d \in Deals, NEW from, NEW to \in DealRows, DealGoes(d, from, to) PROVE DealInv'
    BY <1>1 DEF DealInv, DealGoes
  <1>2. CASE DealNext
    BY <1>1, <1>2 DEF DealNext, DealRows
  <1>3. CASE UNCHANGED deal
    BY <1>3 DEF DealInv
  <1>4. CASE ManifestNext \/ RegistryNext \/ ListNext
    BY <1>3, <1>4
    DEF ManifestNext, RegistryNext, ListNext, Owned, IndexedNow, Published, Judged, ManifestStored, ReadForRegister,
        ReadForStatus, Renamed, listVars, AskedList, AskedIndexer, AskedRoster, ReadList, RosterExpires
  <1> QED
    BY <1>2, <1>3, <1>4 DEF DirectoryNext, directoryVars

\* How many of a list are newer: each of a finite set has its own place, and every place is taken.
NewerThan(S, x) == {y \in S : y > x}

LEMMA PlacesAreTaken ==
  ASSUME NEW S, S \subseteq Nat, IsFiniteSet(S)
  PROVE  LET place == [x \in S |-> Cardinality(NewerThan(S, x))]
         IN  place \in Bijection(S, 0 .. (Cardinality(S) - 1))
  <1> DEFINE place == [x \in S |-> Cardinality(NewerThan(S, x))]
             places == 0 .. (Cardinality(S) - 1)
  <1>1. Cardinality(S) \in Nat
    BY FS_CardinalityType
  <1>2. ASSUME NEW x \in S
        PROVE  IsFiniteSet(NewerThan(S, x)) /\ Cardinality(NewerThan(S, x)) \in places
    <2>1. IsFiniteSet(S \ {x}) /\ Cardinality(S \ {x}) = Cardinality(S) - 1
      BY FS_RemoveElement
    <2>2. NewerThan(S, x) \subseteq S \ {x}
      BY DEF NewerThan
    <2>3. IsFiniteSet(NewerThan(S, x)) /\ Cardinality(NewerThan(S, x)) <= Cardinality(S \ {x})
      BY <2>1, <2>2, FS_Subset
    <2>4. Cardinality(NewerThan(S, x)) \in Nat
      BY <2>3, FS_CardinalityType
    <2> QED
      BY <1>1, <2>1, <2>3, <2>4
  <1>3. ASSUME NEW x \in S, NEW y \in S, x < y
        PROVE  Cardinality(NewerThan(S, x)) # Cardinality(NewerThan(S, y))
    <2>1. NewerThan(S, y) \subseteq NewerThan(S, x) /\ y \in NewerThan(S, x) \ NewerThan(S, y)
      <3>1. \A z \in S : z \in Nat
        OBVIOUS
      <3>2. x \in Nat /\ y \in Nat /\ y > x
        BY <1>3, <3>1
      <3>3. \A z \in S : z > y => z > x
        BY <3>1, <3>2
      <3>4. ~(y > y)
        BY <3>2
      <3> QED
        BY <3>2, <3>3, <3>4, Zenon DEF NewerThan
    <2>2. IsFiniteSet(NewerThan(S, x))
      BY <1>2
    <2> QED
      BY <2>1, <2>2, FS_Subset
  <1>4. place \in [S -> places]
    BY <1>2
  <1>5. ASSUME NEW x \in S, NEW y \in S, place[x] = place[y] PROVE x = y
    <2>1. ~(x < y) /\ ~(y < x)
      BY <1>3, <1>5
    <2> QED
      BY <2>1
  <1>6. place \in Injection(S, places)
    <2> HIDE DEF place, places
    <2> QED
      BY <1>4, <1>5 DEF Injection, IsInjective
  <1>7. IsFiniteSet(places) /\ Cardinality(places) = Cardinality(S)
    <2>1. Cardinality(S) - 1 \in Int
      BY <1>1
    <2>2. /\ IsFiniteSet(places)
          /\ Cardinality(places) = IF 0 > Cardinality(S) - 1 THEN 0 ELSE (Cardinality(S) - 1) - 0 + 1
      BY <2>1, FS_Interval
    <2> QED
      BY <1>1, <2>2
  <1>8. place \in Surjection(S, places)
    <2> HIDE DEF place, places
    <2> QED
      BY <1>6, <1>7, FS_Injection
  <1> QED
    BY <1>6, <1>8 DEF Bijection

\* The newest n of a set are n, if the set has more.
LEMMA NewestAreAsMany ==
  ASSUME NEW S, S \subseteq Nat, IsFiniteSet(S), NEW n \in Nat, NEW d, d \in S, d \notin Newest(S, n)
  PROVE  Cardinality(Newest(S, n)) = n
  <1> DEFINE place == [x \in S |-> Cardinality(NewerThan(S, x))]
             all == 0 .. (Cardinality(S) - 1)
             few == 0 .. (n - 1)
             newest == Newest(S, n)
             placed == [x \in newest |-> place[x]]
  <1>1. place \in Bijection(S, all)
    BY PlacesAreTaken
  <1>2. /\ place \in [S -> all] /\ \A x, y \in S : place[x] = place[y] => x = y
        /\ \A k \in all : \E x \in S : place[x] = k
    <2> HIDE DEF place, all
    <2> QED
      BY <1>1 DEF Bijection, Injection, Surjection, IsInjective
  <1>3. newest = {x \in S : place[x] < n}
    BY DEF Newest, NewerThan
  <1>4. Cardinality(S) \in Nat
    BY FS_CardinalityType
  <1>5. n <= Cardinality(S) - 1
    <2>1. place[d] \in all /\ ~(place[d] < n)
      BY <1>2, <1>3
    <2> QED
      BY <1>4, <2>1
  <1>6. placed \in Bijection(newest, few)
    <2> HIDE DEF place, newest
    <2>1. \A x \in newest : place[x] \in few
      BY <1>2, <1>3, <1>4
    <2>2. \A k \in few : \E x \in newest : place[x] = k
      BY <1>2, <1>3, <1>4, <1>5
    <2>3. newest \subseteq S
      BY <1>3
    <2> HIDE DEF all, few
    <2>4. placed \in Injection(newest, few)
      BY <1>2, <2>1, <2>3 DEF Injection, IsInjective
    <2>5. placed \in Surjection(newest, few)
      BY <2>1, <2>2, <2>4 DEF Surjection, Injection
    <2> QED
      BY <2>4, <2>5 DEF Bijection
  <1>7. IsFiniteSet(newest)
    BY FS_Subset DEF Newest
  <1>8. Cardinality(few) = Cardinality(newest)
    <2> HIDE DEF placed, few, newest
    <2> QED
      BY <1>6, <1>7, FS_Bijection DEF ExistsBijection
  <1>9. Cardinality(few) = n
    <2>1. n - 1 \in Int
      OBVIOUS
    <2>2. Cardinality(few) = IF 0 > n - 1 THEN 0 ELSE (n - 1) - 0 + 1
      BY <2>1, FS_Interval
    <2> QED
      BY <2>2
  <1> QED
    BY <1>8, <1>9

\* A list long enough has the whole set.
LEMMA NewestAreAll ==
  ASSUME NEW S, S \subseteq Nat, IsFiniteSet(S), NEW n \in Nat, Cardinality(S) <= n
  PROVE  Newest(S, n) = S
  <1> SUFFICES ASSUME NEW d \in S PROVE Cardinality(NewerThan(S, d)) < n
    BY DEF Newest, NewerThan
  <1>1. IsFiniteSet(S \ {d}) /\ Cardinality(S \ {d}) = Cardinality(S) - 1 /\ Cardinality(S) \in Nat
    BY FS_RemoveElement, FS_CardinalityType
  <1>2. NewerThan(S, d) \subseteq S \ {d}
    BY DEF NewerThan
  <1>3. IsFiniteSet(NewerThan(S, d)) /\ Cardinality(NewerThan(S, d)) <= Cardinality(S \ {d})
    BY <1>1, <1>2, FS_Subset
  <1>4. Cardinality(NewerThan(S, d)) \in Nat
    BY <1>3, FS_CardinalityType
  <1> QED
    BY <1>1, <1>3, <1>4

LEMMA Indexed ==
  ASSUME NEW kinds
  PROVE  /\ IndexedAs(deal, kinds) \subseteq Nat /\ IsFiniteSet(IndexedAs(deal, kinds))
         /\ Cardinality(IndexedAs(deal, kinds)) \in Nat
  <1>1. IndexedAs(deal, kinds) \subseteq Deals
    BY DEF IndexedAs, IndexedJobs
  <1>2. IsFiniteSet(IndexedAs(deal, kinds))
    BY <1>1, DirectoryAssumption, FS_Subset
  <1> QED
    BY <1>1, <1>2, DirectoryAssumption, FS_CardinalityType

LEMMA DealsShow ==
  ASSUME DealInv, NEW d \in IndexedJobs(deal)
  PROVE  deal[d].chain \in {"Open", "Funded", "Submitted", "Completed", "Rejected", "Expired"}
  <1>1. deal[d] \in DealRows /\ deal[d].chain # "none"
    BY DEF DealInv, IndexedJobs
  <1>2. /\ NoDeal.chain = "none" /\ Started.chain = "Open" /\ Funded.chain = "Funded" /\ GivenUp.chain = "Funded"
        /\ Delivered.chain = "Submitted" /\ Settled.chain = "Completed" /\ Lapsed.chain = "Expired"
        /\ Refused.chain = "Rejected"
    BY DEF NoDeal, Started, Funded, GivenUp, Delivered, Settled, Lapsed, Refused
  <1>3. [Settled EXCEPT !.recent = FALSE].chain = "Completed"
    BY DEF NoDeal, Delivered, Settled
  <1> QED
    BY <1>1, <1>2, <1>3 DEF DealRows

LEMMA ReadersDoAgree == DealInv => ReadersAgree
  <1> SUFFICES ASSUME DealInv PROVE ReadersAgree
    OBVIOUS
  <1> DEFINE statuses == {"Open", "Funded", "Submitted", "Completed", "Rejected", "Expired"}
  <1>1. \A n \in Nat : ReadJobsFiltered(deal, n, {}, TRUE) = Newest(IndexedAs(deal, statuses), Least(n, MaxListed))
    BY DEF ReadJobsFiltered, LeavesOutExpired
  <1>2. IndexedAs(deal, statuses) = IndexedJobs(deal)
    BY DealsShow DEF IndexedAs
  <1>3. MaxListed \in Nat \ {0} /\ Least(MaxListed, MaxListed) = MaxListed
    BY DirectoryAssumption DEF Least
  <1>4. ReadJobs(deal) = Newest(IndexedJobs(deal), MaxListed)
    BY <1>1, <1>2, <1>3 DEF ReadJobs
  <1>5. /\ IndexedJobs(deal) \subseteq Nat /\ IsFiniteSet(IndexedJobs(deal))
        /\ \A d \in IndexedJobs(deal) : Cardinality({x \in IndexedJobs(deal) : x > d}) \in Nat
    <2>1. IndexedJobs(deal) \subseteq Nat /\ IsFiniteSet(IndexedJobs(deal))
      BY <1>2, Indexed
    <2>2. ASSUME NEW d \in IndexedJobs(deal) PROVE Cardinality({x \in IndexedJobs(deal) : x > d}) \in Nat
      <3>1. IsFiniteSet({x \in IndexedJobs(deal) : x > d})
        BY <2>1, FS_Subset
      <3> QED
        BY <3>1, FS_CardinalityType
    <2> QED
      BY <2>1, <2>2
  <1>6. ASSUME NEW n \in 1 .. MaxListed + 1, NEW d \in ReadJobsFiltered(deal, n, {}, TRUE) PROVE HasDetail(deal, d)
    <2>1. n \in Nat /\ Least(n, MaxListed) \in Nat /\ Least(n, MaxListed) <= MaxListed
      BY <1>3 DEF Least
    <2>2. d \in IndexedJobs(deal) /\ Cardinality({x \in IndexedJobs(deal) : x > d}) < Least(n, MaxListed)
      BY <1>1, <1>2, <1>6, <2>1 DEF Newest
    <2>3. d \in Newest(IndexedJobs(deal), MaxListed)
      BY <1>3, <1>5, <2>1, <2>2 DEF Newest
    <2> QED
      BY <1>4, <2>2, <2>3 DEF HasDetail
  <1>7. ASSUME NEW d \in IndexedJobs(deal)
        PROVE  LET found == ReadJobsFiltered(deal, MaxListed, {deal[d].chain}, FALSE)
               IN  d \in found \/ Cardinality(found) = MaxListed
    <2> DEFINE asked == {deal[d].chain}
    <2>1. ReadJobsFiltered(deal, MaxListed, asked, FALSE) = Newest(IndexedAs(deal, asked), MaxListed)
      <3>1. asked # {} /\ (LeavesOutExpired(asked, FALSE) => asked \ {"Expired"} = asked)
        BY DEF LeavesOutExpired
      <3> QED
        BY <1>3, <3>1 DEF ReadJobsFiltered
    <2>2. d \in IndexedAs(deal, asked)
      BY DEF IndexedAs
    <2>3. d \notin Newest(IndexedAs(deal, asked), MaxListed) => Cardinality(Newest(IndexedAs(deal, asked), MaxListed)) = MaxListed
      BY <1>3, <2>2, Indexed, NewestAreAsMany
    <2> QED
      BY <2>1, <2>3
  <1>8. ASSUME Cardinality(IndexedJobs(deal)) <= MaxListed PROVE ReadOverview(deal) = ReadOverviewSummary(deal)
    <2>1. ReadJobs(deal) = IndexedJobs(deal)
      BY <1>3, <1>4, <1>5, <1>8, NewestAreAll
    <2> QED
      BY <2>1 DEF ReadOverview, ReadOverviewSummary
  <1> QED
    BY <1>6, <1>7, <1>8 DEF ReadersAgree

\* How many of the other jobs count as this kind; and the job itself, when it does.
AmongOthers(rows, d, kind) == Cardinality({x \in Deals \ {d} : KindOf(rows[x]) = kind})
One(b) == IF b THEN 1 ELSE 0

LEMMA CountsOneByOne ==
  ASSUME NEW rows, NEW d \in Deals, NEW kind
  PROVE  /\ AmongOthers(rows, d, kind) \in 0 .. 3
         /\ CountOf(rows, kind) = AmongOthers(rows, d, kind) + One(KindOf(rows[d]) = kind)
  <1> DEFINE others == {x \in Deals \ {d} : KindOf(rows[x]) = kind}
             counted == {x \in Deals : KindOf(rows[x]) = kind}
  <1>1. IsFiniteSet(Deals \ {d}) /\ Cardinality(Deals \ {d}) \in 0 .. 3
    <2>1. IsFiniteSet(Deals \ {d}) /\ Cardinality(Deals \ {d}) = Cardinality(Deals) - 1
      BY DirectoryAssumption, FS_RemoveElement
    <2> QED
      BY <2>1, DirectoryAssumption
  <1>2. IsFiniteSet(others) /\ Cardinality(others) \in 0 .. 3
    <2>1. IsFiniteSet(others) /\ Cardinality(others) <= Cardinality(Deals \ {d})
      BY <1>1, FS_Subset
    <2>2. Cardinality(others) \in Nat
      BY <2>1, FS_CardinalityType
    <2> QED
      BY <1>1, <2>1, <2>2
  <1>3. d \notin others /\ counted = IF KindOf(rows[d]) = kind THEN others \cup {d} ELSE others
    OBVIOUS
  <1>4. Cardinality(others \cup {d}) = Cardinality(others) + 1
    BY <1>2, <1>3, FS_AddElement
  <1> QED
    BY <1>2, <1>3, <1>4 DEF CountOf, AmongOthers, One

\* The closed kinds do not overlap.
LEMMA ClosedAreFour ==
  ASSUME NEW rows
  PROVE  /\ \A kind : CountOf(rows, kind) \in 0 .. 4
         /\ ClosedDeals(rows) \in 0 .. 4
         /\ Cardinality({d \in Deals : KindOf(rows[d]) = "completed" /\ rows[d].recent}) \in 0 .. 4
  <1> DEFINE counted(kind) == {x \in Deals : KindOf(rows[x]) = kind}
  <1>1. ASSUME NEW T, T \subseteq Deals PROVE IsFiniteSet(T) /\ Cardinality(T) \in 0 .. 4
    <2>1. IsFiniteSet(T) /\ Cardinality(T) <= Cardinality(Deals)
      BY <1>1, DirectoryAssumption, FS_Subset
    <2> QED
      BY <2>1, DirectoryAssumption, FS_CardinalityType
  <1>2. \A kind : IsFiniteSet(counted(kind)) /\ CountOf(rows, kind) = Cardinality(counted(kind))
    BY <1>1 DEF CountOf
  <1>3. ASSUME NEW S, NEW T, S \subseteq Deals, T \subseteq Deals, S \cap T = {}
        PROVE  Cardinality(S \cup T) = Cardinality(S) + Cardinality(T)
    <2>1. IsFiniteSet(S) /\ IsFiniteSet(T) /\ Cardinality(S) \in Nat /\ Cardinality(T) \in Nat
      BY <1>1, <1>3
    <2>2. Cardinality(S \cup T) = Cardinality(S) + Cardinality(T) - Cardinality({})
      BY <1>3, <2>1, FS_Union
    <2> QED
      BY <2>1, <2>2, FS_EmptySet
  <1> DEFINE c == counted("completed")  r == counted("rejected")  f == counted("failed")  e == counted("expired")
  <1>4. /\ c \subseteq Deals /\ r \subseteq Deals /\ f \subseteq Deals /\ e \subseteq Deals
        /\ c \cap r = {} /\ (c \cup r) \cap f = {} /\ (c \cup r \cup f) \cap e = {}
    OBVIOUS
  <1>5. ClosedDeals(rows) = Cardinality(c) + Cardinality(r) + Cardinality(f) + Cardinality(e)
    BY <1>2 DEF ClosedDeals
  <1>6. Cardinality(c \cup r \cup f \cup e) = Cardinality(c) + Cardinality(r) + Cardinality(f) + Cardinality(e)
    <2> HIDE DEF c, r, f, e
    <2>1. Cardinality(c \cup r) = Cardinality(c) + Cardinality(r)
      BY <1>3, <1>4
    <2>2. c \cup r \subseteq Deals /\ c \cup r \cup f \subseteq Deals
      BY <1>4
    <2>3. Cardinality(c \cup r \cup f) = Cardinality(c \cup r) + Cardinality(f)
      BY <1>3, <1>4, <2>2
    <2>4. Cardinality(c \cup r \cup f \cup e) = Cardinality(c \cup r \cup f) + Cardinality(e)
      BY <1>3, <1>4, <2>2
    <2> QED
      BY <2>1, <2>3, <2>4
  <1>7. Cardinality(c \cup r \cup f \cup e) \in 0 .. 4
    <2> HIDE DEF c, r, f, e
    <2>1. c \cup r \cup f \cup e \subseteq Deals
      BY <1>4
    <2> QED
      BY <1>1, <2>1
  <1>8. \A kind : CountOf(rows, kind) \in 0 .. 4
    BY <1>1, <1>2
  <1>9. Cardinality({d \in Deals : KindOf(rows[d]) = "completed" /\ rows[d].recent}) \in 0 .. 4
    BY <1>1
  <1> QED
    BY <1>5, <1>6, <1>7, <1>8, <1>9

\* Of each closed job: an ending that is no completion does not help, a completion does.
LEMMA QualityMoves ==
  ASSUME NEW c \in 0 .. 4, NEW n \in 1 .. 4, c <= n
  PROVE  /\ Quality(c, n) \in 0 .. 45
         /\ n < 4 => Quality(c, n + 1) <= Quality(c, n) /\ Quality(c, n) <= Quality(c + 1, n + 1)
  BY DEF Quality, Rounded

LEMMA RoundedMoves ==
  ASSUME NEW c \in 0 .. 4, NEW n \in 1 .. 4, c <= n
  PROVE  /\ Rounded(25 * c, n) \in 0 .. 25
         /\ c < n => Rounded(25 * c, n) <= Rounded(25 * (c + 1), n)
  BY DEF Rounded

LEMMA TablesGrow ==
  ASSUME NEW c \in 0 .. 4
  PROVE  /\ Experience(c) \in 0 .. 11 /\ Volume(c) \in 0 .. 3
         /\ c < 4 => Experience(c) + 2 <= Experience(c + 1) /\ Volume(c) <= Volume(c + 1)
  BY DEF Experience, Volume

\* What the score is made of.
Recents(rows) == {x \in Deals : KindOf(rows[x]) = "completed" /\ rows[x].recent}

Gains(rows) ==
    Quality(CountOf(rows, "completed"), ClosedDeals(rows)) + Experience(CountOf(rows, "completed"))
        + Volume(CountOf(rows, "completed"))
        + Least(10, 2 * Cardinality({d \in Deals : KindOf(rows[d]) = "completed" /\ rows[d].recent}))
        + Least(5, 2 * CountOf(rows, "submitted") + CountOf(rows, "active"))

LEMMA GainsAre ==
  ASSUME NEW rows
  PROVE  Gains(rows) =
           Quality(CountOf(rows, "completed"), ClosedDeals(rows)) + Experience(CountOf(rows, "completed"))
             + Volume(CountOf(rows, "completed")) + Least(10, 2 * Cardinality(Recents(rows)))
             + Least(5, 2 * CountOf(rows, "submitted") + CountOf(rows, "active"))
  BY DEF Gains, Recents

LEMMA ScoreIsGains ==
  \A rows : ScoreOf(rows) = IF Penalty(rows) > Gains(rows) THEN 0 ELSE Least(100, Gains(rows) - Penalty(rows))
  BY DEF ScoreOf, Gains

LEMMA ScoresCompare ==
  ASSUME NEW rows, NEW others, Penalty(rows) \in Nat, Penalty(others) \in Nat, Gains(rows) \in Nat, Gains(others) \in Nat,
         Gains(rows) - Penalty(rows) <= Gains(others) - Penalty(others)
  PROVE  ScoreOf(rows) <= ScoreOf(others)
  <1> DEFINE p == Penalty(rows)  q == Penalty(others)  g == Gains(rows)  h == Gains(others)
  <1>1. ScoreOf(rows) = IF p > g THEN 0 ELSE Least(100, g - p)
    BY ScoreIsGains
  <1>2. ScoreOf(others) = IF q > h THEN 0 ELSE Least(100, h - q)
    BY ScoreIsGains
  <1>3. p \in Nat /\ q \in Nat /\ g \in Nat /\ h \in Nat /\ g - p <= h - q
    OBVIOUS
  <1> HIDE DEF p, q, g, h
  <1> QED
    BY <1>1, <1>2, <1>3 DEF Least

\* One job moves from a kind to another: that kind's count falls by one, the other's grows.
LEMMA CountsMove ==
  ASSUME DealInv, NEW d \in Deals, NEW end, NEW kind
  PROVE  CountOf([deal EXCEPT ![d] = end], kind)
           = CountOf(deal, kind) - One(KindOf(deal[d]) = kind) + One(KindOf(end) = kind)
  <1> DEFINE rows == [deal EXCEPT ![d] = end]
  <1>1. rows[d] = end /\ \A x \in Deals \ {d} : rows[x] = deal[x]
    BY DEF DealInv
  <1>2. AmongOthers(rows, d, kind) = AmongOthers(deal, d, kind)
    BY <1>1 DEF AmongOthers
  <1> HIDE DEF rows
  <1>3. CountOf(rows, kind) = AmongOthers(rows, d, kind) + One(KindOf(rows[d]) = kind)
    BY CountsOneByOne
  <1>4. CountOf(deal, kind) = AmongOthers(deal, d, kind) + One(KindOf(deal[d]) = kind)
    BY CountsOneByOne
  <1>5. AmongOthers(deal, d, kind) \in 0 .. 3
    BY CountsOneByOne
  <1>6. CountOf(rows, kind) = AmongOthers(deal, d, kind) + One(KindOf(end) = kind)
    BY <1>1, <1>2, <1>3
  <1>7. \A b : One(b) \in {0, 1}
    BY DEF One
  <1> QED
    BY <1>4, <1>5, <1>6, <1>7 DEF rows

LEMMA KindsOfRows ==
  /\ KindOf(Delivered) = "submitted" /\ KindOf(Settled) = "completed" /\ KindOf(Refused) = "rejected"
  /\ KindOf(Funded) = "active" /\ KindOf(GivenUp) = "failed" /\ KindOf(Lapsed) = "expired"
  BY DEF KindOf, Completed, Rejected, Failed, Expired, Submitted, Ongoing, Delivered, Settled, Refused, Funded, GivenUp,
         Lapsed, NoDeal

LEMMA RecentsMove ==
  ASSUME DealInv, NEW d \in Deals, KindOf(deal[d]) # "completed", NEW end
  PROVE  Cardinality(Recents([deal EXCEPT ![d] = end]))
           = Cardinality(Recents(deal)) + One(KindOf(end) = "completed" /\ end.recent)
  <1> DEFINE rows == [deal EXCEPT ![d] = end]
  <1>1. rows[d] = end /\ \A x \in Deals \ {d} : rows[x] = deal[x]
    BY DEF DealInv
  <1>2. d \notin Recents(deal)
    BY DEF Recents
  <1>3. Recents(rows) = IF KindOf(end) = "completed" /\ end.recent THEN Recents(deal) \cup {d} ELSE Recents(deal)
    BY <1>1, <1>2 DEF Recents
  <1>4. IsFiniteSet(Recents(deal))
    BY DirectoryAssumption, FS_Subset DEF Recents
  <1>5. Cardinality(Recents(deal) \cup {d}) = Cardinality(Recents(deal)) + 1 /\ Cardinality(Recents(deal)) \in Nat
    BY <1>2, <1>4, FS_AddElement, FS_CardinalityType
  <1> QED
    BY <1>3, <1>5 DEF One

\* A job ends badly, or its deliverable is accepted.
LEMMA BadEndings ==
  ASSUME DealInv, ClosedDeals(deal) > 0, NEW d \in Deals, NEW end,
         \/ deal[d] = Delivered /\ end = Refused
         \/ deal[d] = Funded /\ end \in {GivenUp, Lapsed}
  PROVE  ScoreOf([deal EXCEPT ![d] = end]) <= ScoreOf(deal)
  <1> DEFINE rows == [deal EXCEPT ![d] = end]
  <1>1. \A kind : CountOf(rows, kind) = CountOf(deal, kind) - One(KindOf(deal[d]) = kind) + One(KindOf(end) = kind)
    BY CountsMove
  <1>2. /\ \A kind : CountOf(rows, kind) \in 0 .. 4 /\ CountOf(deal, kind) \in 0 .. 4
        /\ ClosedDeals(rows) \in 0 .. 4 /\ ClosedDeals(deal) \in 1 .. 4
    <2> HIDE DEF rows
    <2>1. ClosedDeals(deal) \in 0 .. 4 /\ ClosedDeals(rows) \in 0 .. 4
      BY ClosedAreFour
    <2>2. \A kind : CountOf(rows, kind) \in 0 .. 4
      BY ClosedAreFour
    <2>3. \A kind : CountOf(deal, kind) \in 0 .. 4
      BY ClosedAreFour
    <2> QED
      BY <2>1, <2>2, <2>3
  <1>3. /\ KindOf(end) \in {"rejected", "failed", "expired"} /\ KindOf(deal[d]) \in {"submitted", "active"}
    BY KindsOfRows
  <1>4. Cardinality(Recents(rows)) = Cardinality(Recents(deal)) /\ Cardinality(Recents(deal)) \in 0 .. 4
    BY <1>3, RecentsMove, ClosedAreFour DEF One, Recents
  <1> HIDE DEF rows
  <1>5. /\ CountOf(rows, "completed") = CountOf(deal, "completed")
        /\ CountOf(rows, "submitted") <= CountOf(deal, "submitted") /\ CountOf(rows, "active") <= CountOf(deal, "active")
        /\ CountOf(rows, "rejected") >= CountOf(deal, "rejected") /\ CountOf(rows, "failed") >= CountOf(deal, "failed")
        /\ CountOf(rows, "expired") >= CountOf(deal, "expired")
        /\ ClosedDeals(rows) = ClosedDeals(deal) + 1
    BY <1>1, <1>2, <1>3 DEF One, ClosedDeals
  <1>6. /\ Quality(CountOf(deal, "completed"), ClosedDeals(deal)) \in 0 .. 45
        /\ Quality(CountOf(rows, "completed"), ClosedDeals(rows)) \in 0 .. 45
        /\ Quality(CountOf(rows, "completed"), ClosedDeals(rows)) <= Quality(CountOf(deal, "completed"), ClosedDeals(deal))
    <2>1. CountOf(deal, "completed") <= ClosedDeals(deal)
      BY <1>2 DEF ClosedDeals
    <2> QED
      BY <1>2, <1>5, <2>1, QualityMoves
  <1>7. /\ Experience(CountOf(deal, "completed")) \in 0 .. 11 /\ Volume(CountOf(deal, "completed")) \in 0 .. 3
    BY <1>2, TablesGrow
  <1>8. Gains(deal) \in Nat /\ Gains(rows) \in Nat /\ Gains(rows) <= Gains(deal)
    <2>1. /\ Least(10, 2 * Cardinality(Recents(deal))) \in Nat /\ Least(10, 2 * Cardinality(Recents(rows))) \in Nat
          /\ Least(5, 2 * CountOf(deal, "submitted") + CountOf(deal, "active")) \in Nat
          /\ Least(5, 2 * CountOf(rows, "submitted") + CountOf(rows, "active")) \in Nat
          /\ Least(10, 2 * Cardinality(Recents(rows))) = Least(10, 2 * Cardinality(Recents(deal)))
          /\ Least(5, 2 * CountOf(rows, "submitted") + CountOf(rows, "active"))
               <= Least(5, 2 * CountOf(deal, "submitted") + CountOf(deal, "active"))
      BY <1>2, <1>4, <1>5 DEF Least
    <2> QED
      BY <1>2, <1>4, <1>5, <1>6, <1>7, <2>1, GainsAre
  <1>9. Penalty(deal) \in Nat /\ Penalty(rows) \in Nat /\ Penalty(deal) <= Penalty(rows)
    BY <1>2, <1>5 DEF Penalty
  <1>10. ScoreOf(rows) <= ScoreOf(deal)
    BY <1>8, <1>9, ScoresCompare
  <1> QED
    BY <1>10 DEF rows

\* Numbers that are capped.
LEMMA CapsMove ==
  ASSUME NEW n \in 0 .. 4, NEW s \in 1 .. 4, NEW a \in 0 .. 4
  PROVE  /\ Least(10, 2 * n) \in Nat /\ Least(10, 2 * (n + 1)) \in Nat
         /\ Least(10, 2 * n) <= Least(10, 2 * (n + 1))
         /\ Least(5, 2 * s + a) \in Nat /\ Least(5, 2 * (s - 1) + a) \in Nat
         /\ Least(5, 2 * s + a) <= Least(5, 2 * (s - 1) + a) + 2
         /\ Least(20, n) \in Nat /\ Least(20, n + 1) \in Nat /\ Least(20, n) <= Least(20, n + 1)
  BY DEF Least

LEMMA GoodEndings ==
  ASSUME DealInv, ClosedDeals(deal) > 0, NEW d \in Deals, deal[d] = Delivered
  PROVE  ScoreOf(deal) <= ScoreOf([deal EXCEPT ![d] = Settled])
  <1> DEFINE rows == [deal EXCEPT ![d] = Settled]
  <1>1. \A kind : CountOf(rows, kind) = CountOf(deal, kind) - One(KindOf(deal[d]) = kind) + One(KindOf(Settled) = kind)
    BY CountsMove
  <1>2. /\ \A kind : CountOf(rows, kind) \in 0 .. 4 /\ CountOf(deal, kind) \in 0 .. 4
        /\ ClosedDeals(rows) \in 0 .. 4 /\ ClosedDeals(deal) \in 1 .. 4
    <2> HIDE DEF rows
    <2>1. ClosedDeals(deal) \in 0 .. 4 /\ ClosedDeals(rows) \in 0 .. 4
      BY ClosedAreFour
    <2>2. \A kind : CountOf(rows, kind) \in 0 .. 4
      BY ClosedAreFour
    <2>3. \A kind : CountOf(deal, kind) \in 0 .. 4
      BY ClosedAreFour
    <2> QED
      BY <2>1, <2>2, <2>3
  <1>3. KindOf(Settled) = "completed" /\ KindOf(deal[d]) = "submitted" /\ Settled.recent
    BY KindsOfRows DEF Settled, Delivered, NoDeal
  <1>4. Cardinality(Recents(rows)) = Cardinality(Recents(deal)) + 1 /\ Cardinality(Recents(deal)) \in 0 .. 4
    BY <1>3, RecentsMove, ClosedAreFour DEF One, Recents
  <1> HIDE DEF rows
  <1>5. /\ CountOf(rows, "completed") = CountOf(deal, "completed") + 1
        /\ CountOf(rows, "submitted") = CountOf(deal, "submitted") - 1 /\ CountOf(rows, "active") = CountOf(deal, "active")
        /\ CountOf(rows, "rejected") = CountOf(deal, "rejected") /\ CountOf(rows, "failed") = CountOf(deal, "failed")
        /\ CountOf(rows, "expired") = CountOf(deal, "expired")
        /\ ClosedDeals(rows) = ClosedDeals(deal) + 1
    BY <1>1, <1>2, <1>3 DEF One, ClosedDeals
  <1>6. /\ Quality(CountOf(deal, "completed"), ClosedDeals(deal)) \in 0 .. 45
        /\ Quality(CountOf(rows, "completed"), ClosedDeals(rows)) \in 0 .. 45
        /\ Quality(CountOf(deal, "completed"), ClosedDeals(deal)) <= Quality(CountOf(rows, "completed"), ClosedDeals(rows))
    <2>1. CountOf(deal, "completed") <= ClosedDeals(deal)
      BY <1>2 DEF ClosedDeals
    <2> QED
      BY <1>2, <1>5, <2>1, QualityMoves
  <1>7. /\ Experience(CountOf(deal, "completed")) \in 0 .. 11 /\ Volume(CountOf(deal, "completed")) \in 0 .. 3
        /\ Experience(CountOf(rows, "completed")) \in 0 .. 11 /\ Volume(CountOf(rows, "completed")) \in 0 .. 3
        /\ Experience(CountOf(deal, "completed")) + 2 <= Experience(CountOf(rows, "completed"))
        /\ Volume(CountOf(deal, "completed")) <= Volume(CountOf(rows, "completed"))
    BY <1>2, <1>5, TablesGrow
  <1>8. Gains(deal) \in Nat /\ Gains(rows) \in Nat /\ Gains(deal) <= Gains(rows)
    <2> DEFINE n == Cardinality(Recents(deal))  s == CountOf(deal, "submitted")  a == CountOf(deal, "active")
    <2>1. n \in 0 .. 4 /\ s \in 1 .. 4 /\ a \in 0 .. 4
      BY <1>2, <1>4, <1>5
    <2>2. /\ Least(10, 2 * Cardinality(Recents(rows))) = Least(10, 2 * (n + 1))
          /\ Least(5, 2 * CountOf(rows, "submitted") + CountOf(rows, "active")) = Least(5, 2 * (s - 1) + a)
      BY <1>4, <1>5
    <2> HIDE DEF n, s, a
    <2>3. /\ Least(10, 2 * n) \in Nat /\ Least(10, 2 * (n + 1)) \in Nat /\ Least(10, 2 * n) <= Least(10, 2 * (n + 1))
          /\ Least(5, 2 * s + a) \in Nat /\ Least(5, 2 * (s - 1) + a) \in Nat
          /\ Least(5, 2 * s + a) <= Least(5, 2 * (s - 1) + a) + 2
      BY <2>1, CapsMove
    <2>4. Gains(deal) = Quality(CountOf(deal, "completed"), ClosedDeals(deal)) + Experience(CountOf(deal, "completed"))
                          + Volume(CountOf(deal, "completed")) + Least(10, 2 * n) + Least(5, 2 * s + a)
      BY GainsAre DEF n, s, a
    <2>5. Gains(rows) = Quality(CountOf(rows, "completed"), ClosedDeals(rows)) + Experience(CountOf(rows, "completed"))
                          + Volume(CountOf(rows, "completed")) + Least(10, 2 * (n + 1)) + Least(5, 2 * (s - 1) + a)
      BY <2>2, GainsAre
    <2> DEFINE q == Quality(CountOf(deal, "completed"), ClosedDeals(deal))
               qq == Quality(CountOf(rows, "completed"), ClosedDeals(rows))
               e == Experience(CountOf(deal, "completed"))  ee == Experience(CountOf(rows, "completed"))
               v == Volume(CountOf(deal, "completed"))  vv == Volume(CountOf(rows, "completed"))
    <2>6. /\ q \in 0 .. 45 /\ qq \in 0 .. 45 /\ e \in 0 .. 11 /\ ee \in 0 .. 11 /\ v \in 0 .. 3 /\ vv \in 0 .. 3
          /\ q <= qq /\ e + 2 <= ee /\ v <= vv
      BY <1>6, <1>7
    <2>7. Gains(deal) = q + e + v + Least(10, 2 * n) + Least(5, 2 * s + a)
      BY <2>4
    <2>8. Gains(rows) = qq + ee + vv + Least(10, 2 * (n + 1)) + Least(5, 2 * (s - 1) + a)
      BY <2>5
    <2> HIDE DEF q, qq, e, ee, v, vv
    <2> QED
      BY <2>3, <2>6, <2>7, <2>8
  <1>9. Penalty(deal) \in Nat /\ Penalty(rows) = Penalty(deal)
    BY <1>2, <1>5 DEF Penalty
  <1>10. ScoreOf(deal) <= ScoreOf(rows)
    BY <1>8, <1>9, ScoresCompare
  <1> QED
    BY <1>10 DEF rows

\* The same of what the indexer answers.
CountAs(rows, kinds) == Cardinality(IndexedAs(rows, kinds))

IndexedGains(rows) ==
    LET all == Cardinality(IndexedJobs(rows)) IN
    (IF all > 0 THEN 10 + Rounded(25 * CountAs(rows, {"Completed"}), all) ELSE 0)
        + 12 * CountAs(rows, {"Completed"}) + 4 * CountAs(rows, {"Submitted"})
        + CountAs(rows, {"Open", "Funded"}) + Least(20, CountAs(rows, {"Completed"}))

LEMMA IndexedScoreIsGains ==
  \A rows : IndexedScore(rows) = IF IndexedPenalty(rows) > IndexedGains(rows) THEN 0
                                 ELSE Least(100, IndexedGains(rows) - IndexedPenalty(rows))
  BY DEF IndexedScore, IndexedGains, CountAs

LEMMA IndexedScoresCompare ==
  ASSUME NEW rows, NEW others, IndexedPenalty(rows) \in Nat, IndexedPenalty(others) \in Nat,
         IndexedGains(rows) \in Nat, IndexedGains(others) \in Nat,
         IndexedGains(rows) - IndexedPenalty(rows) <= IndexedGains(others) - IndexedPenalty(others)
  PROVE  IndexedScore(rows) <= IndexedScore(others)
  <1> DEFINE p == IndexedPenalty(rows)  q == IndexedPenalty(others)  g == IndexedGains(rows)  h == IndexedGains(others)
  <1>1. IndexedScore(rows) = IF p > g THEN 0 ELSE Least(100, g - p)
    BY IndexedScoreIsGains
  <1>2. IndexedScore(others) = IF q > h THEN 0 ELSE Least(100, h - q)
    BY IndexedScoreIsGains
  <1>3. p \in Nat /\ q \in Nat /\ g \in Nat /\ h \in Nat /\ g - p <= h - q
    OBVIOUS
  <1> HIDE DEF p, q, g, h
  <1> QED
    BY <1>1, <1>2, <1>3 DEF Least

LEMMA IndexedCountsMove ==
  ASSUME DealInv, NEW d \in Deals, NEW end, deal[d].chain # "none", end.chain # "none", NEW kinds
  PROVE  /\ IndexedJobs([deal EXCEPT ![d] = end]) = IndexedJobs(deal)
         /\ CountAs([deal EXCEPT ![d] = end], kinds)
              = CountAs(deal, kinds) - One(deal[d].chain \in kinds) + One(end.chain \in kinds)
         /\ CountAs(deal, kinds) \in 0 .. 4 /\ CountAs([deal EXCEPT ![d] = end], kinds) \in 0 .. 4
         /\ CountAs(deal, kinds) <= Cardinality(IndexedJobs(deal)) /\ Cardinality(IndexedJobs(deal)) \in 1 .. 4
         /\ deal[d].chain \notin kinds => CountAs(deal, kinds) < Cardinality(IndexedJobs(deal))
  <1> DEFINE rows == [deal EXCEPT ![d] = end]
             others == {x \in Deals \ {d} : deal[x].chain # "none" /\ deal[x].chain \in kinds}
  <1>1. rows[d] = end /\ \A x \in Deals \ {d} : rows[x] = deal[x]
    BY DEF DealInv
  <1>2. IndexedJobs(rows) = IndexedJobs(deal) /\ d \in IndexedJobs(deal)
    BY <1>1 DEF IndexedJobs
  <1>3. IndexedAs(deal, kinds) = IF deal[d].chain \in kinds THEN others \cup {d} ELSE others
    BY DEF IndexedAs, IndexedJobs
  <1>4. IndexedAs(rows, kinds) = IF end.chain \in kinds THEN others \cup {d} ELSE others
    BY <1>1 DEF IndexedAs, IndexedJobs
  <1>5. IsFiniteSet(others) /\ Cardinality(others) \in Nat
    <2>1. IsFiniteSet(others)
      BY DirectoryAssumption, FS_Subset
    <2> QED
      BY <2>1, FS_CardinalityType
  <1>6. Cardinality(others \cup {d}) = Cardinality(others) + 1
    BY <1>5, FS_AddElement
  <1>7. IsFiniteSet(IndexedJobs(deal)) /\ Cardinality(IndexedJobs(deal)) \in 1 .. 4
    <2>1. IsFiniteSet(IndexedJobs(deal)) /\ Cardinality(IndexedJobs(deal)) <= Cardinality(Deals)
      BY DirectoryAssumption, FS_Subset DEF IndexedJobs
    <2>2. Cardinality(IndexedJobs(deal)) \in Nat /\ Cardinality(IndexedJobs(deal)) # 0
      BY <1>2, <2>1, FS_CardinalityType, FS_EmptySet
    <2> QED
      BY <2>1, <2>2, DirectoryAssumption
  <1>8. Cardinality(others \cup {d}) <= Cardinality(IndexedJobs(deal))
    <2>1. others \cup {d} \subseteq IndexedJobs(deal)
      BY <1>2 DEF IndexedJobs
    <2> QED
      BY <1>7, <2>1, FS_Subset
  <1> HIDE DEF rows, others
  <1>9. CountAs(deal, kinds) = Cardinality(others) + One(deal[d].chain \in kinds)
    BY <1>3, <1>5, <1>6 DEF CountAs, One
  <1>10. CountAs(rows, kinds) = Cardinality(others) + One(end.chain \in kinds)
    BY <1>4, <1>5, <1>6 DEF CountAs, One
  <1>11. /\ One(deal[d].chain \in kinds) \in {0, 1} /\ One(end.chain \in kinds) \in {0, 1}
         /\ deal[d].chain \notin kinds => One(deal[d].chain \in kinds) = 0
    BY DEF One
  <1> QED
    BY <1>2, <1>5, <1>6, <1>7, <1>8, <1>9, <1>10, <1>11 DEF rows

LEMMA ChainsOfRows ==
  /\ Delivered.chain = "Submitted" /\ Settled.chain = "Completed" /\ Refused.chain = "Rejected"
  /\ Funded.chain = "Funded" /\ Lapsed.chain = "Expired"
  BY DEF Delivered, Settled, Refused, Funded, Lapsed, NoDeal

LEMMA IndexedFollows ==
  ASSUME DealInv, NEW d \in Deals
  PROVE  /\ deal[d] = Delivered =>
              /\ IndexedScore([deal EXCEPT ![d] = Refused]) <= IndexedScore(deal)
              /\ IndexedScore(deal) <= IndexedScore([deal EXCEPT ![d] = Settled])
         /\ deal[d] = Funded => IndexedScore([deal EXCEPT ![d] = Lapsed]) <= IndexedScore(deal)
  <1> DEFINE all == Cardinality(IndexedJobs(deal))
  <1>1. ASSUME NEW end, \/ deal[d] = Delivered /\ end \in {Refused, Settled}
                        \/ deal[d] = Funded /\ end = Lapsed
        PROVE  LET rows == [deal EXCEPT ![d] = end] IN
               IF end = Settled THEN IndexedScore(deal) <= IndexedScore(rows) ELSE IndexedScore(rows) <= IndexedScore(deal)
    <2> DEFINE rows == [deal EXCEPT ![d] = end]
    <2>1. /\ deal[d].chain \in {"Submitted", "Funded"} /\ end.chain \in {"Completed", "Rejected", "Expired"}
          /\ end = Settled <=> end.chain = "Completed"
          /\ deal[d].chain = "Submitted" <=> end.chain # "Expired"
      BY <1>1, ChainsOfRows
    <2>2. \A kinds : /\ IndexedJobs(rows) = IndexedJobs(deal)
                     /\ CountAs(rows, kinds) = CountAs(deal, kinds) - One(deal[d].chain \in kinds) + One(end.chain \in kinds)
                     /\ CountAs(deal, kinds) \in 0 .. 4 /\ CountAs(rows, kinds) \in 0 .. 4
                     /\ CountAs(deal, kinds) <= all /\ all \in 1 .. 4
                     /\ deal[d].chain \notin kinds => CountAs(deal, kinds) < all
      BY <2>1, IndexedCountsMove
    <2> HIDE DEF rows, all
    <2> DEFINE c == CountAs(deal, {"Completed"})  cc == CountAs(rows, {"Completed"})
               s == CountAs(deal, {"Submitted"})  ss == CountAs(rows, {"Submitted"})
               o == CountAs(deal, {"Open", "Funded"})  oo == CountAs(rows, {"Open", "Funded"})
               r == CountAs(deal, {"Rejected"})  rr == CountAs(rows, {"Rejected"})
               e == CountAs(deal, {"Expired"})  ee == CountAs(rows, {"Expired"})
    <2>3. cc = c + One(end.chain = "Completed") /\ c \in 0 .. 4 /\ cc \in 0 .. 4 /\ c < all /\ all \in 1 .. 4
      BY <2>1, <2>2 DEF One
    <2>4. ss = s - One(deal[d].chain = "Submitted") /\ s \in 0 .. 4 /\ ss \in 0 .. 4
      <3>1. end.chain \notin {"Submitted"} /\ (deal[d].chain \in {"Submitted"} <=> deal[d].chain = "Submitted")
        BY <2>1
      <3>2. ss = s - One(deal[d].chain \in {"Submitted"}) + One(end.chain \in {"Submitted"})
            /\ s \in 0 .. 4 /\ ss \in 0 .. 4
        BY <2>2 DEF One
      <3> QED
        BY <3>1, <3>2 DEF One
    <2>5. oo = o - One(deal[d].chain = "Funded") /\ o \in 0 .. 4 /\ oo \in 0 .. 4
      <3>1. /\ end.chain \notin {"Open", "Funded"}
            /\ deal[d].chain \in {"Open", "Funded"} <=> deal[d].chain = "Funded"
        BY <2>1
      <3>2. oo = o - One(deal[d].chain \in {"Open", "Funded"}) + One(end.chain \in {"Open", "Funded"})
            /\ o \in 0 .. 4 /\ oo \in 0 .. 4
        BY <2>2 DEF One
      <3> QED
        BY <3>1, <3>2 DEF One
    <2>6. rr = r + One(end.chain = "Rejected") /\ r \in 0 .. 4 /\ rr \in 0 .. 4
      BY <2>1, <2>2 DEF One
    <2>7. ee = e + One(end.chain = "Expired") /\ e \in 0 .. 4 /\ ee \in 0 .. 4
      BY <2>1, <2>2 DEF One
    <2>8. /\ IndexedGains(deal) = 10 + Rounded(25 * c, all) + 12 * c + 4 * s + o + Least(20, c)
          /\ IndexedGains(rows) = 10 + Rounded(25 * cc, all) + 12 * cc + 4 * ss + oo + Least(20, cc)
          /\ IndexedPenalty(deal) = 8 * r + 4 * e /\ IndexedPenalty(rows) = 8 * rr + 4 * ee
      BY <2>2, <2>3 DEF IndexedGains, IndexedPenalty, CountAs, all
    <2> HIDE DEF c, cc, s, ss, o, oo, r, rr, e, ee
    <2>9. /\ Rounded(25 * c, all) \in 0 .. 25 /\ Rounded(25 * (c + 1), all) \in 0 .. 25
          /\ Rounded(25 * c, all) <= Rounded(25 * (c + 1), all)
      <3>1. c + 1 \in 0 .. 4 /\ c + 1 <= all
        BY <2>3
      <3> QED
        BY <2>3, <3>1, RoundedMoves
    <2>10. IndexedPenalty(deal) \in Nat /\ IndexedPenalty(rows) \in Nat
      BY <2>6, <2>7, <2>8
    <2>11. CASE end.chain = "Completed"
      <3>1. cc = c + 1 /\ ss = s - 1 /\ oo = o /\ rr = r /\ ee = e
        BY <2>1, <2>3, <2>4, <2>5, <2>6, <2>7, <2>11 DEF One
      <3>2. IndexedGains(deal) \in Nat /\ IndexedGains(rows) \in Nat /\ IndexedGains(deal) <= IndexedGains(rows)
        <4>1. s \in 1 .. 4 /\ c \in 0 .. 4 /\ o \in 0 .. 4
          BY <2>3, <2>4, <2>5, <3>1
        <4>2. Least(20, c) \in Nat /\ Least(20, cc) \in Nat /\ Least(20, c) <= Least(20, cc)
          BY <3>1, <4>1, CapsMove
        <4>3. IndexedGains(rows) = 10 + Rounded(25 * (c + 1), all) + 12 * (c + 1) + 4 * (s - 1) + o + Least(20, cc)
          BY <2>8, <3>1
        <4>4. IndexedGains(deal) = 10 + Rounded(25 * c, all) + 12 * c + 4 * s + o + Least(20, c)
          BY <2>8
        <4> QED
          BY <2>9, <4>1, <4>2, <4>3, <4>4
      <3>3. IndexedPenalty(rows) = IndexedPenalty(deal)
        BY <2>8, <3>1
      <3>4. IndexedScore(deal) <= IndexedScore(rows)
        BY <2>10, <3>2, <3>3, IndexedScoresCompare
      <3> QED
        BY <2>1, <2>11, <3>4 DEF rows
    <2>12. CASE end.chain # "Completed"
      <3>1. cc = c /\ ss <= s /\ oo <= o /\ rr >= r /\ ee >= e
        BY <2>1, <2>3, <2>4, <2>5, <2>6, <2>7, <2>12 DEF One
      <3>2. IndexedGains(deal) \in Nat /\ IndexedGains(rows) \in Nat /\ IndexedGains(rows) <= IndexedGains(deal)
        BY <2>3, <2>4, <2>5, <2>8, <2>9, <3>1 DEF Least
      <3>3. IndexedPenalty(rows) >= IndexedPenalty(deal)
        BY <2>6, <2>7, <2>8, <3>1
      <3>4. IndexedScore(rows) <= IndexedScore(deal)
        BY <2>10, <3>2, <3>3, IndexedScoresCompare
      <3> QED
        BY <2>1, <2>12, <3>4 DEF rows
    <2> QED
      BY <2>11, <2>12
  <1>2. Settled # Refused /\ Settled # Lapsed
    BY ChainsOfRows
  <1> QED
    BY <1>1, <1>2

LEMMA StandingFollows == DealInv => StandingFollowsWork
  <1> SUFFICES ASSUME DealInv, NEW d \in Deals
               PROVE  LET score(end) == ScoreOf([deal EXCEPT ![d] = end])
                          told_(end) == IndexedScore([deal EXCEPT ![d] = end])
                      IN
                      /\ ClosedDeals(deal) > 0 =>
                            /\ deal[d] = Delivered => score(Refused) <= ScoreOf(deal) /\ ScoreOf(deal) <= score(Settled)
                            /\ deal[d] = Funded => score(GivenUp) <= ScoreOf(deal) /\ score(Lapsed) <= ScoreOf(deal)
                      /\ deal[d] = Delivered =>
                            told_(Refused) <= IndexedScore(deal) /\ IndexedScore(deal) <= told_(Settled)
                      /\ deal[d] = Funded => told_(Lapsed) <= IndexedScore(deal)
    BY DEF StandingFollowsWork
  <1> QED
    BY BadEndings, GoodEndings, IndexedFollows

-----------------------------------------------------------------------------
(***************************************************************************)
(* Answers from the Goldsky tables.                                        *)
(***************************************************************************)
\* A finite set of numbers has a greatest.
LEMMA HasGreatest ==
  ASSUME NEW S, S \subseteq Nat, IsFiniteSet(S), S # {}
  PROVE  \E g \in S : \A x \in S : x <= g
  <1> DEFINE place == [x \in S |-> Cardinality(NewerThan(S, x))]
             all == 0 .. (Cardinality(S) - 1)
  <1>1. place \in Bijection(S, all)
    BY PlacesAreTaken
  <1>2. \A k \in all : \E x \in S : place[x] = k
    <2> HIDE DEF place, all
    <2> QED
      BY <1>1 DEF Bijection, Surjection
  <1>3. 0 \in all
    BY FS_CardinalityType, FS_EmptySet
  <1>4. PICK g \in S : Cardinality(NewerThan(S, g)) = 0
    BY <1>2, <1>3
  <1>5. IsFiniteSet(NewerThan(S, g))
    BY FS_Subset DEF NewerThan
  <1>6. NewerThan(S, g) = {}
    BY <1>4, <1>5, FS_EmptySet
  <1>7. \A x \in S : x \in Nat /\ ~(x > g)
    BY <1>6 DEF NewerThan
  <1>8. g \in Nat
    OBVIOUS
  <1> QED
    BY <1>7, <1>8

LEMMA RowsAreFew ==
  ASSUME NEW t, NEW n \in Nat
  PROVE  RowsOf(t, n) \subseteq Nat /\ IsFiniteSet(RowsOf(t, n)) /\ RowsOf(t, n) \subseteq 1 .. n
  <1>1. RowsOf(t, n) \subseteq 1 .. n
    BY DEF RowsOf
  <1>2. IsFiniteSet(1 .. n)
    BY FS_Interval
  <1> QED
    BY <1>1, <1>2, FS_Subset

\* The last log of an agent is one of its logs, and there is no later one.
LastIs(R, a, g) == g \in R /\ logs[g].of = a /\ \A k \in R : logs[k].of = a => k <= g

LEMMA LastIsOne ==
  ASSUME NEW R, R \subseteq Nat, IsFiniteSet(R), NEW a, \E i \in R : logs[i].of = a
  PROVE  \E g \in R : LastIs(R, a, g) /\ LastOf(R, a) = logs[g]
  <1> DEFINE of == {i \in R : logs[i].of = a}
  <1>1. IsFiniteSet(of) /\ of \subseteq Nat /\ of # {}
    BY FS_Subset
  <1>2. PICK g \in of : \A x \in of : x <= g
    <2> HIDE DEF of
    <2> QED
      BY <1>1, HasGreatest
  <1>3. LastIs(R, a, g)
    BY <1>2 DEF LastIs
  <1>4. \E i \in R : logs[i].of = a /\ \A k \in R : logs[k].of = a => k <= i
    BY <1>3 DEF LastIs
  <1> DEFINE last == CHOOSE i \in R : logs[i].of = a /\ \A k \in R : logs[k].of = a => k <= i
  <1>5. last \in R /\ logs[last].of = a /\ \A k \in R : logs[k].of = a => k <= last
    BY <1>4
  <1>6. LastOf(R, a) = logs[last]
    BY DEF LastOf
  <1> HIDE DEF last
  <1> QED
    BY <1>5, <1>6 DEF LastIs

\* What rows show is what their logs say.
LEMMA SameLogsShow ==
  ASSUME NEW R, R \subseteq Nat, IsFiniteSet(R), \A i \in R : logs'[i] = logs[i], NEW W, NEW V
  PROVE  AgentsShown(R, W, V)' = AgentsShown(R, W, V)
  <1>1. ASSUME NEW a \in ChainAgents, \E i \in R : logs[i].of = a PROVE LastOf(R, a)' = LastOf(R, a)
    <2>1. PICK g \in R : LastIs(R, a, g) /\ LastOf(R, a) = logs[g]
      BY <1>1, LastIsOne
    <2> DEFINE last == CHOOSE i \in R : logs'[i].of = a /\ \A k \in R : logs'[k].of = a => k <= i
    <2>2. \E i \in R : logs'[i].of = a /\ \A k \in R : logs'[k].of = a => k <= i
      BY <2>1 DEF LastIs
    <2>3. last \in R /\ logs'[last].of = a /\ \A k \in R : logs'[k].of = a => k <= last
      BY <2>2
    <2>4. LastOf(R, a)' = logs'[last]
      BY DEF LastOf
    <2> HIDE DEF last
    <2>5. last \in Nat /\ g \in Nat /\ last <= g /\ g <= last
      BY <2>1, <2>3 DEF LastIs
    <2> QED
      BY <2>1, <2>3, <2>4, <2>5
  <1>2. \A a \in ChainAgents : (\E i \in R : logs'[i].of = a) <=> (\E i \in R : logs[i].of = a)
    OBVIOUS
  <1> QED
    BY <1>1, <1>2 DEF AgentsShown, AgentKept

\* The answer is of the logs up to one of each table.
OfOnePast(a) ==
    a.asked \in {"jobs", "agents"} =>
        \E i \in 0 .. sunk["erc8183"], k \in 0 .. sunk["identity"] :
            /\ a.jobs = JobsShown(Items(RowsOf("erc8183", i)), a.wallets)
            /\ a.agents = AgentsShown(RowsOf("identity", k), a.wallets,
                                      JobWallets(Items(RowsOf("erc8183", i)), a.wallets))

ReadsInv == known \in 0 .. Len(logs) /\ \A r \in Readers : OfOnePast(answers[r])

LEMMA InitReadsInv == GoldskyInit => ReadsInv
  <1> SUFFICES ASSUME GoldskyInit PROVE ReadsInv
    OBVIOUS
  <1>1. NoAnswer.asked = ""
    BY DEF NoAnswer
  <1>2. \A r \in Readers : answers[r].asked = ""
    BY <1>1 DEF GoldskyInit
  <1>3. known \in 0 .. Len(logs)
    BY DEF GoldskyInit
  <1> QED
    BY <1>2, <1>3 DEF ReadsInv, OfOnePast

\* Answers given stay true: logs are only added.
LEMMA PastStays ==
  ASSUME GoldskyTypes, Len(logs) <= Len(logs'), \A i \in 1 .. Len(logs) : logs'[i] = logs[i],
         Len(logs') \in Nat, sunk' \in [Tables -> Nat], \A t \in Tables : sunk[t] <= sunk'[t],
         NEW a, OfOnePast(a)
  PROVE  OfOnePast(a)'
  <1> SUFFICES ASSUME a.asked \in {"jobs", "agents"} PROVE OfOnePast(a)'
    BY DEF OfOnePast
  <1>1. PICK i \in 0 .. sunk["erc8183"], k \in 0 .. sunk["identity"] :
            /\ a.jobs = JobsShown(Items(RowsOf("erc8183", i)), a.wallets)
            /\ a.agents = AgentsShown(RowsOf("identity", k), a.wallets, JobWallets(Items(RowsOf("erc8183", i)), a.wallets))
    BY DEF OfOnePast
  <1>2. /\ sunk["erc8183"] \in 0 .. Len(logs) /\ sunk["identity"] \in 0 .. Len(logs) /\ Len(logs) \in Nat
        /\ "erc8183" \in Tables /\ "identity" \in Tables
    BY DEF GoldskyTypes, Tables
  <1>3. i \in 0 .. Len(logs) /\ k \in 0 .. Len(logs) /\ i \in 0 .. sunk'["erc8183"] /\ k \in 0 .. sunk'["identity"]
    BY <1>1, <1>2
  <1>4. ASSUME NEW t, NEW n \in 0 .. Len(logs)
        PROVE  RowsOf(t, n)' = RowsOf(t, n) /\ \A x \in RowsOf(t, n) : logs'[x] = logs[x]
    <2>1. \A x \in 1 .. n : logs'[x] = logs[x]
      BY <1>2
    <2> QED
      BY <2>1 DEF RowsOf, TableOf
  <1>5. Items(RowsOf("erc8183", i))' = Items(RowsOf("erc8183", i))
    BY <1>3, <1>4 DEF Items
  <1>6. PICK E : E = Items(RowsOf("erc8183", i))
    OBVIOUS
  <1>7. PICK R, V : R = RowsOf("identity", k) /\ V = JobWallets(E, a.wallets)
    OBVIOUS
  <1>8. a.jobs = JobsShown(E, a.wallets) /\ a.agents = AgentsShown(R, a.wallets, V)
    BY <1>1, <1>6, <1>7
  <1>9. E = Items(RowsOf("erc8183", i))' /\ R = RowsOf("identity", k)'
    BY <1>3, <1>4, <1>5, <1>6, <1>7
  <1>10. AgentsShown(R, a.wallets, V)' = AgentsShown(R, a.wallets, V)
    BY <1>3, <1>4, <1>7, RowsAreFew, SameLogsShow
  <1>11. a.agents = AgentsShown(R, a.wallets, V)'
    BY <1>8, <1>10
  <1>12. a.agents = AgentsShown(RowsOf("identity", k), a.wallets, JobWallets(Items(RowsOf("erc8183", i)), a.wallets))'
    BY <1>7, <1>9, <1>11 DEF AgentsShown, LastOf, AgentKept
  <1> QED
    BY <1>3, <1>8, <1>9, <1>12 DEF OfOnePast

\* The rows that were got of a table are those of its logs up to one of them.
LEMMA RowsAreAPast ==
  ASSUME GoldskyInv, NEW r \in Readers, request[r].ask \in {"jobs", "agents"}, NEW t \in Tables
  PROVE  \E n \in 0 .. sunk[t] : request[r].rows[t] = RowsOf(t, n)
  <1> DEFINE got == request[r].rows[t]
  <1>1. /\ sunk[t] \in 0 .. Len(logs) /\ Len(logs) \in Nat
        /\ \A i \in 1 .. Len(logs) : logs[i].block \in Nat
    <2>1. logs \in Seq(Logs) /\ sunk \in [Tables -> 0 .. Len(logs)]
      BY DEF GoldskyInv, GoldskyTypes
    <2>2. \A i \in 1 .. Len(logs) : logs[i] \in Logs
      BY <2>1
    <2> QED
      BY <2>1, <2>2 DEF Logs
  <1>2. ASSUME NEW n \in 0 .. sunk[t] PROVE OfAsk(t, request[r].ask, n) = RowsOf(t, n)
    <2>1. FromBlock(request[r].ask) = 0
      BY DEF FromBlock
    <2>2. \A i \in RowsOf(t, n) : logs[i].block >= 0
      BY <1>1 DEF RowsOf
    <2> QED
      BY <2>1, <2>2 DEF OfAsk
  <1>3. got \subseteq RowsOf(t, sunk[t]) /\ \A k \in got : OfAsk(t, request[r].ask, k) \subseteq got
    BY <1>1, <1>2 DEF GoldskyInv, NoGap
  <1>4. RowsOf(t, sunk[t]) \subseteq 1 .. sunk[t] /\ IsFiniteSet(RowsOf(t, sunk[t]))
    BY <1>1, RowsAreFew
  <1>5. got \subseteq Nat /\ IsFiniteSet(got)
    BY <1>1, <1>3, <1>4, FS_Subset
  <1>6. CASE got = {}
    <2>1. RowsOf(t, 0) = {} /\ 0 \in 0 .. sunk[t]
      BY <1>1 DEF RowsOf
    <2> QED
      BY <1>6, <2>1
  <1>7. CASE got # {}
    <2>1. PICK g \in got : \A x \in got : x <= g
      <3> HIDE DEF got
      <3> QED
        BY <1>5, <1>7, HasGreatest
    <2>2. g \in 1 .. sunk[t]
      BY <1>3, <1>4, <2>1
    <2>3. RowsOf(t, g) \subseteq got
      BY <1>2, <1>3, <2>1, <2>2
    <2>4. \A x \in got : x \in 1 .. g /\ x \in RowsOf(t, sunk[t])
      BY <1>1, <1>3, <1>4, <2>1, <2>2
    <2>5. got \subseteq RowsOf(t, g)
      BY <2>4 DEF RowsOf
    <2>6. g \in 0 .. sunk[t] /\ got = RowsOf(t, g)
      BY <1>1, <2>2, <2>3, <2>5
    <2> QED
      BY <2>6
  <1> QED
    BY <1>6, <1>7

LEMMA AnswerIsOfOnePast ==
  ASSUME GoldskyInv, NEW r \in Readers, Answer(r)
  PROVE  OfOnePast(answers[r])'
  <1>1. PICK n : n = [asked |-> request[r].ask, wallets |-> request[r].wallets,
                      jobs |-> JobsShown(Items(request[r].rows["erc8183"]), request[r].wallets),
                      agents |-> AgentsShown(request[r].rows["identity"], request[r].wallets,
                                             JobWallets(Items(request[r].rows["erc8183"]), request[r].wallets))]
    OBVIOUS
  <1>2. answers' = [answers EXCEPT ![r] = n] /\ UNCHANGED <<logs, sunk>>
    BY <1>1 DEF Answer, Answered, Projection, OfTheReads
  <1>3. answers'[r] = n
    BY <1>2 DEF GoldskyInv, GoldskyTypes
  <1> SUFFICES ASSUME n.asked \in {"jobs", "agents"} PROVE OfOnePast(n)'
    <2>1. OfOnePast(answers[r])' <=> OfOnePast(n)'
      BY <1>3 DEF OfOnePast
    <2> QED
      BY <2>1 DEF OfOnePast
  <1>4. n.asked = request[r].ask /\ "erc8183" \in Tables /\ "identity" \in Tables
    BY <1>1 DEF Tables
  <1>5. PICK i \in 0 .. sunk["erc8183"] : request[r].rows["erc8183"] = RowsOf("erc8183", i)
    BY <1>4, RowsAreAPast
  <1>6. PICK k \in 0 .. sunk["identity"] : request[r].rows["identity"] = RowsOf("identity", k)
    BY <1>4, RowsAreAPast
  <1>7. OfOnePast(n)
    BY <1>1, <1>5, <1>6 DEF OfOnePast
  <1> QED
    <2>1. GoldskyTypes /\ Len(logs) \in Nat /\ sunk \in [Tables -> Nat]
      BY DEF GoldskyInv, GoldskyTypes
    <2> QED
      BY <1>2, <1>7, <2>1, PastStays

LEMMA NextReadsInv == GoldskyInv /\ ReadsInv /\ [GoldskyNext]_goldskyVars => ReadsInv'
  <1> SUFFICES ASSUME GoldskyInv, ReadsInv, [GoldskyNext]_goldskyVars PROVE ReadsInv'
    OBVIOUS
  <1>1. GoldskyTypes /\ Len(logs) \in Nat /\ sunk \in [Tables -> 0 .. Len(logs)] /\ GoldskyTypes'
    BY NextGoldskyInv DEF GoldskyInv, GoldskyTypes
  <1>2. /\ Len(logs') \in Nat /\ Len(logs) <= Len(logs') /\ \A i \in 1 .. Len(logs) : logs'[i] = logs[i]
        /\ known' \in 0 .. Len(logs')
    <2>1. CASE LogMined
      <3>1. known' = known /\ \E e : logs' = Append(logs, e)
        BY <2>1 DEF LogMined
      <3> QED
        BY <1>1, <3>1 DEF ReadsInv, GoldskyTypes
    <2>2. CASE UNCHANGED logs
      <3>1. known' \in {known, Len(logs)}
        BY <2>2
        DEF GoldskyNext, goldskyVars, LogMined, SqliteSyncs, RowArrives, WalletIsListed, Ask, LoadDynamicAllowlists,
            FetchPage, Answer, Answered, FetchFails, OfTheReads
      <3> QED
        BY <1>1, <2>2, <3>1 DEF ReadsInv
    <2> QED
      BY <2>1, <2>2
      DEF GoldskyNext, goldskyVars, SqliteSyncs, RowArrives, WalletIsListed, Ask, LoadDynamicAllowlists,
          FetchPage, Answer, Answered, FetchFails, OfTheReads
  <1>3. sunk' \in [Tables -> Nat] /\ \A t \in Tables : sunk[t] <= sunk'[t]
    <2>1. sunk' \in [Tables -> 0 .. Len(logs')]
      BY <1>1 DEF GoldskyTypes
    <2>2. ASSUME NEW u \in Tables, RowArrives(u) PROVE \A t \in Tables : sunk[t] <= sunk'[t]
      <3>1. PICK i \in RowsOf(u, Len(logs)) : i > sunk[u] /\ sunk' = [sunk EXCEPT ![u] = i]
        BY <2>2 DEF RowArrives
      <3>2. i \in Nat
        BY <1>1, <3>1 DEF RowsOf
      <3> QED
        BY <1>1, <3>1, <3>2
    <2>3. CASE UNCHANGED sunk
      BY <1>1, <2>3
    <2>4. UNCHANGED sunk \/ \E u \in Tables : RowArrives(u)
      BY DEF GoldskyNext, goldskyVars, LogMined, SqliteSyncs, WalletIsListed, Ask, LoadDynamicAllowlists,
             FetchPage, Answer, Answered, FetchFails, OfTheReads
    <2> QED
      BY <1>2, <2>1, <2>2, <2>3, <2>4
  <1>4. \A a : OfOnePast(a) => OfOnePast(a)'
    BY <1>1, <1>2, <1>3, PastStays
  <1>5. ASSUME NEW r \in Readers PROVE OfOnePast(answers[r])'
    <2>1. CASE Answer(r)
      BY <2>1, AnswerIsOfOnePast
    <2>2. CASE answers'[r] = answers[r]
      <3>1. PICK n : n = answers[r]
        OBVIOUS
      <3>2. OfOnePast(n)'
        BY <1>4, <3>1 DEF ReadsInv
      <3> QED
        BY <2>2, <3>1, <3>2 DEF OfOnePast
    <2>3. ASSUME NEW o \in Readers, Answer(o), o # r PROVE answers'[r] = answers[r]
      BY <2>3, AnswerKeeps
    <2>4. answers'[r] = answers[r] \/ \E o \in Readers : Answer(o)
      BY FetchFailsKeeps
      DEF GoldskyNext, goldskyVars, LogMined, SqliteSyncs, RowArrives, WalletIsListed, Ask, LoadDynamicAllowlists, FetchPage
    <2> QED
      BY <2>1, <2>2, <2>3, <2>4
  <1> QED
    BY <1>2, <1>5 DEF ReadsInv

LEMMA ReadsInvGives == GoldskyInv /\ ReadsInv => GoldskyTypeOK /\ AnswersAreOfOnePast
  <1> SUFFICES ASSUME GoldskyInv, ReadsInv PROVE GoldskyTypeOK /\ AnswersAreOfOnePast
    OBVIOUS
  <1>1. GoldskyTypeOK
    <2>1. \A i \in DOMAIN logs : logs[i].of \in ChainJobs \cup ChainAgents /\ logs[i].block \in Nat
      <3>1. logs \in Seq(Logs)
        BY DEF GoldskyInv, GoldskyTypes
      <3>2. \A i \in DOMAIN logs : logs[i] \in Logs
        BY <3>1
      <3> QED
        BY <3>2 DEF Logs
    <2>2. ASSUME NEW r \in Readers
          PROVE  /\ request[r].stage \in {"idle", "lists", "fetch", "answer"}
                 /\ request[r].open \subseteq Tables /\ request[r].wallets \subseteq Holders
                 /\ request[r].stage = "answer" => request[r].open = {}
      BY DEF GoldskyInv, GoldskyTypes, Asked, ReadsToTheEnd
    <2>3. ASSUME NEW r \in Readers, NEW t \in Tables PROVE request[r].rows[t] \subseteq RowsOf(t, sunk[t])
      BY DEF GoldskyInv, NoGap, OfAsk
    <2> QED
      BY <2>1, <2>2, <2>3 DEF GoldskyTypeOK, GoldskyInv, GoldskyTypes, ReadsInv
  <1>2. ASSUME NEW r \in Readers, answers[r].asked \in {"jobs", "agents"}
        PROVE  \E i \in 0 .. sunk["erc8183"], k \in 0 .. sunk["identity"] :
                  LET p == Projection([t \in Tables |-> RowsOf(t, IF t = "erc8183" THEN i ELSE k)], answers[r].wallets)
                  IN  answers[r].jobs = p.jobs /\ answers[r].agents = p.agents
    <2>1. OfOnePast(answers[r])
      BY DEF ReadsInv
    <2>2. PICK i \in 0 .. sunk["erc8183"], k \in 0 .. sunk["identity"] :
            /\ answers[r].jobs = JobsShown(Items(RowsOf("erc8183", i)), answers[r].wallets)
            /\ answers[r].agents = AgentsShown(RowsOf("identity", k), answers[r].wallets,
                                      JobWallets(Items(RowsOf("erc8183", i)), answers[r].wallets))
      BY <1>2, <2>1 DEF OfOnePast
    <2>3. PICK R : R = [t \in Tables |-> RowsOf(t, IF t = "erc8183" THEN i ELSE k)]
      OBVIOUS
    <2>4. R["erc8183"] = RowsOf("erc8183", i) /\ R["identity"] = RowsOf("identity", k)
      BY <2>3 DEF Tables
    <2>5. /\ Projection(R, answers[r].wallets).jobs = answers[r].jobs
          /\ Projection(R, answers[r].wallets).agents = answers[r].agents
      BY <2>2, <2>4 DEF Projection
    <2> QED
      BY <2>3, <2>5
  <1> QED
    BY <1>1, <1>2 DEF AnswersAreOfOnePast

-----------------------------------------------------------------------------
(***************************************************************************)
(* The indexer.                                                            *)
(***************************************************************************)
EventRecords == [stream : Streams, of : Jobs \cup Agents, block : 1 .. MaxBlock,
                 name : JobNames \cup {"Transfer", "NewFeedback"}, log : 1 .. 2]
JobEvents    == {e \in EventRecords : e.stream = "job" /\ e.of \in Jobs /\ e.name \in JobNames}

\* The events of the blocks a .. b of a chain c, those of a stream, and the feedback of an agent.
OfBlock(c, n)    == {c[n][i] : i \in DOMAIN c[n]}
Within(c, a, b)  == UNION {OfBlock(c, n) : n \in a .. b}
OfStream(E, s)   == {e \in E : e.stream = s}
FeedbackOf(E, x) == {e \in E : e.of = x /\ e.stream = "reputation"}

\* What the events of the first blocks of a chain have in common.
EventsAreSound(E) ==
    /\ IsFiniteSet(E) /\ E \subseteq EventRecords
    /\ \A e \in E : e.stream = "job" => e.of \in Jobs /\ e.name \in JobNames /\ "JobCreated" \in NamesOf(E, e.of)
    /\ \A e \in E : e.stream # "job" => e.of \in Agents
    /\ \A e \in E : e.stream = "reputation" => \E d \in E : d.of = e.of /\ d.stream = "agent"
    /\ \A x \in Agents : Cardinality(FeedbackOf(E, x)) <= MaxFeedback

\* The i-th event of block n says so.
PlacedAt(q, n) == Len(q) <= 2 /\ \A i \in DOMAIN q : q[i].block = n /\ q[i].log = i

ChainIsSound ==
    /\ chain \in Seq(Seq(EventRecords)) /\ Len(chain) <= MaxBlock
    /\ \A n \in 1 .. Len(chain) : PlacedAt(chain[n], n)
    /\ \A m \in 0 .. Len(chain) : EventsAreSound(Within(chain, 1, m))

LEMMA WithinHas ==
  ASSUME NEW c, NEW a, NEW b, NEW e
  PROVE  e \in Within(c, a, b) <=> \E n \in a .. b : \E i \in DOMAIN c[n] : e = c[n][i]
  <1>1. e \in Within(c, a, b) <=> \E n \in a .. b : e \in OfBlock(c, n)
    BY DEF Within
  <1>2. \A n : e \in OfBlock(c, n) <=> \E i \in DOMAIN c[n] : e = c[n][i]
    BY DEF OfBlock
  <1> QED
    BY <1>1, <1>2, Zenon

LEMMA LocatedIsWithin == ASSUME NEW a, NEW b PROVE Located(a, b) = Within(chain, a, b)
  BY Zenon DEF Located, Within, OfBlock

LEMMA WithinSplits ==
  ASSUME NEW c, NEW m \in Nat, NEW n \in Nat, m <= n
  PROVE  /\ Within(c, 1, m) \subseteq Within(c, 1, n)
         /\ Within(c, 1, n) = Within(c, 1, m) \cup Within(c, m + 1, n)
  <1>1. 1 .. n = (1 .. m) \cup ((m + 1) .. n)
    OBVIOUS
  <1> QED
    BY <1>1 DEF Within

LEMMA AppendWithin ==
  ASSUME NEW c, c \in Seq(Seq(EventRecords)), NEW q, q \in Seq(EventRecords)
  PROVE  /\ \A m \in 0 .. Len(c) : Within(Append(c, q), 1, m) = Within(c, 1, m)
         /\ Within(Append(c, q), 1, Len(c) + 1) = Within(c, 1, Len(c)) \cup {q[i] : i \in DOMAIN q}
  <1> DEFINE d == Append(c, q)
  <1>1. /\ Len(c) \in Nat /\ Len(d) = Len(c) + 1 /\ d[Len(c) + 1] = q
        /\ \A n \in 1 .. Len(c) : d[n] = c[n]
    OBVIOUS
  <1> HIDE DEF d
  <1>2. \A m \in 0 .. Len(c) : Within(d, 1, m) = Within(c, 1, m)
    <2> SUFFICES ASSUME NEW m \in 0 .. Len(c) PROVE Within(d, 1, m) = Within(c, 1, m)
      OBVIOUS
    <2>1. \A n \in 1 .. m : d[n] = c[n]
      BY <1>1
    <2>2. \A n \in 1 .. m : OfBlock(d, n) = OfBlock(c, n)
      BY <2>1, Zenon DEF OfBlock
    <2>3. \A e : e \in Within(d, 1, m) <=> e \in Within(c, 1, m)
      BY <2>2 DEF Within
    <2> QED
      BY <2>3
  <1>3. Within(d, 1, Len(c) + 1) = Within(d, 1, Len(c)) \cup Within(d, Len(c) + 1, Len(c) + 1)
    <2>1. Len(c) <= Len(c) + 1 /\ Len(c) + 1 \in Nat
      BY <1>1
    <2> QED
      BY <1>1, <2>1, WithinSplits
  <1>4. Within(d, Len(c) + 1, Len(c) + 1) = {q[i] : i \in DOMAIN q}
    <2>1. (Len(c) + 1) .. (Len(c) + 1) = {Len(c) + 1}
      BY <1>1
    <2>2. OfBlock(d, Len(c) + 1) = {q[i] : i \in DOMAIN q}
      BY <1>1, Zenon DEF OfBlock
    <2>3. Within(d, Len(c) + 1, Len(c) + 1) = OfBlock(d, Len(c) + 1)
      BY <2>1 DEF Within
    <2> QED
      BY <2>2, <2>3
  <1>5. Within(d, 1, Len(c)) = Within(c, 1, Len(c))
    BY <1>1, <1>2
  <1> QED
    BY <1>2, <1>3, <1>4, <1>5 DEF d

LEMMA NothingHappened == EventsAreSound({})
  <1>1. \A x : FeedbackOf({}, x) = {}
    BY DEF FeedbackOf
  <1> QED
    BY <1>1, FS_EmptySet, IndexerAssumption DEF EventsAreSound

\* An event that may come next keeps the events sound.
LEMMA NextEventIsSound ==
  ASSUME NEW E, EventsAreSound(E), NEW b \in 1 .. MaxBlock, NEW i, i \in {1, 2}, NEW e, e \in PossibleAfter(E, b, i)
  PROVE  EventsAreSound(E \cup {e}) /\ e \in EventRecords /\ e.block = b /\ e.log = i
  <1> DEFINE after == E \cup {e}
  <1>0. IsFiniteSet(E) /\ E \subseteq EventRecords /\ IsFiniteSet(after)
    BY FS_AddElement DEF EventsAreSound
  <1>1. CASE \E j \in Jobs : \E n \in Follows(NamesOf(E, j)) : e = Event("job", j, n, b, i)
    <2>0. PICK j \in Jobs : \E n \in Follows(NamesOf(E, j)) : e = Event("job", j, n, b, i)
      BY <1>1
    <2>1. PICK n \in Follows(NamesOf(E, j)) : e = Event("job", j, n, b, i)
      BY <2>0
    <2>2. n \in JobNames /\ (n # "JobCreated" => "JobCreated" \in NamesOf(E, j))
      BY <2>1 DEF Follows, JobNames
    <2>3. e = [stream |-> "job", of |-> j, name |-> n, block |-> b, log |-> i]
      BY <2>1 DEF Event
    <2>4. e \in EventRecords /\ e.stream = "job" /\ e.of = j /\ e.name = n /\ e.block = b /\ e.log = i
      BY <2>2, <2>3 DEF EventRecords, Streams
    <2>5. \A x : NamesOf(E, x) \subseteq NamesOf(after, x)
      BY DEF NamesOf
    <2>6. "JobCreated" \in NamesOf(after, j)
      BY <2>2, <2>4, <2>5 DEF NamesOf
    <2>7. \A x : FeedbackOf(after, x) = FeedbackOf(E, x)
      BY <2>4 DEF FeedbackOf
    <2> HIDE DEF after
    <2>8. \A x \in after : x \in E \/ x = e
      BY DEF after
    <2>9. \A x \in E : x \in after
      BY DEF after
    <2> QED
      <3>1. after \subseteq EventRecords
        BY <1>0, <2>4, <2>8
      <3>2. \A x \in after : x.stream = "job" => x.of \in Jobs /\ x.name \in JobNames /\ "JobCreated" \in NamesOf(after, x.of)
        BY <2>0, <2>2, <2>4, <2>5, <2>6, <2>8 DEF EventsAreSound
      <3>3. \A x \in after : x.stream # "job" => x.of \in Agents
        BY <2>4, <2>8 DEF EventsAreSound
      <3>4. \A x \in after : x.stream = "reputation" => \E d \in after : d.of = x.of /\ d.stream = "agent"
        BY <2>4, <2>8, <2>9 DEF EventsAreSound
      <3> QED
        BY <1>0, <2>4, <2>7, <3>1, <3>2, <3>3, <3>4 DEF EventsAreSound, after
  <1>2. CASE \E x \in Agents : e = Event("agent", x, "Transfer", b, i)
    <2>1. PICK a \in Agents : e = Event("agent", a, "Transfer", b, i)
      BY <1>2
    <2>2. e = [stream |-> "agent", of |-> a, name |-> "Transfer", block |-> b, log |-> i]
      BY <2>1 DEF Event
    <2>3. e \in EventRecords /\ e.stream = "agent" /\ e.of = a /\ e.block = b /\ e.log = i
      BY <2>2 DEF EventRecords, Streams
    <2>4. \A x : NamesOf(E, x) \subseteq NamesOf(after, x)
      BY DEF NamesOf
    <2>5. \A x : FeedbackOf(after, x) = FeedbackOf(E, x)
      BY <2>3 DEF FeedbackOf
    <2> HIDE DEF after
    <2>6. \A x \in after : x \in E \/ x = e
      BY DEF after
    <2>7. \A x \in E : x \in after
      BY DEF after
    <2> QED
      <3>1. after \subseteq EventRecords
        BY <1>0, <2>3, <2>6
      <3>2. \A x \in after : x.stream = "job" => x.of \in Jobs /\ x.name \in JobNames /\ "JobCreated" \in NamesOf(after, x.of)
        BY <2>3, <2>4, <2>6 DEF EventsAreSound
      <3>3. \A x \in after : x.stream # "job" => x.of \in Agents
        BY <2>3, <2>6 DEF EventsAreSound
      <3>4. \A x \in after : x.stream = "reputation" => \E d \in after : d.of = x.of /\ d.stream = "agent"
        BY <2>3, <2>6, <2>7 DEF EventsAreSound
      <3> QED
        BY <1>0, <2>3, <2>5, <3>1, <3>2, <3>3, <3>4 DEF EventsAreSound, after
  <1>3. CASE \E x \in Agents : /\ NamesOf(E, x) # {} /\ Cardinality({d \in E : d.of = x}) <= MaxFeedback
                               /\ e = Event("reputation", x, "NewFeedback", b, i)
    <2>1. PICK a \in Agents : /\ NamesOf(E, a) # {} /\ Cardinality({d \in E : d.of = a}) <= MaxFeedback
                              /\ e = Event("reputation", a, "NewFeedback", b, i)
      BY <1>3
    <2>2. e = [stream |-> "reputation", of |-> a, name |-> "NewFeedback", block |-> b, log |-> i]
      BY <2>1 DEF Event
    <2>3. e \in EventRecords /\ e.stream = "reputation" /\ e.of = a /\ e.block = b /\ e.log = i
      BY <2>2 DEF EventRecords, Streams
    <2>4. \A x : NamesOf(E, x) \subseteq NamesOf(after, x)
      BY DEF NamesOf
    <2>5. PICK mint \in E : mint.of = a /\ mint.stream = "agent"
      <3>1. PICK d \in E : d.of = a
        BY <2>1 DEF NamesOf
      <3>2. d.stream # "job"
        BY <3>1, IndexerAssumption DEF EventsAreSound
      <3>3. d.stream \in {"agent", "reputation"}
        BY <1>0, <3>2 DEF EventRecords, Streams
      <3> QED
        BY <3>1, <3>3 DEF EventsAreSound
    <2>6. Cardinality(FeedbackOf(after, a)) <= MaxFeedback
      <3> DEFINE all == {d \in E : d.of = a}
      <3>1. IsFiniteSet(all) /\ mint \in all
        BY <1>0, <2>5, FS_Subset
      <3>2. IsFiniteSet(all \ {mint}) /\ Cardinality(all \ {mint}) = Cardinality(all) - 1
        BY <3>1, FS_RemoveElement
      <3>3. FeedbackOf(E, a) \subseteq all \ {mint}
        BY <2>5 DEF FeedbackOf
      <3>4. IsFiniteSet(FeedbackOf(E, a)) /\ Cardinality(FeedbackOf(E, a)) <= Cardinality(all) - 1
        BY <3>2, <3>3, FS_Subset
      <3>5. FeedbackOf(after, a) = FeedbackOf(E, a) \cup {e}
        BY <2>3 DEF FeedbackOf
      <3>6. Cardinality(FeedbackOf(after, a)) \in {Cardinality(FeedbackOf(E, a)), Cardinality(FeedbackOf(E, a)) + 1}
        BY <3>4, <3>5, FS_AddElement
      <3>7. Cardinality(FeedbackOf(E, a)) \in Nat /\ Cardinality(all) \in Nat /\ Cardinality(all) <= MaxFeedback
        BY <2>1, <3>1, <3>4, FS_CardinalityType
      <3>8. MaxFeedback \in Nat
        BY IndexerAssumption
      <3> HIDE DEF all, after
      <3> QED
        BY <3>4, <3>6, <3>7, <3>8
    <2>7. \A x : x # a => FeedbackOf(after, x) = FeedbackOf(E, x)
      BY <2>3 DEF FeedbackOf
    <2> HIDE DEF after
    <2>8. \A x \in after : x \in E \/ x = e
      BY DEF after
    <2>9. \A x \in E : x \in after
      BY DEF after
    <2> QED
      <3>1. after \subseteq EventRecords
        BY <1>0, <2>3, <2>8
      <3>2. \A x \in after : x.stream = "job" => x.of \in Jobs /\ x.name \in JobNames /\ "JobCreated" \in NamesOf(after, x.of)
        BY <2>3, <2>4, <2>8 DEF EventsAreSound
      <3>3. \A x \in after : x.stream # "job" => x.of \in Agents
        BY <2>3, <2>8 DEF EventsAreSound
      <3>4. \A x \in after : x.stream = "reputation" => \E d \in after : d.of = x.of /\ d.stream = "agent"
        BY <2>3, <2>5, <2>8, <2>9 DEF EventsAreSound
      <3>5. \A x \in Agents : Cardinality(FeedbackOf(after, x)) <= MaxFeedback
        BY <2>6, <2>7 DEF EventsAreSound
      <3> QED
        BY <1>0, <2>3, <3>1, <3>2, <3>3, <3>4, <3>5 DEF EventsAreSound, after
  <1>4. \/ \E j \in Jobs : \E n \in Follows(NamesOf(E, j)) : e = Event("job", j, n, b, i)
        \/ \E x \in Agents : e = Event("agent", x, "Transfer", b, i)
        \/ \E x \in Agents : /\ NamesOf(E, x) # {} /\ Cardinality({d \in E : d.of = x}) <= MaxFeedback
                             /\ e = Event("reputation", x, "NewFeedback", b, i)
    <2>1. PossibleAfter(E, b, i) = MovesOfJobs(E, b, i) \cup Mints(E, b, i) \cup Opinions(E, b, i)
      BY DEF PossibleAfter
    <2>2. e \in MovesOfJobs(E, b, i) \/ e \in Mints(E, b, i) \/ e \in Opinions(E, b, i)
      BY <2>1
    <2>3. e \in MovesOfJobs(E, b, i) => \E j \in Jobs : \E n \in Follows(NamesOf(E, j)) : e = Event("job", j, n, b, i)
      BY DEF MovesOfJobs
    <2>4. e \in Mints(E, b, i) => \E x \in Agents : e = Event("agent", x, "Transfer", b, i)
      BY DEF Mints
    <2>5. e \in Opinions(E, b, i)
          => \E x \in Agents : /\ NamesOf(E, x) # {} /\ Cardinality({d \in E : d.of = x}) <= MaxFeedback
                               /\ e = Event("reputation", x, "NewFeedback", b, i)
      BY DEF Opinions
    <2> QED
      BY <2>2, <2>3, <2>4, <2>5
  <1> QED
    BY <1>1, <1>2, <1>3, <1>4

-----------------------------------------------------------------------------
Cycles == [stage : {"idle", "fetch", "store", "mirror"} \cup Streams, upTo : [Streams -> 0 .. MaxBlock],
           todo : Seq(JobEvents)]
RowStatuses == JobNames \cup {"none"}

IndexerTypes ==
    /\ registered \subseteq Wallets /\ attached \subseteq Jobs /\ filter \subseteq Wallets
    /\ cycle \in Cycles /\ cursor \in [Streams -> 0 .. MaxBlock]
    /\ jobRow \in [Jobs -> RowStatuses] /\ agentIndexed \in [Agents -> BOOLEAN]
    /\ aggregate \in [Agents -> Nat] /\ mirrored \in [Jobs -> RowStatuses] /\ agentsThere \subseteq Agents
    /\ lastSyncError \in {"none", "error", "undefined"} /\ troubles \in 0 .. MaxTroubles

\* The events of a stream that are stored are those of the blocks up to one the cursor has not passed.
StoredUpTo(s, m) == OfStream(events, s) = OfStream(Within(chain, 1, m), s)
StreamIsKnown(s) == \E m \in cursor[s] .. Len(chain) : StoredUpTo(s, m)

\* What a cycle has fetched, and then stored.
Fetched == cycle.stage \in {"store", "mirror"} \cup Streams
Saved   == cycle.stage \in {"mirror"} \cup Streams

IndexerInv ==
    /\ ChainIsSound /\ IndexerTypes /\ EnvListed \subseteq filter
    /\ \A e \in events : e.stream \in Streams
    /\ \A s \in Streams : cursor[s] <= Len(chain) /\ StreamIsKnown(s)
    /\ Fetched => \A s \in Streams : cursor[s] <= cycle.upTo[s] /\ cycle.upTo[s] <= Len(chain)
    /\ Saved => \A s \in Streams : OfStream(Within(chain, 1, cycle.upTo[s]), s) \subseteq events
    /\ ProjectionsAreExact

\* What is stored has happened, and of a job whatever is stored its creation is.
LEMMA StoredHappened ==
  ASSUME IndexerInv
  PROVE  /\ events \subseteq Within(chain, 1, Len(chain)) /\ events \subseteq EventRecords /\ IsFiniteSet(events)
         /\ \A e \in events : /\ e.stream = "job" => e.of \in Jobs /\ "JobCreated" \in NamesOf(events, e.of)
                              /\ e.stream # "job" => e.of \in Agents
         /\ \A a \in Agents : Cardinality(FeedbackOf(events, a)) <= MaxFeedback
  <1> DEFINE all == Within(chain, 1, Len(chain))
  <1>1. Len(chain) \in Nat /\ \A s \in Streams : cursor[s] \in Nat
    BY IndexerAssumption DEF IndexerInv, ChainIsSound, IndexerTypes
  <1>2. ASSUME NEW s \in Streams
        PROVE  \E m \in 0 .. Len(chain) : StoredUpTo(s, m)
    BY <1>1 DEF IndexerInv, StreamIsKnown
  <1>3. EventsAreSound(all)
    BY <1>1 DEF IndexerInv, ChainIsSound
  <1>4. events \subseteq all
    <2> SUFFICES ASSUME NEW e \in events PROVE e \in all
      OBVIOUS
    <2>1. PICK m \in 0 .. Len(chain) : StoredUpTo(e.stream, m)
      BY <1>2 DEF IndexerInv
    <2>2. Within(chain, 1, m) \subseteq all
      BY <1>1, WithinSplits
    <2> HIDE DEF all
    <2> QED
      BY <2>1, <2>2 DEF StoredUpTo, OfStream
  <1>5. \A e \in events : e.stream = "job" => e.of \in Jobs /\ "JobCreated" \in NamesOf(events, e.of)
    <2> SUFFICES ASSUME NEW e \in events, e.stream = "job" PROVE e.of \in Jobs /\ "JobCreated" \in NamesOf(events, e.of)
      OBVIOUS
    <2>1. PICK m \in 0 .. Len(chain) : StoredUpTo("job", m)
      BY <1>2 DEF Streams
    <2>2. e \in Within(chain, 1, m) /\ EventsAreSound(Within(chain, 1, m))
      BY <2>1 DEF StoredUpTo, OfStream, IndexerInv, ChainIsSound
    <2>3. e.of \in Jobs /\ "JobCreated" \in NamesOf(Within(chain, 1, m), e.of)
      BY <2>2 DEF EventsAreSound
    <2>4. PICK d \in Within(chain, 1, m) : d.of = e.of /\ d.name = "JobCreated"
      BY <2>3 DEF NamesOf
    <2>5. d.stream = "job"
      BY <2>2, <2>3, <2>4, IndexerAssumption DEF EventsAreSound
    <2>6. d \in events
      BY <2>1, <2>4, <2>5 DEF StoredUpTo, OfStream
    <2> QED
      BY <2>3, <2>4, <2>6 DEF NamesOf
  <1>6. \A a \in Agents : Cardinality(FeedbackOf(events, a)) <= MaxFeedback
    <2> SUFFICES ASSUME NEW a \in Agents PROVE Cardinality(FeedbackOf(events, a)) <= MaxFeedback
      OBVIOUS
    <2>1. PICK m \in 0 .. Len(chain) : StoredUpTo("reputation", m)
      BY <1>2 DEF Streams
    <2>2. EventsAreSound(Within(chain, 1, m))
      BY DEF IndexerInv, ChainIsSound
    <2>3. \A e : e \in FeedbackOf(events, a) <=> e \in FeedbackOf(Within(chain, 1, m), a)
      BY <2>1 DEF StoredUpTo, OfStream, FeedbackOf
    <2>4. FeedbackOf(events, a) = FeedbackOf(Within(chain, 1, m), a)
      BY <2>3
    <2> QED
      BY <2>2, <2>4 DEF EventsAreSound
  <1>7. IsFiniteSet(events) /\ events \subseteq EventRecords /\ \A e \in events : e.stream # "job" => e.of \in Agents
    <2>1. IsFiniteSet(all) /\ all \subseteq EventRecords /\ \A e \in all : e.stream # "job" => e.of \in Agents
      BY <1>3 DEF EventsAreSound
    <2> HIDE DEF all
    <2> QED
      BY <1>4, <2>1, FS_Subset
  <1> QED
    BY <1>4, <1>5, <1>6, <1>7

\* An event of the chain is told by its transaction and its log index.
LEMMA KeysAreUnique ==
  ASSUME ChainIsSound, NEW d \in Within(chain, 1, Len(chain)), NEW e \in Within(chain, 1, Len(chain)), KeyOf(d) = KeyOf(e)
  PROVE  d = e
  <1>1. PICK n \in 1 .. Len(chain) : \E i \in DOMAIN chain[n] : d = chain[n][i]
    BY WithinHas
  <1>2. PICK i \in DOMAIN chain[n] : d = chain[n][i]
    BY <1>1
  <1>3. PICK m \in 1 .. Len(chain) : \E k \in DOMAIN chain[m] : e = chain[m][k]
    BY WithinHas
  <1>4. PICK k \in DOMAIN chain[m] : e = chain[m][k]
    BY <1>3
  <1>5. d.block = n /\ d.log = i /\ e.block = m /\ e.log = k
    BY <1>2, <1>4 DEF ChainIsSound, PlacedAt
  <1>6. d.block = e.block /\ d.log = e.log
    BY DEF KeyOf
  <1> QED
    BY <1>2, <1>4, <1>5, <1>6

\* With unique keys an upsert adds the batch.
LEMMA UpsertAdds ==
  ASSUME NEW E, NEW batch, \A d, e \in E \cup batch : KeyOf(d) = KeyOf(e) => d = e
  PROVE  Upserted(E, batch) = E \cup batch
  <1>1. \A e : e \in Upserted(E, batch) <=> e \in E \cup batch
    BY Zenon DEF Upserted
  <1> QED
    BY <1>1

LEMMA InitIndexerInv == IndexerInit => IndexerInv
  <1> SUFFICES ASSUME IndexerInit PROVE IndexerInv
    OBVIOUS
  <1> USE DEF IndexerInit
  <1>1. Len(chain) = 0 /\ chain \in Seq(Seq(EventRecords)) /\ 0 <= MaxBlock /\ 0 \in 0 .. MaxBlock /\ 0 \in 0 .. MaxTroubles
    BY IndexerAssumption
  <1>2. Within(chain, 1, 0) = {}
    BY DEF Within
  <1>3. ChainIsSound
    <2>1. \A m \in 0 .. Len(chain) : Within(chain, 1, m) = {}
      BY <1>1, <1>2
    <2>2. \A m \in 0 .. Len(chain) : EventsAreSound(Within(chain, 1, m))
      BY <2>1, NothingHappened
    <2>3. \A n \in 1 .. Len(chain) : PlacedAt(chain[n], n)
      BY <1>1
    <2> QED
      BY <1>1, <2>2, <2>3 DEF ChainIsSound
  <1>4. IndexerTypes
    BY <1>1, IndexerAssumption DEF IndexerTypes, Resting, Cycles, RowStatuses
  <1>5. \A s \in Streams : cursor[s] = 0 /\ OfStream(events, s) = {} /\ OfStream(Within(chain, 1, 0), s) = {}
    BY <1>2 DEF OfStream
  <1>6. \A s \in Streams : cursor[s] <= Len(chain) /\ StreamIsKnown(s)
    <2> SUFFICES ASSUME NEW s \in Streams PROVE cursor[s] <= Len(chain) /\ StreamIsKnown(s)
      OBVIOUS
    <2>1. StoredUpTo(s, 0)
      BY <1>5 DEF StoredUpTo
    <2>2. 0 \in cursor[s] .. Len(chain)
      BY <1>1, <1>5
    <2> QED
      BY <1>1, <1>5, <2>1, <2>2 DEF StreamIsKnown
  <1>7. ~Fetched /\ ~Saved
    BY DEF Fetched, Saved, Resting, Streams
  <1>8. ProjectionsAreExact
    <2>1. \A a \in Agents : {e \in events : e.of = a /\ e.stream = "reputation"} = {}
      OBVIOUS
    <2>2. \A j \in Jobs : NamesOf(events, j) = {}
      BY DEF NamesOf
    <2> QED
      BY <2>1, <2>2, FS_EmptySet DEF ProjectionsAreExact
  <1> QED
    BY <1>3, <1>4, <1>6, <1>7, <1>8 DEF IndexerInv

\* A block more: what was known of the blocks before it is known.
LEMMA BlockKeepsIndexer ==
  ASSUME IndexerInv, Len(chain) < MaxBlock, NEW q \in Seq(EventRecords), PlacedAt(q, Len(chain) + 1),
         EventsAreSound(Within(chain, 1, Len(chain)) \cup {q[i] : i \in DOMAIN q}), chain' = Append(chain, q),
         UNCHANGED <<registered, attached, filter, cycle, storedVars, supabaseVars, troubles>>
  PROVE  IndexerInv'
  <1> DEFINE n == Len(chain)
  <1>0. chain \in Seq(Seq(EventRecords)) /\ n \in Nat /\ MaxBlock \in Nat
    BY IndexerAssumption DEF IndexerInv, ChainIsSound
  <1>1. /\ \A m \in 0 .. n : Within(chain', 1, m) = Within(chain, 1, m)
        /\ Within(chain', 1, n + 1) = Within(chain, 1, n) \cup {q[i] : i \in DOMAIN q}
    <2>1. /\ \A m \in 0 .. Len(chain) : Within(Append(chain, q), 1, m) = Within(chain, 1, m)
          /\ Within(Append(chain, q), 1, Len(chain) + 1) = Within(chain, 1, Len(chain)) \cup {q[i] : i \in DOMAIN q}
      BY <1>0, AppendWithin
    <2> QED
      BY <2>1
  <1>2. /\ Len(chain') = n + 1 /\ chain' \in Seq(Seq(EventRecords)) /\ chain'[n + 1] = q
        /\ \A m \in 1 .. n : chain'[m] = chain[m]
    BY <1>0
  <1>3. UNCHANGED <<registered, attached, filter, cycle, cursor, events, jobRow, agentIndexed, aggregate, mirrored,
                    agentsThere, lastSyncError, troubles>>
    BY DEF storedVars, supabaseVars
  <1>4. ChainIsSound'
    <2>1. \A m \in 1 .. (n + 1) : PlacedAt(chain'[m], m)
      <3> SUFFICES ASSUME NEW m \in 1 .. (n + 1) PROVE PlacedAt(chain'[m], m)
        OBVIOUS
      <3>1. m \in 1 .. n \/ m = n + 1
        BY <1>0
      <3> QED
        BY <1>2, <3>1 DEF IndexerInv, ChainIsSound
    <2>2. \A m \in 0 .. (n + 1) : EventsAreSound(Within(chain', 1, m))
      <3> SUFFICES ASSUME NEW m \in 0 .. (n + 1) PROVE EventsAreSound(Within(chain', 1, m))
        OBVIOUS
      <3>1. m \in 0 .. n \/ m = n + 1
        BY <1>0
      <3>2. CASE m \in 0 .. n
        <4>1. Within(chain', 1, m) = Within(chain, 1, m) /\ EventsAreSound(Within(chain, 1, m))
          BY <1>1, <3>2 DEF IndexerInv, ChainIsSound
        <4> QED
          BY <4>1
      <3>3. CASE m = n + 1
        BY <1>1, <3>3
      <3> QED
        BY <3>1, <3>2, <3>3
    <2> QED
      BY <1>0, <1>2, <2>1, <2>2 DEF ChainIsSound
  <1>5. \A s \in Streams : cursor[s] \in Nat /\ cursor[s] <= n /\ StreamIsKnown(s)
    BY <1>0 DEF IndexerInv, IndexerTypes
  <1>6. \A s \in Streams : cursor'[s] <= Len(chain') /\ StreamIsKnown(s)'
    <2> SUFFICES ASSUME NEW s \in Streams PROVE cursor'[s] <= Len(chain') /\ StreamIsKnown(s)'
      OBVIOUS
    <2>1. PICK m \in cursor[s] .. n : StoredUpTo(s, m)
      BY <1>5 DEF StreamIsKnown
    <2>2. m \in 0 .. n /\ m \in cursor[s] .. (n + 1)
      BY <1>0, <1>5, <2>1
    <2>3. OfStream(events', s) = OfStream(Within(chain', 1, m), s)
      BY <1>1, <1>3, <2>1, <2>2 DEF StoredUpTo
    <2>4. \E k \in cursor'[s] .. Len(chain') : OfStream(events', s) = OfStream(Within(chain', 1, k), s)
      BY <1>2, <1>3, <2>2, <2>3
    <2> QED
      BY <1>0, <1>2, <1>3, <1>5, <2>4 DEF StreamIsKnown, StoredUpTo
  <1>7. Fetched' => \A s \in Streams : cursor'[s] <= cycle'.upTo[s] /\ cycle'.upTo[s] <= Len(chain')
    <2>1. Fetched' => Fetched
      BY <1>3 DEF Fetched
    <2>2. \A s \in Streams : cycle.upTo[s] \in Nat
      BY <1>0 DEF IndexerInv, IndexerTypes, Cycles
    <2> QED
      BY <1>0, <1>2, <1>3, <2>1, <2>2 DEF IndexerInv
  <1>8. Saved' => \A s \in Streams : OfStream(Within(chain', 1, cycle'.upTo[s]), s) \subseteq events'
    <2> SUFFICES ASSUME Saved, NEW s \in Streams PROVE OfStream(Within(chain', 1, cycle.upTo[s]), s) \subseteq events
      BY <1>3 DEF Saved
    <2>1. cycle.upTo[s] \in 0 .. n
      BY <1>0 DEF IndexerInv, IndexerTypes, Cycles, Fetched, Saved
    <2> QED
      BY <1>1, <2>1 DEF IndexerInv
  <1>9. IndexerTypes' /\ (EnvListed \subseteq filter)' /\ \A e \in events' : e.stream \in Streams
    BY <1>3 DEF IndexerInv, IndexerTypes
  <1>10. ProjectionsAreExact'
    BY <1>3 DEF IndexerInv, ProjectionsAreExact, NamesOf
  <1> QED
    BY <1>4, <1>6, <1>7, <1>8, <1>9, <1>10 DEF IndexerInv

LEMMA MinedKeepsIndexer ==
  ASSUME IndexerInv, Mined
  PROVE  IndexerInv'
  <1> DEFINE n == Len(chain) + 1
             E == Within(chain, 1, Len(chain))
  <1>1. Len(chain) \in Nat /\ MaxBlock \in Nat /\ Len(chain) < MaxBlock /\ n \in 1 .. MaxBlock /\ EventsAreSound(E)
    BY IndexerAssumption DEF IndexerInv, ChainIsSound, Mined
  <1>2. UNCHANGED <<registered, attached, filter, cycle, storedVars, supabaseVars, troubles>>
    BY DEF Mined
  <1>3. \/ chain' = Append(chain, <<>>)
        \/ \E e \in PossibleAfter(E, n, 1) :
              \/ chain' = Append(chain, <<e>>)
              \/ \E f \in PossibleAfter(E \cup {e}, n, 2) : chain' = Append(chain, <<e, f>>)
    BY LocatedIsWithin DEF Mined
  <1> HIDE DEF n, E
  <1>4. CASE chain' = Append(chain, <<>>)
    <2>1. <<>> \in Seq(EventRecords) /\ PlacedAt(<<>>, n) /\ E \cup {<<>>[i] : i \in DOMAIN <<>>} = E
      BY DEF PlacedAt
    <2> QED
      BY <1>1, <1>2, <1>4, <2>1, BlockKeepsIndexer DEF n, E
  <1>5. ASSUME NEW e \in PossibleAfter(E, n, 1), chain' = Append(chain, <<e>>)
        PROVE  IndexerInv'
    <2>1. EventsAreSound(E \cup {e}) /\ e \in EventRecords /\ e.block = n /\ e.log = 1
      BY <1>1, NextEventIsSound
    <2>2. PICK q : q = <<e>>
      OBVIOUS
    <2>3. q \in Seq(EventRecords) /\ Len(q) = 1 /\ DOMAIN q = {1} /\ q[1] = e
      BY <2>1, <2>2
    <2>4. PlacedAt(q, n) /\ {q[i] : i \in DOMAIN q} = {e}
      BY <2>1, <2>3 DEF PlacedAt
    <2> QED
      BY <1>1, <1>2, <1>5, <2>1, <2>2, <2>3, <2>4, BlockKeepsIndexer DEF n, E
  <1>6. ASSUME NEW e \in PossibleAfter(E, n, 1), NEW f \in PossibleAfter(E \cup {e}, n, 2), chain' = Append(chain, <<e, f>>)
        PROVE  IndexerInv'
    <2>1. EventsAreSound(E \cup {e}) /\ e \in EventRecords /\ e.block = n /\ e.log = 1
      BY <1>1, NextEventIsSound
    <2>2. EventsAreSound((E \cup {e}) \cup {f}) /\ f \in EventRecords /\ f.block = n /\ f.log = 2
      <3>1. PICK G : G = E \cup {e}
        OBVIOUS
      <3>2. EventsAreSound(G) /\ f \in PossibleAfter(G, n, 2) /\ 2 \in {1, 2}
        BY <2>1, <3>1
      <3>3. EventsAreSound(G \cup {f}) /\ f \in EventRecords /\ f.block = n /\ f.log = 2
        BY <1>1, <3>2, NextEventIsSound
      <3> QED
        BY <3>1, <3>3
    <2>3. PICK q : q = <<e, f>>
      OBVIOUS
    <2>4. q \in Seq(EventRecords) /\ Len(q) = 2 /\ DOMAIN q = {1, 2} /\ q[1] = e /\ q[2] = f
      BY <2>1, <2>2, <2>3
    <2>5. PlacedAt(q, n) /\ {q[i] : i \in DOMAIN q} = {e, f} /\ E \cup {e, f} = (E \cup {e}) \cup {f}
      BY <2>1, <2>2, <2>4 DEF PlacedAt
    <2> QED
      BY <1>1, <1>2, <1>6, <2>2, <2>3, <2>4, <2>5, BlockKeepsIndexer DEF n, E
  <1> QED
    BY <1>3, <1>4, <1>5, <1>6

\* A step that writes nothing to the tables of the indexer.
LEMMA QuietKeepsIndexer ==
  ASSUME IndexerInv, UNCHANGED <<chain, storedVars>>, IndexerTypes', EnvListed \subseteq filter',
         Fetched' => \A s \in Streams : cursor[s] <= cycle'.upTo[s] /\ cycle'.upTo[s] <= Len(chain),
         Saved' => Saved /\ cycle'.upTo = cycle.upTo
  PROVE  IndexerInv'
  <1>1. UNCHANGED <<chain, cursor, events, jobRow, agentIndexed, aggregate>>
    BY DEF storedVars
  <1>2. ChainIsSound' /\ ProjectionsAreExact'
    BY <1>1 DEF IndexerInv, ChainIsSound, ProjectionsAreExact, NamesOf
  <1>3. \A s \in Streams : cursor'[s] <= Len(chain') /\ StreamIsKnown(s)'
    BY <1>1 DEF IndexerInv, StreamIsKnown, StoredUpTo
  <1>4. Saved' => \A s \in Streams : OfStream(Within(chain', 1, cycle'.upTo[s]), s) \subseteq events'
    BY <1>1 DEF IndexerInv
  <1> QED
    BY <1>1, <1>2, <1>3, <1>4 DEF IndexerInv

LEMMA RestIsQuiet ==
  /\ Resting \in Cycles /\ Resting.stage = "idle"
  /\ "idle" \notin {"store", "mirror"} \cup Streams /\ "fetch" \notin {"store", "mirror"} \cup Streams
  BY IndexerAssumption DEF Resting, Cycles, Streams

\* Of two numbers of a finite set fewer are newer than the greater.
LEMMA PlacesAreOrdered ==
  ASSUME NEW S, S \subseteq Nat, IsFiniteSet(S), NEW x \in S, NEW y \in S, y > x
  PROVE  Cardinality(NewerThan(S, y)) < Cardinality(NewerThan(S, x))
  <1>1. \A z \in S : z > y => z > x
    <2>1. \A z \in S : z \in Nat
      OBVIOUS
    <2> QED
      BY <2>1
  <1>2. NewerThan(S, y) \subseteq NewerThan(S, x) /\ y \in NewerThan(S, x) /\ y \notin NewerThan(S, y)
    <2>1. ~(y > y)
      OBVIOUS
    <2> QED
      BY <1>1, <2>1, Zenon DEF NewerThan
  <1>3. IsFiniteSet(NewerThan(S, x)) /\ IsFiniteSet(NewerThan(S, y))
    BY FS_Subset DEF NewerThan
  <1>4. Cardinality(NewerThan(S, y)) <= Cardinality(NewerThan(S, x)) /\ Cardinality(NewerThan(S, y)) # Cardinality(NewerThan(S, x))
    BY <1>2, <1>3, FS_Subset
  <1>5. Cardinality(NewerThan(S, y)) \in Nat /\ Cardinality(NewerThan(S, x)) \in Nat
    BY <1>3, FS_CardinalityType
  <1> QED
    BY <1>4, <1>5

\* A finite set of events has an order, and Sorted is it.
LEMMA SortedIsASequence ==
  ASSUME NEW S, S \subseteq EventRecords, IsFiniteSet(S), \A d, e \in S : d.block = e.block /\ d.log = e.log => d = e
  PROVE  Sorted(S) \in Seq(S)
  <1> DEFINE rank == [e \in S |-> 2 * e.block + e.log]
             T == {rank[e] : e \in S}
             n == Cardinality(S)
             place(x) == Cardinality(NewerThan(T, x))
             q == [k \in 1 .. n |-> CHOOSE e \in S : place(rank[e]) = n - k]
  <1>1. \A e \in S : e.block \in Nat /\ e.log \in {1, 2} /\ rank[e] = 2 * e.block + e.log /\ rank[e] \in Nat
    <2>1. \A e \in S : e.block \in Nat /\ e.log \in {1, 2}
      BY IndexerAssumption DEF EventRecords
    <2> QED
      BY <2>1
  <1>2. \A d, e \in S : Before(d, e) <=> rank[e] > rank[d]
    <2> SUFFICES ASSUME NEW d \in S, NEW e \in S PROVE Before(d, e) <=> rank[e] > rank[d]
      OBVIOUS
    <2>1. PICK b, l, bb, ll : b = d.block /\ l = d.log /\ bb = e.block /\ ll = e.log
      OBVIOUS
    <2>2. b \in Nat /\ bb \in Nat /\ l \in {1, 2} /\ ll \in {1, 2} /\ rank[d] = 2 * b + l /\ rank[e] = 2 * bb + ll
      BY <1>1, <2>1
    <2>3. Before(d, e) <=> (b < bb \/ (b = bb /\ l < ll))
      BY <2>1 DEF Before
    <2> HIDE DEF rank
    <2> QED
      BY <2>2, <2>3
  <1>3. \A d, e \in S : rank[d] = rank[e] => d = e
    <2> SUFFICES ASSUME NEW d \in S, NEW e \in S, rank[d] = rank[e] PROVE d = e
      OBVIOUS
    <2>1. PICK b, l, bb, ll : b = d.block /\ l = d.log /\ bb = e.block /\ ll = e.log
      OBVIOUS
    <2>2. b \in Nat /\ bb \in Nat /\ l \in {1, 2} /\ ll \in {1, 2} /\ rank[d] = 2 * b + l /\ rank[e] = 2 * bb + ll
      BY <1>1, <2>1
    <2> HIDE DEF rank
    <2>3. 2 * b + l = 2 * bb + ll
      BY <2>2
    <2>4. b = bb /\ l = ll
      <3>1. CASE b < bb
        <4>1. b + 1 <= bb
          BY <2>2, <3>1
        <4>2. 2 * b + 2 <= 2 * bb
          BY <2>2, <4>1
        <4> QED
          BY <2>2, <2>3, <4>2
      <3>2. CASE bb < b
        <4>1. bb + 1 <= b
          BY <2>2, <3>2
        <4>2. 2 * bb + 2 <= 2 * b
          BY <2>2, <4>1
        <4> QED
          BY <2>2, <2>3, <4>2
      <3>3. CASE b = bb
        BY <2>2, <2>3, <3>3
      <3> QED
        BY <2>2, <3>1, <3>2, <3>3
    <2> QED
      BY <2>1, <2>4
  <1>4. rank \in Bijection(S, T)
    <2>1. rank \in [S -> T] /\ \A x \in T : \E e \in S : rank[e] = x
      OBVIOUS
    <2>2. rank \in Injection(S, T) /\ rank \in Surjection(S, T)
      <3> HIDE DEF rank, T
      <3> QED
        BY <1>3, <2>1 DEF Injection, Surjection, IsInjective
    <2> HIDE DEF rank, T
    <2> QED
      BY <2>2 DEF Bijection
  <1>5. IsFiniteSet(T) /\ Cardinality(T) = n /\ n \in Nat
    <2>1. ExistsBijection(S, T)
      <3> HIDE DEF rank, T
      <3> QED
        BY <1>4 DEF ExistsBijection
    <2> HIDE DEF T
    <2> QED
      BY <2>1, FS_Bijection, FS_CardinalityType
  <1>6. T \subseteq Nat
    BY <1>1
  <1>7. \A k \in 0 .. (n - 1) : \E x \in T : place(x) = k
    <2> HIDE DEF T, n
    <2>1. [x \in T |-> Cardinality(NewerThan(T, x))] \in Bijection(T, 0 .. (Cardinality(T) - 1))
      BY <1>5, <1>6, PlacesAreTaken
    <2> QED
      BY <1>5, <2>1 DEF Bijection, Surjection
  <1>8. \A k \in 1 .. n : \E e \in S : place(rank[e]) = n - k
    <2> SUFFICES ASSUME NEW k \in 1 .. n PROVE \E e \in S : place(rank[e]) = n - k
      OBVIOUS
    <2>1. n - k \in 0 .. (n - 1)
      BY <1>5
    <2>2. PICK x \in T : place(x) = n - k
      BY <1>7, <2>1
    <2>3. PICK e \in S : x = rank[e]
      BY <2>2
    <2> QED
      BY <2>2, <2>3
  <1>9. \A k \in 1 .. n : q[k] \in S /\ place(rank[q[k]]) = n - k
    <2> HIDE DEF place, rank, n
    <2> QED
      BY <1>8
  <1>10. q \in [1 .. n -> S]
    <2> HIDE DEF place, rank
    <2>1. q = [k \in 1 .. n |-> q[k]]
      OBVIOUS
    <2> HIDE DEF q
    <2> QED
      BY <1>9, <2>1
  <1>11. \A i, k \in 1 .. n : i < k => Before(q[i], q[k])
    <2> SUFFICES ASSUME NEW i \in 1 .. n, NEW k \in 1 .. n, i < k PROVE Before(q[i], q[k])
      OBVIOUS
    <2> DEFINE x == rank[q[i]]
               y == rank[q[k]]
    <2>1. x \in T /\ y \in T /\ place(x) = n - i /\ place(y) = n - k
      <3> HIDE DEF q, place, rank
      <3> QED
        BY <1>9
    <2>2. q[i] \in S /\ q[k] \in S
      BY <1>9
    <2> HIDE DEF x, y, T, n
    <2>3. x # y /\ ~(x > y)
      <3>1. place(y) < place(x)
        <4> HIDE DEF place
        <4> QED
          BY <1>5, <2>1
      <3>2. x > y => place(x) < place(y)
        BY <1>5, <1>6, <2>1, PlacesAreOrdered
      <3>3. place(x) \in Int /\ place(y) \in Int
        <4> HIDE DEF place
        <4> QED
          BY <1>5, <2>1
      <3> HIDE DEF place
      <3> QED
        BY <3>1, <3>2, <3>3
    <2>4. x \in Nat /\ y \in Nat
      BY <1>6, <2>1
    <2>5. y > x
      BY <2>3, <2>4
    <2> HIDE DEF q, rank
    <2> QED
      BY <1>2, <2>2, <2>5 DEF x, y
  <1>12. Sorted(S) \in [1 .. n -> S]
    <2>1. \E p \in [1 .. Cardinality(S) -> S] : \A i, k \in 1 .. Cardinality(S) : i < k => Before(p[i], p[k])
      <3> HIDE DEF q
      <3> QED
        BY <1>10, <1>11
    <2> QED
      BY <2>1 DEF Sorted
  <1> HIDE DEF n
  <1> QED
    BY <1>5, <1>12

\* The chain's tables, and the indexer's calls that write no table of its own.
LEMMA ConsoleKeepsIndexer ==
  ASSUME IndexerInv, (\E w \in Wallets : WalletIsRegistered(w)) \/ (\E j \in Jobs : JobIsAttached(j))
  PROVE  IndexerInv'
  <1>1. /\ UNCHANGED <<chain, filter, cycle, storedVars, supabaseVars, troubles>>
        /\ registered' \subseteq registered \cup Wallets /\ attached' \subseteq attached \cup Jobs
    BY DEF WalletIsRegistered, JobIsAttached
  <1>2. UNCHANGED <<cursor, jobRow, agentIndexed, aggregate, mirrored, agentsThere, lastSyncError>>
    BY <1>1 DEF storedVars, supabaseVars
  <1>3. IndexerTypes'
    BY <1>1, <1>2 DEF IndexerInv, IndexerTypes
  <1>4. EnvListed \subseteq filter' /\ (Fetched' => Fetched) /\ (Saved' => Saved) /\ cycle' = cycle
    BY <1>1 DEF IndexerInv, Fetched, Saved
  <1> QED
    BY <1>1, <1>3, <1>4, QuietKeepsIndexer DEF IndexerInv

LEMMA RefreshKeepsIndexer ==
  ASSUME IndexerInv, Refresh
  PROVE  IndexerInv'
  <1>1. cycle \in Cycles
    BY DEF IndexerInv, IndexerTypes
  <1>2. PICK k \in Cycles : k = cycle
    BY <1>1
  <1>3. cycle' = [k EXCEPT !.stage = "fetch"]
    BY <1>2 DEF Refresh
  <1>4. cycle' \in Cycles /\ cycle'.stage = "fetch"
    BY <1>3 DEF Cycles
  <1>5. UNCHANGED <<chain, registered, attached, storedVars, supabaseVars>> /\ filter' \in {EnvListed, EnvListed \cup registered}
    BY DEF Refresh, chainVars
  <1>6. UNCHANGED <<cursor, jobRow, agentIndexed, aggregate, mirrored, agentsThere, lastSyncError>>
    BY <1>5 DEF storedVars, supabaseVars
  <1>7. troubles' \in 0 .. MaxTroubles
    BY IndexerAssumption DEF Refresh, Stuck, IndexerInv, IndexerTypes
  <1>8. IndexerTypes'
    BY <1>4, <1>5, <1>6, <1>7, IndexerAssumption DEF IndexerInv, IndexerTypes
  <1>9. ~Fetched' /\ ~Saved'
    BY <1>4, RestIsQuiet DEF Fetched, Saved
  <1> QED
    BY <1>5, <1>8, <1>9, QuietKeepsIndexer

LEMMA FetchKeepsIndexer ==
  ASSUME IndexerInv, Fetch
  PROVE  IndexerInv'
  <1>1. PICK k \in Cycles : k = cycle
    BY DEF IndexerInv, IndexerTypes
  <1>2. UNCHANGED <<chain, registered, attached, filter, storedVars, mirrored, agentsThere>>
    BY DEF Fetch, chainVars
  <1>3. UNCHANGED <<cursor, jobRow, agentIndexed, aggregate>>
    BY <1>2 DEF storedVars
  <1>4. lastSyncError' \in {"none", "error", "undefined"} /\ troubles' \in 0 .. MaxTroubles
    BY IndexerAssumption DEF Fetch, Stuck, IndexerInv, IndexerTypes
  <1>5. CASE cycle' = Resting
    <2>1. cycle' \in Cycles /\ ~Fetched' /\ ~Saved'
      BY <1>5, RestIsQuiet DEF Fetched, Saved
    <2>2. IndexerTypes'
      BY <1>2, <1>3, <1>4, <2>1 DEF IndexerInv, IndexerTypes
    <2> QED
      BY <1>2, <2>1, <2>2, QuietKeepsIndexer DEF IndexerInv
  <1>6. CASE cycle' = [cycle EXCEPT !.stage = "store", !.upTo = [s \in Streams |-> CalculateToBlock(FirstBlock(s))]]
    <2>1. PICK up : up = [s \in Streams |-> CalculateToBlock(FirstBlock(s))]
      OBVIOUS
    <2>2. Len(chain) \in Nat /\ MaxBlock \in Nat /\ Len(chain) <= MaxBlock /\ MaxRange \in Nat /\ MaxRange >= 1
      BY IndexerAssumption DEF IndexerInv, ChainIsSound
    <2>3. \A s \in Streams : cursor[s] \in Nat /\ cursor[s] <= Len(chain)
      BY DEF IndexerInv, IndexerTypes
    <2>4. \A s \in Streams : up[s] \in Nat /\ cursor[s] <= up[s] /\ up[s] <= Len(chain)
      BY <2>1, <2>2, <2>3 DEF CalculateToBlock, FirstBlock
    <2>5. up \in [Streams -> 0 .. MaxBlock]
      BY <2>1, <2>2, <2>4
    <2>6. cycle' = [k EXCEPT !.stage = "store", !.upTo = up]
      BY <1>1, <1>6, <2>1
    <2>7. cycle' \in Cycles /\ cycle'.stage = "store" /\ cycle'.upTo = up
      BY <2>5, <2>6 DEF Cycles
    <2>8. IndexerTypes'
      BY <1>2, <1>3, <1>4, <2>7 DEF IndexerInv, IndexerTypes
    <2>9. ~Saved'
      BY <2>7 DEF Saved, Streams
    <2> QED
      BY <1>2, <2>4, <2>7, <2>8, <2>9, QuietKeepsIndexer DEF IndexerInv
  <1> QED
    BY <1>5, <1>6 DEF Fetch

LEMMA PatchKeepsIndexer ==
  ASSUME IndexerInv, Patch \/ AgentsToSupabase
  PROVE  IndexerInv'
  <1>1. PICK k \in Cycles : k = cycle
    BY DEF IndexerInv, IndexerTypes
  <1>2. UNCHANGED <<chain, registered, attached, filter, storedVars, agentsThere>> /\ k.stage = "mirror"
    BY <1>1 DEF Patch, AgentsToSupabase, chainVars
  <1>3. UNCHANGED <<cursor, jobRow, agentIndexed, aggregate>>
    BY <1>2 DEF storedVars
  <1>4. lastSyncError' \in {"none", "error", "undefined"} /\ troubles' \in 0 .. MaxTroubles
    BY IndexerAssumption DEF Patch, AgentsToSupabase, Stuck, IndexerInv, IndexerTypes
  <1>5. cycle' \in Cycles /\ cycle'.upTo = k.upTo /\ cycle'.stage \in {"mirror", "job"} /\ mirrored' \in [Jobs -> RowStatuses]
    <2>1. CASE cycle.todo # <<>> /\ Patch /\ cycle' = [cycle EXCEPT !.todo = Tail(@)]
      <3>1. PICK e : e = Head(k.todo)
        OBVIOUS
      <3>2. k.todo \in Seq(JobEvents) /\ k.todo # <<>>
        BY <1>1, <2>1 DEF Cycles
      <3>3. e \in JobEvents /\ Tail(k.todo) \in Seq(JobEvents)
        BY <3>1, <3>2
      <3>4. cycle' = [k EXCEPT !.todo = Tail(k.todo)]
        BY <1>1, <2>1
      <3>5. cycle' = [stage |-> k.stage, upTo |-> k.upTo, todo |-> Tail(k.todo)]
        BY <3>4 DEF Cycles
      <3>6. \/ mirrored' = mirrored
            \/ mirrored' = [mirrored EXCEPT ![e.of] = IF e.of \in attached THEN e.name ELSE @]
        BY <1>1, <2>1, <3>1 DEF Patch
      <3>7. mirrored' \in [Jobs -> RowStatuses]
        BY <3>3, <3>6 DEF IndexerInv, IndexerTypes, JobEvents, RowStatuses
      <3> QED
        BY <1>2, <3>3, <3>5, <3>7 DEF Cycles
    <2>2. CASE cycle' = [cycle EXCEPT !.stage = "job", !.todo = <<>>] /\ UNCHANGED mirrored
      <3>1. cycle' = [stage |-> "job", upTo |-> k.upTo, todo |-> <<>>]
        BY <1>1, <2>2 DEF Cycles
      <3>2. <<>> \in Seq(JobEvents)
        OBVIOUS
      <3>3. PICK nothing \in Seq(JobEvents) : cycle' = [stage |-> "job", upTo |-> k.upTo, todo |-> nothing]
        BY <3>1, <3>2
      <3>4. cycle' \in Cycles /\ cycle'.upTo = k.upTo /\ cycle'.stage = "job"
        BY <3>3 DEF Cycles, Streams
      <3> QED
        BY <2>2, <3>4 DEF IndexerInv, IndexerTypes
    <2>3. CASE cycle' = [cycle EXCEPT !.stage = "job"] /\ UNCHANGED mirrored
      <3>1. cycle' = [stage |-> "job", upTo |-> k.upTo, todo |-> k.todo]
        BY <1>1, <2>3 DEF Cycles
      <3> QED
        BY <2>3, <3>1 DEF Cycles, Streams, IndexerInv, IndexerTypes
    <2> QED
      BY <2>1, <2>2, <2>3 DEF Patch, AgentsToSupabase
  <1>6. IndexerTypes'
    BY <1>2, <1>3, <1>4, <1>5 DEF IndexerInv, IndexerTypes
  <1>7. Fetched /\ Saved
    BY <1>1, <1>2 DEF Fetched, Saved
  <1> QED
    BY <1>1, <1>2, <1>5, <1>6, <1>7, QuietKeepsIndexer DEF IndexerInv

LEMMA CrashKeepsIndexer ==
  ASSUME IndexerInv, IndexerCrash
  PROVE  IndexerInv'
  <1>1. UNCHANGED <<chain, registered, attached, storedVars, mirrored, agentsThere>> /\ cycle' = Resting /\ filter' = EnvListed
    BY DEF IndexerCrash, chainVars
  <1>2. UNCHANGED <<cursor, jobRow, agentIndexed, aggregate>>
    BY <1>1 DEF storedVars
  <1>3. lastSyncError' \in {"none", "error", "undefined"} /\ troubles' \in 0 .. MaxTroubles
    BY IndexerAssumption DEF IndexerCrash, Stuck, IndexerInv, IndexerTypes
  <1>4. cycle' \in Cycles /\ ~Fetched' /\ ~Saved'
    BY <1>1, RestIsQuiet DEF Fetched, Saved
  <1>5. IndexerTypes'
    BY <1>1, <1>2, <1>3, <1>4, IndexerAssumption DEF IndexerInv, IndexerTypes
  <1> QED
    BY <1>1, <1>4, <1>5, QuietKeepsIndexer

\* A cursor is written when what it passes is stored.
LEMMA CursorKeepsIndexer ==
  ASSUME IndexerInv, NEW s \in Streams, WriteCursor(s)
  PROVE  IndexerInv'
  <1>1. PICK k \in Cycles : k = cycle
    BY DEF IndexerInv, IndexerTypes
  <1>2. UNCHANGED <<chain, registered, attached, filter, events, jobRow, agentIndexed, aggregate, mirrored, agentsThere,
                    lastSyncError, troubles>>
    BY DEF WriteCursor, chainVars, supabaseVars
  <1>3. k.stage = s /\ Fetched /\ Saved
    BY <1>1 DEF WriteCursor, Fetched, Saved
  <1>4. Len(chain) \in Nat /\ MaxBlock \in Nat /\ Len(chain) <= MaxBlock
    BY IndexerAssumption DEF IndexerInv, ChainIsSound
  <1>5. \A t \in Streams : cursor[t] \in Nat /\ k.upTo[t] \in 0 .. MaxBlock /\ cursor[t] <= k.upTo[t] /\ k.upTo[t] <= Len(chain)
    BY <1>1, <1>3 DEF IndexerInv, IndexerTypes, Cycles
  <1>6. cursor' = [cursor EXCEPT ![s] = k.upTo[s]]
    <2>1. k.upTo[s] >= cursor[s] + 1 \/ k.upTo[s] = cursor[s]
      BY <1>5
    <2>2. cursor' = [cursor EXCEPT ![s] = IF k.upTo[s] >= cursor[s] + 1 THEN k.upTo[s] ELSE cursor[s]]
      BY <1>1 DEF WriteCursor, FirstBlock, Reached
    <2> QED
      BY <2>1, <2>2
  <1>7. cursor' \in [Streams -> 0 .. MaxBlock]
    BY <1>5, <1>6 DEF IndexerInv, IndexerTypes
  <1>8. cycle' \in Cycles /\ (Saved' => cycle'.upTo = k.upTo)
    <2>1. CASE cycle' = Resting
      BY <2>1, RestIsQuiet DEF Saved
    <2>2. CASE \E t \in Streams : cycle' = [cycle EXCEPT !.stage = t]
      <3>1. PICK t \in Streams : cycle' = [k EXCEPT !.stage = t]
        BY <1>1, <2>2
      <3>2. cycle' = [stage |-> t, upTo |-> k.upTo, todo |-> k.todo]
        BY <3>1 DEF Cycles
      <3> QED
        BY <3>2 DEF Cycles
    <2>3. cycle' = Resting \/ cycle' = [cycle EXCEPT !.stage = "agent"] \/ cycle' = [cycle EXCEPT !.stage = "reputation"]
      BY DEF WriteCursor
    <2>4. "agent" \in Streams /\ "reputation" \in Streams
      BY DEF Streams
    <2> QED
      BY <2>1, <2>2, <2>3, <2>4
  <1>9. Fetched' => cycle'.upTo = k.upTo
    <2>1. CASE cycle' = Resting
      BY <2>1, RestIsQuiet DEF Fetched
    <2>2. CASE cycle' # Resting
      <3>1. cycle'.stage \in {"agent", "reputation"}
        BY <1>1, <2>2 DEF WriteCursor, Cycles
      <3> QED
        BY <1>8, <3>1 DEF Saved, Streams
    <2> QED
      BY <2>1, <2>2
  <1>10. \A t \in Streams : cursor'[t] <= Len(chain') /\ StreamIsKnown(t)'
    <2> SUFFICES ASSUME NEW t \in Streams PROVE cursor'[t] <= Len(chain') /\ StreamIsKnown(t)'
      OBVIOUS
    <2>1. cursor'[t] = IF t = s THEN k.upTo[s] ELSE cursor[t]
      BY <1>6 DEF IndexerInv, IndexerTypes
    <2>2. PICK m \in cursor[t] .. Len(chain) : StoredUpTo(t, m)
      BY DEF IndexerInv, StreamIsKnown
    <2>3. \E n \in cursor'[t] .. Len(chain) : StoredUpTo(t, n)
      <3>1. CASE m >= cursor'[t]
        <4>1. m \in cursor'[t] .. Len(chain)
          BY <1>4, <1>5, <2>1, <2>2, <3>1
        <4> QED
          BY <2>2, <4>1
      <3>2. CASE m < cursor'[t]
        <4>1. t = s /\ m \in Nat /\ k.upTo[s] \in Nat /\ m <= k.upTo[s]
          BY <1>4, <1>5, <2>1, <2>2, <3>2
        <4>2. Within(chain, 1, m) \subseteq Within(chain, 1, k.upTo[s])
          BY <4>1, WithinSplits
        <4>3. OfStream(Within(chain, 1, k.upTo[s]), s) \subseteq events
          BY <1>1, <1>3 DEF IndexerInv
        <4>4. \A e : e \in OfStream(events, s) <=> e \in OfStream(Within(chain, 1, k.upTo[s]), s)
          BY <2>2, <4>1, <4>2, <4>3 DEF StoredUpTo, OfStream
        <4>5. StoredUpTo(s, k.upTo[s])
          BY <4>4 DEF StoredUpTo
        <4>6. k.upTo[s] \in cursor'[t] .. Len(chain)
          BY <1>4, <1>5, <2>1, <4>1
        <4> QED
          BY <4>1, <4>5, <4>6
      <3> QED
        BY <1>4, <1>5, <2>1, <2>2, <3>1, <3>2
    <2>4. cursor'[t] <= Len(chain')
      BY <1>2, <1>5, <2>1
    <2> QED
      BY <1>2, <2>3, <2>4 DEF StreamIsKnown, StoredUpTo
  <1>11. Fetched' => \A t \in Streams : cursor'[t] <= cycle'.upTo[t] /\ cycle'.upTo[t] <= Len(chain')
    BY <1>2, <1>5, <1>6, <1>9 DEF IndexerInv, IndexerTypes
  <1>12. Saved' => \A t \in Streams : OfStream(Within(chain', 1, cycle'.upTo[t]), t) \subseteq events'
    BY <1>1, <1>2, <1>3, <1>8 DEF IndexerInv
  <1>13. IndexerTypes' /\ ChainIsSound' /\ ProjectionsAreExact' /\ EnvListed \subseteq filter' /\ \A e \in events' : e.stream \in Streams
    BY <1>2, <1>7, <1>8 DEF IndexerInv, IndexerTypes, ChainIsSound, ProjectionsAreExact, NamesOf
  <1> QED
    BY <1>10, <1>11, <1>12, <1>13 DEF IndexerInv

\* What a cycle stores: the stored events and the batch, which are those up to a later block.
LEMMA StoreAdds ==
  ASSUME IndexerInv, Store
  PROVE  LET batch == UNION {Batch(s) : s \in Streams} IN
         /\ events' = events \cup batch
         /\ \A s \in Streams : Batch(s) = OfStream(Within(chain, cursor[s] + 1, cycle.upTo[s]), s)
         /\ \A e : e \in batch <=> e.stream \in Streams /\ e \in Batch(e.stream)
         /\ batch \subseteq Within(chain, 1, Len(chain))
         /\ Len(chain) \in Nat /\ Fetched
         /\ \A s \in Streams : /\ cursor[s] \in Nat /\ cycle.upTo[s] \in Nat /\ cursor[s] <= cycle.upTo[s]
                               /\ cycle.upTo[s] <= Len(chain)
  <1> DEFINE batch == UNION {Batch(s) : s \in Streams}
             all == Within(chain, 1, Len(chain))
  <1>1. Fetched /\ Len(chain) \in Nat
    BY DEF Store, Fetched, IndexerInv, ChainIsSound
  <1>2. \A s \in Streams : /\ cursor[s] \in Nat /\ cycle.upTo[s] \in Nat /\ cursor[s] <= cycle.upTo[s]
                           /\ cycle.upTo[s] <= Len(chain)
    BY <1>1 DEF IndexerInv, IndexerTypes, Cycles
  <1>3. \A s \in Streams : Batch(s) = OfStream(Within(chain, cursor[s] + 1, cycle.upTo[s]), s)
    BY LocatedIsWithin DEF Batch, FirstBlock, OfStream
  <1>4. \A e : e \in batch <=> e.stream \in Streams /\ e \in Batch(e.stream)
    <2>1. \A s \in Streams : \A e \in Batch(s) : e.stream = s
      BY <1>3 DEF OfStream
    <2> QED
      BY <2>1
  <1>5. \A s \in Streams : Batch(s) \subseteq all
    <2> SUFFICES ASSUME NEW s \in Streams PROVE Batch(s) \subseteq all
      OBVIOUS
    <2>1. PICK c \in Nat, u \in Nat : c = cursor[s] /\ u = cycle.upTo[s] /\ c <= u /\ u <= Len(chain)
      BY <1>2
    <2>2. Within(chain, 1, u) = Within(chain, 1, c) \cup Within(chain, c + 1, u)
      BY <2>1, WithinSplits
    <2>3. Within(chain, 1, u) \subseteq all
      BY <1>1, <2>1, WithinSplits
    <2> HIDE DEF all
    <2> QED
      BY <1>3, <2>1, <2>2, <2>3 DEF OfStream
  <1>6. batch \subseteq all
    <2> HIDE DEF all
    <2> QED
      BY <1>5
  <1>7. events' = Upserted(events, batch)
    BY DEF Store
  <1>8. events \subseteq all
    BY StoredHappened
  <1>9. \A d, e \in events \cup batch : KeyOf(d) = KeyOf(e) => d = e
    <2> HIDE DEF batch
    <2>1. \A d, e \in all : KeyOf(d) = KeyOf(e) => d = e
      BY KeysAreUnique DEF IndexerInv
    <2> HIDE DEF all
    <2> QED
      BY <1>6, <1>8, <2>1
  <1>10. events' = events \cup batch
    <2> HIDE DEF batch
    <2> QED
      BY <1>7, <1>9, UpsertAdds
  <1> QED
    BY <1>1, <1>2, <1>3, <1>4, <1>6, <1>10

\* Every stream is known as far as it was, or as far as the cycle has fetched.
LEMMA StoreKnows ==
  ASSUME IndexerInv, Store, NEW s \in Streams
  PROVE  /\ \E m \in cursor[s] .. Len(chain) : OfStream(events', s) = OfStream(Within(chain, 1, m), s)
         /\ OfStream(Within(chain, 1, cycle.upTo[s]), s) \subseteq events'
  <1> DEFINE batch == UNION {Batch(t) : t \in Streams}
  <1>1. PICK c \in Nat, u \in Nat : c = cursor[s] /\ u = cycle.upTo[s] /\ c <= u /\ u <= Len(chain)
    BY StoreAdds
  <1>2. PICK m \in c .. Len(chain) : StoredUpTo(s, m)
    BY <1>1 DEF IndexerInv, StreamIsKnown
  <1>3. Len(chain) \in Nat /\ m \in Nat /\ c <= m
    BY <1>2, StoreAdds
  <1>4. Within(chain, 1, u) = Within(chain, 1, c) \cup Within(chain, c + 1, u) /\ Within(chain, 1, c) \subseteq Within(chain, 1, m)
    BY <1>1, <1>3, WithinSplits
  <1>5. \A e : e \in events' /\ e.stream = s <=> e.stream = s /\ (e \in Within(chain, 1, m) \/ e \in Within(chain, c + 1, u))
    <2>1. \A e : e \in events' <=> e \in events \/ (e.stream \in Streams /\ e \in Batch(e.stream))
      BY StoreAdds
    <2>2. Batch(s) = OfStream(Within(chain, c + 1, u), s)
      BY <1>1, StoreAdds
    <2>3. \A e : e \in events /\ e.stream = s <=> e \in Within(chain, 1, m) /\ e.stream = s
      BY <1>2 DEF StoredUpTo, OfStream
    <2> QED
      BY <2>1, <2>2, <2>3 DEF OfStream
  <1>6. OfStream(Within(chain, 1, u), s) \subseteq events'
    BY <1>4, <1>5 DEF OfStream
  <1>7. \E k \in c .. Len(chain) : OfStream(events', s) = OfStream(Within(chain, 1, k), s)
    <2>1. CASE u <= m
      <3>1. Within(chain, 1, u) \subseteq Within(chain, 1, m)
        BY <1>1, <1>3, <2>1, WithinSplits
      <3>2. \A e : e \in OfStream(events', s) <=> e \in OfStream(Within(chain, 1, m), s)
        BY <1>4, <1>5, <3>1 DEF OfStream
      <3>3. OfStream(events', s) = OfStream(Within(chain, 1, m), s)
        BY <3>2 DEF OfStream
      <3> QED
        BY <1>2, <3>3
    <2>2. CASE m < u
      <3>1. Within(chain, 1, m) \subseteq Within(chain, 1, u)
        BY <1>1, <1>3, <2>2, WithinSplits
      <3>2. \A e : e \in OfStream(events', s) <=> e \in OfStream(Within(chain, 1, u), s)
        BY <1>4, <1>5, <3>1 DEF OfStream
      <3>3. u \in c .. Len(chain)
        BY <1>1
      <3>4. OfStream(events', s) = OfStream(Within(chain, 1, u), s)
        BY <3>2 DEF OfStream
      <3> QED
        BY <3>3, <3>4
    <2> QED
      BY <1>1, <1>3, <2>1, <2>2
  <1> QED
    BY <1>1, <1>6, <1>7

\* The rows and the counts are projected anew from all that is stored.
LEMMA StoreProjects ==
  ASSUME IndexerInv, Store
  PROVE  /\ ProjectionsAreExact' /\ jobRow' \in [Jobs -> RowStatuses] /\ aggregate' \in [Agents -> Nat]
         /\ agentIndexed' \in [Agents -> BOOLEAN]
  <1> DEFINE batch == UNION {Batch(t) : t \in Streams}
  <1>1. events' = events \cup batch /\ \A e : e \in batch <=> e.stream \in Streams /\ e \in Batch(e.stream)
    BY StoreAdds
  <1>2. Upserted(events, batch) = events' /\ "job" \in Streams /\ "reputation" \in Streams
    BY DEF Store, Streams
  <1>3. jobRow' = [j \in Jobs |-> IF "JobCreated" \in NamesOf(events', j) /\ j \in {e.of : e \in Batch("job")} /\ Matches(ClientOf[j])
                                 THEN StatusOf(NamesOf(events', j)) ELSE jobRow[j]]
    <2>1. jobRow' = [j \in Jobs |-> IF /\ "JobCreated" \in NamesOf(Upserted(events, batch), j)
                                      /\ j \in {e.of : e \in Batch("job")} /\ Matches(ClientOf[j])
                                   THEN StatusOf(NamesOf(Upserted(events, batch), j)) ELSE jobRow[j]]
      BY Zenon DEF Store, Projected
    <2> HIDE DEF batch
    <2> QED
      BY <1>2, <2>1
  <1>4. aggregate' = [a \in Agents |-> IF a \in {e.of : e \in Batch("reputation")}
                                      THEN Cardinality({e \in events' : e.of = a /\ e.stream = "reputation"}) ELSE aggregate[a]]
    <2>1. aggregate' = [a \in Agents |-> IF a \in {e.of : e \in Batch("reputation")}
              THEN Cardinality({e \in Upserted(events, batch) : e.of = a /\ e.stream = "reputation"}) ELSE aggregate[a]]
      BY Zenon DEF Store, Recomputed
    <2> HIDE DEF batch
    <2> QED
      BY <1>2, <2>1
  <1>5. agentIndexed' \in [Agents -> BOOLEAN]
    <2>1. PICK prefixed, known_ : agentIndexed' = [a \in Agents |->
              agentIndexed[a] \/ (a \in {e.of : e \in Batch("agent")} /\
                  (Matches(ControllerOf[a]) \/ ControllerOf[a] \in known_ \/ a \in prefixed))]
      BY DEF Store
    <2> QED
      BY <2>1
  <1> HIDE DEF batch
  <1>6. \A e \in events' : /\ e.stream = "job" => e.of \in Jobs /\ "JobCreated" \in NamesOf(events', e.of)
                           /\ e.stream # "job" => e.of \in Agents
    <2> SUFFICES ASSUME NEW e \in events'
                 PROVE  /\ e.stream = "job" => e.of \in Jobs /\ "JobCreated" \in NamesOf(events', e.of)
                        /\ e.stream # "job" => e.of \in Agents
      OBVIOUS
    <2>1. EventsAreSound(Within(chain, 1, Len(chain))) /\ events' \subseteq Within(chain, 1, Len(chain))
      <3>1. events \subseteq Within(chain, 1, Len(chain))
        BY StoredHappened
      <3>2. Len(chain) \in Nat
        BY StoreAdds
      <3>3. batch \subseteq Within(chain, 1, Len(chain))
        BY StoreAdds DEF batch
      <3> QED
        BY <1>1, <3>1, <3>2, <3>3 DEF IndexerInv, ChainIsSound
    <2>2. e.stream # "job" => e.of \in Agents
      BY <2>1 DEF EventsAreSound
    <2>3. ASSUME e.stream = "job" PROVE e.of \in Jobs /\ "JobCreated" \in NamesOf(events', e.of)
      <3>1. PICK m \in 0 .. Len(chain) : OfStream(events', "job") = OfStream(Within(chain, 1, m), "job")
        <4>1. PICK m \in cursor["job"] .. Len(chain) : OfStream(events', "job") = OfStream(Within(chain, 1, m), "job")
          BY <1>2, StoreKnows
        <4>2. cursor["job"] \in Nat /\ Len(chain) \in Nat
          BY <1>2, StoreAdds
        <4> QED
          BY <4>1, <4>2
      <3>2. EventsAreSound(Within(chain, 1, m)) /\ e \in Within(chain, 1, m)
        BY <2>3, <3>1 DEF IndexerInv, ChainIsSound, OfStream
      <3>3. e.of \in Jobs /\ "JobCreated" \in NamesOf(Within(chain, 1, m), e.of)
        BY <2>3, <3>2 DEF EventsAreSound
      <3>4. PICK d \in Within(chain, 1, m) : d.of = e.of /\ d.name = "JobCreated"
        BY <3>3 DEF NamesOf
      <3>5. d.stream = "job"
        BY <3>2, <3>3, <3>4, IndexerAssumption DEF EventsAreSound
      <3>6. d \in events'
        BY <3>1, <3>4, <3>5 DEF OfStream
      <3> QED
        BY <3>3, <3>4, <3>6 DEF NamesOf
    <2> QED
      BY <2>2, <2>3
  <1>7. jobRow' \in [Jobs -> RowStatuses]
    <2>1. \A N : StatusOf(N) \in RowStatuses
      BY DEF StatusOf, RowStatuses, JobNames
    <2> QED
      BY <1>3, <2>1 DEF IndexerInv, IndexerTypes
  <1>8. ASSUME NEW a \in Agents
        PROVE  aggregate'[a] = Cardinality({e \in events' : e.of = a /\ e.stream = "reputation"})
    <2>1. CASE a \in {e.of : e \in Batch("reputation")}
      BY <1>4, <2>1
    <2>2. CASE a \notin {e.of : e \in Batch("reputation")}
      <3>1. \A e : e \in events' /\ e.of = a /\ e.stream = "reputation" <=> e \in events /\ e.of = a /\ e.stream = "reputation"
        BY <1>1, <2>2
      <3>2. {e \in events' : e.of = a /\ e.stream = "reputation"} = {e \in events : e.of = a /\ e.stream = "reputation"}
        BY <3>1
      <3>3. aggregate'[a] = aggregate[a]
        BY <1>4, <2>2
      <3> QED
        BY <3>2, <3>3 DEF IndexerInv, ProjectionsAreExact
    <2> QED
      BY <2>1, <2>2
  <1>9. ASSUME NEW j \in Jobs, ClientOf[j] \in EnvListed, NamesOf(events', j) # {}
        PROVE  jobRow'[j] = StatusOf(NamesOf(events', j))
    <2>1. PICK e \in events' : e.of = j
      BY <1>9 DEF NamesOf
    <2>2. e.stream = "job" /\ "JobCreated" \in NamesOf(events', j)
      BY <1>6, <2>1, IndexerAssumption
    <2>3. Matches(ClientOf[j])
      BY <1>9 DEF IndexerInv, Matches
    <2>4. CASE j \in {d.of : d \in Batch("job")}
      BY <1>3, <2>2, <2>3, <2>4
    <2>5. CASE j \notin {d.of : d \in Batch("job")}
      <3>1. \A d \in events' : d.of = j => d.stream = "job"
        BY <1>6, IndexerAssumption
      <3>2. \A d : d \in events' /\ d.of = j <=> d \in events /\ d.of = j
        BY <1>1, <2>5, <3>1
      <3>3. NamesOf(events', j) = NamesOf(events, j)
        BY <3>2 DEF NamesOf
      <3>4. jobRow'[j] = jobRow[j]
        BY <1>3, <2>5
      <3> QED
        BY <1>9, <3>3, <3>4 DEF IndexerInv, ProjectionsAreExact
    <2> QED
      BY <2>4, <2>5
  <1>10. aggregate' \in [Agents -> Nat]
    <2>1. IsFiniteSet(events')
      <3>1. IsFiniteSet(Within(chain, 1, Len(chain))) /\ events' \subseteq Within(chain, 1, Len(chain))
        <4>1. events \subseteq Within(chain, 1, Len(chain))
          BY StoredHappened
        <4>2. Len(chain) \in Nat
          BY StoreAdds
        <4>3. batch \subseteq Within(chain, 1, Len(chain))
          BY StoreAdds DEF batch
        <4>4. EventsAreSound(Within(chain, 1, Len(chain)))
          BY <4>2 DEF IndexerInv, ChainIsSound
        <4> QED
          BY <1>1, <4>1, <4>3, <4>4 DEF EventsAreSound
      <3> QED
        BY <3>1, FS_Subset
    <2>2. ASSUME NEW a \in Agents PROVE aggregate'[a] \in Nat
      <3>1. {e \in events' : e.of = a /\ e.stream = "reputation"} \subseteq events'
        OBVIOUS
      <3>2. Cardinality({e \in events' : e.of = a /\ e.stream = "reputation"}) \in Nat
        BY <2>1, <3>1, FS_Subset, FS_CardinalityType
      <3> QED
        BY <1>8, <3>2
    <2>3. aggregate' = [a \in Agents |-> aggregate'[a]]
      BY <1>4
    <2> QED
      BY <2>2, <2>3
  <1> QED
    BY <1>5, <1>7, <1>8, <1>9, <1>10 DEF ProjectionsAreExact

LEMMA StoreKeepsIndexer ==
  ASSUME IndexerInv, Store
  PROVE  IndexerInv'
  <1>1. PICK k \in Cycles : k = cycle
    BY DEF IndexerInv, IndexerTypes
  <1> DEFINE synced == {e \in Batch("job") : Synced(e.name)}
  <1>2. UNCHANGED <<chain, registered, attached, filter, cursor, mirrored, agentsThere, lastSyncError, troubles>>
    BY DEF Store, chainVars, supabaseVars
  <1>3. cycle' = [k EXCEPT !.stage = "mirror", !.todo = Sorted(synced)]
    BY <1>1 DEF Store
  <1>4. "job" \in Streams
    BY DEF Streams
  <1>5. synced \subseteq JobEvents /\ synced \subseteq Within(chain, 1, Len(chain)) /\ IsFiniteSet(synced)
    <2>1. EventsAreSound(Within(chain, 1, Len(chain)))
      <3>1. Len(chain) \in Nat
        BY StoreAdds
      <3> QED
        BY <3>1 DEF IndexerInv, ChainIsSound
    <2>2. Batch("job") = OfStream(Within(chain, cursor["job"] + 1, cycle.upTo["job"]), "job")
      BY <1>4, StoreAdds
    <2>3. \A e \in Batch("job") : e.stream = "job"
      BY <2>2 DEF OfStream
    <2>4. Batch("job") \subseteq Within(chain, 1, Len(chain))
      BY <1>4, StoreAdds
    <2>5. synced \subseteq Within(chain, 1, Len(chain)) /\ \A e \in synced : e.stream = "job"
      BY <2>3, <2>4
    <2> HIDE DEF synced
    <2> QED
      BY <2>1, <2>5, FS_Subset DEF EventsAreSound, JobEvents
  <1>6. Sorted(synced) \in Seq(JobEvents)
    <2>1. \A d, e \in synced : d.block = e.block /\ d.log = e.log => d = e
      <3> HIDE DEF synced
      <3> SUFFICES ASSUME NEW d \in synced, NEW e \in synced, d.block = e.block, d.log = e.log PROVE d = e
        OBVIOUS
      <3>1. KeyOf(d) = KeyOf(e)
        BY <1>5 DEF KeyOf, JobEvents
      <3>2. d \in Within(chain, 1, Len(chain)) /\ e \in Within(chain, 1, Len(chain)) /\ ChainIsSound
        BY <1>5 DEF IndexerInv
      <3> QED
        BY <3>1, <3>2, KeysAreUnique
    <2>2. synced \subseteq EventRecords
      <3> HIDE DEF synced
      <3> QED
        BY <1>5 DEF JobEvents
    <2> HIDE DEF synced
    <2>3. Sorted(synced) \in Seq(synced)
      BY <1>5, <2>1, <2>2, SortedIsASequence
    <2> QED
      BY <1>5, <2>3
  <1> HIDE DEF synced
  <1>7. cycle' \in Cycles /\ cycle'.upTo = k.upTo /\ cycle'.stage = "mirror"
    <2>1. PICK q \in Seq(JobEvents) : q = Sorted(synced)
      BY <1>6
    <2>2. cycle' = [stage |-> "mirror", upTo |-> k.upTo, todo |-> q]
      BY <1>3, <2>1 DEF Cycles
    <2> QED
      BY <2>2 DEF Cycles
  <1>8. IndexerTypes'
    BY <1>2, <1>7, StoreProjects DEF IndexerInv, IndexerTypes
  <1>9. \A e \in events' : e.stream \in Streams
    BY StoreAdds DEF IndexerInv
  <1>10. \A s \in Streams : cursor'[s] <= Len(chain') /\ StreamIsKnown(s)'
    BY <1>2, StoreKnows DEF IndexerInv, StreamIsKnown, StoredUpTo
  <1>11. \A s \in Streams : cursor'[s] <= cycle'.upTo[s] /\ cycle'.upTo[s] <= Len(chain')
    BY <1>1, <1>2, <1>7, StoreAdds
  <1>12. \A s \in Streams : OfStream(Within(chain', 1, cycle'.upTo[s]), s) \subseteq events'
    BY <1>1, <1>2, <1>7, StoreKnows
  <1>13. ChainIsSound' /\ EnvListed \subseteq filter'
    BY <1>2 DEF IndexerInv, ChainIsSound
  <1> QED
    BY <1>8, <1>9, <1>10, <1>11, <1>12, <1>13, StoreProjects DEF IndexerInv

LEMMA NextIndexerInv == IndexerInv /\ [IndexerNext]_indexerVars => IndexerInv'
  <1> SUFFICES ASSUME IndexerInv, [IndexerNext]_indexerVars PROVE IndexerInv'
    OBVIOUS
  <1>1. CASE UNCHANGED indexerVars
    <2>1. UNCHANGED <<chain, registered, attached, filter, cycle, storedVars, mirrored, agentsThere, lastSyncError, troubles>>
      BY <1>1 DEF indexerVars, chainVars, supabaseVars
    <2>2. UNCHANGED <<cursor, jobRow, agentIndexed, aggregate>>
      BY <2>1 DEF storedVars
    <2>3. IndexerTypes' /\ EnvListed \subseteq filter' /\ (Fetched' => Fetched) /\ (Saved' => Saved)
      BY <2>1, <2>2 DEF IndexerInv, IndexerTypes, Fetched, Saved
    <2> QED
      BY <2>1, <2>3, QuietKeepsIndexer DEF IndexerInv
  <1> QED
    BY <1>1, MinedKeepsIndexer, ConsoleKeepsIndexer, RefreshKeepsIndexer, FetchKeepsIndexer, StoreKeepsIndexer,
       PatchKeepsIndexer, CrashKeepsIndexer, CursorKeepsIndexer DEF IndexerNext

LEMMA IndexerInvGives == IndexerInv => IndexerTypeOK /\ NothingSkipped /\ ProjectionsAreExact
  <1> SUFFICES ASSUME IndexerInv PROVE IndexerTypeOK /\ NothingSkipped /\ ProjectionsAreExact
    OBVIOUS
  <1>1. ProjectionsAreExact
    BY DEF IndexerInv
  <1>2. NothingSkipped
    <2> SUFFICES ASSUME NEW s \in Streams PROVE {e \in Located(1, cursor[s]) : e.stream = s} \subseteq events
      BY DEF NothingSkipped
    <2>1. PICK m \in cursor[s] .. Len(chain) : StoredUpTo(s, m)
      BY DEF IndexerInv, StreamIsKnown
    <2>2. cursor[s] \in Nat /\ Len(chain) \in Nat
      BY DEF IndexerInv, IndexerTypes, ChainIsSound
    <2>3. Within(chain, 1, cursor[s]) \subseteq Within(chain, 1, m)
      BY <2>1, <2>2, WithinSplits
    <2> QED
      BY <2>1, <2>3, LocatedIsWithin DEF StoredUpTo, OfStream
  <1>3. aggregate \in [Agents -> 0 .. MaxFeedback]
    <2>1. \A a \in Agents : aggregate[a] \in Nat /\ aggregate[a] <= MaxFeedback
      BY StoredHappened DEF IndexerInv, IndexerTypes, ProjectionsAreExact, FeedbackOf
    <2>2. MaxFeedback \in Nat /\ aggregate \in [Agents -> Nat]
      BY IndexerAssumption DEF IndexerInv, IndexerTypes
    <2> QED
      BY <2>1, <2>2
  <1>4. IndexerTypeOK
    <2>1. cycle.stage \in {"idle", "fetch", "store", "mirror"} \cup Streams /\ cycle.upTo \in [Streams -> 0 .. MaxBlock]
      BY DEF IndexerInv, IndexerTypes, Cycles
    <2>2. chain \in Seq(Seq(EventRecords))
      BY DEF IndexerInv, ChainIsSound
    <2> QED
      BY <1>3, <2>1, <2>2 DEF IndexerTypeOK, IndexerInv, IndexerTypes, EventRecords, RowStatuses
  <1> QED
    BY <1>1, <1>2, <1>4

-----------------------------------------------------------------------------
(***************************************************************************)
(* The escrow pages, the tools that advise on a job, the hire and the feed. *)
(***************************************************************************)
Works       == {Stored(d) : d \in WorkForms} \cup {NoWork}
EscrowJobs  == [exists : BOOLEAN, status : Statuses, budget : 0 .. MaxBudget, hired : BOOLEAN, late : BOOLEAN, work : Works]
EscrowRows  == [status : Statuses, budget : 0 .. MaxBudget, work : Works]
PageActions == {"fund", "submit", "complete", "claimRefund"}
Flows       == [action : PageActions \cup {"none"},
                step : {"idle", "allowance", "approve", "approving", "send", "sent", "wait"},
                tx : {"none", "live", "success", "reverted"}, amount : 0 .. MaxBudget, work : WorkForms \cup {NoWork},
                deaf : BOOLEAN, message : {"none", "failed", "timed out"} \cup PageActions]
TabRecords  == [job : Escrows, view : EscrowRows, flow : Flows]
Bundles     == [job : Escrows, tool : Calls \cup {"none"}, step : {"none", "advised", "approve", "send"},
                amount : 0 .. MaxBudget, work : Works]
HireRecords == [preparing : 0 .. MaxHires, prepared : 0 .. MaxHires, signing : 0 .. MaxHires, sent : BOOLEAN,
                created : 0 .. MaxHires, last : 0 .. MaxHires]
FeedRecords == [shown : Statuses, inFlight : SUBSET Statuses]

EscrowTypes ==
    /\ escrow \in [Escrows -> EscrowJobs] /\ allowance \in 0 .. MaxBudget /\ indexed \in [Escrows -> EscrowRows]
    /\ tab \in [Tabs -> TabRecords] /\ bundle \in [Advisees -> Bundles] /\ hire \in HireRecords /\ feed \in FeedRecords

\* A row is of the job's past, and has a deliverable once it was submitted.
OfItsPast(r, k) == ReachedOnChain(r.status, k) /\ (r.work # NoWork => r.status >= 2)

\* What a page has under way, and what it says it has done.
FlowIsTrue(w, view) ==
    /\ w.step # "idle" => w.action \in PageActions
    /\ w.action = "submit" => w.work \in WorkForms
    /\ w.message = "fund" => view.status = 1
    /\ w.message = "complete" => view.status = 3
    /\ w.message = "claimRefund" => view.status = 5
    /\ w.message = "submit" => view.status >= 2 /\ view.work # NoWork

EscrowInv ==
    /\ EscrowTypes
    /\ \A j \in Escrows : escrow[j].work # NoWork => escrow[j].status >= 2
    /\ \A j \in Escrows : OfItsPast(indexed[j], escrow[j])
    /\ \A t \in Tabs : OfItsPast(tab[t].view, escrow[tab[t].job]) /\ FlowIsTrue(tab[t].flow, tab[t].view)
    /\ \A a \in Advisees : bundle[a].step # "none" => bundle[a].tool \in Calls
    /\ \A s \in feed.inFlight \cup {feed.shown} : ReachedOnChain(s, escrow[PolledJob])

LEMMA EmptyPages ==
  /\ NoFlow \in Flows /\ NoFlow.step = "idle" /\ NoFlow.action = "none" /\ NoFlow.message = "none"
  /\ NoJob \in EscrowJobs /\ NoJob.status = 0 /\ NoJob.work = NoWork
  /\ Row(NoJob) \in EscrowRows /\ Row(NoJob).status = 0 /\ Row(NoJob).work = NoWork
  /\ NoHire \in HireRecords
  BY EscrowAssumption DEF NoFlow, Flows, NoJob, EscrowJobs, Row, EscrowRows, NoHire, HireRecords, Works, Statuses

LEMMA JobIsPolled == PolledJob \in Escrows
  BY EscrowAssumption DEF PolledJob

LEMMA BundleOf ==
  ASSUME EscrowTypes, NEW a \in Advisees, NEW b, Keeps(a, b), b.tool \in Calls \cup {"none"},
         b.step \in {"none", "advised", "approve", "send"}, b.amount \in 0 .. MaxBudget, b.work \in Works,
         b.step # "none" => b.tool \in Calls, \A x \in Advisees : bundle[x].step # "none" => bundle[x].tool \in Calls
  PROVE  bundle' \in [Advisees -> Bundles] /\ \A x \in Advisees : bundle'[x].step # "none" => bundle'[x].tool \in Calls
  <1>1. PICK n : n = OfJob(bundle[a].job, b)
    OBVIOUS
  <1>2. n \in Bundles /\ n.step = b.step /\ n.tool = b.tool
    BY <1>1 DEF OfJob, Bundles, EscrowTypes
  <1>3. bundle' = [bundle EXCEPT ![a] = n] /\ bundle \in [Advisees -> Bundles]
    BY <1>1 DEF Keeps, EscrowTypes
  <1> QED
    BY <1>2, <1>3

\* The jobs move on: a status they had stays one they had.
Advances ==
    /\ escrow' \in [Escrows -> EscrowJobs] /\ allowance' \in 0 .. MaxBudget
    /\ \A j \in Escrows : /\ \A s \in Statuses : ReachedOnChain(s, escrow[j]) => ReachedOnChain(s, escrow'[j])
                          /\ escrow'[j].work # NoWork => escrow'[j].status >= 2

LEMMA RestingAdvances == ASSUME EscrowInv, UNCHANGED <<escrow, allowance>> PROVE Advances
  BY DEF EscrowInv, EscrowTypes, Advances

LEMMA ExecuteAdvances ==
  ASSUME EscrowInv, NEW f \in Calls, NEW j \in Escrows, NEW amount \in 0 .. MaxBudget, NEW work \in Works,
         Execute(f, j, amount, work)
  PROVE  Advances
  <1>1. CASE ~Accepts(f, j)
    BY <1>1, RestingAdvances DEF Execute
  <1>2. CASE Accepts(f, j)
    <2>1. PICK n : n = After(f, j, amount, work)
      OBVIOUS
    <2>2. escrow[j] \in EscrowJobs /\ escrow \in [Escrows -> EscrowJobs]
      BY DEF EscrowInv, EscrowTypes
    <2>3. /\ escrow' = [escrow EXCEPT ![j] = n]
          /\ allowance' = IF f = "fund" THEN allowance - escrow[j].budget ELSE allowance
      BY <1>2, <2>1 DEF Execute
    <2>4. /\ n \in EscrowJobs /\ n.status >= escrow[j].status
          /\ escrow[j].status \in Terminal => n.status = escrow[j].status
          /\ n.work # NoWork => n.work = escrow[j].work \/ n.status = 2
      <3>1. CASE f = "createJob"
        <4>1. PICK yes \in BOOLEAN : n = [escrow[j] EXCEPT !.exists = yes, !.hired = yes]
          BY <2>1, <3>1 DEF After
        <4>2. PICK k \in EscrowJobs : k = escrow[j]
          BY <2>2
        <4>3. n = [exists |-> yes, status |-> k.status, budget |-> k.budget, hired |-> yes, late |-> k.late, work |-> k.work]
          BY <4>1, <4>2 DEF EscrowJobs
        <4> QED
          BY <4>2, <4>3 DEF EscrowJobs, Statuses
      <3>2. CASE f = "createOpenJob"
        <4>1. PICK yes \in BOOLEAN : n = [escrow[j] EXCEPT !.exists = yes]
          BY <2>1, <3>2 DEF After
        <4> QED
          BY <2>2, <4>1 DEF EscrowJobs, Statuses
      <3>3. CASE f = "setProvider"
        <4>1. PICK yes \in BOOLEAN : n = [escrow[j] EXCEPT !.hired = yes]
          BY <2>1, <3>3 DEF After
        <4> QED
          BY <2>2, <4>1 DEF EscrowJobs, Statuses
      <3>4. CASE f = "setBudget"
        BY <1>2, <2>1, <2>2, <3>4 DEF After, EscrowJobs, Statuses
      <3>5. CASE f = "fund"
        BY <1>2, <2>1, <2>2, <3>5 DEF After, Accepts, EscrowJobs, Statuses, Terminal
      <3>6. CASE f = "submit"
        <4>1. n = [escrow[j] EXCEPT !.status = 2, !.work = work]
          BY <2>1, <3>6 DEF After
        <4>2. escrow[j].status = 1
          BY <1>2, <3>6 DEF Accepts
        <4>3. PICK k \in EscrowJobs : k = escrow[j]
          BY <2>2
        <4>4. n = [exists |-> k.exists, status |-> 2, budget |-> k.budget, hired |-> k.hired, late |-> k.late, work |-> work]
          BY <4>1, <4>3 DEF EscrowJobs
        <4>5. n \in EscrowJobs /\ n.status = 2 /\ k.status = 1
          BY <4>2, <4>3, <4>4 DEF EscrowJobs, Statuses
        <4> QED
          BY <4>3, <4>5 DEF Terminal
      <3>7. CASE f = "complete"
        BY <1>2, <2>1, <2>2, <3>7 DEF After, Accepts, EscrowJobs, Statuses, Terminal
      <3>8. CASE f = "reject"
        BY <1>2, <2>1, <2>2, <3>8 DEF After, Accepts, EscrowJobs, Statuses, Terminal
      <3>9. CASE f = "claimRefund"
        BY <1>2, <2>1, <2>2, <3>9 DEF After, Accepts, EscrowJobs, Statuses, Terminal
      <3> QED
        BY <3>1, <3>2, <3>3, <3>4, <3>5, <3>6, <3>7, <3>8, <3>9 DEF Calls
    <2>5. allowance' \in 0 .. MaxBudget
      <3>1. allowance \in 0 .. MaxBudget /\ escrow[j].budget \in 0 .. MaxBudget
        BY <2>2 DEF EscrowInv, EscrowTypes, EscrowJobs
      <3>2. f = "fund" => allowance >= escrow[j].budget
        BY <1>2 DEF Accepts
      <3> QED
        BY <2>3, <3>1, <3>2, EscrowAssumption
    <2>6. \A s \in Statuses : ReachedOnChain(s, escrow[j]) => ReachedOnChain(s, n)
      BY <2>2, <2>4 DEF ReachedOnChain, EscrowJobs, Statuses, Terminal
    <2>7. n.work # NoWork => n.status >= 2
      BY <2>2, <2>4 DEF EscrowInv, EscrowJobs, Statuses
    <2> QED
      BY <2>2, <2>3, <2>4, <2>5, <2>6, <2>7 DEF Advances, EscrowInv
  <1> QED
    BY <1>1, <1>2

\* Rows and pages that stay are of the past of jobs that move on.
LEMMA PastsStay ==
  ASSUME EscrowInv, Advances
  PROVE  /\ \A j \in Escrows : OfItsPast(indexed[j], escrow'[j])
         /\ \A t \in Tabs : OfItsPast(tab[t].view, escrow'[tab[t].job])
         /\ \A s \in feed.inFlight \cup {feed.shown} : ReachedOnChain(s, escrow'[PolledJob])
  <1>1. \A j \in Escrows : indexed[j].status \in Statuses
    BY DEF EscrowInv, EscrowTypes, EscrowRows
  <1>2. \A t \in Tabs : tab[t].view.status \in Statuses /\ tab[t].job \in Escrows
    BY DEF EscrowInv, EscrowTypes, EscrowRows, TabRecords
  <1>3. \A s \in feed.inFlight \cup {feed.shown} : s \in Statuses
    BY DEF EscrowInv, EscrowTypes, FeedRecords
  <1> QED
    BY <1>1, <1>2, <1>3, JobIsPolled DEF Advances, OfItsPast, EscrowInv

\* A page goes on with what it has under way, and shows what it did or a row of the indexer.
LEMMA TabMoves ==
  ASSUME EscrowInv, Advances, NEW t \in Tabs, NEW w \in Flows, NEW view \in {tab[t].view, indexed[tab[t].job]},
         FlowIsTrue(w, view), tab' = [tab EXCEPT ![t] = [job |-> tab[t].job, view |-> view, flow |-> w]], RestOfPages
  PROVE  EscrowInv'
  <1>1. UNCHANGED <<indexed, bundle, hire, feed>>
    BY DEF RestOfPages
  <1>2. PICK x : x = [job |-> tab[t].job, view |-> view, flow |-> w]
    OBVIOUS
  <1>3. /\ tab \in [Tabs -> TabRecords] /\ tab[t] \in TabRecords /\ indexed \in [Escrows -> EscrowRows]
        /\ tab[t].job \in Escrows /\ tab[t].view \in EscrowRows
    BY DEF EscrowInv, EscrowTypes, TabRecords
  <1>4. x \in TabRecords /\ x.job = tab[t].job /\ x.view = view /\ x.flow = w
    BY <1>2, <1>3 DEF TabRecords
  <1>5. tab' = [tab EXCEPT ![t] = x]
    BY <1>2
  <1>6. OfItsPast(view, escrow'[tab[t].job])
    BY <1>3, PastsStay
  <1>7. \A o \in Tabs : OfItsPast(tab'[o].view, escrow'[tab'[o].job]) /\ FlowIsTrue(tab'[o].flow, tab'[o].view)
    BY <1>3, <1>4, <1>5, <1>6, PastsStay DEF EscrowInv
  <1>8. EscrowTypes'
    BY <1>1, <1>3, <1>4, <1>5 DEF EscrowInv, EscrowTypes, Advances
  <1> QED
    BY <1>1, <1>7, <1>8, PastsStay DEF EscrowInv, Advances

\* A flow that goes on keeps what the page shows.
LEMMA FlowMoves ==
  ASSUME EscrowInv, Advances, NEW t \in Tabs, NEW w \in Flows, FlowIsTrue(w, tab[t].view), PageGoes(t, w), RestOfPages
  PROVE  EscrowInv'
  <1>1. tab[t] \in TabRecords /\ tab \in [Tabs -> TabRecords]
    BY DEF EscrowInv, EscrowTypes
  <1>2. tab' = [tab EXCEPT ![t] = [job |-> tab[t].job, view |-> tab[t].view, flow |-> w]]
    <2>1. PICK x \in TabRecords : x = tab[t]
      BY <1>1
    <2>2. [x EXCEPT !.flow = w] = [job |-> x.job, view |-> x.view, flow |-> w]
      BY DEF TabRecords
    <2>3. tab' = [tab EXCEPT ![t] = [x EXCEPT !.flow = w]]
      BY <2>1 DEF PageGoes
    <2> QED
      BY <2>1, <2>2, <2>3
  <1> QED
    BY <1>2, TabMoves

\* A flow that ends without success says so, and nothing of the job.
LEMMA FlowEnds ==
  ASSUME EscrowInv, UNCHANGED <<escrow, allowance>>, NEW t \in Tabs, NEW message \in {"failed", "timed out"},
         PageEnds(t, message), RestOfPages
  PROVE  EscrowInv'
  <1>1. PICK w : w = [NoFlow EXCEPT !.message = message]
    OBVIOUS
  <1>2. w \in Flows /\ w.step = "idle" /\ w.action = "none" /\ w.message = message
    BY <1>1, EmptyPages DEF Flows
  <1>3. FlowIsTrue(w, tab[t].view)
    BY <1>2 DEF FlowIsTrue
  <1>4. PageGoes(t, w)
    BY <1>1 DEF PageEnds
  <1> QED
    BY <1>2, <1>3, <1>4, RestingAdvances, FlowMoves

LEMMA TabsKeepEscrow ==
  ASSUME EscrowInv, NEW t \in Tabs,
         \/ LoadJob(t) \/ ClickFund(t) \/ ReadAllowance(t) \/ Approve(t) \/ Send(t) \/ Decline(t)
         \/ ReceiptArrives(t) \/ WaitTimesOut(t)
  PROVE  EscrowInv'
  <1>1. /\ tab[t] \in TabRecords /\ tab[t].flow \in Flows /\ tab[t].view \in EscrowRows /\ tab[t].job \in Escrows
        /\ tab \in [Tabs -> TabRecords] /\ FlowIsTrue(tab[t].flow, tab[t].view)
    BY DEF EscrowInv, EscrowTypes, TabRecords
  <1>2. ASSUME NEW s \in {"allowance", "approve", "send", "sent", "wait"}, NEW tx \in {"none", "live", "success", "reverted"},
               tab[t].flow.step # "idle", Advances, RestOfPages,
               \/ PageGoes(t, [tab[t].flow EXCEPT !.step = s])
               \/ PageGoes(t, [tab[t].flow EXCEPT !.step = s, !.tx = tx])
        PROVE  EscrowInv'
    <2>1. PICK u \in {tx, tab[t].flow.tx} : PageGoes(t, [tab[t].flow EXCEPT !.step = s, !.tx = u])
      <3>1. [tab[t].flow EXCEPT !.step = s] = [tab[t].flow EXCEPT !.step = s, !.tx = tab[t].flow.tx]
        BY <1>1 DEF Flows
      <3> QED
        BY <1>2, <3>1
    <2>2. PICK f \in Flows : f = tab[t].flow
      BY <1>1
    <2>3. PICK w : w = [f EXCEPT !.step = s, !.tx = u]
      OBVIOUS
    <2>4. w = [action |-> f.action, step |-> s, tx |-> u, amount |-> f.amount, work |-> f.work, deaf |-> f.deaf,
               message |-> f.message]
      BY <2>2, <2>3 DEF Flows
    <2>5. w \in Flows /\ w.action = f.action /\ w.work = f.work /\ w.message = f.message
      BY <2>1, <2>2, <2>4 DEF Flows
    <2>6. FlowIsTrue(w, tab[t].view)
      BY <1>1, <1>2, <2>2, <2>5 DEF FlowIsTrue
    <2>7. PageGoes(t, w)
      BY <2>1, <2>2, <2>3
    <2> QED
      BY <1>2, <2>5, <2>6, <2>7, FlowMoves
  <1>3. CASE LoadJob(t)
    <2>1. tab' = [tab EXCEPT ![t] = [job |-> tab[t].job, view |-> indexed[tab[t].job], flow |-> NoFlow]]
      <3>1. PICK x \in TabRecords : x = tab[t]
        BY <1>1
      <3>2. PICK v, w : v = indexed[tab[t].job] /\ w = NoFlow
        OBVIOUS
      <3>3. [x EXCEPT !.view = v, !.flow = w] = [job |-> x.job, view |-> v, flow |-> w]
        <4>1. PICK y : y = [x EXCEPT !.view = v]
          OBVIOUS
        <4>2. y = [job |-> x.job, view |-> v, flow |-> x.flow]
          BY <4>1 DEF TabRecords
        <4>3. [y EXCEPT !.flow = w] = [job |-> x.job, view |-> v, flow |-> w]
          BY <4>2
        <4> QED
          BY <4>1, <4>3
      <3>4. tab' = [tab EXCEPT ![t] = [x EXCEPT !.view = v, !.flow = w]]
        BY <1>1, <1>3, <3>1, <3>2 DEF LoadJob
      <3> QED
        BY <3>1, <3>2, <3>3, <3>4
    <2>2. FlowIsTrue(NoFlow, indexed[tab[t].job]) /\ NoFlow \in Flows
      BY EmptyPages DEF FlowIsTrue
    <2>3. Advances /\ RestOfPages
      BY <1>3, RestingAdvances DEF LoadJob
    <2> QED
      BY <2>1, <2>2, <2>3, TabMoves
  <1>4. CASE ClickFund(t)
    <2>1. PICK n \in 0 .. MaxBudget : n = tab[t].view.budget
      BY <1>1 DEF EscrowRows
    <2>2. PICK w : w = [NoFlow EXCEPT !.action = "fund", !.step = "allowance", !.amount = n]
      OBVIOUS
    <2>3. w = [action |-> "fund", step |-> "allowance", tx |-> "none", amount |-> n, work |-> NoWork, deaf |-> NoFlow.deaf,
               message |-> "none"]
      BY <2>2 DEF NoFlow
    <2>4. w \in Flows /\ w.action = "fund" /\ w.message = "none"
      BY <2>3, EmptyPages DEF Flows, PageActions
    <2>5. PageGoes(t, w) /\ Advances /\ RestOfPages
      BY <1>4, <2>1, <2>2, RestingAdvances DEF ClickFund
    <2>6. FlowIsTrue(w, tab[t].view)
      BY <2>4 DEF FlowIsTrue, PageActions
    <2> QED
      BY <2>4, <2>5, <2>6, FlowMoves
  <1>5. CASE ReadAllowance(t)
    <2>1. \E s \in {"approve", "send"} : PageGoes(t, [tab[t].flow EXCEPT !.step = s])
      BY <1>5 DEF ReadAllowance
    <2>2. Advances /\ RestOfPages /\ tab[t].flow.step # "idle"
      BY <1>5, RestingAdvances DEF ReadAllowance, At
    <2> QED
      BY <1>2, <2>1, <2>2
  <1>6. CASE Approve(t)
    <2>1. PageGoes(t, [tab[t].flow EXCEPT !.step = "send"]) /\ RestOfPages /\ tab[t].flow.step # "idle"
      BY <1>6 DEF Approve, At
    <2>2. escrow' = escrow /\ allowance' \in 0 .. MaxBudget
      BY <1>1, <1>6 DEF Approve, Flows
    <2>3. Advances
      BY <2>2 DEF Advances, EscrowInv, EscrowTypes
    <2> QED
      BY <1>2, <2>1, <2>3
  <1>7. CASE Send(t)
    <2>1. PageGoes(t, [tab[t].flow EXCEPT !.step = "sent", !.tx = "live"]) /\ RestOfPages /\ tab[t].flow.step # "idle"
      BY <1>7 DEF Send, At
    <2>2. Advances
      BY <1>7, RestingAdvances DEF Send
    <2> QED
      BY <1>2, <2>1, <2>2
  <1>8. CASE Decline(t)
    BY <1>8, FlowEnds DEF Decline
  <1>9. CASE ReceiptArrives(t)
    <2>1. CASE tab[t].flow.tx = "success"
      <3>1. PageGoes(t, [tab[t].flow EXCEPT !.step = "wait"]) /\ RestOfPages /\ tab[t].flow.step # "idle"
        BY <1>9, <2>1 DEF ReceiptArrives, At
      <3>2. Advances
        BY <1>9, RestingAdvances DEF ReceiptArrives
      <3> QED
        BY <1>2, <3>1, <3>2
    <2>2. CASE tab[t].flow.tx # "success"
      BY <1>9, <2>2, FlowEnds DEF ReceiptArrives
    <2> QED
      BY <2>1, <2>2
  <1>10. CASE WaitTimesOut(t)
    BY <1>10, FlowEnds DEF WaitTimesOut
  <1> QED
    BY <1>3, <1>4, <1>5, <1>6, <1>7, <1>8, <1>9, <1>10

LEMMA ClickKeepsEscrow ==
  ASSUME EscrowInv, NEW t \in Tabs, NEW action \in {"submit", "complete", "claimRefund"}, NEW work \in WorkForms,
         Click(t, action, work)
  PROVE  EscrowInv'
  <1>1. PICK d \in WorkForms \cup {NoWork} : d = IF action = "submit" THEN work ELSE NoWork
    OBVIOUS
  <1>2. PICK w : w = [NoFlow EXCEPT !.action = action, !.step = "send", !.work = d]
    OBVIOUS
  <1>3. w = [action |-> action, step |-> "send", tx |-> "none", amount |-> 0, work |-> d, deaf |-> NoFlow.deaf,
             message |-> "none"]
    BY <1>2 DEF NoFlow
  <1>4. NoFlow.deaf \in BOOLEAN
    BY EmptyPages DEF Flows
  <1>5. w \in Flows /\ w.action = action /\ w.message = "none" /\ w.work = d
    BY <1>3, <1>4, EscrowAssumption DEF Flows, PageActions
  <1>6. FlowIsTrue(w, tab[t].view)
    BY <1>1, <1>5 DEF FlowIsTrue, PageActions
  <1>7. PageGoes(t, w) /\ Advances /\ RestOfPages
    BY <1>1, <1>2, RestingAdvances DEF Click
  <1> QED
    BY <1>5, <1>6, <1>7, FlowMoves

LEMMA MineCallKeepsEscrow ==
  ASSUME EscrowInv, NEW t \in Tabs, MineCall(t)
  PROVE  EscrowInv'
  <1>1. /\ tab[t] \in TabRecords /\ tab[t].job \in Escrows /\ FlowIsTrue(tab[t].flow, tab[t].view)
    BY DEF EscrowInv, EscrowTypes, TabRecords
  <1>2. PICK f \in Flows : f = tab[t].flow
    BY <1>1 DEF TabRecords
  <1>3. f.step # "idle" /\ f.action \in PageActions
    BY <1>1, <1>2 DEF MineCall, At, FlowIsTrue
  <1>4. PICK u \in {"success", "reverted"} : PageGoes(t, [f EXCEPT !.tx = u]) /\ RestOfPages
    BY <1>2 DEF MineCall
  <1>5. PICK w : w = [f EXCEPT !.tx = u]
    OBVIOUS
  <1>6. w \in Flows /\ w.step = f.step /\ w.action = f.action /\ w.work = f.work /\ w.message = f.message
    BY <1>4, <1>5 DEF Flows
  <1>7. FlowIsTrue(w, tab[t].view)
    BY <1>1, <1>2, <1>6 DEF FlowIsTrue
  <1>8. Advances
    <2>1. PICK d \in Works : d = IF f.work = NoWork THEN NoWork ELSE Stored(f.work)
      BY DEF Works, Flows
    <2>2. \/ UNCHANGED <<escrow, allowance>>
          \/ Execute(f.action, tab[t].job, 0, d)
      BY <1>2, <2>1 DEF MineCall
    <2>3. f.action \in Calls /\ 0 \in 0 .. MaxBudget
      BY <1>3, EscrowAssumption DEF PageActions, Calls
    <2> QED
      BY <1>1, <2>2, <2>3, RestingAdvances, ExecuteAdvances
  <1> QED
    BY <1>4, <1>5, <1>6, <1>7, <1>8, FlowMoves

LEMMA PollKeepsEscrow ==
  ASSUME EscrowInv, NEW t \in Tabs, PollIndexer(t)
  PROVE  EscrowInv'
  <1>1. /\ tab[t] \in TabRecords /\ tab[t].job \in Escrows /\ FlowIsTrue(tab[t].flow, tab[t].view)
        /\ tab \in [Tabs -> TabRecords]
    BY DEF EscrowInv, EscrowTypes, TabRecords
  <1>2. PICK f \in Flows : f = tab[t].flow
    BY <1>1 DEF TabRecords
  <1>3. f.step # "idle" /\ f.action \in PageActions
    BY <1>1, <1>2 DEF PollIndexer, At, FlowIsTrue
  <1>4. PICK v \in EscrowRows : v = indexed[tab[t].job]
    BY <1>1 DEF EscrowInv, EscrowTypes
  <1>5. Advances /\ RestOfPages
    BY RestingAdvances DEF PollIndexer
  <1>6. CASE Shows(f, v)
    <2>1. PICK w : w = [NoFlow EXCEPT !.message = f.action]
      OBVIOUS
    <2>2. w \in Flows /\ w.step = "idle" /\ w.action = "none" /\ w.message = f.action
      BY <1>3, <2>1, EmptyPages DEF Flows
    <2>3. tab' = [tab EXCEPT ![t] = [job |-> tab[t].job, view |-> v, flow |-> w]]
      <3>1. PICK x \in TabRecords : x = tab[t]
        BY <1>1
      <3>2. [x EXCEPT !.view = v, !.flow = w] = [job |-> x.job, view |-> v, flow |-> w]
        <4>1. PICK y : y = [x EXCEPT !.view = v]
          OBVIOUS
        <4>2. y = [job |-> x.job, view |-> v, flow |-> x.flow]
          BY <4>1 DEF TabRecords
        <4>3. [y EXCEPT !.flow = w] = [job |-> x.job, view |-> v, flow |-> w]
          BY <4>2
        <4> QED
          BY <4>1, <4>3
      <3>3. tab' = [tab EXCEPT ![t].view = v, ![t].flow = w]
        BY <1>2, <1>4, <1>6, <2>1 DEF PollIndexer
      <3>4. tab' = [tab EXCEPT ![t] = [x EXCEPT !.view = v, !.flow = w]]
        BY <1>1, <3>1, <3>3
      <3> QED
        BY <3>1, <3>2, <3>4
    <2>4. FlowIsTrue(w, v)
      <3>1. CASE f.action = "submit"
        <4>1. v.work = f.work /\ f.work \in WorkForms
          BY <1>1, <1>2, <1>6, <3>1 DEF Shows, FlowIsTrue
        <4>2. v.work # NoWork
          BY <4>1, EscrowAssumption DEF NoWork
        <4>3. v.status >= 2
          BY <1>1, <1>4, <4>2 DEF EscrowInv, OfItsPast
        <4> QED
          BY <2>2, <3>1, <4>2, <4>3 DEF FlowIsTrue
      <3>2. CASE f.action = "fund"
        BY <1>6, <2>2, <3>2 DEF Shows, FlowIsTrue
      <3>3. CASE f.action = "complete"
        BY <1>6, <2>2, <3>3 DEF Shows, FlowIsTrue
      <3>4. CASE f.action = "claimRefund"
        BY <1>6, <2>2, <3>4 DEF Shows, FlowIsTrue
      <3> QED
        BY <1>3, <3>1, <3>2, <3>3, <3>4 DEF PageActions
    <2> QED
      BY <1>4, <1>5, <2>2, <2>3, <2>4, TabMoves
  <1>7. CASE ~Shows(f, v)
    <2>1. PICK b : b = Effected(f, v)
      OBVIOUS
    <2>2. b \in BOOLEAN
      BY <1>3, <2>1 DEF Effected, PageActions
    <2>3. PICK w : w = [f EXCEPT !.deaf = b]
      OBVIOUS
    <2>4. w = [action |-> f.action, step |-> f.step, tx |-> f.tx, amount |-> f.amount, work |-> f.work, deaf |-> b,
               message |-> f.message]
      BY <2>3 DEF Flows
    <2>5. w \in Flows /\ w.step = f.step /\ w.action = f.action /\ w.work = f.work /\ w.message = f.message
      BY <2>2, <2>4 DEF Flows
    <2>6. FlowIsTrue(w, tab[t].view)
      BY <1>1, <1>2, <2>5 DEF FlowIsTrue
    <2>7. PageGoes(t, w)
      BY <1>2, <1>4, <1>7, <2>1, <2>3 DEF PollIndexer
    <2> QED
      BY <1>5, <2>5, <2>6, <2>7, FlowMoves
  <1> QED
    BY <1>6, <1>7

LEMMA ToolsKeepEscrow ==
  ASSUME EscrowInv, Advances, RestOfTools, bundle' \in [Advisees -> Bundles],
         \A a \in Advisees : bundle'[a].step # "none" => bundle'[a].tool \in Calls
  PROVE  EscrowInv'
  <1>1. UNCHANGED <<indexed, tab, hire, feed>>
    BY DEF RestOfTools
  <1>2. EscrowTypes'
    BY <1>1 DEF EscrowInv, EscrowTypes, Advances
  <1> QED
    BY <1>1, <1>2, PastsStay DEF EscrowInv, Advances

\* The jobs move on alone.
LEMMA ChainKeepsEscrow ==
  ASSUME EscrowInv, NEW j \in Escrows, JobExpires(j) \/ IndexerFollows(j)
  PROVE  EscrowInv'
  <1>1. escrow[j] \in EscrowJobs /\ escrow \in [Escrows -> EscrowJobs] /\ indexed \in [Escrows -> EscrowRows]
    BY DEF EscrowInv, EscrowTypes
  <1>2. PICK k \in EscrowJobs : k = escrow[j]
    BY <1>1
  <1>3. CASE JobExpires(j)
    <2>1. PICK yes \in BOOLEAN : escrow' = [escrow EXCEPT ![j].late = yes]
      BY <1>3 DEF JobExpires
    <2>2. PICK n : n = [k EXCEPT !.late = yes]
      OBVIOUS
    <2>3. n = [exists |-> k.exists, status |-> k.status, budget |-> k.budget, hired |-> k.hired, late |-> yes, work |-> k.work]
      BY <2>2 DEF EscrowJobs
    <2>4. n \in EscrowJobs /\ n.status = k.status /\ n.work = k.work
      BY <2>3 DEF EscrowJobs
    <2>5. escrow' = [escrow EXCEPT ![j] = n]
      BY <1>1, <1>2, <2>1, <2>2
    <2>6. UNCHANGED <<allowance, indexed, tab, bundle, hire, feed>>
      BY <1>3 DEF JobExpires
    <2>7. Advances
      BY <1>1, <1>2, <2>4, <2>5, <2>6 DEF Advances, EscrowInv, EscrowTypes, ReachedOnChain
    <2>8. EscrowTypes'
      BY <2>6, <2>7 DEF EscrowInv, EscrowTypes, Advances
    <2> QED
      BY <2>6, <2>7, <2>8, PastsStay DEF EscrowInv, Advances
  <1>4. CASE IndexerFollows(j)
    <2>1. PICK r : r = Row(k)
      OBVIOUS
    <2>2. r \in EscrowRows /\ r.status = k.status /\ r.work = k.work
      BY <2>1 DEF Row, EscrowRows, EscrowJobs
    <2>3. indexed' = [indexed EXCEPT ![j] = r] /\ UNCHANGED <<escrow, allowance, tab, bundle, hire, feed>>
      BY <1>2, <1>4, <2>1 DEF IndexerFollows
    <2>4. OfItsPast(r, escrow[j])
      BY <1>2, <2>2 DEF OfItsPast, ReachedOnChain, EscrowInv, EscrowJobs, Statuses
    <2>5. \A i \in Escrows : OfItsPast(indexed'[i], escrow[i])
      BY <1>1, <2>3, <2>4 DEF EscrowInv
    <2>6. EscrowTypes'
      BY <1>1, <2>2, <2>3 DEF EscrowInv, EscrowTypes
    <2> QED
      BY <2>3, <2>5, <2>6 DEF EscrowInv
  <1> QED
    BY <1>3, <1>4

\* What the agents have prepared, whoever prepared or sent it.
LEMMA AgentsKeepEscrow ==
  ASSUME EscrowInv, Advances, RestOfTools, NEW a \in Advisees, NEW toolOf \in Calls \cup {"none"},
         NEW stepOf \in {"none", "advised", "approve", "send"}, NEW amountOf \in 0 .. MaxBudget, NEW workOf \in Works,
         stepOf # "none" => toolOf \in Calls, NEW b,
         b = [tool |-> toolOf, step |-> stepOf, amount |-> amountOf, work |-> workOf], Keeps(a, b)
  PROVE  EscrowInv'
  <1>1. b.tool = toolOf /\ b.step = stepOf /\ b.amount = amountOf /\ b.work = workOf
    OBVIOUS
  <1>2. EscrowTypes /\ \A x \in Advisees : bundle[x].step # "none" => bundle[x].tool \in Calls
    BY DEF EscrowInv
  <1>3. bundle' \in [Advisees -> Bundles] /\ \A x \in Advisees : bundle'[x].step # "none" => bundle'[x].tool \in Calls
    BY <1>1, <1>2, BundleOf
  <1> QED
    BY <1>3, ToolsKeepEscrow

LEMMA EmptyBundle == 0 \in 0 .. MaxBudget /\ NoWork \in Works
  BY EscrowAssumption DEF Works

LEMMA PreparedKeepsEscrow ==
  ASSUME EscrowInv, NEW a \in Advisees, NEW toolOf \in Calls, NEW amountOf \in 0 .. MaxBudget, NEW workOf \in Works,
         Prepared(a, toolOf, amountOf, workOf)
  PROVE  EscrowInv'
  <1>1. PICK b : b = [NoBundle EXCEPT !.tool = toolOf, !.step = "send", !.amount = amountOf, !.work = workOf]
    OBVIOUS
  <1>2. b = [tool |-> toolOf, step |-> "send", amount |-> amountOf, work |-> workOf]
    BY <1>1 DEF NoBundle
  <1>3. Keeps(a, b)
    BY <1>1 DEF Prepared
  <1>4. Advances /\ RestOfTools
    BY RestingAdvances DEF Prepared
  <1> QED
    BY <1>2, <1>3, <1>4, AgentsKeepEscrow

LEMMA AdviseKeepsEscrow ==
  ASSUME EscrowInv, NEW a \in Advisees, Advise(a)
  PROVE  EscrowInv'
  <1>1. bundle[a].job \in Escrows
    BY DEF EscrowInv, EscrowTypes, Bundles
  <1>2. PICK k \in EscrowJobs : k = escrow[bundle[a].job]
    BY <1>1 DEF EscrowInv, EscrowTypes
  <1>3. PICK toolOf : toolOf = Summary(k)
    OBVIOUS
  <1>4. k.status \in {0, 1, 2}
    BY <1>2 DEF Advise, EscrowJobs, Statuses, Terminal
  <1>5. toolOf \in Calls
    BY <1>3, <1>4 DEF Summary, Calls
  <1>6. PICK b : b = [NoBundle EXCEPT !.tool = toolOf, !.step = "advised"]
    OBVIOUS
  <1>7. b = [tool |-> toolOf, step |-> "advised", amount |-> 0, work |-> NoWork]
    BY <1>6 DEF NoBundle
  <1>8. Keeps(a, b)
    BY <1>2, <1>3, <1>6 DEF Advise
  <1>9. Advances /\ RestOfTools
    BY RestingAdvances DEF Advise
  <1> QED
    BY <1>5, <1>7, <1>8, <1>9, EmptyBundle, AgentsKeepEscrow

LEMMA PrepareFundKeepsEscrow ==
  ASSUME EscrowInv, NEW a \in Advisees, NEW amountOf \in 0 .. MaxBudget, NEW looks \in BOOLEAN,
         PrepareFund(a, amountOf, looks)
  PROVE  EscrowInv'
  <1>1. PICK s \in {"send", "approve"} : s = IF looks /\ allowance >= amountOf THEN "send" ELSE "approve"
    OBVIOUS
  <1>2. PICK b : b = [NoBundle EXCEPT !.tool = "fund", !.amount = amountOf, !.step = s]
    OBVIOUS
  <1>3. b = [tool |-> "fund", step |-> s, amount |-> amountOf, work |-> NoWork]
    BY <1>2 DEF NoBundle
  <1>4. Keeps(a, b)
    BY <1>1, <1>2 DEF PrepareFund
  <1>5. Advances /\ RestOfTools /\ "fund" \in Calls
    BY RestingAdvances DEF PrepareFund, Calls
  <1> QED
    BY <1>1, <1>3, <1>4, <1>5, EmptyBundle, AgentsKeepEscrow

\* The owner of the wallet sends what was prepared, or drops it.
LEMMA OwnersKeepEscrow ==
  ASSUME EscrowInv, NEW a \in Advisees, SendApproval(a) \/ SendPrepared(a) \/ DropPrepared(a)
  PROVE  EscrowInv'
  <1>1. bundle \in [Advisees -> Bundles] /\ \A x \in Advisees : bundle[x].step # "none" => bundle[x].tool \in Calls
    BY DEF EscrowInv, EscrowTypes
  <1>2. PICK b \in Bundles : b = bundle[a]
    BY <1>1
  <1>3. CASE SendApproval(a)
    <2>1. bundle' = [bundle EXCEPT ![a].step = "send"] /\ b.step = "approve" /\ b.tool \in Calls
      BY <1>1, <1>2, <1>3 DEF SendApproval
    <2>2. PICK n : n = [b EXCEPT !.step = "send"]
      OBVIOUS
    <2>3. n = [job |-> b.job, tool |-> b.tool, step |-> "send", amount |-> b.amount, work |-> b.work]
      BY <2>2 DEF Bundles
    <2>4. n \in Bundles /\ n.tool \in Calls
      BY <2>1, <2>3 DEF Bundles
    <2>5. bundle' = [bundle EXCEPT ![a] = n]
      BY <1>2, <2>1, <2>2
    <2>6. bundle' \in [Advisees -> Bundles] /\ \A x \in Advisees : bundle'[x].step # "none" => bundle'[x].tool \in Calls
      BY <1>1, <2>4, <2>5
    <2>7. escrow' = escrow /\ allowance' = b.amount /\ RestOfTools
      BY <1>2, <1>3 DEF SendApproval
    <2>8. Advances
      BY <2>7 DEF Advances, EscrowInv, EscrowTypes, Bundles
    <2> QED
      BY <2>6, <2>7, <2>8, ToolsKeepEscrow
  <1>4. CASE SendPrepared(a)
    <2>1. b.step = "send" /\ Execute(b.tool, b.job, b.amount, b.work) /\ Keeps(a, NoBundle) /\ RestOfTools
      BY <1>2, <1>4 DEF SendPrepared
    <2>2. b.tool \in Calls /\ b.job \in Escrows /\ b.amount \in 0 .. MaxBudget /\ b.work \in Works
      BY <1>1, <1>2, <2>1 DEF Bundles
    <2>3. Advances
      BY <2>1, <2>2, ExecuteAdvances
    <2>4. PICK none : none = NoBundle
      OBVIOUS
    <2>5. none = [tool |-> "none", step |-> "none", amount |-> 0, work |-> NoWork] /\ Keeps(a, none)
      BY <2>1, <2>4 DEF NoBundle
    <2> QED
      BY <2>1, <2>3, <2>5, EmptyBundle, AgentsKeepEscrow
  <1>5. CASE DropPrepared(a)
    <2>1. Keeps(a, NoBundle) /\ RestOfTools /\ Advances
      BY <1>5, RestingAdvances DEF DropPrepared
    <2>2. PICK none : none = NoBundle
      OBVIOUS
    <2>3. none = [tool |-> "none", step |-> "none", amount |-> 0, work |-> NoWork] /\ Keeps(a, none)
      BY <2>1, <2>2 DEF NoBundle
    <2> QED
      BY <2>1, <2>3, EmptyBundle, AgentsKeepEscrow
  <1> QED
    BY <1>3, <1>4, <1>5

LEMMA JobsKeepEscrow ==
  ASSUME EscrowInv, JobNext
  PROVE  EscrowInv'
  <1>1. CASE \E j \in Escrows : JobExpires(j) \/ IndexerFollows(j)
    BY <1>1, ChainKeepsEscrow
  <1>2. CASE \E t \in Tabs : \/ LoadJob(t) \/ ClickFund(t) \/ ReadAllowance(t) \/ Approve(t) \/ Send(t) \/ Decline(t)
                            \/ ReceiptArrives(t) \/ WaitTimesOut(t)
    BY <1>2, TabsKeepEscrow
  <1>3. CASE \E t \in Tabs : MineCall(t)
    BY <1>3, MineCallKeepsEscrow
  <1>4. CASE \E t \in Tabs : PollIndexer(t)
    BY <1>4, PollKeepsEscrow
  <1>5. CASE \E t \in Tabs, action \in {"submit", "complete", "claimRefund"}, work \in WorkForms : Click(t, action, work)
    BY <1>5, ClickKeepsEscrow
  <1>6. CASE \E a \in Advisees : Advise(a)
    BY <1>6, AdviseKeepsEscrow
  <1>7. CASE \E a \in Advisees : SendApproval(a) \/ SendPrepared(a) \/ DropPrepared(a)
    BY <1>7, OwnersKeepEscrow
  <1>8. CASE \E a \in Advisees, looks \in BOOLEAN :
                \E amount \in {escrow[bundle[a].job].budget} \cup 1 .. MaxBudget : PrepareFund(a, amount, looks)
    <2>1. PICK a \in Advisees, looks \in BOOLEAN :
                \E amount \in {escrow[bundle[a].job].budget} \cup 1 .. MaxBudget : PrepareFund(a, amount, looks)
      BY <1>8
    <2>2. bundle[a].job \in Escrows
      BY DEF EscrowInv, EscrowTypes, Bundles
    <2>3. escrow[bundle[a].job].budget \in 0 .. MaxBudget
      BY <2>2 DEF EscrowInv, EscrowTypes, EscrowJobs
    <2>4. PICK amount \in 0 .. MaxBudget : PrepareFund(a, amount, looks)
      BY <2>1, <2>3, EscrowAssumption
    <2> QED
      BY <2>4, PrepareFundKeepsEscrow
  <1>9. CASE \E a \in Advisees :
               \/ PrepareCreateJob(a) \/ PrepareCreateOpenJob(a) \/ PrepareSetProvider(a)
               \/ PrepareComplete(a) \/ PrepareReject(a) \/ PrepareClaimRefund(a)
    <2>1. PICK a \in Advisees, tool \in Calls : Prepared(a, tool, 0, NoWork)
      BY <1>9 DEF PrepareCreateJob, PrepareCreateOpenJob, PrepareSetProvider, PrepareComplete, PrepareReject,
                 PrepareClaimRefund, Calls
    <2> QED
      BY <2>1, EmptyBundle, PreparedKeepsEscrow
  <1>10. CASE \E a \in Advisees : \E amount \in 1 .. MaxBudget : PrepareSetBudget(a, amount)
    <2>1. PICK a \in Advisees, amount \in 0 .. MaxBudget : Prepared(a, "setBudget", amount, NoWork)
      BY <1>10 DEF PrepareSetBudget
    <2>2. "setBudget" \in Calls
      BY DEF Calls
    <2> QED
      BY <2>1, <2>2, EmptyBundle, PreparedKeepsEscrow
  <1>11. CASE \E a \in Advisees : \E d \in WorkForms : PrepareSubmit(a, d)
    <2>1. PICK a \in Advisees, work \in Works : Prepared(a, "submit", 0, work)
      BY <1>11 DEF PrepareSubmit, Works
    <2>2. "submit" \in Calls
      BY DEF Calls
    <2> QED
      BY <2>1, <2>2, EmptyBundle, PreparedKeepsEscrow
  <1> QED
    BY <1>1, <1>2, <1>3, <1>4, <1>5, <1>6, <1>7, <1>8, <1>9, <1>10, <1>11 DEF JobNext

LEMMA HireKeepsEscrow ==
  ASSUME EscrowInv, HireNext
  PROVE  EscrowInv'
  <1>1. hire \in HireRecords /\ MaxHires \in Nat
    BY EscrowAssumption DEF EscrowInv, EscrowTypes
  <1>2. PICK h \in HireRecords : h = hire
    BY <1>1
  <1>3. PICK n \in HireRecords : Hires(n)
    <2>1. CASE PressPrepare
      <3>1. PICK m : m = [h EXCEPT !.preparing = h.last + 1, !.last = h.last + 1, !.prepared = 0]
        OBVIOUS
      <3>2. m = [preparing |-> h.last + 1, prepared |-> 0, signing |-> h.signing, sent |-> h.sent, created |-> h.created,
                 last |-> h.last + 1]
        BY <3>1 DEF HireRecords
      <3>3. h.last + 1 \in 0 .. MaxHires
        BY <1>1, <1>2, <2>1 DEF PressPrepare, HireRecords
      <3>4. m \in HireRecords
        BY <1>1, <3>2, <3>3 DEF HireRecords
      <3> QED
        BY <1>2, <2>1, <3>1, <3>4 DEF PressPrepare
    <2>2. CASE PrepareAnswers
      <3>1. PICK k \in {h.preparing, h.prepared} : Hires([h EXCEPT !.preparing = 0, !.prepared = k])
        BY <1>2, <2>2 DEF PrepareAnswers
      <3>2. [h EXCEPT !.preparing = 0, !.prepared = k] \in HireRecords
        <4>1. PICK m : m = [h EXCEPT !.preparing = 0, !.prepared = k]
          OBVIOUS
        <4>2. m = [preparing |-> 0, prepared |-> k, signing |-> h.signing, sent |-> h.sent, created |-> h.created, last |-> h.last]
          BY <4>1 DEF HireRecords
        <4>3. 0 \in 0 .. MaxHires /\ k \in 0 .. MaxHires
          BY <1>1, <3>1 DEF HireRecords
        <4> QED
          BY <4>1, <4>2, <4>3 DEF HireRecords
      <3> QED
        BY <3>1, <3>2
    <2>3. CASE EditForm
      <3>1. Hires([h EXCEPT !.prepared = 0, !.created = 0])
        BY <1>2, <2>3 DEF EditForm
      <3>2. [h EXCEPT !.prepared = 0, !.created = 0] \in HireRecords
        <4>1. PICK m : m = [h EXCEPT !.prepared = 0, !.created = 0]
          OBVIOUS
        <4>2. m = [preparing |-> h.preparing, prepared |-> 0, signing |-> h.signing, sent |-> h.sent, created |-> 0, last |-> h.last]
          BY <4>1 DEF HireRecords
        <4>3. 0 \in 0 .. MaxHires
          BY <1>1
        <4> QED
          BY <4>1, <4>2, <4>3 DEF HireRecords
      <3> QED
        BY <3>1, <3>2
    <2>4. CASE PressSign
      <3>1. PICK no \in BOOLEAN : Hires([h EXCEPT !.signing = h.prepared, !.sent = no])
        BY <1>2, <2>4 DEF PressSign
      <3>2. [h EXCEPT !.signing = h.prepared, !.sent = no] \in HireRecords
        BY <1>1, <3>1 DEF HireRecords
      <3> QED
        BY <3>1, <3>2
    <2>5. CASE SendCreateJob
      <3>1. PICK yes \in BOOLEAN : Hires([h EXCEPT !.sent = yes]) \/ Hires([h EXCEPT !.signing = 0])
        BY <1>2, <2>5 DEF SendCreateJob
      <3>2. [h EXCEPT !.sent = yes] \in HireRecords /\ [h EXCEPT !.signing = 0] \in HireRecords
        BY <1>1, <3>1 DEF HireRecords
      <3> QED
        BY <3>1, <3>2
    <2>6. CASE ConfirmAnswers
      <3>1. PICK k \in {h.signing, h.created}, no \in BOOLEAN : Hires([h EXCEPT !.signing = 0, !.sent = no, !.created = k])
        BY <1>2, <2>6 DEF ConfirmAnswers
      <3>2. [h EXCEPT !.signing = 0, !.sent = no, !.created = k] \in HireRecords
        <4>1. PICK m : m = [h EXCEPT !.signing = 0, !.sent = no, !.created = k]
          OBVIOUS
        <4>2. m = [preparing |-> h.preparing, prepared |-> h.prepared, signing |-> 0, sent |-> no, created |-> k, last |-> h.last]
          BY <4>1 DEF HireRecords
        <4>3. 0 \in 0 .. MaxHires /\ k \in 0 .. MaxHires
          BY <1>1, <3>1 DEF HireRecords
        <4> QED
          BY <3>1, <4>1, <4>2, <4>3 DEF HireRecords
      <3> QED
        BY <3>1, <3>2
    <2> QED
      BY <2>1, <2>2, <2>3, <2>4, <2>5, <2>6 DEF HireNext
  <1>4. UNCHANGED <<escrow, allowance, indexed, tab, bundle, feed>> /\ hire' = n
    BY <1>3 DEF HireNext, PressPrepare, PrepareAnswers, EditForm, PressSign, SendCreateJob, ConfirmAnswers, Hires, Rest
  <1>5. EscrowTypes'
    BY <1>3, <1>4 DEF EscrowInv, EscrowTypes
  <1> QED
    BY <1>4, <1>5 DEF EscrowInv

LEMMA FeedKeepsEscrow ==
  ASSUME EscrowInv, FeedNext
  PROVE  EscrowInv'
  <1>1. PICK f \in FeedRecords : f = feed
    BY DEF EscrowInv, EscrowTypes
  <1>2. PICK r \in EscrowRows : r = indexed[PolledJob]
    BY JobIsPolled DEF EscrowInv, EscrowTypes
  <1>3. \A s \in f.inFlight \cup {f.shown, r.status} : s \in Statuses /\ ReachedOnChain(s, escrow[PolledJob])
    BY <1>1, <1>2, JobIsPolled DEF EscrowInv, OfItsPast, FeedRecords, EscrowRows
  <1>4. PICK n \in FeedRecords : feed' = n /\ n.inFlight \cup {n.shown} \subseteq f.inFlight \cup {f.shown, r.status}
    <2>1. CASE FetchJob
      <3>1. feed' = [f EXCEPT !.inFlight = f.inFlight \cup {r.status}]
        BY <1>1, <1>2, <2>1 DEF FetchJob
      <3>2. feed' = [shown |-> f.shown, inFlight |-> f.inFlight \cup {r.status}]
        BY <3>1 DEF FeedRecords
      <3>3. feed' \in FeedRecords
        BY <1>3, <3>2 DEF FeedRecords
      <3> QED
        BY <3>2, <3>3
    <2>2. CASE FetchAnswers
      <3>1. PICK s \in f.inFlight : \E o \in {s, f.shown} : feed' = [shown |-> o, inFlight |-> f.inFlight \ {s}]
        BY <1>1, <2>2 DEF FetchAnswers
      <3>2. feed' \in FeedRecords
        BY <1>3, <3>1 DEF FeedRecords
      <3> QED
        BY <3>1, <3>2
    <2> QED
      BY <2>1, <2>2 DEF FeedNext
  <1>5. UNCHANGED <<escrow, allowance, indexed, tab, bundle, hire>>
    BY DEF FeedNext, FetchJob, FetchAnswers, Rest
  <1>6. EscrowTypes'
    BY <1>4, <1>5 DEF EscrowInv, EscrowTypes
  <1>7. \A s \in feed'.inFlight \cup {feed'.shown} : ReachedOnChain(s, escrow'[PolledJob])
    BY <1>3, <1>4, <1>5
  <1> QED
    BY <1>5, <1>6, <1>7 DEF EscrowInv

LEMMA InitEscrowInv == EscrowInit => EscrowInv
  <1> SUFFICES ASSUME EscrowInit PROVE EscrowInv
    OBVIOUS
  <1> USE EmptyPages DEF EscrowInit
  <1>1. /\ escrow \in [Escrows -> EscrowJobs] /\ \A j \in Escrows : escrow[j] = NoJob
        /\ indexed \in [Escrows -> EscrowRows] /\ \A j \in Escrows : indexed[j] = Row(NoJob)
    OBVIOUS
  <1>2. /\ tab \in [Tabs -> TabRecords]
        /\ \A t \in Tabs : tab[t].job \in Escrows /\ tab[t].view = Row(NoJob) /\ tab[t].flow = NoFlow
    <2>1. PICK v, w : v = Row(NoJob) /\ w = NoFlow
      OBVIOUS
    <2>2. tab \in [Tabs -> {[job |-> j, view |-> v, flow |-> w] : j \in Escrows}] /\ v \in EscrowRows /\ w \in Flows
      BY <2>1
    <2>3. /\ tab \in [Tabs -> TabRecords]
          /\ \A t \in Tabs : tab[t].job \in Escrows /\ tab[t].view = v /\ tab[t].flow = w
      BY <2>2 DEF TabRecords
    <2> QED
      BY <2>1, <2>3
  <1>3. bundle \in [Advisees -> Bundles] /\ \A a \in Advisees : bundle[a].step = "none"
    BY EmptyBundle DEF OfJob, NoBundle, Bundles
  <1>4. allowance \in 0 .. MaxBudget /\ hire \in HireRecords /\ feed \in FeedRecords /\ feed.shown = 0 /\ feed.inFlight = {}
    BY EmptyBundle DEF FeedRecords, Statuses
  <1>5. EscrowTypes
    BY <1>1, <1>2, <1>3, <1>4 DEF EscrowTypes
  <1>6. \A j \in Escrows : OfItsPast(Row(NoJob), escrow[j]) /\ ReachedOnChain(0, escrow[j])
    BY <1>1 DEF OfItsPast, ReachedOnChain, Terminal
  <1>7. FlowIsTrue(NoFlow, Row(NoJob))
    BY DEF FlowIsTrue
  <1>8. \A t \in Tabs : OfItsPast(tab[t].view, escrow[tab[t].job]) /\ FlowIsTrue(tab[t].flow, tab[t].view)
    BY <1>2, <1>6, <1>7
  <1> QED
    BY <1>1, <1>3, <1>4, <1>5, <1>6, <1>8, JobIsPolled DEF EscrowInv

LEMMA NextEscrowInv == EscrowInv /\ [EscrowNext]_escrowVars => EscrowInv'
  <1> SUFFICES ASSUME EscrowInv, [EscrowNext]_escrowVars PROVE EscrowInv'
    OBVIOUS
  <1>1. CASE UNCHANGED escrowVars
    BY <1>1 DEF escrowVars, EscrowInv, EscrowTypes
  <1> QED
    BY <1>1, JobsKeepEscrow, HireKeepsEscrow, FeedKeepsEscrow DEF EscrowNext

LEMMA EscrowInvGives ==
  EscrowInv => EscrowTypeOK /\ PagesNeverLead /\ AcknowledgedIsShown /\ AdviceIsPossible
  <1> SUFFICES ASSUME EscrowInv PROVE EscrowTypeOK /\ PagesNeverLead /\ AcknowledgedIsShown /\ AdviceIsPossible
    OBVIOUS
  <1>1. EscrowTypeOK
    <2>1. \A t \in Tabs : /\ tab[t].job \in Escrows
                          /\ tab[t].flow.step \in {"idle", "allowance", "approve", "approving", "send", "sent", "wait"}
                          /\ tab[t].flow.message \in {"none", "failed", "timed out"} \cup Calls
      <3> SUFFICES ASSUME NEW t \in Tabs
                   PROVE  /\ tab[t].job \in Escrows
                          /\ tab[t].flow.step \in {"idle", "allowance", "approve", "approving", "send", "sent", "wait"}
                          /\ tab[t].flow.message \in {"none", "failed", "timed out"} \cup Calls
        OBVIOUS
      <3>1. tab[t].job \in Escrows /\ tab[t].flow \in Flows
        BY DEF EscrowInv, EscrowTypes, TabRecords
      <3> QED
        BY <3>1 DEF Flows, PageActions, Calls
    <2>2. \A a \in Advisees : /\ bundle[a].tool \in Calls \cup {"none"}
                              /\ bundle[a].step \in {"none", "advised", "approve", "send"}
      BY DEF EscrowInv, EscrowTypes, Bundles
    <2>3. {hire.preparing, hire.prepared, hire.signing, hire.created, hire.last} \subseteq 0 .. MaxHires
      BY DEF EscrowInv, EscrowTypes, HireRecords
    <2>4. feed.shown \in Statuses
      BY DEF EscrowInv, EscrowTypes, FeedRecords
    <2> QED
      BY <2>1, <2>2, <2>3, <2>4 DEF EscrowTypeOK, EscrowInv, EscrowTypes, EscrowJobs, Works
  <1>2. PagesNeverLead
    BY DEF EscrowInv, OfItsPast, PagesNeverLead
  <1>3. AcknowledgedIsShown
    BY DEF EscrowInv, FlowIsTrue, AcknowledgedIsShown
  <1>4. AdviceIsPossible
    <2> SUFFICES ASSUME NEW j \in Escrows, escrow[j].exists, escrow[j].status \notin Terminal
                 PROVE  LET f == Summary(escrow[j]) IN
                        IF f = "fund" THEN escrow[j].budget > 0 ELSE Accepts(f, j)
      BY DEF AdviceIsPossible
    <2>1. PICK k \in EscrowJobs : k = escrow[j]
      BY DEF EscrowInv, EscrowTypes
    <2>2. k.status \in {0, 1, 2} /\ k.budget \in Nat /\ k.exists
      BY <2>1, EscrowAssumption DEF EscrowJobs, Statuses, Terminal
    <2>3. PICK f : f = Summary(k)
      OBVIOUS
    <2>4. IF f = "fund" THEN k.budget > 0 ELSE Accepts(f, j)
      <3>1. f \in {"setProvider", "setBudget", "fund", "submit", "complete", "claimRefund"}
        BY <2>2, <2>3 DEF Summary
      <3>2. f = "setProvider" => k.status = 0 /\ ~k.hired
        BY <2>2, <2>3 DEF Summary
      <3>3. f \in {"setBudget", "fund"} => k.status = 0 /\ k.hired /\ (f = "fund" => k.budget # 0)
        BY <2>2, <2>3 DEF Summary
      <3>4. f = "submit" => k.status = 1
        BY <2>2, <2>3 DEF Summary
      <3>5. f = "complete" => k.status = 2
        BY <2>2, <2>3 DEF Summary
      <3>6. f = "claimRefund" => k.status \in {1, 2} /\ k.late
        BY <2>2, <2>3 DEF Summary
      <3>7. f = "fund" => k.budget > 0
        BY <2>2, <3>3
      <3>8. f # "fund" => Accepts(f, j)
        BY <2>1, <2>2, <3>1, <3>2, <3>3, <3>4, <3>5, <3>6 DEF Accepts
      <3> QED
        BY <3>7, <3>8
    <2> QED
      BY <2>1, <2>3, <2>4
  <1> QED
    BY <1>1, <1>2, <1>3, <1>4

-----------------------------------------------------------------------------
(***************************************************************************)
(* The Console.                                                            *)
(***************************************************************************)
\* A step of the Console is a step of one component, and the others rest.
LEMMA OtherComponentsStep ==
  ASSUME [Next]_vars
  PROVE  /\ [A2ANext]_a2aVars /\ [DirectoryNext]_directoryVars /\ [PresenceNext]_presenceVars
         /\ [IndexerNext]_indexerVars /\ [EscrowNext]_escrowVars
  <1>1. CASE UNCHANGED vars
    BY <1>1 DEF vars
  <1>2. CASE Next
    <2>1. OthersRest
      BY <1>2
      DEF Next, MirrorAtWork, CreationAtWork, PeersAtWork, ValidationsAtWork, IndexerAtWork, JobPagesAtWork,
          HirePageAtWork, FeedAtWork, ReadsAtWork, ManifestsAtWork, RegistryAtWork, ListsAtWork,
          StandingAtWork, PillAtWork, StripAtWork, AgentPageAtWork
    <2>2. /\ focus \in {"peers", "webhooks"} => A2ANext
          /\ focus = "indexer" => IndexerNext
          /\ focus \in {"jobs", "hire", "feed"} => EscrowNext
          /\ focus \in {"manifests", "registry", "lists", "standing"} => DirectoryNext
          /\ focus \in {"pill", "strip", "page"} => PresenceNext
      BY <1>2
      DEF Next, MirrorAtWork, CreationAtWork, PeersAtWork, ValidationsAtWork, IndexerAtWork, JobPagesAtWork,
          HirePageAtWork, FeedAtWork, ReadsAtWork, ManifestsAtWork, RegistryAtWork, ListsAtWork,
          StandingAtWork, PillAtWork, StripAtWork, AgentPageAtWork, EscrowNext, DirectoryNext, PresenceNext
    <2> QED
      BY <2>1, <2>2 DEF OthersRest
  <1> QED
    BY <1>1, <1>2

RecordsInv ==
    /\ MirrorTruth /\ CreationTruth /\ A2AInv /\ PresenceInv /\ ListedInv /\ DealInv /\ ReadsInv
    /\ IndexerInv /\ EscrowInv

\* The inductive invariant of what the Console stores, reads and shows, which
\* rests on that of its races.
THEOREM RecordsInvariant == Spec => [](ConsoleInv /\ RecordsInv)
  <1>1. Init => RecordsInv
    BY InitMirrorTruth, InitCreationTruth, InitA2AInv, InitPresenceInv, InitListedInv, InitDealInv, InitReadsInv,
       InitIndexerInv, InitEscrowInv DEF Init, RecordsInv
  <1>2. ConsoleInv /\ RecordsInv /\ [Next]_vars => RecordsInv'
    <2> SUFFICES ASSUME ConsoleInv, RecordsInv, [Next]_vars PROVE RecordsInv'
      OBVIOUS
    <2>1. MirrorTruth' /\ CreationTruth' /\ ReadsInv'
      BY OneComponentSteps, NextMirrorTruth, NextCreationTruth, NextReadsInv DEF ConsoleInv, RecordsInv
    <2>2. A2AInv' /\ PresenceInv' /\ ListedInv' /\ DealInv'
      BY OtherComponentsStep, NextA2AInv, NextPresenceInv, NextListedInv, NextDealInv DEF RecordsInv
    <2>3. IndexerInv' /\ EscrowInv'
      BY OtherComponentsStep, NextIndexerInv, NextEscrowInv DEF RecordsInv
    <2> QED
      BY <2>1, <2>2, <2>3 DEF RecordsInv
  <1> QED
    BY <1>1, <1>2, ConsoleInvariant, PTL DEF Spec

\* Every component's variables have their types, while it is at work.
THEOREM ConsoleTypeCorrect == Spec => []TypeOK
  <1>1. ConsoleInv /\ RecordsInv => TypeOK
    <2> SUFFICES ASSUME ConsoleInv, RecordsInv PROVE TypeOK
      OBVIOUS
    <2>1. MirrorTypeOK /\ CreationTypeOK /\ ValidationTypeOK
      BY DEF ConsoleInv, MirrorInv, CreationInv, ValidationInv
    <2>2. A2ATypeOK /\ PresenceTypeOK /\ DirectoryTypeOK /\ GoldskyTypeOK
      BY A2AInvGives, PresenceInvGives, ListedInvGives, ReadsInvGives DEF ConsoleInv, RecordsInv
    <2>3. IndexerTypeOK /\ EscrowTypeOK
      BY IndexerInvGives, EscrowInvGives DEF RecordsInv
    <2> QED
      BY <2>1, <2>2, <2>3 DEF TypeOK
  <1> QED
    BY <1>1, RecordsInvariant, PTL

\* What is stored is true of the chain: rows, detail pages, peer jobs and job
\* pages never run ahead of it, what the indexer's readers are told is all of
\* the chain up to some block, lists are whole, and records are their owners'.
THEOREM RecordsStayTrue == Spec => []RecordsAreTrue
  <1>1. ConsoleInv /\ RecordsInv => RecordsAreTrue
    <2> SUFFICES ASSUME ConsoleInv, RecordsInv PROVE RecordsAreTrue
      OBVIOUS
    <2>1. MirrorNeverLeads /\ DetailNeverLeads /\ HiresNameTheRegistered /\ AnswersAreOfOnePast
      BY MirrorTruthGives, CreationTruthGives, ReadsInvGives DEF ConsoleInv, RecordsInv
    <2>2. PeerJobNeverLeads /\ HooksTellTheTruth /\ PresenceIsItsOwn /\ ManifestsAreOwners /\ ListsAreWhole /\ ReadersAgree
      BY A2AInvGives, PresenceInvGives, ListedInvGives, ReadersDoAgree DEF RecordsInv
    <2>3. NothingSkipped /\ ProjectionsAreExact /\ PagesNeverLead
      BY IndexerInvGives, EscrowInvGives DEF RecordsInv
    <2> QED
      BY <2>1, <2>2, <2>3 DEF RecordsAreTrue
  <1> QED
    BY <1>1, RecordsInvariant, PTL

\* A page says done what the chain has acknowledged and a tool advises what the
\* contract accepts, a route accepts what it offered, an agent's standing goes
\* the way of its jobs, and a page shows the agent it is opened for.
THEOREM GuidanceStaysTrue == Spec => []GuidanceIsTrue
  <1>1. ConsoleInv /\ RecordsInv => GuidanceIsTrue
    <2> SUFFICES ASSUME ConsoleInv, RecordsInv PROVE GuidanceIsTrue
      OBVIOUS
    <2>1. OfferedIsAccepted /\ AliveWasHeard /\ PageShowsItsAgent
      BY MirrorTruthGives, PresenceInvGives DEF ConsoleInv, RecordsInv
    <2>2. AcknowledgedIsShown /\ AdviceIsPossible /\ StandingFollowsWork
      BY EscrowInvGives, StandingFollows DEF RecordsInv
    <2> QED
      BY <2>1, <2>2 DEF GuidanceIsTrue
  <1> QED
    BY <1>1, RecordsInvariant, PTL
=============================================================================
