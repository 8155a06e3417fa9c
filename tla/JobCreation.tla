---------------------------- MODULE JobCreation ----------------------------
(***************************************************************************)
(* How a local ERC-8183 job gets its job on chain in the Console.          *)
(*                                                                         *)
(* Two ways lead there.  POST /api/erc8183-jobs stores the row first and   *)
(* POST [localJobId]/created attaches the createJob transaction to it.     *)
(* The direct hire stores a preparation (web-hire/prepare) and             *)
(* web-hire/created turns it and the transaction into a row.               *)
(*                                                                         *)
(* A createJob transaction makes one job on chain, so the transaction      *)
(* stands for that job.  Its event is compared with the client, provider   *)
(* and evaluator of the row or preparation; the expiry and the hook, which *)
(* are compared in the same way, are left out.                             *)
(***************************************************************************)
EXTENDS Naturals, FiniteSets

CONSTANTS
    Preparations,
    Rows,             \* local jobs that can be created
    CreateTxs,        \* createJob transactions the buyer's wallet may send
    TxNames,          \* the wallets each of them names, one for each side
    Controllers,      \* wallets that control agents
    FirstController,  \* who controls the agent of each side at the start
    NoController,
    Movable,          \* bound: the sides whose agent may be transferred, once
    Posts,            \* confirmations under way at the same time
    NoPreparation,
    NoCreateTx,
    NoRow,
    MaxCreationCrashes

Sides == {"buyer", "provider", "evaluator"}

ASSUME CreationAssumption ==
    /\ FirstController \in [Sides -> Controllers] /\ Movable \subseteq Sides
    /\ TxNames \in [CreateTxs -> [Sides -> Controllers]]
    /\ NoController \notin Controllers
    /\ NoPreparation \notin Preparations /\ NoCreateTx \notin CreateTxs /\ NoRow \notin Rows
    /\ MaxCreationCrashes \in Nat

VARIABLES
    registeredTo, \* erc8004_agents: the controller of the agent of each side
    prep,      \* erc8183_hire_preparations: status, participants and job of each
    job,       \* agent_jobs: which rows exist, for which preparation, with which
               \* participants and job
    createTx,  \* each transaction as the chain knows it
    post,      \* confirmations under way
    creationCrashes

creationVars == <<registeredTo, prep, job, createTx, post, creationCrashes>>

NoPost == [kind |-> "none", stage |-> "idle", prep |-> NoPreparation,
           tx |-> NoCreateTx, row |-> NoRow]

CreationTypeOK ==
    /\ registeredTo \in [Sides -> Controllers]
    /\ prep \in [Preparations ->
                   [status : {"none", "prepared", "creating", "created", "failed", "expired"},
                    names : [Sides -> Controllers], tx : CreateTxs \cup {NoCreateTx}]]
    /\ job \in [Rows -> [exists : BOOLEAN, prep : Preparations \cup {NoPreparation},
                         names : [Sides -> Controllers], tx : CreateTxs \cup {NoCreateTx}]]
    /\ createTx \in [CreateTxs -> {"none", "live", "mined", "reverted"}]
    /\ post \in [Posts -> [kind : {"none", "hire", "created"},
                           stage : {"idle", "receipt", "create", "attach", "mark"},
                           prep : Preparations \cup {NoPreparation},
                           tx : CreateTxs \cup {NoCreateTx}, row : Rows \cup {NoRow}]]
    /\ creationCrashes \in 0 .. MaxCreationCrashes

CreationInit ==
    /\ registeredTo = FirstController
    /\ prep = [q \in Preparations |->
                 [status |-> "none", names |-> FirstController, tx |-> NoCreateTx]]
    /\ job = [l \in Rows |-> [exists |-> FALSE, prep |-> NoPreparation,
                              names |-> FirstController, tx |-> NoCreateTx]]
    /\ createTx = [t \in CreateTxs |-> "none"]
    /\ post = [p \in Posts |-> NoPost]
    /\ creationCrashes = 0

-----------------------------------------------------------------------------
\* The buyer's wallet and the chain.
SendCreate(t) ==
    /\ createTx[t] = "none"
    /\ createTx' = [createTx EXCEPT ![t] = "live"]
    /\ UNCHANGED <<registeredTo, prep, job, post, creationCrashes>>

MineCreate(t) ==
    /\ createTx[t] = "live"
    /\ \E outcome \in {"mined", "reverted"} : createTx' = [createTx EXCEPT ![t] = outcome]
    /\ UNCHANGED <<registeredTo, prep, job, post, creationCrashes>>

\* An agent is transferred and the indexer tells erc8004_agents.
TransferAgent(side, w) ==
    /\ side \in Movable
    /\ registeredTo[side] = FirstController[side] /\ w # FirstController[side]
    /\ registeredTo' = [registeredTo EXCEPT ![side] = w]
    /\ UNCHANGED <<prep, job, createTx, post, creationCrashes>>

-----------------------------------------------------------------------------
(***************************************************************************)
(* POST web-hire/prepare.                                                  *)
(***************************************************************************)
\* What is left of a request that validateWebHireInput lets pass: who will
\* evaluate, and the controller it asserts for the provider, if any.  One it
\* refuses leaves no trace.
HireRequests == [mode : {"explicit", "client"}, asserted : Controllers \cup {NoController}]

\* Mutant: a controller the request asserts is taken at its word.
ResolvedOrAsserted(h) ==
    [side \in Sides |->
        CASE side = "provider" /\ h.asserted # NoController -> h.asserted
          [] side = "evaluator" /\ h.mode = "client"        -> registeredTo["buyer"]
          [] OTHER                                          -> registeredTo[side]]

\* resolveIdentityAndBuild.  Each row is read once; in mode client the
\* evaluator is the buyer as it was resolved.  That a session prepares only
\* for its own agents (an API key for any), and that an agent account is
\* refused while its rail is off, are left out.
Resolved(h) ==
    [side \in Sides |->
        registeredTo[IF side = "evaluator" /\ h.mode = "client" THEN "buyer" ELSE side]]

Stands(h) == h.asserted \in {NoController, Resolved(h)["provider"]}

Prepare(q, h) ==
    /\ prep[q].status = "none"
    /\ Stands(h)
    /\ prep' = [prep EXCEPT ![q].status = "prepared", ![q].names = Resolved(h)]
    /\ UNCHANGED <<registeredTo, job, createTx, post, creationCrashes>>

\* createLocalErc8183Job for POST /api/erc8183-jobs, which takes the wallets
\* from its body.
CreateLocal(l, names) ==
    /\ ~job[l].exists
    /\ job' = [job EXCEPT ![l].exists = TRUE, ![l].names = names]
    /\ UNCHANGED <<registeredTo, prep, createTx, post, creationCrashes>>

Goes(p, next) == post' = [post EXCEPT ![p] = next]

\* attachErc8183CreateTx, in whose table a job on chain has one row.
Taken(l, t)  == \E m \in Rows \ {l} : job[m].tx = t
Attach(l, t) == job' = [job EXCEPT ![l].tx = t]

-----------------------------------------------------------------------------
(***************************************************************************)
(* POST web-hire/created.                                                  *)
(***************************************************************************)
\* Mutant: the claim does not ask for the status prepared.
ClaimableTwice(q) == prep[q].status \in {"prepared", "creating"}

Claimable(q) == prep[q].status = "prepared"

\* The claim; a preparation older than 30 minutes expires at once, and one
\* whose buyer is not an agent of the session's wallet fails.
ClaimPreparation(p, q, t) ==
    /\ post[p] = NoPost
    /\ createTx[t] # "none"
    /\ Claimable(q)
    /\ \/ /\ prep' = [prep EXCEPT ![q].status = "creating"]
          /\ Goes(p, [NoPost EXCEPT !.kind = "hire", !.stage = "receipt", !.prep = q, !.tx = t])
       \/ /\ \E status \in {"expired", "failed"} : prep' = [prep EXCEPT ![q].status = status]
          /\ UNCHANGED post
    /\ UNCHANGED <<registeredTo, job, createTx, creationCrashes>>

HireAt(p, stage) == post[p].kind = "hire" /\ post[p].stage = stage

\* Not mined yet: the answer is 202 and the preparation stays creating.
ReceiptMissing(p) ==
    /\ HireAt(p, "receipt")
    /\ createTx[post[p].tx] = "live"
    /\ Goes(p, NoPost)
    /\ UNCHANGED <<registeredTo, prep, job, createTx, creationCrashes>>

\* Mutant: the evaluator of the event is not compared.
NamesTheSellerOf(t, names) ==
    \A side \in {"buyer", "provider"} : TxNames[t][side] = names[side]

\* The sender and the event of the transaction against the participants.
Names(t, names) == TxNames[t] = names

\* Reverted, another sender, no JobCreated event, or one that differs.
ReceiptRefused(p) ==
    LET q == post[p].prep  t == post[p].tx IN
    /\ HireAt(p, "receipt")
    /\ createTx[t] = "reverted" \/ (createTx[t] = "mined" /\ ~Names(t, prep[q].names))
    /\ prep' = [prep EXCEPT ![q].status = IF @ = "creating" THEN "failed" ELSE @]
    /\ Goes(p, NoPost)
    /\ UNCHANGED <<registeredTo, job, createTx, creationCrashes>>

ReceiptMatches(p) ==
    /\ HireAt(p, "receipt")
    /\ createTx[post[p].tx] = "mined" /\ Names(post[p].tx, prep[post[p].prep].names)
    /\ Goes(p, [post[p] EXCEPT !.stage = "create"])
    /\ UNCHANGED <<registeredTo, prep, job, createTx, creationCrashes>>

CreateHired(p, l) ==
    /\ HireAt(p, "create")
    /\ ~job[l].exists
    /\ job' = [job EXCEPT ![l] = [exists |-> TRUE, prep |-> post[p].prep,
                                  names |-> prep[post[p].prep].names, tx |-> NoCreateTx]]
    /\ Goes(p, [post[p] EXCEPT !.stage = "attach", !.row = l])
    /\ UNCHANGED <<registeredTo, prep, createTx, creationCrashes>>

\* The unique index on the job on chain can make the update fail: the
\* exception leaves the preparation creating and the row without a job.
AttachHired(p) ==
    LET l == post[p].row  t == post[p].tx IN
    /\ HireAt(p, "attach")
    /\ IF Taken(l, t)
       THEN Goes(p, NoPost) /\ UNCHANGED job
       ELSE Attach(l, t) /\ Goes(p, [post[p] EXCEPT !.stage = "mark"])
    /\ UNCHANGED <<registeredTo, prep, createTx, creationCrashes>>

MarkCreated(p) ==
    LET q == post[p].prep IN
    /\ HireAt(p, "mark")
    /\ prep' = [prep EXCEPT ![q] = IF @.status = "creating"
                                   THEN [@ EXCEPT !.status = "created", !.tx = post[p].tx] ELSE @]
    /\ Goes(p, NoPost)
    /\ UNCHANGED <<registeredTo, job, createTx, creationCrashes>>

HireRoute(p) ==
    \/ \E q \in Preparations, t \in CreateTxs : ClaimPreparation(p, q, t)
    \/ ReceiptMissing(p) \/ ReceiptRefused(p) \/ ReceiptMatches(p)
    \/ \E l \in Rows : CreateHired(p, l)
    \/ AttachHired(p) \/ MarkCreated(p)

-----------------------------------------------------------------------------
(***************************************************************************)
(* POST [localJobId]/created: the row is read, the receipt and its event   *)
(* are checked, then the row is updated whatever it holds by now.          *)
(***************************************************************************)
ReadRow(p, l, t) ==
    /\ post[p] = NoPost
    /\ job[l].exists /\ job[l].tx = NoCreateTx
    /\ createTx[t] = "mined" /\ Names(t, job[l].names)
    /\ Goes(p, [NoPost EXCEPT !.kind = "created", !.stage = "attach", !.row = l, !.tx = t])
    /\ UNCHANGED <<registeredTo, prep, job, createTx, creationCrashes>>

AttachCreated(p) ==
    LET l == post[p].row  t == post[p].tx IN
    /\ post[p].kind = "created" /\ post[p].stage = "attach"
    /\ IF Taken(l, t) THEN UNCHANGED job ELSE Attach(l, t)
    /\ Goes(p, NoPost)
    /\ UNCHANGED <<registeredTo, prep, createTx, creationCrashes>>

CreatedRoute(p) ==
    \/ \E l \in Rows, t \in CreateTxs : ReadRow(p, l, t)
    \/ AttachCreated(p)

PostDies(p) ==
    /\ post[p] # NoPost
    /\ creationCrashes < MaxCreationCrashes
    /\ creationCrashes' = creationCrashes + 1
    /\ Goes(p, NoPost)
    /\ UNCHANGED <<registeredTo, prep, job, createTx>>

CreationNext ==
    \/ \E t \in CreateTxs : SendCreate(t) \/ MineCreate(t)
    \/ \E side \in Sides, w \in Controllers : TransferAgent(side, w)
    \/ \E q \in Preparations, h \in HireRequests : Prepare(q, h)
    \/ \E l \in Rows, t \in CreateTxs : CreateLocal(l, TxNames[t])
    \/ \E p \in Posts : HireRoute(p) \/ CreatedRoute(p) \/ PostDies(p)

CreationSpec == CreationInit /\ [][CreationNext]_creationVars

-----------------------------------------------------------------------------
(***************************************************************************)
(* Properties.                                                             *)
(***************************************************************************)

(* The atomic claim of web-hire/created: however often a buyer confirms a  *)
(* preparation, it becomes at most one local job, and a preparation that   *)
(* is created has one, attached to the job on chain it names unless a      *)
(* confirmation of the row itself has moved it since.                      *)
PreparationBecomesOneJob ==
    \A q \in Preparations :
        LET made == {l \in Rows : job[l].prep = q} IN
        /\ Cardinality(made) <= 1
        /\ prep[q].status = "created" => \E l \in made : job[l].tx # NoCreateTx

(* "resolves agentId -> controller from erc8004_agents DB (never trusts    *)
(* body)": the job on chain a row is attached to names the row's           *)
(* participants, and those of a hire are wallets its agents have belonged  *)
(* to, whatever the request asserted and whoever they belong to now.       *)
HiresNameTheRegistered ==
    \A l \in Rows :
        /\ job[l].tx # NoCreateTx => TxNames[job[l].tx] = job[l].names
        /\ job[l].prep # NoPreparation =>
               \A side \in Sides :
                   \/ job[l].names[side] \in {FirstController[side], registeredTo[side]}
                   \/ side = "evaluator" /\ job[l].names[side] = job[l].names["buyer"]

(* "Prevent re-attaching if already confirmed" (the created route): a row  *)
(* that has a job on chain keeps that job.                                 *)
ChainJobIsFinal ==
    [][\A l \in Rows : job[l].tx # NoCreateTx => job'[l].tx = job[l].tx]_creationVars
=============================================================================
