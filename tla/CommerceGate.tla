---------------------------- MODULE CommerceGate ----------------------------
(***************************************************************************)
(* The paid gates of the Console: lib/x402/agent-commerce-gate.ts (a buyer *)
(* agent pays a seller agent) and circle-agent-gate.ts, over the bridge    *)
(* store (lib/agent-bridge/store.ts), the service gates and profiles that  *)
(* price them (lib/a2a/service-gates.ts, commerce-profile.ts) and withX402 *)
(* (lib/x402/middleware.ts) with its rail sessions.                        *)
(*                                                                         *)
(* One buyer buys payloads of one seller in one bridge session.  A payment *)
(* is a signed proof; an access session belongs to a payer and to the      *)
(* bridge session, not to the payload.  PaidJobs has the same middleware   *)
(* around another handler; here the receipts that unlock a payload a       *)
(* second time are what matters.                                           *)
(***************************************************************************)
EXTENDS Naturals, FiniteSets

CONSTANTS
    Payloads, Purses, PaymentOf,   \* PaymentOf: the payer of each proof
    Proofs402, Buys,               \* proofs, requests under way
    Prices, Keyed,                 \* does the buyer name a gate key?
    NoPayload, NoProof402,
    MaxSaves,                      \* changes of a gate or profile
    MaxGateTroubles

ASSUME CommerceGateAssumption ==
    /\ PaymentOf \in [Proofs402 -> Purses] /\ Keyed \in BOOLEAN
    /\ NoPayload \notin Payloads /\ NoProof402 \notin Proofs402 /\ IsFiniteSet(Buys)
    /\ 0 \notin Prices /\ MaxSaves \in Nat /\ MaxGateTroubles \in Nat

VARIABLES
    gate,       \* the price of the active service gate for the market, and for "*"; 0: none
    profile,    \* the price of the seller's active commerce profile; 0: none
    saves,
    opened,     \* has the buyer posted an event of the category to the bridge session?
    quoted,     \* the price each proof was signed for; 0: unsigned
    railed,     \* the rail session a proof carries
    gateRow,    \* x402_gateway_payments
    taken,      \* proofs Circle has settled
    access,     \* active access sessions by payer
    receipts,   \* agent_bridge_receipts: [payload, proof]
    buy,        \* the requests
    unlocked,   \* [payload, proof] pairs whose handler ran
    answered,   \* answers "unlocked" without a warning: payloads
    gateTroubles

commerceVars == <<gate, profile, saves, opened, quoted, railed, gateRow, taken, access,
                  receipts, buy, unlocked, answered, gateTroubles>>

GateResting == [stage |-> "away", payload |-> NoPayload, proof |-> NoProof402, price |-> 0]

CommerceTypeOK ==
    /\ gate \in [{"exact", "any"} -> Prices \cup {0}] /\ profile \in Prices \cup {0}
    /\ saves \in 0 .. MaxSaves
    /\ opened \in BOOLEAN
    /\ quoted \in [Proofs402 -> Prices \cup {0}]
    /\ railed \in [Proofs402 -> {"none", "pending", "consumed", "lost"}]
    /\ gateRow \in [Proofs402 -> [status : {"none", "verified", "settled", "failed"},
                                  claimed : BOOLEAN, consumed : BOOLEAN]]
    /\ taken \subseteq Proofs402
    /\ access \in [Purses -> 0 .. Cardinality(Buys)]
    /\ receipts \subseteq [payload : Payloads, proof : Proofs402]
    /\ buy \in [Buys -> [stage : {"away", "receipt", "look", "insert", "claim", "settle", "record",
                                  "consume", "handle", "settled", "write"},
                         payload : Payloads \cup {NoPayload}, proof : Proofs402 \cup {NoProof402},
                         price : Prices \cup {0}]]
    /\ unlocked \subseteq [payload : Payloads, proof : Proofs402]
    /\ answered \subseteq Payloads
    /\ gateTroubles \in 0 .. MaxGateTroubles

CommerceInit ==
    /\ gate = [market \in {"exact", "any"} |-> 0] /\ profile = 0 /\ saves = 0 /\ opened = FALSE
    /\ quoted = [p \in Proofs402 |-> 0] /\ railed = [p \in Proofs402 |-> "none"]
    /\ gateRow = [p \in Proofs402 |-> [status |-> "none", claimed |-> FALSE, consumed |-> FALSE]]
    /\ taken = {} /\ access = [w \in Purses |-> 0] /\ receipts = {}
    /\ buy = [b \in Buys |-> GateResting]
    /\ unlocked = {} /\ answered = {} /\ gateTroubles = 0

At402(b, stage)   == buy[b].stage = stage
Proceeds(b, stage) == buy' = [buy EXCEPT ![b].stage = stage]
Departs(b)        == buy' = [buy EXCEPT ![b] = GateResting]
Trouble           == gateTroubles < MaxGateTroubles /\ gateTroubles' = gateTroubles + 1

OfTheSeller == <<gate, profile, saves, opened>>
OfThePayment == <<quoted, railed, gateRow, taken, access>>
OfTheGoods   == <<receipts, unlocked, answered>>

-----------------------------------------------------------------------------
(***************************************************************************)
(* The seller and the bridge session.                                      *)
(***************************************************************************)
Saves == saves < MaxSaves /\ saves' = saves + 1

\* upsertServiceGate: the active row of the identity is rewritten, or one
\* is inserted; an insert that meets the unique index finds that row.
\* isActive FALSE leaves no active row.
SaveServiceGate(market, price) ==
    /\ gate[market] # price /\ Saves
    /\ gate' = [gate EXCEPT ![market] = price]
    /\ UNCHANGED <<profile, opened, OfThePayment, OfTheGoods, buy, gateTroubles>>

SaveCommerceProfile(price) ==
    /\ profile # price /\ Saves
    /\ profile' = price
    /\ UNCHANGED <<gate, opened, OfThePayment, OfTheGoods, buy, gateTroubles>>

PostBridgeEvent ==
    /\ ~opened
    /\ opened' = TRUE
    /\ UNCHANGED <<gate, profile, saves, OfThePayment, OfTheGoods, buy, gateTroubles>>

\* Without a gate: the profile, unless the buyer named a gate; 0: refused.
FallbackPrice == IF Keyed THEN 0 ELSE profile

\* getActiveServiceGate: the market itself before "*".
ActiveGate == IF gate["exact"] # 0 THEN gate["exact"] ELSE gate["any"]

ServedPrice == IF ActiveGate # 0 THEN ActiveGate ELSE FallbackPrice

\* The buyer is the owner of the key and has posted to the session.
Admitted == opened

-----------------------------------------------------------------------------
(***************************************************************************)
(* A request, await by await.  The first reads (the key, the session, the  *)
(* policies, the gate) are one step: nothing below depends on their order. *)
(* What they refuse changes nothing.                                       *)
(***************************************************************************)
BeginBuy(b, k, p) ==
    /\ At402(b, "away") /\ Admitted
    /\ ServedPrice # 0
    /\ buy' = [buy EXCEPT ![b] = [stage |-> "receipt", payload |-> k, proof |-> p,
                                  price |-> ServedPrice]]
    /\ UNCHANGED <<OfTheSeller, OfThePayment, OfTheGoods, gateTroubles>>

ReceiptsOf(k) == {x \in receipts : x.payload = k}

\* maybeSingle: more than one row is an error, and an error is no receipt.
ReceiptFound(k) == Cardinality(ReceiptsOf(k)) = 1

\* A receipt is answered "already_unlocked" before any payment is looked at.
AlreadyUnlocked(b) ==
    /\ At402(b, "receipt")
    /\ ReceiptFound(buy[b].payload)
    /\ Departs(b)
    /\ UNCHANGED <<OfTheSeller, OfThePayment, OfTheGoods, gateTroubles>>

NotUnlocked(k) == ~ReceiptFound(k) /\ UNCHANGED gateTroubles

\* 402: the buyer signs a proof for the price, with or without a rail session.
Quote(b, p) ==
    LET q == buy[b] IN
    /\ At402(b, "receipt") /\ q.proof = NoProof402
    /\ NotUnlocked(q.payload) \/ Trouble
    /\ quoted[p] = 0
    /\ quoted' = [quoted EXCEPT ![p] = q.price]
    /\ \E rail \in {"none", "pending"} : railed' = [railed EXCEPT ![p] = rail]
    /\ Departs(b)
    /\ UNCHANGED <<OfTheSeller, gateRow, taken, access, OfTheGoods>>

\* validateRailSession, then Circle verifies the proof against the price now asked.
ProofAccepted(p, price) == railed[p] \in {"none", "pending"} /\ quoted[p] = price

VerifyProof(b) ==
    LET q == buy[b] IN
    /\ At402(b, "receipt") /\ q.proof # NoProof402
    /\ NotUnlocked(q.payload) \/ Trouble
    /\ IF ProofAccepted(q.proof, q.price) THEN Proceeds(b, "look") ELSE Departs(b)
    /\ UNCHANGED <<OfTheSeller, OfThePayment, OfTheGoods>>

\* The memory of the server is lost with its rail sessions; no request is under way.
ServerRestarts ==
    /\ \A b \in Buys : At402(b, "away")
    /\ \E p \in Proofs402 : railed[p] \in {"pending", "consumed"}
    /\ railed' = [p \in Proofs402 |-> IF railed[p] = "none" THEN "none" ELSE "lost"]
    /\ Trouble
    /\ UNCHANGED <<OfTheSeller, quoted, gateRow, taken, access, OfTheGoods, buy>>

Payer402(b) == PaymentOf[buy[b].proof]

LookForAccess(b) ==
    /\ At402(b, "look")
    /\ IF access[Payer402(b)] = 0 THEN Proceeds(b, "insert") ELSE Departs(b)
    /\ UNCHANGED <<OfTheSeller, OfThePayment, OfTheGoods, gateTroubles>>

InsertAccess(b) ==
    /\ At402(b, "insert")
    /\ access' = [access EXCEPT ![Payer402(b)] = @ + 1]
    /\ Proceeds(b, "claim")
    /\ UNCHANGED <<OfTheSeller, quoted, railed, gateRow, taken, OfTheGoods, gateTroubles>>

AccessExpires(w) ==
    /\ access[w] > 0
    /\ \A b \in Buys : At402(b, "away")
    /\ access' = [access EXCEPT ![w] = 0]
    /\ UNCHANGED <<OfTheSeller, quoted, railed, gateRow, taken, OfTheGoods, buy, gateTroubles>>

GivesUp(b) == access' = [access EXCEPT ![Payer402(b)] = 0] /\ Departs(b)

ProofClaimable(p) ==
    /\ gateRow[p].status \in {"none", "verified", "failed"} /\ ~gateRow[p].consumed
    /\ gateRow[p].claimed => gateRow[p].status = "failed"

ClaimProof(b) ==
    LET p == buy[b].proof IN
    /\ At402(b, "claim")
    /\ IF ProofClaimable(p)
       THEN /\ gateRow' = [gateRow EXCEPT ![p] = [@ EXCEPT !.status = "verified", !.claimed = TRUE]]
            /\ Proceeds(b, "settle") /\ UNCHANGED access
       ELSE GivesUp(b) /\ UNCHANGED gateRow
    /\ UNCHANGED <<OfTheSeller, quoted, railed, taken, OfTheGoods, gateTroubles>>

\* Mutant: the answer of settle() is not looked at.
SettleAnswers(b, success) == Proceeds(b, "record") /\ UNCHANGED <<gateRow, access>>

AfterSettle(b, success) ==
    IF success
    THEN Proceeds(b, "record") /\ UNCHANGED <<gateRow, access>>
    ELSE /\ gateRow' = [gateRow EXCEPT ![buy[b].proof].status = "failed"]
         /\ GivesUp(b)

\* settle() succeeds, is refused, or throws after Circle took the payment.
SettleProof(b) ==
    /\ At402(b, "settle")
    /\ \E success \in BOOLEAN, took \in BOOLEAN :
          /\ success => took
          /\ taken' = IF took THEN taken \cup {buy[b].proof} ELSE taken
          /\ AfterSettle(b, success)
          /\ IF took /\ ~success THEN Trouble ELSE UNCHANGED gateTroubles
    /\ UNCHANGED <<OfTheSeller, quoted, railed, OfTheGoods>>

\* The upsert of recordGatewayPayment may fail; its error is swallowed.
RecordProof(b) ==
    /\ At402(b, "record")
    /\ \/ gateRow' = [gateRow EXCEPT ![buy[b].proof].status = "settled"] /\ UNCHANGED gateTroubles
       \/ Trouble /\ UNCHANGED gateRow
    /\ Proceeds(b, "consume")
    /\ UNCHANGED <<OfTheSeller, quoted, railed, taken, access, OfTheGoods>>

\* x402_gateway_consume_payment, the rail session, the access session.
ConsumeProof(b) ==
    LET p == buy[b].proof IN
    /\ At402(b, "consume")
    /\ IF gateRow[p].consumed
       THEN GivesUp(b) /\ UNCHANGED <<gateRow, railed>>
       ELSE /\ gateRow' = [gateRow EXCEPT ![p].consumed = TRUE]
            /\ railed' = [railed EXCEPT ![p] = IF @ = "pending" THEN "consumed" ELSE @]
            /\ Proceeds(b, "handle") /\ UNCHANGED access
    /\ UNCHANGED <<OfTheSeller, quoted, taken, OfTheGoods, gateTroubles>>

HandleBuy(b) ==
    /\ At402(b, "handle")
    /\ unlocked' = unlocked \cup {[payload |-> buy[b].payload, proof |-> buy[b].proof]}
    /\ Proceeds(b, "settled")
    /\ UNCHANGED <<OfTheSeller, OfThePayment, receipts, answered, gateTroubles>>

-----------------------------------------------------------------------------
(***************************************************************************)
(* onSettled: look for a receipt, write one.  Its failure is a header on   *)
(* the answer, "warn" mode.                                                *)
(***************************************************************************)
Answers402(b) == Departs(b) /\ answered' = answered \cup {buy[b].payload}

LookForDuplicate(b) ==
    /\ At402(b, "settled")
    /\ \/ /\ ReceiptFound(buy[b].payload)
          /\ Answers402(b) /\ UNCHANGED gateTroubles
       \/ /\ ~ReceiptFound(buy[b].payload)
          /\ Proceeds(b, "write") /\ UNCHANGED <<answered, gateTroubles>>
       \/ /\ Trouble
          /\ Proceeds(b, "write") /\ UNCHANGED answered
    /\ UNCHANGED <<OfTheSeller, OfThePayment, receipts, unlocked>>

WriteReceipt(b) ==
    /\ At402(b, "write")
    /\ receipts' = receipts \cup {[payload |-> buy[b].payload, proof |-> buy[b].proof]}
    /\ Answers402(b)
    /\ UNCHANGED <<OfTheSeller, OfThePayment, unlocked, gateTroubles>>

\* Mutant: a receipt that could not be written is not reported.
FailsSilently(b) == Answers402(b)

\* The insert fails: the answer carries X-ArcLayer-Receipt-Warning.
WarnsOfReceipt(b) == Departs(b) /\ UNCHANGED answered

GateReceiptFails(b) ==
    /\ At402(b, "write")
    /\ Trouble
    /\ WarnsOfReceipt(b)
    /\ UNCHANGED <<OfTheSeller, OfThePayment, receipts, unlocked>>

\* The request is gone: the client hung up, or its function was stopped.
BuyDies(b) ==
    /\ ~At402(b, "away")
    /\ Trouble
    /\ Departs(b)
    /\ UNCHANGED <<OfTheSeller, OfThePayment, OfTheGoods>>

CommerceNext ==
    \/ \E market \in {"exact", "any"}, price \in Prices \cup {0} : SaveServiceGate(market, price)
    \/ \E price \in Prices \cup {0} : SaveCommerceProfile(price)
    \/ PostBridgeEvent \/ ServerRestarts
    \/ \E w \in Purses : AccessExpires(w)
    \/ \E b \in Buys :
         \/ \E k \in Payloads, p \in {q \in Proofs402 : quoted[q] # 0} \cup {NoProof402} : BeginBuy(b, k, p)
         \/ \E p \in Proofs402 : Quote(b, p)
         \/ AlreadyUnlocked(b) \/ VerifyProof(b) \/ LookForAccess(b) \/ InsertAccess(b)
         \/ ClaimProof(b) \/ SettleProof(b) \/ RecordProof(b) \/ ConsumeProof(b) \/ HandleBuy(b)
         \/ LookForDuplicate(b) \/ WriteReceipt(b) \/ GateReceiptFails(b) \/ BuyDies(b)

CommerceSpec == CommerceInit /\ [][CommerceNext]_commerceVars

-----------------------------------------------------------------------------
(***************************************************************************)
(* Properties.                                                             *)
(***************************************************************************)

(* What a receipt unlocks has been paid for: its proof was settled by      *)
(* Circle and is used up, and it was this payload that it unlocked.        *)
ReceiptIsPaid ==
    \A x \in receipts : x.proof \in taken /\ gateRow[x.proof].consumed /\ x \in unlocked

(* "Settlement is final; receipt recording failure is operational"         *)
(* (handleGateway): a buyer who is not warned finds the payload on record. *)
AnsweredIsReceipted ==
    \A k \in answered : ReceiptsOf(k) # {}

(* The receipts are there so that a payload is not sold twice.             *)
PayloadIsSoldOnce ==
    \A k \in Payloads : Cardinality({x \in unlocked : x.payload = k}) <= 1
=============================================================================
