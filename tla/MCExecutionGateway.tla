------------------------- MODULE MCExecutionGateway -------------------------
(***************************************************************************)
(* Constants for the TLC runs of ExecutionGateway.                         *)
(***************************************************************************)
EXTENDS GatewayRefinement, TLC

CONSTANTS k1, k2, k3, w1, w2, j1, r1, r2, r3, r4

\* r1 and r2 are one idempotency key with different parameters; r1 and r3
\* share a wallet; r2, r3 and r4 share a job; r4 has no wallet.
MCKeyOf    == (r1 :> k1) @@ (r2 :> k1) @@ (r3 :> k2) @@ (r4 :> k3)
MCWalletOf == (r1 :> w1) @@ (r2 :> w2) @@ (r3 :> w1) @@ (r4 :> NoWallet)
MCJobOf    == (r1 :> NoJob) @@ (r2 :> j1) @@ (r3 :> j1) @@ (r4 :> j1)

\* Two requests, one wallet, one job each.
TwoKeyOf    == (r1 :> k1) @@ (r3 :> k2)
TwoWalletOf == (r1 :> w1) @@ (r3 :> w1)
TwoJobOf    == (r1 :> NoJob) @@ (r3 :> j1)

OpsSymmetry == Permutations(Ops)
=============================================================================
