------------------------- MODULE GatewayRefinement --------------------------
(***************************************************************************)
(* A journal that one gateway process uses at a time implements WriteLocks:*)
(* a write is active from the moment its row is created until it is        *)
(* settled.                                                                *)
(***************************************************************************)
EXTENDS ExecutionGateway

\* Wallet addresses and job ids are never taken for each other.
ASSUME DisjointResources == Wallets \cap Jobs = {}

Resources == Wallets \cup Jobs

Footprint(r) ==
    IF r = NoRequest THEN {}
    ELSE ({WalletOf[r]} \cap Wallets) \cup ({JobOf[r]} \cap Jobs)

Needs        == [o \in Ops |-> Footprint(reqOf[o])]
ActiveWrites == {o \in Ops : row[o] \in Active}
Owner        == [x \in Resources |-> IF x \in Wallets THEN walletLock[x] ELSE jobLock[x]]

Locks == INSTANCE WriteLocks WITH
    Writes  <- Ops,
    NoWrite <- NoOp,
    needs   <- Needs,
    active  <- ActiveWrites,
    owner   <- Owner

\* Locks are taken all at once when all are free, held until the write is
\* settled and never stolen, across crashes and recoveries.
ImplementsWriteLocks == Locks!Spec
=============================================================================
