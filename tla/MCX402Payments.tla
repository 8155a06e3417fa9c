--------------------------- MODULE MCX402Payments ---------------------------
(***************************************************************************)
(* X402Payments on small instances: three calls, of which one or all carry *)
(* the first key.                                                          *)
(***************************************************************************)
EXTENDS X402Payments, TLC

CONSTANTS c1, c2, c3, k1, k2

OneKey == (c1 :> k1) @@ (c2 :> k1) @@ (c3 :> k1)
TwoKeys == (c1 :> k1) @@ (c2 :> k1) @@ (c3 :> k2)
Equal == [c \in Calls |-> 1]
=============================================================================
