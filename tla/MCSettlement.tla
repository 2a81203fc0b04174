---------------------------- MODULE MCSettlement ----------------------------
(* One checkout with a line on each of two listings and two attempts to    *)
(* pay it.                                                                 *)
EXTENDS Settlement, TLC

CONSTANTS c1, o1, o2, p1, p2, g1, g2

TheCheckoutOf == (o1 :> c1) @@ (o2 :> c1)
TheProduceOf == (o1 :> g1) @@ (o2 :> g2)
TheQty == (o1 :> 1) @@ (o2 :> 2)
TheAttemptOf == (p1 :> c1) @@ (p2 :> c1)
TheStock == (g1 :> 1) @@ (g2 :> 3)
=============================================================================
