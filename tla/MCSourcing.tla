----------------------------- MODULE MCSourcing -----------------------------
(* A request with two checkouts to come: the first has two orders, the     *)
(* second one.                                                             *)
EXTENDS Sourcing, TLC

CONSTANTS c1, c2, o1, o2, o3, a1, a2

TwoAndOne == (o1 :> c1) @@ (o2 :> c1) @@ (o3 :> c2)
=============================================================================
