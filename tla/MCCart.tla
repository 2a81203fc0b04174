------------------------------- MODULE MCCart -------------------------------
(* Two buyers of two listings, one unit of each; a device's cart holds one  *)
(* unit of each, the second listing first.                                  *)
EXTENDS Cart, TLC

CONSTANTS b1, b2, s1, s2, k1

DeviceCart == k1 :> <<<<2, 1>>, <<1, 1>>>>
(* No step and no property reads what a checkout cost once it is placed, or *)
(* its lines once it is decided: two states that differ there are one.      *)
LiveCheckouts ==
  [b \in Buyer |-> [k \in Key |->
     IF checkout[b][k].status = "AWAITING_PAYMENT"
     THEN <<checkout[b][k].status, checkout[b][k].lines>>
     ELSE <<checkout[b][k].status>>]]
Seen == <<cart, merged, LiveCheckouts, listing, tx, merging, kept>>

Sessions == Permutations({s1, s2}) \cup Permutations({b1, b2})
=============================================================================
