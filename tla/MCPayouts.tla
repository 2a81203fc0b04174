----------------------------- MODULE MCPayouts -----------------------------
(* One order of one of two farmers, paid out up to twice by two approvals  *)
(* and refunded with its checkout beside them.  Its farmer sets his first  *)
(* account and a second one; the other has all of his.                     *)
EXTENDS Payouts, TLC

CONSTANTS o1, c1, a1, a2

TheFarmer == o1 :> 1
TheCheckout == o1 :> c1
TheAccounts == <<0, MaxAccounts>>
============================================================================
