----------------------------- MODULE MCAccounts ------------------------------
(* One person of each kind in turn, two requests at once, two approvals.    *)
EXTENDS Accounts, TLC

CONSTANTS r1, r2, v1, v2

Requests == Permutations(Request)
=============================================================================
