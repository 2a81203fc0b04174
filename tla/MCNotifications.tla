-------------------------- MODULE MCNotifications ---------------------------
(* One delivery, two workers, two calls at once and two administrators.    *)
EXTENDS Notifications, TLC

CONSTANTS d1, w1, w2, c1, c2, a1, a2
=============================================================================
