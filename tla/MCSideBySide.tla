----------------------------- MODULE MCSideBySide -----------------------------
(* One exploration of six components:                                          *)
(*   shelf     two orders, of one and of two units, for a listing of at most   *)
(*             three, and one farmer editing it                                *)
(*   evidence  one agent, one paper of the round, one check, one round more    *)
(*   preparing two items to tick, two requests                                 *)
(*   lists     three rows with three keys, two changes during a reading        *)
(*   reports   two rows, two changes while a page is loaded and loaded again   *)
(*   profiles  two requests, two states of one LGA each, two company fields,   *)
(*             an address book of at most two                                  *)
EXTENDS SideBySide, TLC

CONSTANTS o1, o2, e1

SmallQty == (o1 :> 1) @@ (o2 :> 2)

SmallStateOf == ("ikeja" :> "lagos") @@ ("kosofe" :> "oyo")
=============================================================================
