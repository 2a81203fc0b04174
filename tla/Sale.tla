-------------------------------- MODULE Sale --------------------------------
(***************************************************************************)
(* What settling a checkout promises, with nothing said of locks, attempts *)
(* replaced, webhooks or sweeps.  A checkout is open, then sold or         *)
(* released, once.  Selling takes one charge and keeps it; any other money *)
(* that arrives is returned.  The goods of an open checkout are held, those*)
(* of a sold one are owed until they ship or are given back, those of a    *)
(* released one are given back, all together.                              *)
(***************************************************************************)
CONSTANTS Checkout, Order, Payment, CheckoutOf, AttemptOf

VARIABLES
  sale,    \* per checkout: "none", "open", "sold", "released"
  goods,   \* per order: "none", "held", "owed", "gone", "back"
  money    \* per attempt: "none", "kept", "returned"

saleVars == <<sale, goods, money>>

Init ==
  /\ sale = [c \in Checkout |-> "none"]
  /\ goods = [o \in Order |-> "none"]
  /\ money = [p \in Payment |-> "none"]

(* The goods of c, all in one state, move to another together.             *)
MoveGoods(c, from, to) ==
  /\ \A o \in Order : CheckoutOf[o] = c => goods[o] = from
  /\ goods' = [o \in Order |-> IF CheckoutOf[o] = c THEN to ELSE goods[o]]

Open(c) ==
  /\ sale[c] = "none"
  /\ sale' = [sale EXCEPT ![c] = "open"]
  /\ MoveGoods(c, "none", "held")
  /\ UNCHANGED money

Sell(p) ==
  LET c == AttemptOf[p] IN
  /\ sale[c] = "open"
  /\ sale' = [sale EXCEPT ![c] = "sold"]
  /\ MoveGoods(c, "held", "owed")
  /\ money[p] = "none"
  /\ money' = [money EXCEPT ![p] = "kept"]

Release(c) ==
  /\ sale[c] = "open"
  /\ sale' = [sale EXCEPT ![c] = "released"]
  /\ MoveGoods(c, "held", "back")
  /\ UNCHANGED money

Return(p) ==
  /\ money[p] = "none"
  /\ money' = [money EXCEPT ![p] = "returned"]
  /\ UNCHANGED <<sale, goods>>

Deliver(o) ==
  /\ goods[o] = "owed"
  /\ \E to \in {"gone", "back"} : goods' = [goods EXCEPT ![o] = to]
  /\ UNCHANGED <<sale, money>>

Next ==
  \/ \E c \in Checkout : Open(c) \/ Release(c)
  \/ \E p \in Payment : Sell(p) \/ Return(p)
  \/ \E o \in Order : Deliver(o)

Spec == Init /\ [][Next]_saleVars
=============================================================================
