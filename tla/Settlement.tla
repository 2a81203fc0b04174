----------------------------- MODULE Settlement -----------------------------
(***************************************************************************)
(* How a checkout is settled: stock is reserved, the buyer is charged at   *)
(* Paystack, and the checkout is paid, cancelled or expired, whichever     *)
(* comes first.                                                            *)
(*                                                                         *)
(* One action stands for one database transaction.  Every transaction      *)
(* below that reads a checkout before changing it holds the advisory lock  *)
(* checkout:{id} (lockCheckout), every change of an order's status is      *)
(* guarded on the status that was read, and every change of stock is one   *)
(* UPDATE statement, so a transaction takes effect at one instant.  What   *)
(* the code does before the lock or after the commit (calling Paystack,    *)
(* scanning for overdue checkouts) is a step of its own, and what it       *)
(* learnt there is kept in opening, verified and sweep until it is used.   *)
(*                                                                         *)
(* A listing's status column (PUBLISHED, SOLD_OUT, ...) is the subject of  *)
(* the module Shelf.  Here a listing is always on sale, so checkouts       *)
(* compete for its stock alone.                                            *)
(***************************************************************************)
EXTENDS Integers, FiniteSetsExt

CONSTANTS
  Checkout,     \* checkouts that may be placed
  Order,        \* their orders, one per cart line
  Payment,      \* payment attempts, each with its own Paystack reference
  Produce,      \* listings
  CheckoutOf,   \* the checkout an order belongs to
  ProduceOf,    \* the listing an order is for
  Qty,          \* the quantity ordered
  AttemptOf,    \* the checkout an attempt is made on
  Stock,        \* what the farmer has put on each listing
  MaxVerified   \* bound: Paystack answers on their way to being applied

ASSUME IdsAssumption ==
  /\ CheckoutOf \in [Order -> Checkout]
  /\ ProduceOf \in [Order -> Produce]
  /\ AttemptOf \in [Payment -> Checkout]
  /\ Qty \in [Order -> Nat \ {0}]
  /\ Stock \in [Produce -> Nat]
  /\ MaxVerified \in Nat

(* CartItem is unique on (buyerId, produceId): a checkout has at most one  *)
(* order per listing.                                                      *)
ASSUME OneLinePerProduce ==
  \A o1, o2 \in Order :
    CheckoutOf[o1] = CheckoutOf[o2] /\ ProduceOf[o1] = ProduceOf[o2] => o1 = o2

VARIABLES
  checkout,   \* Checkout.status; "NONE" before it is placed
  overdue,    \* whether expiresAt has passed
  order,      \* Order.status
  floating,   \* Produce.floatingQuantity
  actual,     \* Produce.actualQuantity
  payment,    \* Payment.status
  refunded,   \* attempts whose money was sent back by createAutomatic
  charge,     \* Paystack: what happened to the transaction of an attempt
  opening,    \* server memory: attempts with an openCheckout call under way
  verified,   \* server memory: charges read from Paystack, not applied yet
  sweep       \* server memory: checkouts the expiry scan found overdue

stockVars == <<floating, actual>>
moneyVars == <<payment, refunded>>
outsideVars == <<charge, opening, verified>>
vars == <<checkout, overdue, order, floating, actual, payment, refunded,
          charge, opening, verified, sweep>>

CheckoutStatus == {"AWAITING_PAYMENT", "PAID", "CANCELLED", "EXPIRED"}
Ended == {"CANCELLED", "EXPIRED"}
OrderStatus == {"AWAITING_PAYMENT", "PENDING", "CONFIRMED", "PREPARING",
                "READY", "SHIPPED", "CANCELLED"}
PaymentStatus == {"PENDING", "ABANDONED", "FAILED", "SUCCEEDED", "ORPHANED"}

(* Broken on purpose, for the run's mutants: money for a replaced or       *)
(* failed attempt is ignored.                                              *)
OnlyPending == {"PENDING"}

(* The attempts a successful charge may still settle: also one the buyer   *)
(* has replaced, or one whose openCheckout call seemed to fail.            *)
Applicable == {"PENDING", "ABANDONED", "FAILED"}

(* "mismatch" is a successful charge of another amount or currency.        *)
Verdict == {"open", "failed", "success", "mismatch"}
Charged == {"success", "mismatch"}

TypeOK ==
  /\ checkout \in [Checkout -> CheckoutStatus \cup {"NONE"}]
  /\ overdue \in [Checkout -> BOOLEAN]
  /\ order \in [Order -> OrderStatus \cup {"NONE"}]
  /\ floating \in [Produce -> Int]
  /\ actual \in [Produce -> Int]
  /\ payment \in [Payment -> PaymentStatus \cup {"NONE"}]
  /\ refunded \subseteq Payment
  /\ charge \in [Payment -> Verdict \cup {"NONE"}]
  /\ opening \subseteq Payment
  /\ verified \subseteq Payment \X Verdict
  /\ sweep \subseteq Checkout

Init ==
  /\ checkout = [c \in Checkout |-> "NONE"]
  /\ overdue = [c \in Checkout |-> FALSE]
  /\ order = [o \in Order |-> "NONE"]
  /\ floating = Stock
  /\ actual = Stock
  /\ payment = [p \in Payment |-> "NONE"]
  /\ refunded = {}
  /\ charge = [p \in Payment |-> "NONE"]
  /\ opening = {}
  /\ verified = {}
  /\ sweep = {}

-----------------------------------------------------------------------------
(* Placing and releasing                                                   *)

OrdersOf(c) == {o \in Order : CheckoutOf[o] = c}

(* What the orders S of one checkout take from listing g.                  *)
LineOf(S, g) ==
  IF \E o \in S : ProduceOf[o] = g
  THEN Qty[CHOOSE o \in S : ProduceOf[o] = g]
  ELSE 0

(* placeOrders, and buyNow for a single line: reserve every line or none.  *)
Place(c) ==
  /\ checkout[c] = "NONE"
  /\ OrdersOf(c) # {}
  /\ \A o \in OrdersOf(c) : floating[ProduceOf[o]] >= Qty[o]
  /\ floating' = [g \in Produce |-> floating[g] - LineOf(OrdersOf(c), g)]
  /\ checkout' = [checkout EXCEPT ![c] = "AWAITING_PAYMENT"]
  /\ order' = [o \in Order |-> IF CheckoutOf[o] = c THEN "AWAITING_PAYMENT"
                                                    ELSE order[o]]
  /\ UNCHANGED <<overdue, actual, moneyVars, outsideVars, sweep>>

(* Broken on purpose: the orders stay behind.                              *)
ReleaseStockOnly(c, outcome) ==
  /\ floating' = [g \in Produce |-> floating[g] + LineOf(OrdersOf(c), g)]
  /\ payment' = [p \in Payment |->
                   IF AttemptOf[p] = c /\ payment[p] = "PENDING"
                   THEN "ABANDONED" ELSE payment[p]]
  /\ checkout' = [checkout EXCEPT ![c] = outcome]
  /\ UNCHANGED order

(* releaseCheckout.  It trusts its caller to have checked the status.      *)
Release(c, outcome) ==
  LET unpaid == {o \in OrdersOf(c) : order[o] = "AWAITING_PAYMENT"} IN
  /\ floating' = [g \in Produce |-> floating[g] + LineOf(unpaid, g)]
  /\ order' = [o \in Order |-> IF o \in unpaid THEN "CANCELLED" ELSE order[o]]
  /\ payment' = [p \in Payment |->
                   IF AttemptOf[p] = c /\ payment[p] = "PENDING"
                   THEN "ABANDONED" ELSE payment[p]]
  /\ checkout' = [checkout EXCEPT ![c] = outcome]

(* CheckoutService.cancel: the buyer gives up an unpaid checkout.          *)
Cancel(c) ==
  /\ checkout[c] = "AWAITING_PAYMENT"
  /\ Release(c, "CANCELLED")
  /\ UNCHANGED <<overdue, actual, refunded, outsideVars, sweep>>

(* The hold of holdMinutes runs out.                                       *)
HoldRunsOut(c) ==
  /\ checkout[c] = "AWAITING_PAYMENT"
  /\ ~overdue[c]
  /\ overdue' = [overdue EXCEPT ![c] = TRUE]
  /\ UNCHANGED <<checkout, order, stockVars, moneyVars, outsideVars, sweep>>

(* expireOverdue scans without a lock ...                                  *)
Scan ==
  /\ sweep = {}
  /\ sweep' = {c \in Checkout : checkout[c] = "AWAITING_PAYMENT" /\ overdue[c]}
  /\ sweep' # {}
  /\ UNCHANGED <<checkout, overdue, order, stockVars, moneyVars, outsideVars>>

(* Broken on purpose: spares a checkout with an attempt the buyer may yet  *)
(* finish.                                                                 *)
ExpireUnlessTried(c) ==
  /\ c \in sweep
  /\ sweep' = sweep \ {c}
  /\ checkout[c] = "AWAITING_PAYMENT"
  /\ overdue[c]
  /\ \A p \in Payment : AttemptOf[p] = c => payment[p] # "PENDING"
  /\ Release(c, "EXPIRED")
  /\ UNCHANGED <<overdue, actual, refunded, outsideVars>>

(* ... and expire reads each one again under its lock: it may have been    *)
(* paid or cancelled since.                                                *)
Expire(c) ==
  /\ c \in sweep
  /\ sweep' = sweep \ {c}
  /\ checkout[c] = "AWAITING_PAYMENT"
  /\ overdue[c]
  /\ Release(c, "EXPIRED")
  /\ UNCHANGED <<overdue, actual, refunded, outsideVars>>

ExpireSkip(c) ==
  /\ c \in sweep
  /\ sweep' = sweep \ {c}
  /\ ~ (checkout[c] = "AWAITING_PAYMENT" /\ overdue[c])
  /\ UNCHANGED <<checkout, overdue, order, stockVars, moneyVars, outsideVars>>

-----------------------------------------------------------------------------
(* Charging the buyer                                                      *)

(* initiate: the newest attempt replaces the pending ones.                 *)
Initiate(p) ==
  LET c == AttemptOf[p] IN
  /\ payment[p] = "NONE"
  /\ checkout[c] = "AWAITING_PAYMENT"
  /\ ~overdue[c]
  /\ payment' = [q \in Payment |->
                   IF q = p THEN "PENDING"
                   ELSE IF AttemptOf[q] = c /\ payment[q] = "PENDING"
                   THEN "ABANDONED" ELSE payment[q]]
  /\ opening' = opening \cup {p}
  /\ UNCHANGED <<checkout, overdue, order, stockVars, refunded, charge,
                 verified, sweep>>

(* openCheckout: initializeTransaction answered, its URL is stored.        *)
OpenAnswered(p) ==
  /\ p \in opening
  /\ charge[p] # "NONE"
  /\ opening' = opening \ {p}
  /\ UNCHANGED <<checkout, overdue, order, stockVars, moneyVars, charge,
                 verified, sweep>>

(* openCheckout: a refusal or a lost answer, which look the same here.     *)
OpenFailed(p) ==
  /\ p \in opening
  /\ opening' = opening \ {p}
  /\ payment' = [payment EXCEPT ![p] = IF @ = "PENDING" THEN "FAILED" ELSE @]
  /\ UNCHANGED <<checkout, overdue, order, stockVars, refunded, charge,
                 verified, sweep>>

(* Paystack takes an initialize request, perhaps after the server gave up  *)
(* waiting for the answer.                                                 *)
PaystackOpens(p) ==
  /\ payment[p] # "NONE"
  /\ charge[p] = "NONE"
  /\ charge' = [charge EXCEPT ![p] = "open"]
  /\ UNCHANGED <<checkout, overdue, order, stockVars, moneyVars, opening,
                 verified, sweep>>

(* The buyer pays on Paystack's page, at any time; a failed charge may be  *)
(* tried again there under the same reference.                             *)
PaystackCharges(p) ==
  /\ charge[p] \in {"open", "failed"}
  /\ \E v \in {"failed", "success", "mismatch"} :
       charge' = [charge EXCEPT ![p] = v]
  /\ UNCHANGED <<checkout, overdue, order, stockVars, moneyVars, opening,
                 verified, sweep>>

-----------------------------------------------------------------------------
(* Applying what Paystack says                                             *)

(* verifyTransaction, called for a charge.success event (delivered at      *)
(* least once, and retried) or by an admin's verify, at any time.          *)
Verify(p) ==
  /\ charge[p] # "NONE"
  /\ Cardinality(verified) < MaxVerified
  /\ verified' = verified \cup {<<p, charge[p]>>}
  /\ UNCHANGED <<checkout, overdue, order, stockVars, moneyVars, charge,
                 opening, sweep>>

Applying(p, verdict) ==
  /\ <<p, verdict>> \in verified
  /\ verified' = verified \ {<<p, verdict>>}
  /\ UNCHANGED <<overdue, actual, floating, charge, opening, sweep>>

(* Broken on purpose: one half of the check is missing.                    *)
OrphanByAmount(p, verdict) == verdict = "mismatch"

(* orphanReason *)
Orphan(p, verdict) ==
  verdict = "mismatch" \/ checkout[AttemptOf[p]] # "AWAITING_PAYMENT"

(* applyVerifiedCharge, one action per way through it: the attempt is      *)
(* settled already, or the charge is not a success and not a failure of a  *)
(* pending attempt.                                                        *)
ApplyNothing(p, verdict) ==
  /\ Applying(p, verdict)
  /\ \/ payment[p] \notin Applicable
     \/ verdict = "open"
     \/ verdict = "failed" /\ payment[p] # "PENDING"
  /\ UNCHANGED <<checkout, order, moneyVars>>

ApplyFailure(p) ==
  /\ Applying(p, "failed")
  /\ payment[p] = "PENDING"
  /\ payment' = [payment EXCEPT ![p] = "FAILED"]
  /\ UNCHANGED <<checkout, order, refunded>>

ApplyOrphan(p, verdict) ==
  /\ Applying(p, verdict)
  /\ payment[p] \in Applicable
  /\ verdict \in Charged
  /\ Orphan(p, verdict)
  /\ payment' = [payment EXCEPT ![p] = "ORPHANED"]
  /\ refunded' = refunded \cup {p}
  /\ UNCHANGED <<checkout, order>>

ApplySuccess(p, verdict) ==
  LET c == AttemptOf[p] IN
  /\ Applying(p, verdict)
  /\ payment[p] \in Applicable
  /\ verdict \in Charged
  /\ ~Orphan(p, verdict)
  /\ payment' = [payment EXCEPT ![p] = "SUCCEEDED"]
  /\ checkout' = [checkout EXCEPT ![c] = "PAID"]
  /\ order' = [o \in Order |->
                 IF CheckoutOf[o] = c /\ order[o] = "AWAITING_PAYMENT"
                 THEN "PENDING" ELSE order[o]]
  /\ UNCHANGED refunded

Apply(p) ==
  \/ ApplyFailure(p)
  \/ \E v \in Verdict :
       ApplyNothing(p, v) \/ ApplyOrphan(p, v) \/ ApplySuccess(p, v)

-----------------------------------------------------------------------------
(* Working on a paid order (OrderService, HandoverService)                 *)

(* UPDATE ... WHERE status = from: no step of another request fits in      *)
(* between.                                                                *)
Advance(o, from, to) ==
  /\ order[o] = from
  /\ order' = [order EXCEPT ![o] = to]
  /\ UNCHANGED <<checkout, overdue, moneyVars, outsideVars, sweep>>

Confirm(o) ==
  /\ Advance(o, "PENDING", "CONFIRMED")
  /\ actual' = [actual EXCEPT ![ProduceOf[o]] = @ - Qty[o]]
  /\ UNCHANGED floating

Prepare(o) == Advance(o, "CONFIRMED", "PREPARING") /\ UNCHANGED stockVars

MarkReady(o) == Advance(o, "PREPARING", "READY") /\ UNCHANGED stockVars

HandOver(o) == Advance(o, "READY", "SHIPPED") /\ UNCHANGED stockVars

(* Broken on purpose: a PENDING order gives back what it never took.       *)
UnpaidOnly == {"AWAITING_PAYMENT"}

(* The statuses that hold stock only on the floating side.                 *)
Uncommitted == {"AWAITING_PAYMENT", "PENDING"}

(* OrderService.cancel by the farmer; a buyer may from PENDING alone.      *)
CancelOrder(o) ==
  /\ order[o] \in {"PENDING", "CONFIRMED", "PREPARING"}
  /\ Advance(o, order[o], "CANCELLED")
  /\ floating' = [floating EXCEPT ![ProduceOf[o]] = @ + Qty[o]]
  /\ actual' = IF order[o] \in Uncommitted THEN actual
               ELSE [actual EXCEPT ![ProduceOf[o]] = @ + Qty[o]]

-----------------------------------------------------------------------------
(* The server dies, or a call gives up, between two transactions: what it  *)
(* held in memory is gone.                                                 *)
Crash ==
  /\ opening # {} \/ verified # {} \/ sweep # {}
  /\ opening' = {}
  /\ verified' = {}
  /\ sweep' = {}
  /\ UNCHANGED <<checkout, overdue, order, stockVars, moneyVars, charge>>

Next ==
  \/ \E c \in Checkout :
       Place(c) \/ Cancel(c) \/ HoldRunsOut(c) \/ Expire(c) \/ ExpireSkip(c)
  \/ Scan
  \/ \E p \in Payment :
       \/ Initiate(p) \/ OpenAnswered(p) \/ OpenFailed(p)
       \/ PaystackOpens(p) \/ PaystackCharges(p) \/ Verify(p)
       \/ Apply(p)
  \/ \E o \in Order :
       Confirm(o) \/ Prepare(o) \/ MarkReady(o) \/ HandOver(o) \/ CancelOrder(o)
  \/ Crash

Spec == Init /\ [][Next]_vars

-----------------------------------------------------------------------------
(* Safety                                                                  *)

AttemptsOf(c) == {p \in Payment : AttemptOf[p] = c}

(* A checkout is PAID exactly when one of its attempts SUCCEEDED, and no   *)
(* second one ever does: however many attempts the buyer opened, replaced  *)
(* or paid twice, applyVerifiedCharge keeps one charge.                    *)
PaidByOne ==
  \A c \in Checkout :
    /\ checkout[c] = "PAID" <=> \E p \in AttemptsOf(c) : payment[p] = "SUCCEEDED"
    /\ \A p, q \in AttemptsOf(c) :
         payment[p] = "SUCCEEDED" /\ payment[q] = "SUCCEEDED" => p = q

(* The orders of a checkout move with it: all wait while it waits, all are *)
(* cancelled when it is released, and none still waits once it is paid, so *)
(* a farmer never works on an order nobody paid for and no order is left   *)
(* holding stock behind.                                                   *)
OrdersFollowCheckout ==
  \A o \in Order :
    LET c == CheckoutOf[o] IN
    /\ checkout[c] = "NONE" <=> order[o] = "NONE"
    /\ checkout[c] = "AWAITING_PAYMENT" <=> order[o] = "AWAITING_PAYMENT"
    /\ checkout[c] \in Ended => order[o] = "CANCELLED"

(* Money is kept or sent back, never both and never neither: an attempt is *)
(* SUCCEEDED only for the exact amount charged, ORPHANED only for money    *)
(* that really arrived, and the automatic refund exists for the orphans    *)
(* and for nothing else.                                                   *)
MoneyKeptOrReturned ==
  \A p \in Payment :
    /\ payment[p] = "SUCCEEDED" => charge[p] = "success"
    /\ payment[p] = "ORPHANED" => charge[p] \in Charged
    /\ p \in refunded <=> payment[p] = "ORPHANED"

(* "The newest attempt is the one the buyer is shown": a checkout has at   *)
(* most one PENDING attempt, and none once it is no longer awaiting        *)
(* payment unless the attempt was already beaten by another one's money.   *)
OneLiveAttempt ==
  \A c \in Checkout :
    /\ \A p, q \in AttemptsOf(c) :
         payment[p] = "PENDING" /\ payment[q] = "PENDING" => p = q
    /\ checkout[c] \in Ended =>
         \A p \in AttemptsOf(c) : payment[p] # "PENDING"

(* The run's question about money: PaidByOne and MoneyKeptOrReturned.      *)
MoneySettled == PaidByOne /\ MoneyKeptOrReturned

(* Every unit is accounted for: what a listing lost on the floating side   *)
(* is held by live orders, what it lost on the actual side by orders the   *)
(* farmer has accepted.  So the CHECKs of the Produce table                *)
(* (0 <= floatingQuantity <= actualQuantity) never refuse a write.         *)
Live == OrderStatus \ {"CANCELLED"}
UnitsIn(g, S) ==
  MapThenSumSet(LAMBDA o : Qty[o],
                {o \in Order : ProduceOf[o] = g /\ order[o] \in S})
StockAccounted ==
  \A g \in Produce :
    /\ floating[g] = Stock[g] - UnitsIn(g, Live)
    /\ actual[g] = Stock[g] - UnitsIn(g, Live \ Uncommitted)

(* What is settled stays settled: a checkout that was paid, cancelled or   *)
(* expired never changes again, nor does an attempt whose money was        *)
(* applied, whatever arrives late, twice or out of order.  (A checkout     *)
(* placed for a sourcing request can also be released by its closing: see  *)
(* ReleasedUnpaid in Sourcing.)                                            *)
SettledStays ==
  [][/\ \A c \in Checkout : checkout[c] \in Ended \cup {"PAID"} =>
          checkout'[c] = checkout[c]
     /\ \A p \in Payment : payment[p] \in {"SUCCEEDED", "ORPHANED"} =>
          payment'[p] = payment[p]]_vars

(* The refinement: a checkout is sold at most once, its goods are held     *)
(* until it is decided and everything else that was paid is returned.      *)
SaleOf(status) ==
  CASE status = "NONE" -> "none"
    [] status = "AWAITING_PAYMENT" -> "open"
    [] status = "PAID" -> "sold"
    [] OTHER -> "released"
GoodsOf(status) ==
  CASE status = "NONE" -> "none"
    [] status = "AWAITING_PAYMENT" -> "held"
    [] status = "SHIPPED" -> "gone"
    [] status = "CANCELLED" -> "back"
    [] OTHER -> "owed"
MoneyOf(status) ==
  CASE status = "SUCCEEDED" -> "kept"
    [] status = "ORPHANED" -> "returned"
    [] OTHER -> "none"
Sale == INSTANCE Sale WITH
  sale <- [c \in Checkout |-> SaleOf(checkout[c])],
  goods <- [o \in Order |-> GoodsOf(order[o])],
  money <- [p \in Payment |-> MoneyOf(payment[p])]
ImplementsSale == Sale!Spec

-----------------------------------------------------------------------------
(* Liveness                                                                *)

(* The sweep is a job repeated every minute and a charge.success job is    *)
(* retried until it is done, so both are fair.  A crash may undo a scan or *)
(* a verification any number of times but not every time, and other        *)
(* attempts may use up MaxVerified now and then but not always, hence SF.  *)
(* Buyers, farmers and Paystack owe nothing.                               *)
Fairness ==
  /\ WF_vars(Scan)
  /\ \A c \in Checkout : SF_vars(Expire(c) \/ ExpireSkip(c))
  /\ \A p \in Payment : /\ SF_vars(charge[p] \in Charged /\ Verify(p))
                        /\ SF_vars(Apply(p))

FairSpec == Spec /\ Fairness

(* An unpaid checkout whose hold ran out does not keep its stock: it is    *)
(* paid, cancelled or expired in the end.                                  *)
OverdueIsDecided ==
  \A c \in Checkout :
    overdue[c] ~> checkout[c] \in Ended \cup {"PAID"}

(* Money that arrived at Paystack is applied or returned in the end, also  *)
(* when it arrived for an attempt already FAILED or ABANDONED.             *)
ChargeIsSettled ==
  \A p \in Payment :
    charge[p] \in Charged ~> payment[p] \in {"SUCCEEDED", "ORPHANED"}
=============================================================================
