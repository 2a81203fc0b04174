-------------------------- MODULE SettlementProofs --------------------------
(***************************************************************************)
(* Proofs about Settlement, for any number of checkouts, orders, attempts  *)
(* and listings.  Inv is inductive: beside the properties themselves it    *)
(* needs only that an answer of Paystack's on its way to being applied is  *)
(* still what Paystack says, if it says that money arrived.  The stock is  *)
(* a sum over orders, with an invariant of its own (StockInv).             *)
(***************************************************************************)
EXTENDS Settlement, Sums, TLAPS

(* A successful charge is final at Paystack, so it does not matter how     *)
(* long an answer waits for the checkout lock.                             *)
VerifiedIsTrue ==
  \A p \in Payment, v \in Charged : <<p, v>> \in verified => charge[p] = v

Inv ==
  /\ TypeOK
  /\ VerifiedIsTrue
  /\ PaidByOne
  /\ OrdersFollowCheckout
  /\ MoneyKeptOrReturned
  /\ OneLiveAttempt

(* What the orders of a checkout take from a listing is a quantity.        *)
LEMMA LineOfType ==
  ASSUME NEW S \in SUBSET Order, NEW g \in Produce
  PROVE  LineOf(S, g) \in Int
<1>1. CASE \E o \in S : ProduceOf[o] = g
  <2>1. (CHOOSE o \in S : ProduceOf[o] = g) \in Order
    BY <1>1
  <2>. QED
    BY <1>1, <2>1, IdsAssumption DEF LineOf
<1>2. CASE ~ \E o \in S : ProduceOf[o] = g
  BY <1>2 DEF LineOf
<1>. QED
  BY <1>1, <1>2

(* Nothing is placed, paid or read from Paystack at the start.             *)
LEMMA InitInv == Init => Inv
<1>. SUFFICES ASSUME Init PROVE Inv
  OBVIOUS
<1>1. TypeOK
  BY IdsAssumption DEF Init, TypeOK
<1>2. VerifiedIsTrue /\ PaidByOne /\ OrdersFollowCheckout
  BY IdsAssumption DEF Init, VerifiedIsTrue, PaidByOne, AttemptsOf,
     OrdersFollowCheckout, Ended
<1>3. MoneyKeptOrReturned /\ OneLiveAttempt
  BY DEF Init, MoneyKeptOrReturned, OneLiveAttempt, AttemptsOf, Ended
<1>. QED
  BY <1>1, <1>2, <1>3 DEF Inv

(* One step per action, and under it one per part of Inv that the action   *)
(* can disturb.                                                            *)
LEMMA NextInv ==
  ASSUME Inv, [Next]_vars PROVE Inv'
<1>. USE IdsAssumption
     DEF Inv, TypeOK, stockVars, moneyVars, outsideVars, CheckoutStatus,
         OrderStatus, PaymentStatus, Verdict, Ended
<1>1. ASSUME NEW c \in Checkout, Place(c) PROVE Inv'
  <2>1. TypeOK'
    BY <1>1, LineOfType DEF Place, OrdersOf
  <2>2. PaidByOne'
    BY <1>1 DEF Place, OrdersOf, PaidByOne, AttemptsOf
  <2>3. OrdersFollowCheckout'
    BY <1>1 DEF Place, OrdersOf, OrdersFollowCheckout
  <2>4. OneLiveAttempt'
    BY <1>1 DEF Place, OrdersOf, OneLiveAttempt, AttemptsOf
  <2>5. VerifiedIsTrue' /\ MoneyKeptOrReturned'
    BY <1>1 DEF Place, OrdersOf, VerifiedIsTrue, MoneyKeptOrReturned
  <2>. QED
    BY <2>1, <2>2, <2>3, <2>4, <2>5 DEF Inv
<1>2. ASSUME NEW c \in Checkout, Cancel(c) PROVE Inv'
  <2>1. TypeOK'
    BY <1>2, LineOfType DEF Cancel, Release, OrdersOf
  <2>2. PaidByOne'
    BY <1>2 DEF Cancel, Release, OrdersOf, PaidByOne, AttemptsOf
  <2>3. OrdersFollowCheckout'
    BY <1>2 DEF Cancel, Release, OrdersOf, OrdersFollowCheckout
  <2>4. MoneyKeptOrReturned'
    BY <1>2 DEF Cancel, Release, OrdersOf, MoneyKeptOrReturned
  <2>5. OneLiveAttempt'
    BY <1>2 DEF Cancel, Release, OrdersOf, OneLiveAttempt, AttemptsOf
  <2>6. VerifiedIsTrue'
    BY <1>2 DEF Cancel, Release, OrdersOf, VerifiedIsTrue
  <2>. QED
    BY <2>1, <2>2, <2>3, <2>4, <2>5, <2>6 DEF Inv
<1>3. ASSUME NEW c \in Checkout, HoldRunsOut(c) PROVE Inv'
  <2>1. TypeOK'
    BY <1>3 DEF HoldRunsOut
  <2>2. /\ VerifiedIsTrue'
        /\ PaidByOne'
        /\ OrdersFollowCheckout'
        /\ MoneyKeptOrReturned'
        /\ OneLiveAttempt'
    BY <1>3 DEF HoldRunsOut, VerifiedIsTrue, PaidByOne, AttemptsOf,
       OrdersFollowCheckout, MoneyKeptOrReturned, OneLiveAttempt
  <2>. QED
    BY <2>1, <2>2 DEF Inv
<1>4. ASSUME Scan PROVE Inv'
  <2>1. TypeOK'
    BY <1>4 DEF Scan
  <2>2. /\ VerifiedIsTrue'
        /\ PaidByOne'
        /\ OrdersFollowCheckout'
        /\ MoneyKeptOrReturned'
        /\ OneLiveAttempt'
    BY <1>4 DEF Scan, VerifiedIsTrue, PaidByOne, AttemptsOf,
       OrdersFollowCheckout, MoneyKeptOrReturned, OneLiveAttempt
  <2>. QED
    BY <2>1, <2>2 DEF Inv
<1>5. ASSUME NEW c \in Checkout, Expire(c) PROVE Inv'
  <2>1. TypeOK'
    BY <1>5, LineOfType DEF Expire, Release, OrdersOf
  <2>2. PaidByOne'
    BY <1>5 DEF Expire, Release, OrdersOf, PaidByOne, AttemptsOf
  <2>3. OrdersFollowCheckout'
    BY <1>5 DEF Expire, Release, OrdersOf, OrdersFollowCheckout
  <2>4. MoneyKeptOrReturned'
    BY <1>5 DEF Expire, Release, OrdersOf, MoneyKeptOrReturned
  <2>5. OneLiveAttempt'
    BY <1>5 DEF Expire, Release, OrdersOf, OneLiveAttempt, AttemptsOf
  <2>6. VerifiedIsTrue'
    BY <1>5 DEF Expire, Release, OrdersOf, VerifiedIsTrue
  <2>. QED
    BY <2>1, <2>2, <2>3, <2>4, <2>5, <2>6 DEF Inv
<1>6. ASSUME NEW c \in Checkout, ExpireSkip(c) PROVE Inv'
  <2>1. TypeOK'
    BY <1>6 DEF ExpireSkip
  <2>2. /\ VerifiedIsTrue'
        /\ PaidByOne'
        /\ OrdersFollowCheckout'
        /\ MoneyKeptOrReturned'
        /\ OneLiveAttempt'
    BY <1>6 DEF ExpireSkip, VerifiedIsTrue, PaidByOne, AttemptsOf,
       OrdersFollowCheckout, MoneyKeptOrReturned, OneLiveAttempt
  <2>. QED
    BY <2>1, <2>2 DEF Inv
<1>7. ASSUME NEW p \in Payment, Initiate(p) PROVE Inv'
  <2>1. TypeOK'
    BY <1>7 DEF Initiate
  <2>2. PaidByOne'
    BY <1>7 DEF Initiate, PaidByOne, AttemptsOf
  <2>3. MoneyKeptOrReturned'
    BY <1>7 DEF Initiate, MoneyKeptOrReturned
  <2>4. OneLiveAttempt'
    BY <1>7 DEF Initiate, OneLiveAttempt, AttemptsOf
  <2>5. VerifiedIsTrue' /\ OrdersFollowCheckout'
    BY <1>7 DEF Initiate, VerifiedIsTrue, OrdersFollowCheckout
  <2>. QED
    BY <2>1, <2>2, <2>3, <2>4, <2>5 DEF Inv
<1>8. ASSUME NEW p \in Payment, OpenAnswered(p) PROVE Inv'
  <2>1. TypeOK'
    BY <1>8 DEF OpenAnswered
  <2>2. /\ VerifiedIsTrue'
        /\ PaidByOne'
        /\ OrdersFollowCheckout'
        /\ MoneyKeptOrReturned'
        /\ OneLiveAttempt'
    BY <1>8 DEF OpenAnswered, VerifiedIsTrue, PaidByOne, AttemptsOf,
       OrdersFollowCheckout, MoneyKeptOrReturned, OneLiveAttempt
  <2>. QED
    BY <2>1, <2>2 DEF Inv
<1>9. ASSUME NEW p \in Payment, OpenFailed(p) PROVE Inv'
  <2>1. TypeOK'
    BY <1>9 DEF OpenFailed
  <2>2. PaidByOne'
    BY <1>9 DEF OpenFailed, PaidByOne, AttemptsOf
  <2>3. MoneyKeptOrReturned'
    BY <1>9 DEF OpenFailed, MoneyKeptOrReturned
  <2>4. OneLiveAttempt'
    BY <1>9 DEF OpenFailed, OneLiveAttempt, AttemptsOf
  <2>5. VerifiedIsTrue' /\ OrdersFollowCheckout'
    BY <1>9 DEF OpenFailed, VerifiedIsTrue, OrdersFollowCheckout
  <2>. QED
    BY <2>1, <2>2, <2>3, <2>4, <2>5 DEF Inv
<1>10. ASSUME NEW p \in Payment, PaystackOpens(p) PROVE Inv'
  <2>1. TypeOK'
    BY <1>10 DEF PaystackOpens
  <2>2. VerifiedIsTrue'
    BY <1>10 DEF PaystackOpens, VerifiedIsTrue, Charged
  <2>3. MoneyKeptOrReturned'
    BY <1>10 DEF PaystackOpens, MoneyKeptOrReturned, Charged
  <2>4. PaidByOne' /\ OrdersFollowCheckout' /\ OneLiveAttempt'
    BY <1>10 DEF PaystackOpens, PaidByOne, AttemptsOf,
       OrdersFollowCheckout, OneLiveAttempt
  <2>. QED
    BY <2>1, <2>2, <2>3, <2>4 DEF Inv
<1>11. ASSUME NEW p \in Payment, PaystackCharges(p) PROVE Inv'
  <2>1. TypeOK'
    BY <1>11 DEF PaystackCharges
  <2>2. VerifiedIsTrue'
    BY <1>11 DEF PaystackCharges, VerifiedIsTrue, Charged
  <2>3. MoneyKeptOrReturned'
    BY <1>11 DEF PaystackCharges, MoneyKeptOrReturned, Charged
  <2>4. PaidByOne' /\ OrdersFollowCheckout' /\ OneLiveAttempt'
    BY <1>11 DEF PaystackCharges, PaidByOne, AttemptsOf,
       OrdersFollowCheckout, OneLiveAttempt
  <2>. QED
    BY <2>1, <2>2, <2>3, <2>4 DEF Inv
<1>12. ASSUME NEW p \in Payment, Verify(p) PROVE Inv'
  <2>1. TypeOK'
    BY <1>12 DEF Verify
  <2>2. VerifiedIsTrue'
    BY <1>12 DEF Verify, VerifiedIsTrue, Charged
  <2>3. /\ PaidByOne'
        /\ OrdersFollowCheckout'
        /\ MoneyKeptOrReturned'
        /\ OneLiveAttempt'
    BY <1>12 DEF Verify, PaidByOne, AttemptsOf, OrdersFollowCheckout,
       MoneyKeptOrReturned, OneLiveAttempt
  <2>. QED
    BY <2>1, <2>2, <2>3 DEF Inv
<1>13. ASSUME NEW p \in Payment, ApplyFailure(p) PROVE Inv'
  <2>1. TypeOK'
    BY <1>13 DEF ApplyFailure, Applying
  <2>2. VerifiedIsTrue'
    BY <1>13 DEF ApplyFailure, Applying, VerifiedIsTrue, Charged
  <2>3. PaidByOne'
    BY <1>13 DEF ApplyFailure, Applying, PaidByOne, AttemptsOf
  <2>4. MoneyKeptOrReturned'
    BY <1>13 DEF ApplyFailure, Applying, MoneyKeptOrReturned
  <2>5. OneLiveAttempt'
    BY <1>13 DEF ApplyFailure, Applying, OneLiveAttempt, AttemptsOf
  <2>6. OrdersFollowCheckout'
    BY <1>13 DEF ApplyFailure, Applying, OrdersFollowCheckout
  <2>. QED
    BY <2>1, <2>2, <2>3, <2>4, <2>5, <2>6 DEF Inv
<1>14. ASSUME NEW p \in Payment, NEW v \in Verdict, ApplyNothing(p, v) PROVE Inv'
  <2>1. TypeOK'
    BY <1>14 DEF ApplyNothing, Applying
  <2>2. VerifiedIsTrue'
    BY <1>14 DEF ApplyNothing, Applying, VerifiedIsTrue, Charged
  <2>3. /\ PaidByOne'
        /\ OrdersFollowCheckout'
        /\ MoneyKeptOrReturned'
        /\ OneLiveAttempt'
    BY <1>14 DEF ApplyNothing, Applying, PaidByOne, AttemptsOf,
       OrdersFollowCheckout, MoneyKeptOrReturned, OneLiveAttempt
  <2>. QED
    BY <2>1, <2>2, <2>3 DEF Inv
<1>15. ASSUME NEW p \in Payment, NEW v \in Verdict, ApplyOrphan(p, v) PROVE Inv'
  <2>1. TypeOK'
    BY <1>15 DEF ApplyOrphan, Applying, Orphan
  <2>2. VerifiedIsTrue'
    BY <1>15 DEF ApplyOrphan, Applying, Orphan, VerifiedIsTrue, Charged
  <2>3. PaidByOne'
    BY <1>15 DEF ApplyOrphan, Applying, Orphan, PaidByOne, AttemptsOf,
       Applicable
  <2>4. MoneyKeptOrReturned'
    BY <1>15 DEF ApplyOrphan, Applying, Orphan, MoneyKeptOrReturned,
       VerifiedIsTrue, Applicable, Charged
  <2>5. OneLiveAttempt'
    BY <1>15 DEF ApplyOrphan, Applying, Orphan, OneLiveAttempt,
       AttemptsOf
  <2>6. OrdersFollowCheckout'
    BY <1>15 DEF ApplyOrphan, Applying, Orphan, OrdersFollowCheckout
  <2>. QED
    BY <2>1, <2>2, <2>3, <2>4, <2>5, <2>6 DEF Inv
<1>16. ASSUME NEW p \in Payment, NEW v \in Verdict, ApplySuccess(p, v) PROVE Inv'
  <2>1. TypeOK'
    BY <1>16 DEF ApplySuccess, Applying, Orphan
  <2>2. VerifiedIsTrue'
    BY <1>16 DEF ApplySuccess, Applying, Orphan, VerifiedIsTrue, Charged
  <2>3. PaidByOne'
    BY <1>16 DEF ApplySuccess, Applying, Orphan, PaidByOne, AttemptsOf,
       Applicable, Charged
  <2>4. OrdersFollowCheckout'
    BY <1>16 DEF ApplySuccess, Applying, Orphan, OrdersFollowCheckout
  <2>5. MoneyKeptOrReturned'
    BY <1>16 DEF ApplySuccess, Applying, Orphan, MoneyKeptOrReturned,
       VerifiedIsTrue, Applicable, Charged
  <2>6. OneLiveAttempt'
    BY <1>16 DEF ApplySuccess, Applying, Orphan, OneLiveAttempt,
       AttemptsOf
  <2>. QED
    BY <2>1, <2>2, <2>3, <2>4, <2>5, <2>6 DEF Inv
<1>17. ASSUME NEW o \in Order, Confirm(o) PROVE Inv'
  <2>1. TypeOK'
    BY <1>17 DEF Confirm, Advance
  <2>2. OrdersFollowCheckout'
    BY <1>17 DEF Confirm, Advance, OrdersFollowCheckout
  <2>3. /\ VerifiedIsTrue'
        /\ PaidByOne'
        /\ MoneyKeptOrReturned'
        /\ OneLiveAttempt'
    BY <1>17 DEF Confirm, Advance, VerifiedIsTrue, PaidByOne,
       AttemptsOf, MoneyKeptOrReturned, OneLiveAttempt
  <2>. QED
    BY <2>1, <2>2, <2>3 DEF Inv
<1>18. ASSUME NEW o \in Order, Prepare(o) PROVE Inv'
  <2>1. TypeOK'
    BY <1>18 DEF Prepare, Advance
  <2>2. OrdersFollowCheckout'
    BY <1>18 DEF Prepare, Advance, OrdersFollowCheckout
  <2>3. /\ VerifiedIsTrue'
        /\ PaidByOne'
        /\ MoneyKeptOrReturned'
        /\ OneLiveAttempt'
    BY <1>18 DEF Prepare, Advance, VerifiedIsTrue, PaidByOne,
       AttemptsOf, MoneyKeptOrReturned, OneLiveAttempt
  <2>. QED
    BY <2>1, <2>2, <2>3 DEF Inv
<1>19. ASSUME NEW o \in Order, MarkReady(o) PROVE Inv'
  <2>1. TypeOK'
    BY <1>19 DEF MarkReady, Advance
  <2>2. OrdersFollowCheckout'
    BY <1>19 DEF MarkReady, Advance, OrdersFollowCheckout
  <2>3. /\ VerifiedIsTrue'
        /\ PaidByOne'
        /\ MoneyKeptOrReturned'
        /\ OneLiveAttempt'
    BY <1>19 DEF MarkReady, Advance, VerifiedIsTrue, PaidByOne,
       AttemptsOf, MoneyKeptOrReturned, OneLiveAttempt
  <2>. QED
    BY <2>1, <2>2, <2>3 DEF Inv
<1>20. ASSUME NEW o \in Order, HandOver(o) PROVE Inv'
  <2>1. TypeOK'
    BY <1>20 DEF HandOver, Advance
  <2>2. OrdersFollowCheckout'
    BY <1>20 DEF HandOver, Advance, OrdersFollowCheckout
  <2>3. /\ VerifiedIsTrue'
        /\ PaidByOne'
        /\ MoneyKeptOrReturned'
        /\ OneLiveAttempt'
    BY <1>20 DEF HandOver, Advance, VerifiedIsTrue, PaidByOne,
       AttemptsOf, MoneyKeptOrReturned, OneLiveAttempt
  <2>. QED
    BY <2>1, <2>2, <2>3 DEF Inv
<1>21. ASSUME NEW o \in Order, CancelOrder(o) PROVE Inv'
  <2>1. TypeOK'
    BY <1>21 DEF CancelOrder, Advance
  <2>2. OrdersFollowCheckout'
    BY <1>21 DEF CancelOrder, Advance, OrdersFollowCheckout
  <2>3. /\ VerifiedIsTrue'
        /\ PaidByOne'
        /\ MoneyKeptOrReturned'
        /\ OneLiveAttempt'
    BY <1>21 DEF CancelOrder, Advance, VerifiedIsTrue, PaidByOne,
       AttemptsOf, MoneyKeptOrReturned, OneLiveAttempt
  <2>. QED
    BY <2>1, <2>2, <2>3 DEF Inv
<1>22. ASSUME Crash PROVE Inv'
  <2>1. TypeOK'
    BY <1>22 DEF Crash
  <2>2. VerifiedIsTrue'
    BY <1>22 DEF Crash, VerifiedIsTrue, Charged
  <2>3. /\ PaidByOne'
        /\ OrdersFollowCheckout'
        /\ MoneyKeptOrReturned'
        /\ OneLiveAttempt'
    BY <1>22 DEF Crash, PaidByOne, AttemptsOf, OrdersFollowCheckout,
       MoneyKeptOrReturned, OneLiveAttempt
  <2>. QED
    BY <2>1, <2>2, <2>3 DEF Inv
<1>23. ASSUME UNCHANGED vars PROVE Inv'
  BY <1>23 DEF vars, VerifiedIsTrue, PaidByOne, AttemptsOf,
     OrdersFollowCheckout, MoneyKeptOrReturned, OneLiveAttempt
<1>. QED
  BY <1>1, <1>2, <1>3, <1>4, <1>5, <1>6, <1>7, <1>8, <1>9, <1>10, <1>11,
     <1>12, <1>13, <1>14, <1>15, <1>16, <1>17, <1>18, <1>19, <1>20, <1>21,
     <1>22, <1>23 DEF Next, Apply

(* The inductive invariant holds, for any checkouts, orders and attempts.  *)
THEOREM Invariance == Spec => []Inv
<1>1. Inv /\ [Next]_vars => Inv'
  BY NextInv
<1>. QED
  BY InitInv, <1>1, PTL DEF Spec

(* Every variable keeps its type.                                          *)
THEOREM SpecTypeOK == Spec => []TypeOK
<1>1. Inv => TypeOK
  BY DEF Inv
<1>. QED
  BY Invariance, <1>1, PTL

(* One charge, and only one, buys a checkout.                              *)
THEOREM SpecPaidByOne == Spec => []PaidByOne
<1>1. Inv => PaidByOne
  BY DEF Inv
<1>. QED
  BY Invariance, <1>1, PTL

(* No order outlives, or runs ahead of, the checkout it was placed with.   *)
THEOREM SpecOrdersFollowCheckout == Spec => []OrdersFollowCheckout
<1>1. Inv => OrdersFollowCheckout
  BY DEF Inv
<1>. QED
  BY Invariance, <1>1, PTL

(* Money is kept for a checkout or refunded, not both.                     *)
THEOREM SpecMoneyKeptOrReturned == Spec => []MoneyKeptOrReturned
<1>1. Inv => MoneyKeptOrReturned
  BY DEF Inv
<1>. QED
  BY Invariance, <1>1, PTL

(* The buyer has at most one attempt to finish.                            *)
THEOREM SpecOneLiveAttempt == Spec => []OneLiveAttempt
<1>1. Inv => OneLiveAttempt
  BY DEF Inv
<1>. QED
  BY Invariance, <1>1, PTL

-----------------------------------------------------------------------------
(* Nothing that is settled is ever unsettled.                              *)
LEMMA StepSettledStays ==
  ASSUME Inv, [Next]_vars
  PROVE  /\ \A c \in Checkout : checkout[c] \in Ended \cup {"PAID"} =>
              checkout'[c] = checkout[c]
         /\ \A p \in Payment : payment[p] \in {"SUCCEEDED", "ORPHANED"} =>
              payment'[p] = payment[p]
<1>. DEFINE Stays ==
       /\ \A c \in Checkout : checkout[c] \in Ended \cup {"PAID"} =>
            checkout'[c] = checkout[c]
       /\ \A p \in Payment : payment[p] \in {"SUCCEEDED", "ORPHANED"} =>
            payment'[p] = payment[p]
<1>. USE IdsAssumption DEF Inv, TypeOK, Ended, moneyVars
<1>1. ASSUME NEW c \in Checkout,
             Place(c) \/ Cancel(c) \/ Expire(c)
      PROVE  Stays
  BY <1>1 DEF Place, Cancel, Expire, Release
<1>2. ASSUME NEW p \in Payment, Initiate(p) \/ OpenFailed(p) PROVE Stays
  BY <1>2 DEF Initiate, OpenFailed
<1>3. ASSUME NEW p \in Payment, Apply(p) PROVE Stays
  BY <1>3 DEF Apply, ApplyNothing, ApplyFailure, ApplyOrphan, ApplySuccess,
     Applying, Orphan, Applicable
<1>4. ASSUME NEW o \in Order,
             \/ Confirm(o) \/ Prepare(o) \/ MarkReady(o)
             \/ HandOver(o) \/ CancelOrder(o)
      PROVE  Stays
  BY <1>4 DEF Confirm, Prepare, MarkReady, HandOver, CancelOrder, Advance
<1>5. ASSUME NEW c \in Checkout, HoldRunsOut(c) \/ ExpireSkip(c) PROVE Stays
  BY <1>5 DEF HoldRunsOut, ExpireSkip
<1>6. ASSUME NEW p \in Payment,
             \/ OpenAnswered(p) \/ PaystackOpens(p)
             \/ PaystackCharges(p) \/ Verify(p)
      PROVE  Stays
  BY <1>6 DEF OpenAnswered, PaystackOpens, PaystackCharges, Verify
<1>7. ASSUME Scan \/ Crash \/ UNCHANGED vars PROVE Stays
  BY <1>7 DEF Scan, Crash, vars
<1>. QED
  BY <1>1, <1>2, <1>3, <1>4, <1>5, <1>6, <1>7 DEF Next

(* A decided checkout and a settled attempt never change again (the status *)
(* checks of releaseCheckout's callers and of applyVerifiedCharge).        *)
THEOREM SpecSettledStays == Spec => SettledStays
BY Invariance, StepSettledStays, PTL DEF Spec, SettledStays

-----------------------------------------------------------------------------
(* The refinement: each step is one of Sale's or changes nothing there.    *)
LEMMA InitSale == Init => Sale!Init
BY DEF Init, Sale!Init, SaleOf, GoodsOf, MoneyOf

(* What a step that leaves every status alone means to Sale.               *)
LEMMA QuietSale ==
  ASSUME UNCHANGED <<checkout, order>>,
         \A p \in Payment : MoneyOf(payment'[p]) = MoneyOf(payment[p])
  PROVE  UNCHANGED Sale!saleVars
BY DEF Sale!saleVars

(* placeOrders opens the sale and holds its goods.                         *)
LEMMA PlaceSale ==
  ASSUME Inv, NEW c \in Checkout, Place(c)
  PROVE  Sale!Open(c)
<1>. USE IdsAssumption DEF Inv, TypeOK, Place, moneyVars
<1>1. \A o \in Order : CheckoutOf[o] = c => order[o] = "NONE"
  BY DEF OrdersFollowCheckout
<1>2. Sale!MoveGoods(c, "none", "held")
  BY <1>1 DEF Sale!MoveGoods, GoodsOf
<1>. QED
  BY <1>2 DEF Sale!Open, SaleOf

(* releaseCheckout releases the sale and gives its goods back, all         *)
(* together.                                                               *)
LEMMA ReleaseSale ==
  ASSUME Inv, NEW c \in Checkout, Cancel(c) \/ Expire(c)
  PROVE  Sale!Release(c)
<1>. PICK outcome \in Ended :
       checkout[c] = "AWAITING_PAYMENT" /\ Release(c, outcome)
  BY DEF Cancel, Expire, Ended
<1>. USE IdsAssumption DEF Inv, TypeOK, Release, OrdersOf
<1>1. \A o \in Order : CheckoutOf[o] = c => order[o] = "AWAITING_PAYMENT"
  BY DEF OrdersFollowCheckout
<1>2. Sale!MoveGoods(c, "held", "back")
  BY <1>1 DEF Sale!MoveGoods, GoodsOf
<1>3. \A p \in Payment : MoneyOf(payment'[p]) = MoneyOf(payment[p])
  BY DEF MoneyOf
<1>4. \A d \in Checkout :
        SaleOf(checkout'[d]) = IF d = c THEN "released" ELSE SaleOf(checkout[d])
  BY DEF SaleOf, Ended
<1>5. SaleOf(checkout[c]) = "open"
  BY DEF SaleOf
<1>. QED
  BY <1>2, <1>3, <1>4, <1>5 DEF Sale!Release

(* applyVerifiedCharge sells: one charge is kept, the goods become owed.   *)
LEMMA SuccessSale ==
  ASSUME Inv, NEW p \in Payment, NEW v \in Verdict, ApplySuccess(p, v)
  PROVE  Sale!Sell(p)
<1>. DEFINE c == AttemptOf[p]
<1>. USE IdsAssumption DEF Inv, TypeOK, ApplySuccess, Orphan
<1>1. \A o \in Order : CheckoutOf[o] = c => order[o] = "AWAITING_PAYMENT"
  BY DEF OrdersFollowCheckout
<1>2. Sale!MoveGoods(c, "held", "owed")
  BY <1>1 DEF Sale!MoveGoods, GoodsOf
<1>3. MoneyOf(payment[p]) = "none"
  BY DEF Applicable, MoneyOf
<1>4. \A q \in Payment :
        MoneyOf(payment'[q]) = IF q = p THEN "kept" ELSE MoneyOf(payment[q])
  BY DEF MoneyOf
<1>5. \A d \in Checkout :
        SaleOf(checkout'[d]) = IF d = c THEN "sold" ELSE SaleOf(checkout[d])
  BY DEF SaleOf
<1>6. c \in Checkout /\ SaleOf(checkout[c]) = "open"
  BY DEF SaleOf
<1>. QED
  BY <1>2, <1>3, <1>4, <1>5, <1>6 DEF Sale!Sell

(* Money that cannot be applied is returned and nothing else changes.      *)
LEMMA OrphanSale ==
  ASSUME Inv, NEW p \in Payment, NEW v \in Verdict, ApplyOrphan(p, v)
  PROVE  Sale!Return(p)
<1>1. MoneyOf(payment[p]) = "none"
  BY DEF ApplyOrphan, Applicable, MoneyOf
<1>2. \A q \in Payment :
        MoneyOf(payment'[q]) = IF q = p THEN "returned" ELSE MoneyOf(payment[q])
  BY DEF Inv, TypeOK, ApplyOrphan, MoneyOf
<1>3. UNCHANGED <<checkout, order>>
  BY DEF ApplyOrphan
<1>. QED
  BY <1>1, <1>2, <1>3 DEF Sale!Return

(* Working on a paid order delivers its goods, gives them back or changes  *)
(* nothing the sale shows.                                                 *)
LEMMA OrderSale ==
  ASSUME Inv, NEW o \in Order, HandOver(o) \/ CancelOrder(o)
  PROVE  Sale!Deliver(o)
<1>1. GoodsOf(order[o]) = "owed"
  BY DEF HandOver, CancelOrder, Advance, GoodsOf
<1>2. PICK to \in {"gone", "back"} :
        \A x \in Order :
          GoodsOf(order'[x]) = IF x = o THEN to ELSE GoodsOf(order[x])
  BY DEF Inv, TypeOK, HandOver, CancelOrder, Advance, GoodsOf
<1>3. UNCHANGED <<checkout, payment>>
  BY DEF HandOver, CancelOrder, Advance, moneyVars
<1>. QED
  BY <1>1, <1>2, <1>3 DEF Sale!Deliver

(* Every step of the settlement is a step of the sale or a stutter.        *)
LEMMA StepSale ==
  ASSUME Inv, [Next]_vars PROVE [Sale!Next]_(Sale!saleVars)
<1>1. ASSUME NEW c \in Checkout, Place(c) \/ Cancel(c) \/ Expire(c)
      PROVE  Sale!Next
  BY <1>1, PlaceSale, ReleaseSale DEF Sale!Next
<1>2. ASSUME NEW p \in Payment, NEW v \in Verdict,
             ApplySuccess(p, v) \/ ApplyOrphan(p, v)
      PROVE  Sale!Next
  BY <1>2, SuccessSale, OrphanSale DEF Sale!Next
<1>3. ASSUME NEW o \in Order, HandOver(o) \/ CancelOrder(o)
      PROVE  Sale!Next
  BY <1>3, OrderSale DEF Sale!Next
<1>4. ASSUME NEW p \in Payment,
             Initiate(p) \/ OpenFailed(p) \/ ApplyFailure(p)
      PROVE  UNCHANGED Sale!saleVars
  <2>1. UNCHANGED <<checkout, order>>
    BY <1>4 DEF Initiate, OpenFailed, ApplyFailure
  <2>2. \A q \in Payment : MoneyOf(payment'[q]) = MoneyOf(payment[q])
    BY <1>4 DEF Initiate, OpenFailed, ApplyFailure, Inv, TypeOK, MoneyOf
  <2>. QED
    BY <2>1, <2>2, QuietSale
<1>5. ASSUME NEW o \in Order, Confirm(o) \/ Prepare(o) \/ MarkReady(o)
      PROVE  UNCHANGED Sale!saleVars
  <2>1. UNCHANGED <<checkout, payment>>
    BY <1>5 DEF Confirm, Prepare, MarkReady, Advance, moneyVars
  <2>2. \A x \in Order : GoodsOf(order'[x]) = GoodsOf(order[x])
    BY <1>5 DEF Confirm, Prepare, MarkReady, Advance, Inv, TypeOK, GoodsOf
  <2>. QED
    BY <2>1, <2>2 DEF Sale!saleVars
<1>6. ASSUME UNCHANGED <<checkout, order, payment>>
      PROVE  UNCHANGED Sale!saleVars
  BY <1>6, QuietSale
<1>7. ASSUME NEW c \in Checkout, HoldRunsOut(c) \/ ExpireSkip(c)
      PROVE  UNCHANGED <<checkout, order, payment>>
  BY <1>7 DEF HoldRunsOut, ExpireSkip, moneyVars
<1>8. ASSUME NEW p \in Payment,
             \/ OpenAnswered(p) \/ PaystackOpens(p) \/ PaystackCharges(p)
             \/ Verify(p) \/ \E v \in Verdict : ApplyNothing(p, v)
      PROVE  UNCHANGED <<checkout, order, payment>>
  BY <1>8 DEF OpenAnswered, PaystackOpens, PaystackCharges, Verify,
     ApplyNothing, moneyVars
<1>9. ASSUME Scan \/ Crash \/ UNCHANGED vars
      PROVE  UNCHANGED <<checkout, order, payment>>
  BY <1>9 DEF Scan, Crash, vars, moneyVars
<1>. QED
  BY <1>1, <1>2, <1>3, <1>4, <1>5, <1>6, <1>7, <1>8, <1>9 DEF Next, Apply

(* Settlement, with all its attempts, webhooks, sweeps and crashes, does   *)
(* nothing that Sale does not allow.                                       *)
THEOREM SpecImplementsSale == Spec => ImplementsSale
<1>1. Inv /\ [Next]_vars => [Sale!Next]_(Sale!saleVars)
  BY StepSale
<1>. QED
  BY InitSale, Invariance, <1>1, PTL DEF Spec, ImplementsSale, Sale!Spec

(* Both promises about money, for any number of checkouts and attempts: a  *)
(* checkout is paid by exactly one attempt and every other charge is sent  *)
(* back by applyVerifiedCharge.                                            *)
THEOREM SpecMoneySettled == Spec => []MoneySettled
<1>1. PaidByOne /\ MoneyKeptOrReturned => MoneySettled
  BY DEF MoneySettled
<1>. QED
  BY <1>1, SpecPaidByOne, SpecMoneyKeptOrReturned, PTL

-----------------------------------------------------------------------------
(* The stock.  A listing is ordered at most once in a checkout, so that every *)
(* step moves at most one order of it, and only finitely many orders of it    *)
(* have been placed, however many there may be.                               *)
Of(g, S) == {o \in Order : ProduceOf[o] = g /\ order[o] \in S}
Committed == Live \ Uncommitted

(* Produce: CHECK (0 <= floatingQuantity AND floatingQuantity <= actualQuantity) *)
StockWithinBounds == \A g \in Produce : 0 <= floating[g] /\ floating[g] <= actual[g]

StockInv ==
  /\ \A g \in Produce : IsFiniteSet(Of(g, Live)) /\ 0 <= floating[g]
  /\ StockAccounted

LEMMA UnitsAreSum ==
  ASSUME NEW g, NEW S
  PROVE  /\ UnitsIn(g, S) = Sum(Qty, Of(g, S))
         /\ UnitsIn(g, S)' = Sum(Qty, Of(g, S)')
  BY DEF UnitsIn, Of, Sum, MapThenSumSet, MapThenFoldSet

LEMMA QtyOf ==
  ASSUME NEW T \in SUBSET Order
  PROVE  \A o \in T : Qty[o] \in Int /\ Qty[o] \in Nat /\ Qty[o] > 0
  BY IdsAssumption

(* What a listing's orders take, when one of them comes or goes.              *)
LEMMA UnitsGain ==
  ASSUME NEW g, NEW S, IsFiniteSet(Of(g, S)), NEW o \in Order, o \notin Of(g, S),
         Of(g, S)' = Of(g, S) \cup {o}
  PROVE  IsFiniteSet(Of(g, S)') /\ UnitsIn(g, S)' = UnitsIn(g, S) + Qty[o]
<1>1. Of(g, S) \cup {o} \in SUBSET Order
  BY DEF Of
<1>2. \A x \in Of(g, S) \cup {o} : Qty[x] \in Int
  BY <1>1, QtyOf
<1>3. Sum(Qty, Of(g, S) \cup {o}) = Qty[o] + Sum(Qty, Of(g, S))
  BY <1>2, SumAdd
<1>4. Sum(Qty, Of(g, S)) \in Int /\ Qty[o] \in Int
  BY <1>2, SumType
<1>5. IsFiniteSet(Of(g, S) \cup {o})
  BY FS_AddElement
<1>6. UnitsIn(g, S) = Sum(Qty, Of(g, S)) /\ UnitsIn(g, S)' = Sum(Qty, Of(g, S)')
  BY UnitsAreSum
<1>7. UnitsIn(g, S)' = Qty[o] + UnitsIn(g, S)
  BY <1>3, <1>6
<1>8. UnitsIn(g, S) \in Int
  BY <1>4, <1>6
<1>9. QED
  BY <1>4, <1>5, <1>7, <1>8

LEMMA UnitsLose ==
  ASSUME NEW g, NEW S, IsFiniteSet(Of(g, S)), NEW o \in Of(g, S),
         Of(g, S)' = Of(g, S) \ {o}
  PROVE  IsFiniteSet(Of(g, S)') /\ UnitsIn(g, S)' = UnitsIn(g, S) - Qty[o]
<1>1. Of(g, S) \in SUBSET Order
  BY DEF Of
<1>2. \A x \in Of(g, S) : Qty[x] \in Int
  BY <1>1, QtyOf
<1>3. Sum(Qty, Of(g, S)) = Qty[o] + Sum(Qty, Of(g, S) \ {o})
  BY <1>2, SumRemove
<1>4. IsFiniteSet(Of(g, S) \ {o})
  BY FS_RemoveElement
<1>5. Sum(Qty, Of(g, S) \ {o}) \in Int /\ Qty[o] \in Int
  BY <1>2, <1>4, SumType
<1>6. UnitsIn(g, S) = Sum(Qty, Of(g, S)) /\ UnitsIn(g, S)' = Sum(Qty, Of(g, S)')
  BY UnitsAreSum
<1>7. UnitsIn(g, S) = Qty[o] + UnitsIn(g, S)'
  BY <1>3, <1>6
<1>8. UnitsIn(g, S)' \in Int
  BY <1>5, <1>6
<1>9. QED
  BY <1>4, <1>5, <1>7, <1>8

LEMMA UnitsStay ==
  ASSUME NEW g, NEW S, Of(g, S)' = Of(g, S)
  PROVE  UnitsIn(g, S)' = UnitsIn(g, S)
  BY UnitsAreSum

(* The one line of a set of orders of a checkout for a listing.               *)
LEMMA LineOfOne ==
  ASSUME NEW c \in Checkout, NEW S \in SUBSET OrdersOf(c), NEW g \in Produce
  PROVE  \/ LineOf(S, g) = 0 /\ \A o \in S : ProduceOf[o] # g
         \/ \E o \in S : /\ ProduceOf[o] = g /\ LineOf(S, g) = Qty[o]
                         /\ \A x \in S : ProduceOf[x] = g => x = o
<1>1. CASE \E o \in S : ProduceOf[o] = g
  <2> DEFINE o == CHOOSE x \in S : ProduceOf[x] = g
  <2>1. o \in S /\ ProduceOf[o] = g
    BY <1>1
  <2>2. LineOf(S, g) = Qty[o]
    BY <1>1 DEF LineOf
  <2>3. \A x \in S : ProduceOf[x] = g => x = o
    <3> HIDE DEF o
    <3>1. QED
      BY <2>1, OneLinePerProduce DEF OrdersOf
  <2> HIDE DEF o
  <2>4. QED
    BY <2>1, <2>2, <2>3
<1>2. CASE ~ \E o \in S : ProduceOf[o] = g
  BY <1>2 DEF LineOf
<1>3. QED
  BY <1>1, <1>2

LEMMA StockInit == Init => StockInv
<1> SUFFICES ASSUME Init PROVE StockInv
  OBVIOUS
<1>1. \A g \in Produce : Of(g, Live) = {} /\ Of(g, Committed) = {}
  BY DEF Init, Of, Live, Committed, OrderStatus
<1>2. \A g \in Produce : UnitsIn(g, Live) = 0 /\ UnitsIn(g, Committed) = 0
  BY <1>1, UnitsAreSum, SumEmpty
<1>3. \A g \in Produce : IsFiniteSet(Of(g, Live))
  BY <1>1, FS_EmptySet
<1>4. \A g \in Produce : Stock[g] \in Nat /\ floating[g] = Stock[g] /\ actual[g] = Stock[g]
  BY IdsAssumption DEF Init
<1>5. StockAccounted
  <2>1. \A g \in Produce : UnitsIn(g, Live) = 0 /\ UnitsIn(g, Live \ Uncommitted) = 0
    BY <1>2 DEF Committed
  <2>2. QED
    BY <1>4, <2>1 DEF StockAccounted
<1>6. QED
  BY <1>3, <1>4, <1>5 DEF StockInv

LEMMA CommittedIsLive ==
  ASSUME NEW g, IsFiniteSet(Of(g, Live))
  PROVE  /\ IsFiniteSet(Of(g, Committed))
         /\ UnitsIn(g, Live) \in Nat /\ UnitsIn(g, Committed) \in Nat
         /\ UnitsIn(g, Committed) <= UnitsIn(g, Live)
<1>1. Of(g, Committed) \in SUBSET Of(g, Live) /\ Of(g, Live) \in SUBSET Order
  BY DEF Of, Committed
<1>2. IsFiniteSet(Of(g, Committed))
  BY <1>1, FS_Subset
<1>3. \A x \in Of(g, Live) : Qty[x] \in Nat
  BY <1>1, QtyOf
<1>4. \A x \in Of(g, Committed) : Qty[x] \in Nat
  BY <1>1, <1>3
<1>5. Sum(Qty, Of(g, Committed)) <= Sum(Qty, Of(g, Live))
  BY <1>1, <1>3, SumSubset
<1>6. QED
  BY <1>2, <1>3, <1>4, <1>5, SumNatural, UnitsAreSum

LEMMA StockNext == Inv /\ StockInv /\ [Next]_vars => StockInv'
<1> SUFFICES ASSUME Inv, StockInv, [Next]_vars PROVE StockInv'
  OBVIOUS
<1>t. /\ order \in [Order -> OrderStatus \cup {"NONE"}]
      /\ floating \in [Produce -> Int] /\ actual \in [Produce -> Int]
      /\ OrdersFollowCheckout
  BY DEF Inv, TypeOK
<1>s. \A g \in Produce : /\ IsFiniteSet(Of(g, Live)) /\ IsFiniteSet(Of(g, Committed))
                         /\ 0 <= floating[g] /\ Stock[g] \in Int
                         /\ floating[g] = Stock[g] - UnitsIn(g, Live)
                         /\ actual[g] = Stock[g] - UnitsIn(g, Committed)
                         /\ UnitsIn(g, Live) \in Int /\ UnitsIn(g, Committed) \in Int
  <2>1. ASSUME NEW g \in Produce
        PROVE  /\ IsFiniteSet(Of(g, Committed))
               /\ UnitsIn(g, Live) \in Int /\ UnitsIn(g, Committed) \in Int
    <3>1. IsFiniteSet(Of(g, Live))
      BY DEF StockInv
    <3>2. QED
      BY <3>1, CommittedIsLive
  <2>2. \A g \in Produce : /\ IsFiniteSet(Of(g, Live)) /\ 0 <= floating[g] /\ Stock[g] \in Int
                           /\ floating[g] = Stock[g] - UnitsIn(g, Live)
                           /\ actual[g] = Stock[g] - UnitsIn(g, Live \ Uncommitted)
    BY SMTT(30), IdsAssumption DEF StockInv, StockAccounted
  <2>3. QED
    BY <2>1, <2>2 DEF Committed
<1>q. \A o \in Order : Qty[o] \in Nat
  BY IdsAssumption
(* It is enough to say what each listing gains and loses.                     *)
<1>g. ASSUME \A g \in Produce :
               /\ IsFiniteSet(Of(g, Live)') /\ 0 <= floating'[g]
               /\ floating'[g] = Stock[g] - UnitsIn(g, Live)'
               /\ actual'[g] = Stock[g] - UnitsIn(g, Committed)'
      PROVE  StockInv'
  BY <1>g DEF StockInv, StockAccounted, Committed
<1>u. ASSUME UNCHANGED stockVars,
             \A o \in Order : \/ order'[o] = order[o]
                              \/ order'[o] \in Uncommitted /\ order[o] \in Uncommitted
                              \/ order'[o] \in Committed /\ order[o] \in Committed
      PROVE  StockInv'
  <2>1. Uncommitted \subseteq Live /\ Committed \subseteq Live /\ Uncommitted \cap Committed = {}
    BY DEF Uncommitted, Committed, Live, OrderStatus
  <2>2. \A g \in Produce : Of(g, Live)' = Of(g, Live) /\ Of(g, Committed)' = Of(g, Committed)
    BY <1>u, <2>1 DEF Of
  <2>3. QED
    BY <1>u, <1>s, <1>g, <2>2, UnitsStay DEF stockVars
<1>1. ASSUME NEW c \in Checkout, Place(c) PROVE StockInv'
  <2> SUFFICES ASSUME NEW g \in Produce
               PROVE  /\ IsFiniteSet(Of(g, Live)') /\ 0 <= floating'[g]
                      /\ floating'[g] = Stock[g] - UnitsIn(g, Live)'
                      /\ actual'[g] = Stock[g] - UnitsIn(g, Committed)'
    BY <1>g
  <2>1. /\ floating'[g] = floating[g] - LineOf(OrdersOf(c), g) /\ actual' = actual
        /\ \A o \in OrdersOf(c) : order[o] = "NONE" /\ order'[o] = "AWAITING_PAYMENT"
        /\ \A o \in Order \ OrdersOf(c) : order'[o] = order[o]
        /\ \A o \in OrdersOf(c) : floating[ProduceOf[o]] >= Qty[o]
    BY <1>1, <1>t DEF Place, OrdersOf, OrdersFollowCheckout
  <2>2. Of(g, Committed)' = Of(g, Committed)
    BY <2>1 DEF Of, Committed, Live, Uncommitted, OrderStatus, OrdersOf
  <2>3. CASE LineOf(OrdersOf(c), g) = 0 /\ \A o \in OrdersOf(c) : ProduceOf[o] # g
    <3>1. Of(g, Live)' = Of(g, Live)
      BY <2>1, <2>3 DEF Of
    <3>2. QED
      BY <1>s, <1>t, <2>1, <2>2, <2>3, <3>1, UnitsStay
  <2>4. ASSUME NEW o \in OrdersOf(c), ProduceOf[o] = g, LineOf(OrdersOf(c), g) = Qty[o],
               \A x \in OrdersOf(c) : ProduceOf[x] = g => x = o
        PROVE  /\ IsFiniteSet(Of(g, Live)') /\ 0 <= floating'[g]
               /\ floating'[g] = Stock[g] - UnitsIn(g, Live)'
               /\ actual'[g] = Stock[g] - UnitsIn(g, Committed)'
    <3>1. Of(g, Live)' = Of(g, Live) \cup {o} /\ o \notin Of(g, Live) /\ o \in Order
      BY <2>1, <2>4 DEF Of, Live, OrderStatus, OrdersOf
    <3>2. IsFiniteSet(Of(g, Live)') /\ UnitsIn(g, Live)' = UnitsIn(g, Live) + Qty[o]
      BY <1>s, <3>1, UnitsGain
    <3>3. floating[g] >= Qty[o] /\ Qty[o] \in Int /\ floating[g] \in Int
      BY <1>q, <1>t, <2>1, <2>4, <3>1
    <3>4. UnitsIn(g, Committed)' = UnitsIn(g, Committed)
      BY <2>2, UnitsStay
    <3>5. QED
      BY <1>s, <2>1, <2>4, <3>2, <3>3, <3>4
  <2>5. QED
    BY <2>3, <2>4, LineOfOne
<1>2. ASSUME NEW c \in Checkout, NEW outcome, checkout[c] = "AWAITING_PAYMENT",
             Release(c, outcome), UNCHANGED actual
      PROVE  StockInv'
  <2> SUFFICES ASSUME NEW g \in Produce
               PROVE  /\ IsFiniteSet(Of(g, Live)') /\ 0 <= floating'[g]
                      /\ floating'[g] = Stock[g] - UnitsIn(g, Live)'
                      /\ actual'[g] = Stock[g] - UnitsIn(g, Committed)'
    BY <1>g
  <2> DEFINE S == {o \in OrdersOf(c) : order[o] = "AWAITING_PAYMENT"}
  <2>1. /\ floating'[g] = floating[g] + LineOf(S, g)
        /\ \A o \in S : order[o] = "AWAITING_PAYMENT" /\ order'[o] = "CANCELLED"
        /\ \A o \in Order \ S : order'[o] = order[o]
        /\ S \in SUBSET OrdersOf(c) /\ S \in SUBSET Order
    BY <1>2 DEF Release, OrdersOf
  <2> HIDE DEF S
  <2>2. Of(g, Committed)' = Of(g, Committed)
    BY <2>1 DEF Of, Committed, Live, Uncommitted, OrderStatus
  <2>3. CASE LineOf(S, g) = 0 /\ \A o \in S : ProduceOf[o] # g
    <3>1. Of(g, Live)' = Of(g, Live)
      BY <2>1, <2>3 DEF Of
    <3>2. QED
      BY <1>2, <1>s, <1>t, <2>1, <2>2, <2>3, <3>1, UnitsStay
  <2>4. ASSUME NEW o \in S, ProduceOf[o] = g, LineOf(S, g) = Qty[o],
               \A x \in S : ProduceOf[x] = g => x = o
        PROVE  /\ IsFiniteSet(Of(g, Live)') /\ 0 <= floating'[g]
               /\ floating'[g] = Stock[g] - UnitsIn(g, Live)'
               /\ actual'[g] = Stock[g] - UnitsIn(g, Committed)'
    <3>1. Of(g, Live)' = Of(g, Live) \ {o} /\ o \in Of(g, Live) /\ o \in Order
      BY <2>1, <2>4 DEF Of, Live, OrderStatus
    <3>2. IsFiniteSet(Of(g, Live)') /\ UnitsIn(g, Live)' = UnitsIn(g, Live) - Qty[o]
      BY ZenonT(40), <1>s, <3>1, UnitsLose
    <3>3. Qty[o] \in Nat /\ floating[g] \in Int
      BY <1>q, <1>t, <3>1
    <3>4. UnitsIn(g, Committed)' = UnitsIn(g, Committed)
      BY <2>2, UnitsStay
    <3>5. QED
      BY <1>2, <1>s, <2>1, <2>4, <3>2, <3>3, <3>4
  <2>5. QED
    BY <2>1, <2>3, <2>4, LineOfOne
<1>3. ASSUME NEW c \in Checkout, Cancel(c) \/ Expire(c) PROVE StockInv'
  BY <1>2, <1>3 DEF Cancel, Expire
<1>4. ASSUME NEW p \in Payment, NEW v \in Verdict, ApplySuccess(p, v) PROVE StockInv'
  BY <1>4, <1>u DEF ApplySuccess, Applying, stockVars, Uncommitted
<1>5. ASSUME NEW o \in Order, Prepare(o) \/ MarkReady(o) \/ HandOver(o) PROVE StockInv'
  BY <1>5, <1>t, <1>u DEF Prepare, MarkReady, HandOver, Advance, Committed, Live, Uncommitted,
                          OrderStatus
<1>6. ASSUME NEW o \in Order, Confirm(o) PROVE StockInv'
  <2> SUFFICES ASSUME NEW g \in Produce
               PROVE  /\ IsFiniteSet(Of(g, Live)') /\ 0 <= floating'[g]
                      /\ floating'[g] = Stock[g] - UnitsIn(g, Live)'
                      /\ actual'[g] = Stock[g] - UnitsIn(g, Committed)'
    BY <1>g
  <2>1. /\ order[o] = "PENDING" /\ order'[o] = "CONFIRMED" /\ floating' = floating
        /\ \A x \in Order : x # o => order'[x] = order[x]
        /\ ProduceOf[o] = g => actual'[g] = actual[g] - Qty[o]
        /\ ProduceOf[o] # g => actual'[g] = actual[g]
    BY <1>6, <1>t DEF Confirm, Advance
  <2>2. Of(g, Live)' = Of(g, Live)
    BY <2>1 DEF Of, Live, OrderStatus
  <2>3. CASE ProduceOf[o] # g
    <3>1. Of(g, Committed)' = Of(g, Committed)
      BY <2>1, <2>3 DEF Of
    <3>2. QED
      BY <1>s, <2>1, <2>2, <2>3, <3>1, UnitsStay
  <2>4. CASE ProduceOf[o] = g
    <3>1. Of(g, Committed)' = Of(g, Committed) \cup {o} /\ o \notin Of(g, Committed)
      BY <2>1, <2>4 DEF Of, Committed, Live, Uncommitted, OrderStatus
    <3>2. UnitsIn(g, Committed)' = UnitsIn(g, Committed) + Qty[o]
      BY <1>s, <3>1, UnitsGain
    <3>3. UnitsIn(g, Live)' = UnitsIn(g, Live) /\ Qty[o] \in Int
      BY <1>q, <2>2, UnitsStay
    <3>4. QED
      BY <1>s, <2>1, <2>2, <2>4, <3>2, <3>3
  <2>5. QED
    BY <2>3, <2>4
<1>7. ASSUME NEW o \in Order, CancelOrder(o) PROVE StockInv'
  <2> SUFFICES ASSUME NEW g \in Produce
               PROVE  /\ IsFiniteSet(Of(g, Live)') /\ 0 <= floating'[g]
                      /\ floating'[g] = Stock[g] - UnitsIn(g, Live)'
                      /\ actual'[g] = Stock[g] - UnitsIn(g, Committed)'
    BY <1>g
  <2>1. /\ order[o] \in {"PENDING", "CONFIRMED", "PREPARING"} /\ order'[o] = "CANCELLED"
        /\ \A x \in Order : x # o => order'[x] = order[x]
        /\ ProduceOf[o] = g => floating'[g] = floating[g] + Qty[o]
        /\ ProduceOf[o] # g => floating'[g] = floating[g] /\ actual'[g] = actual[g]
        /\ order[o] \in Uncommitted => actual' = actual
        /\ order[o] \notin Uncommitted /\ ProduceOf[o] = g => actual'[g] = actual[g] + Qty[o]
    BY <1>7, <1>t DEF CancelOrder, Advance
  <2>2. CASE ProduceOf[o] # g
    <3>1. Of(g, Live)' = Of(g, Live) /\ Of(g, Committed)' = Of(g, Committed)
      BY <2>1, <2>2 DEF Of
    <3>2. QED
      BY <1>s, <2>1, <2>2, <3>1, UnitsStay
  <2>3. CASE ProduceOf[o] = g
    <3>1. Of(g, Live)' = Of(g, Live) \ {o} /\ o \in Of(g, Live)
      BY <2>1, <2>3 DEF Of, Live, OrderStatus
    <3>a. IsFiniteSet(Of(g, Live))
      BY <1>s
    <3>2. IsFiniteSet(Of(g, Live)') /\ UnitsIn(g, Live)' = UnitsIn(g, Live) - Qty[o]
      BY <3>a, <3>1, UnitsLose
    <3>3. Qty[o] \in Nat /\ floating[g] \in Int
      BY <1>q, <1>t
    <3>4. 0 <= floating'[g] /\ floating'[g] = Stock[g] - UnitsIn(g, Live)'
      BY <1>s, <2>1, <2>3, <3>2, <3>3
    <3>5. CASE order[o] \in Uncommitted
      <4>1. Of(g, Committed)' = Of(g, Committed)
        BY <2>1, <3>5 DEF Of, Committed, Live, OrderStatus
      <4>2. QED
        BY <1>s, <2>1, <3>2, <3>4, <3>5, <4>1, UnitsStay
    <3>6. CASE order[o] \notin Uncommitted
      <4>1. Of(g, Committed)' = Of(g, Committed) \ {o} /\ o \in Of(g, Committed)
        BY <2>1, <2>3, <3>6 DEF Of, Committed, Live, OrderStatus
      <4>2. UnitsIn(g, Committed)' = UnitsIn(g, Committed) - Qty[o]
        BY <1>s, <4>1, UnitsLose
      <4>3. actual'[g] = actual[g] + Qty[o]
        BY <2>1, <2>3, <3>6
      <4>4. actual'[g] = Stock[g] - UnitsIn(g, Committed)'
        BY <1>s, <3>3, <4>2, <4>3
      <4>5. QED
        BY <3>2, <3>4, <4>4
    <3>7. QED
      BY <3>5, <3>6
  <2>4. QED
    BY <2>2, <2>3
<1>8. CASE UNCHANGED <<order, stockVars>>
  BY <1>8, <1>u
<1>9. QED
  BY <1>1, <1>3, <1>4, <1>5, <1>6, <1>7, <1>8
  DEF Next, vars, stockVars, moneyVars, HoldRunsOut, ExpireSkip, Scan, Initiate, OpenAnswered,
      OpenFailed, PaystackOpens, PaystackCharges, Verify, Apply, ApplyFailure, ApplyNothing,
      ApplyOrphan, Applying, Crash

(* Every unit a listing has lost is held by an order of it, for any number   *)
(* of checkouts, orders and listings.                                        *)
THEOREM SpecStockAccounted == Spec => []StockAccounted
<1>1. Inv /\ StockInv /\ [Next]_vars => Inv' /\ StockInv'
  BY NextInv, StockNext
<1>2. StockInv => StockAccounted
  BY DEF StockInv
<1>3. QED
  BY InitInv, StockInit, <1>1, <1>2, PTL DEF Spec

(* No write of a checkout or of an order is refused by the CHECKs of Produce. *)
THEOREM SpecStockWithinBounds == Spec => []StockWithinBounds
<1>1. Inv /\ StockInv /\ [Next]_vars => Inv' /\ StockInv'
  BY NextInv, StockNext
<1>2. StockInv => StockWithinBounds
  <2> SUFFICES ASSUME StockInv, NEW g \in Produce PROVE 0 <= floating[g] /\ floating[g] <= actual[g]
    BY DEF StockWithinBounds
  <2>1. /\ 0 <= floating[g] /\ IsFiniteSet(Of(g, Live)) /\ Stock[g] \in Int
        /\ floating[g] = Stock[g] - UnitsIn(g, Live)
        /\ actual[g] = Stock[g] - UnitsIn(g, Committed)
    BY IdsAssumption DEF StockInv, StockAccounted, Committed
  <2>2. QED
    BY <2>1, CommittedIsLive
<1>3. QED
  BY InitInv, StockInit, <1>1, <1>2, PTL DEF Spec
=============================================================================
