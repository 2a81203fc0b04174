------------------------------- MODULE Refunds ------------------------------
(***************************************************************************)
(* The refunds of one payment.  An admin refunds a cancelled order or      *)
(* whatever is left of the payment; money that could not be applied goes   *)
(* back by itself.  The row is committed PENDING under the lock            *)
(* payment:{id}, Paystack is asked afterwards, and Paystack's result comes *)
(* as a webhook event, perhaps before its answer, perhaps twice.           *)
(*                                                                         *)
(* An event carries Paystack's id of the refund, which the row does not    *)
(* have until submit has stored it.                                        *)
(***************************************************************************)
EXTENDS Integers, FiniteSetsExt

CONSTANTS
  MaxRefunds,   \* bound: refund rows of the payment
  MaxResults,   \* bound: webhook results being applied at once
  Order,        \* orders of the checkout
  Share,        \* what is refunded for an order
  Charged,      \* Payment.chargedAmount
  Whole         \* in place of an order: the balance of the payment

Refund == 1..MaxRefunds

RefundsAssumption ==
  /\ MaxRefunds \in Nat
  /\ MaxResults \in Nat
  /\ Share \in [Order -> Nat \ {0}]
  /\ Charged \in Nat
  /\ Whole \notin Order

VARIABLES
  orphaned,     \* Payment.status is ORPHANED, else SUCCEEDED
  cancelled,    \* orders that are CANCELLED
  refund,       \* Refund.status; "NONE" before the row is created
  of,           \* Refund.orderId, or Whole
  amount,       \* Refund.amount
  identified,   \* rows whose providerRefundId is stored
  submitting,   \* server memory: rows with a submit under way
  results,      \* server memory: results read, with the row they are for
  provider      \* Paystack: what became of the request made for a row

server == <<submitting, results>>
vars == <<orphaned, cancelled, refund, of, amount, identified, server, provider>>

RefundStatus == {"NONE", "PENDING", "PROCESSED", "FAILED"}
ProviderStatus == {"none", "asked", "refused", "taken", "processed", "failed"}
Result == [about : Refund, outcome : {"PROCESSED", "FAILED"}, row : Refund]

(* Broken on purpose: a refund under way no longer holds its share.        *)
DoneOnly == {"PROCESSED"}

LiveStatus == {"PENDING", "PROCESSED"}
LiveRefunds == {r \in Refund : refund[r] \in LiveStatus}
Remaining == Charged - MapThenSumSet(LAMBDA r : amount[r], LiveRefunds)

(* The amounts are the subject of WithinCharged.                           *)
TypeOK ==
  /\ orphaned \in BOOLEAN
  /\ cancelled \subseteq Order
  /\ refund \in [Refund -> RefundStatus]
  /\ of \in [Refund -> Order \cup {Whole}]
  /\ identified \subseteq Refund
  /\ submitting \subseteq Refund
  /\ results \subseteq Result
  /\ provider \in [Refund -> ProviderStatus]

(* applyVerifiedCharge has settled the payment.  If it orphaned it,        *)
(* createAutomatic has added a refund of it all in the same transaction.   *)
Init ==
  /\ orphaned \in BOOLEAN
  /\ cancelled = {}
  /\ refund = [r \in Refund |-> IF orphaned /\ r = 1 THEN "PENDING" ELSE "NONE"]
  /\ of = [r \in Refund |-> Whole]
  /\ amount = [r \in Refund |-> IF orphaned /\ r = 1 THEN Charged ELSE 0]
  /\ identified = {}
  /\ submitting = {r \in Refund : orphaned /\ r = 1}
  /\ results = {}
  /\ provider = [r \in Refund |-> "none"]

-----------------------------------------------------------------------------
(* The admin                                                               *)

(* A paid order is cancelled (OrderService.cancel).                        *)
CancelOrder(o) ==
  /\ ~orphaned
  /\ o \notin cancelled
  /\ cancelled' = cancelled \cup {o}
  /\ UNCHANGED <<orphaned, refund, of, amount, identified, server, provider>>

(* RefundService.refund: rows are created in turn, 1 the oldest.           *)
Create(r, what, sum) ==
  /\ refund[r] = "NONE"
  /\ \A q \in 1..(r - 1) : refund[q] # "NONE"
  /\ Remaining > 0
  /\ sum <= Remaining
  /\ refund' = [refund EXCEPT ![r] = "PENDING"]
  /\ of' = [of EXCEPT ![r] = what]
  /\ amount' = [amount EXCEPT ![r] = sum]
  /\ submitting' = submitting \cup {r}
  /\ UNCHANGED <<orphaned, cancelled, identified, results, provider>>

RefundOrder(r, o) ==
  /\ ~orphaned
  /\ o \in cancelled
  /\ \A q \in LiveRefunds : of[q] # o
  /\ Create(r, o, Share[o])

RefundRest(r) == Create(r, Whole, Remaining)

-----------------------------------------------------------------------------
(* submit, after the commit                                                *)

Ask(r) ==
  /\ r \in submitting
  /\ provider[r] = "none"
  /\ provider' = [provider EXCEPT ![r] = "asked"]
  /\ UNCHANGED <<orphaned, cancelled, refund, of, amount, identified, server>>

SubmitAnswered(r) ==
  /\ r \in submitting
  /\ provider[r] \in {"taken", "processed", "failed"}
  /\ identified' = identified \cup {r}
  /\ submitting' = submitting \ {r}
  /\ UNCHANGED <<orphaned, cancelled, refund, of, amount, results, provider>>

(* "The webhook may already have settled it."                              *)
Refuse(r) == [refund EXCEPT ![r] = IF @ = "PENDING" THEN "FAILED" ELSE @]

(* A 4xx other than 408: Paystack has refused.                             *)
SubmitRefused(r) ==
  /\ r \in submitting
  /\ provider[r] = "asked"
  /\ provider' = [provider EXCEPT ![r] = "refused"]
  /\ refund' = Refuse(r)
  /\ submitting' = submitting \ {r}
  /\ UNCHANGED <<orphaned, cancelled, of, amount, identified, results>>

(* Broken on purpose: an unknown outcome is taken for a refusal.           *)
SubmitGivesUp(r) ==
  /\ r \in submitting
  /\ provider[r] # "none"
  /\ refund' = Refuse(r)
  /\ submitting' = submitting \ {r}
  /\ UNCHANGED <<orphaned, cancelled, of, amount, identified, results, provider>>

(* Unreachable, a timeout, a 5xx: the row stays as it is.                  *)
SubmitUnknown(r) ==
  /\ r \in submitting
  /\ provider[r] # "none"
  /\ submitting' = submitting \ {r}
  /\ UNCHANGED <<orphaned, cancelled, refund, of, amount, identified, results, provider>>

-----------------------------------------------------------------------------
(* Paystack, also after the server has given up waiting                    *)

ProviderTakes(r) ==
  /\ provider[r] = "asked"
  /\ provider' = [provider EXCEPT ![r] = "taken"]
  /\ UNCHANGED <<orphaned, cancelled, refund, of, amount, identified, server>>

ProviderSettles(r) ==
  /\ provider[r] = "taken"
  /\ \E v \in {"processed", "failed"} : provider' = [provider EXCEPT ![r] = v]
  /\ UNCHANGED <<orphaned, cancelled, refund, of, amount, identified, server>>

-----------------------------------------------------------------------------
(* applyResult, for a refund.processed or refund.failed event, which is    *)
(* delivered at least once                                                 *)

Outcome(r) == IF provider[r] = "processed" THEN "PROCESSED" ELSE "FAILED"

(* findForResult: by Paystack's id, else the oldest PENDING refund; an     *)
(* event need not have the id.                                             *)
FoundFor(r) ==
  LET pending == {q \in Refund : refund[q] = "PENDING"}
      oldest == {q \in pending : \A p \in pending : q <= p}
  IN ({r} \cap identified) \cup oldest

ResultRead(r) ==
  /\ provider[r] \in {"processed", "failed"}
  /\ Cardinality(results) < MaxResults
  /\ \E row \in FoundFor(r) :
       /\ refund[row] = "PENDING"
       /\ results' = results \cup {[about |-> r, outcome |-> Outcome(r), row |-> row]}
  /\ UNCHANGED <<orphaned, cancelled, refund, of, amount, identified, submitting,
                 provider>>

(* UPDATE ... WHERE status = PENDING                                       *)
ResultWrite(x) ==
  /\ x \in results
  /\ results' = results \ {x}
  /\ refund' = [refund EXCEPT ![x.row] = IF @ = "PENDING" THEN x.outcome ELSE @]
  /\ UNCHANGED <<orphaned, cancelled, of, amount, identified, submitting, provider>>

(* The server dies.  The queue delivers events again, nothing submits a    *)
(* row again.                                                              *)
Crash ==
  /\ submitting # {} \/ results # {}
  /\ submitting' = {}
  /\ results' = {}
  /\ UNCHANGED <<orphaned, cancelled, refund, of, amount, identified, provider>>

Next ==
  \/ \E o \in Order : CancelOrder(o)
  \/ \E r \in Refund :
       \/ RefundRest(r)
       \/ \E o \in Order : RefundOrder(r, o)
       \/ Ask(r) \/ SubmitAnswered(r) \/ SubmitRefused(r) \/ SubmitUnknown(r)
       \/ ProviderTakes(r) \/ ProviderSettles(r)
       \/ ResultRead(r)
  \/ \E x \in results : ResultWrite(x)
  \/ Crash

Spec == Init /\ [][Next]_vars

-----------------------------------------------------------------------------
(* What is refunded or on its way never exceeds what was charged, through  *)
(* any number of refunds by order, of the rest, and again after failures.  *)
WithinCharged == Remaining >= 0

(* An order has at most one refund that is on its way or done.             *)
OneLivePerOrder ==
  \A o \in Order, r, q \in Refund :
    of[r] = o /\ of[q] = o /\ r \in LiveRefunds /\ q \in LiveRefunds => r = q

(* The first result is final: neither a duplicate, a late event nor a late *)
(* refusal of the request changes a settled refund.                        *)
FirstResultStays ==
  [][\A r \in Refund : refund[r] \in {"PROCESSED", "FAILED"} =>
       refund'[r] = refund[r]]_vars

(* As long as a payment has a single refund, its row says what happened at *)
(* Paystack: PROCESSED only if the buyer has the money, FAILED only if the *)
(* buyer will not get it, whenever the event comes and whatever became of  *)
(* the answer.                                                             *)
LoneRefundTrue ==
  (\A r \in Refund : r # 1 => refund[r] = "NONE") =>
    \A r \in Refund :
      /\ refund[r] = "PROCESSED" => provider[r] = "processed"
      /\ refund[r] = "FAILED" => provider[r] \in {"refused", "failed"}
=============================================================================
