------------------------------ MODULE Payouts -------------------------------
(***************************************************************************)
(* Paying farmers for fulfilled orders.  approve goes through the farmers  *)
(* it is given in sorted order, takes the lock payout:farmer:{id} of each, *)
(* and creates one payout per farmer in one transaction; after the commit  *)
(* all of them go to Paystack in one bulk transfer, and Paystack reports   *)
(* on each by webhook.  A refund of a checkout in full takes the same      *)
(* locks, in the same order, before it looks for payouts.                  *)
(*                                                                         *)
(* A PayoutItem has its payout's status, always written in the same        *)
(* transaction, so one variable stands for both.  Nothing in the code      *)
(* fulfils an order: that is left to the outside.                          *)
(***************************************************************************)
EXTENDS Integers, FiniteSets

CONSTANTS
  Order,       \* orders of PAID checkouts
  Farmers,     \* how many farmers, numbered in the order of their ids
  FarmerOf,    \* the farmer an order is on
  Checkout,
  CheckoutOf,  \* the checkout an order belongs to
  Approval,    \* calls of approve
  MaxPayouts,  \* bound: payout rows
  FirstAccount, \* the account each farmer starts with, 0 if none
  MaxAccounts, \* bound: accounts a farmer sets in turn
  Nothing      \* no call under way, no holder

Farmer == 1..Farmers
Payout == 1..MaxPayouts
Account == 0..MaxAccounts   \* 0: none set

ASSUME PayoutsAssumption ==
  /\ Farmers \in Nat
  /\ FarmerOf \in [Order -> Farmer]
  /\ CheckoutOf \in [Order -> Checkout]
  /\ MaxPayouts \in Nat
  /\ MaxAccounts \in Nat
  /\ FirstAccount \in [Farmer -> Account]
  /\ Approval \cap Checkout = {}
  /\ Nothing \notin Approval \cup Checkout

VARIABLES
  ripe,      \* orders FULFILLED for holdHours
  account,   \* FarmerBankAccount: which of the accounts set so far
  held,      \* farmers whose payoutsHeldUntil is to come
  whole,     \* per checkout: its latest refund of the whole balance
  status,    \* Payout.status and its items'; UNCOMMITTED before the commit
  items,     \* the orders of a payout
  paidTo,    \* the account a payout goes to
  approval,  \* calls of approve under way
  refunding, \* full refunds under way: the farmers they have yet to lock
  holder,    \* who holds payout:farmer:{id}
  provider,  \* Paystack: what became of a payout's transfer
  cleared    \* history: the account a farmer had when his orders were last
             \* read to be paid, or 0 if a change of it was recent then

books == <<ripe, account, held, whole>>
rows == <<status, items, paidTo>>
calls == <<approval, refunding, holder>>
vars == <<books, rows, calls, provider, cleared>>

PayoutStatus == {"PENDING", "SUCCEEDED", "FAILED", "REVERSED"}
RefundStatus == {"NONE", "PENDING", "PROCESSED", "FAILED"}
ProviderStatus == {"none", "asked", "refused", "taken", "paid", "failed", "reversed"}

(* What a call of approve has in hand: the farmers to go, the orders that  *)
(* were due when it began, the account and the orders of the farmer it is  *)
(* at, the payouts made.                                                   *)
Call == [todo : SUBSET Farmer, due : SUBSET Order, account : Account,
         orders : SUBSET Order, made : SUBSET Payout,
         phase : {"lock", "read", "create", "send", "sent"}]

ASSUME NothingAssumption == Nothing \notin Call /\ \A S \in SUBSET Farmer : Nothing # S

Live == {"PENDING", "SUCCEEDED"}
LiveRefund == {"PENDING", "PROCESSED"}

TypeOK ==
  /\ ripe \subseteq Order
  /\ account \in [Farmer -> Account]
  /\ held \subseteq Farmer
  /\ whole \in [Checkout -> RefundStatus]
  /\ status \in [Payout -> {"NONE", "UNCOMMITTED"} \cup PayoutStatus]
  /\ items \in [Payout -> SUBSET Order]
  /\ paidTo \in [Payout -> Account]
  /\ approval \in [Approval -> Call \cup {Nothing}]
  /\ refunding \in [Checkout -> (SUBSET Farmer) \cup {Nothing}]
  /\ holder \in [Farmer -> Approval \cup Checkout \cup {Nothing}]
  /\ provider \in [Payout -> ProviderStatus]
  /\ cleared \in [Farmer -> Account]

Init ==
  /\ ripe = {}
  /\ account = FirstAccount
  /\ held = {}
  /\ whole = [c \in Checkout |-> "NONE"]
  /\ status = [p \in Payout |-> "NONE"]
  /\ items = [p \in Payout |-> {}]
  /\ paidTo = [p \in Payout |-> 0]
  /\ approval = [a \in Approval |-> Nothing]
  /\ refunding = [c \in Checkout |-> Nothing]
  /\ holder = [f \in Farmer |-> Nothing]
  /\ provider = [p \in Payout |-> "none"]
  /\ cleared = [f \in Farmer |-> 0]

----------------------------------------------------------------------------
(* Orders and accounts.                                                    *)

(* Logistics fulfils an order and the hold on it passes.                   *)
Ripen(o) ==
  /\ o \notin ripe
  /\ ripe' = ripe \cup {o}
  /\ UNCHANGED <<account, held, whole, rows, calls, provider, cleared>>

(* Setting a bank account holds the farmer's payouts from now on.  It      *)
(* takes no lock: an approval of the farmer's orders may be under way.     *)
SetAccount(f) ==
  /\ account[f] < MaxAccounts
  /\ account' = [account EXCEPT ![f] = @ + 1]
  /\ held' = held \cup {f}
  /\ UNCHANGED <<ripe, whole, rows, calls, provider, cleared>>

InTransaction(a) ==
  /\ approval[a] # Nothing
  /\ approval[a].phase \in {"lock", "read", "create"}

(* A day has passed since: longer than any transaction lasts, so none that *)
(* began before the account was set is still open.                         *)
HoldEnds(f) ==
  /\ f \in held
  /\ \A a \in Approval : InTransaction(a) =>
       \A o \in approval[a].due : FarmerOf[o] # f
  /\ held' = held \ {f}
  /\ UNCHANGED <<ripe, account, whole, rows, calls, provider, cleared>>

----------------------------------------------------------------------------
(* Approval.                                                               *)

(* Broken on purpose: the farmers are taken as they come.                  *)
Unsorted(S, f) == f \in S

(* Sorted so concurrent transactions take the locks in one order.          *)
First(S, f) == f \in S /\ \A g \in S : f <= g

Unlocked(x) == [f \in Farmer |-> IF holder[f] = x THEN Nothing ELSE holder[f]]

LiveItem(o) == \E p \in Payout : o \in items[p] /\ status[p] \in Live

(* Broken on purpose: the hold counts as it was when the call began.       *)
EligibleAtFirst(due, f) ==
  {o \in due : /\ FarmerOf[o] = f
               /\ whole[CheckoutOf[o]] \notin LiveRefund
               /\ ~LiveItem(o)}

(* The orders of f to pay out, of those due when the call began.           *)
Eligible(due, f) ==
  {o \in due : /\ FarmerOf[o] = f
               /\ f \notin held
               /\ whole[CheckoutOf[o]] \notin LiveRefund
               /\ ~LiveItem(o)}

ApproveBegin(a) ==
  /\ approval[a] = Nothing
  /\ \E S \in (SUBSET Farmer) \ {{}} :
       approval' = [approval EXCEPT ![a] =
         [todo |-> S, due |-> {o \in ripe : FarmerOf[o] \notin held},
          account |-> 0, orders |-> {}, made |-> {}, phase |-> "lock"]]
  /\ UNCHANGED <<books, rows, refunding, holder, provider, cleared>>

(* The next farmer's lock, once it is free, and then the farmer's account. *)
ApproveLock(a) ==
  /\ approval[a] # Nothing /\ approval[a].phase = "lock"
  /\ \E f \in Farmer :
       /\ First(approval[a].todo, f)
       /\ holder[f] = Nothing
       /\ holder' = [holder EXCEPT ![f] = a]
       /\ approval' = [approval EXCEPT ![a] = [@ EXCEPT !.account = account[f], !.phase = "read"]]
  /\ UNCHANGED <<books, rows, refunding, provider, cleared>>

(* The farmer's orders are read, or he is skipped for want of an account   *)
(* or of orders.                                                           *)
ApproveRead(a) ==
  /\ approval[a] # Nothing /\ approval[a].phase = "read"
  /\ \E f \in Farmer :
       /\ First(approval[a].todo, f)
       /\ LET call == approval[a]
              orders == IF call.account = 0 THEN {} ELSE Eligible(call.due, f)
          IN IF orders = {}
             THEN /\ approval' = [approval EXCEPT ![a] =
                       [call EXCEPT !.todo = @ \ {f}, !.phase = "lock"]]
                  /\ UNCHANGED cleared
             ELSE /\ approval' = [approval EXCEPT ![a] =
                       [call EXCEPT !.orders = orders, !.phase = "create"]]
                  /\ cleared' = [cleared EXCEPT ![f] = IF f \in held THEN 0 ELSE account[f]]
  /\ UNCHANGED <<books, rows, refunding, holder, provider>>

FreeRow(p) == status[p] = "NONE" /\ \A q \in 1..(p - 1) : status[q] # "NONE"

(* They become a payout to the account read before.                        *)
ApproveCreate(a) ==
  /\ approval[a] # Nothing /\ approval[a].phase = "create"
  /\ \E f \in Farmer, p \in Payout :
       /\ First(approval[a].todo, f)
       /\ FreeRow(p)
       /\ status' = [status EXCEPT ![p] = "UNCOMMITTED"]
       /\ items' = [items EXCEPT ![p] = approval[a].orders]
       /\ paidTo' = [paidTo EXCEPT ![p] = approval[a].account]
       /\ approval' = [approval EXCEPT ![a] =
            [approval[a] EXCEPT !.todo = @ \ {f}, !.orders = {}, !.made = @ \cup {p},
                                !.phase = "lock"]]
  /\ UNCHANGED <<books, refunding, holder, provider, cleared>>

(* The payouts are in the books; the caller goes on to Paystack with them. *)
ApproveCommit(a) ==
  /\ approval[a] # Nothing /\ approval[a].phase = "lock" /\ approval[a].todo = {}
  /\ status' = [p \in Payout |-> IF p \in approval[a].made THEN "PENDING" ELSE status[p]]
  /\ approval' = [approval EXCEPT ![a] =
       IF @.made = {} THEN Nothing ELSE [@ EXCEPT !.account = 0, !.due = {}, !.phase = "send"]]
  /\ holder' = Unlocked(a)
  /\ UNCHANGED <<books, items, paidTo, refunding, provider, cleared>>

(* What is left of the rows when the transactions of gone are rolled back. *)
RolledBack(gone) ==
  /\ status' = [p \in Payout |-> IF p \in gone THEN "NONE" ELSE status[p]]
  /\ items' = [p \in Payout |-> IF p \in gone THEN {} ELSE items[p]]
  /\ paidTo' = [p \in Payout |-> IF p \in gone THEN 0 ELSE paidTo[p]]

(* The transaction times out or fails.                                     *)
ApproveAborts(a) ==
  /\ InTransaction(a)
  /\ RolledBack(approval[a].made)
  /\ approval' = [approval EXCEPT ![a] = Nothing]
  /\ holder' = Unlocked(a)
  /\ UNCHANGED <<books, refunding, provider, cleared>>

----------------------------------------------------------------------------
(* The bulk transfer, after the commit.                                    *)

Sending(a, phase) == approval[a] # Nothing /\ approval[a].phase = phase

Done(a) == approval' = [approval EXCEPT ![a] = Nothing]

Send(a) ==
  /\ Sending(a, "send")
  /\ provider' = [p \in Payout |-> IF p \in approval[a].made THEN "asked" ELSE provider[p]]
  /\ approval' = [approval EXCEPT ![a] = [@ EXCEPT !.phase = "sent"]]
  /\ UNCHANGED <<books, rows, refunding, holder, cleared>>

(* The request gets nowhere; to the caller its outcome is unknown.         *)
SendUnreached(a) ==
  /\ Sending(a, "send")
  /\ Done(a)
  /\ UNCHANGED <<books, rows, refunding, holder, provider, cleared>>

(* Paystack answers, or does not: the payouts stay PENDING either way.     *)
SendEnds(a) ==
  /\ Sending(a, "sent")
  /\ Done(a)
  /\ UNCHANGED <<books, rows, refunding, holder, provider, cleared>>

(* A definite rejection fails those of them that are still PENDING.        *)
SendRefused(a) ==
  /\ Sending(a, "sent")
  /\ \A p \in approval[a].made : provider[p] = "refused"
  /\ status' = [p \in Payout |-> IF p \in approval[a].made /\ status[p] = "PENDING"
                                 THEN "FAILED" ELSE status[p]]
  /\ Done(a)
  /\ UNCHANGED <<books, items, paidTo, refunding, holder, provider, cleared>>

(* Paystack takes the transfers of a request or refuses them all, and      *)
(* pays, fails or, once paid, reverses each.                               *)
ProviderRefuses(a) ==
  /\ Sending(a, "sent")
  /\ \A p \in approval[a].made : provider[p] = "asked"
  /\ provider' = [p \in Payout |-> IF p \in approval[a].made THEN "refused" ELSE provider[p]]
  /\ UNCHANGED <<books, rows, calls, cleared>>

ProviderMoves(p, from, to) ==
  /\ provider[p] = from
  /\ provider' = [provider EXCEPT ![p] = to]
  /\ UNCHANGED <<books, rows, calls, cleared>>

ProviderTakes(p) == ProviderMoves(p, "asked", "taken")
ProviderPays(p) == ProviderMoves(p, "taken", "paid")
ProviderFails(p) == ProviderMoves(p, "taken", "failed")
ProviderReverses(p) == ProviderMoves(p, "paid", "reversed")

----------------------------------------------------------------------------
(* transfer.success, transfer.failed, transfer.reversed: each may come     *)
(* late, more than once and after a later one.                             *)

OutcomeStatus(outcome) ==
  [paid |-> "SUCCEEDED", failed |-> "FAILED", reversed |-> "REVERSED"][outcome]

Reported(p, outcome) ==
  \/ provider[p] = outcome
  \/ provider[p] = "reversed" /\ outcome = "paid"

(* Broken on purpose: a failure is logged and left at that.                *)
ApplyTransferUnlessFailed(p, outcome) ==
  /\ Reported(p, outcome) /\ outcome # "failed"
  /\ \/ status[p] = "PENDING"
     \/ status[p] = "SUCCEEDED" /\ OutcomeStatus(outcome) = "REVERSED"
  /\ status' = [status EXCEPT ![p] = OutcomeStatus(outcome)]
  /\ UNCHANGED <<books, items, paidTo, calls, provider, cleared>>

(* PENDING settles any way; a success can still be reversed by the bank.   *)
ApplyTransfer(p, outcome) ==
  /\ Reported(p, outcome)
  /\ \/ status[p] = "PENDING"
     \/ status[p] = "SUCCEEDED" /\ OutcomeStatus(outcome) = "REVERSED"
  /\ status' = [status EXCEPT ![p] = OutcomeStatus(outcome)]
  /\ UNCHANGED <<books, items, paidTo, calls, provider, cleared>>

----------------------------------------------------------------------------
(* A refund of the whole balance of a checkout, holding payment:{id}.      *)

RefundBegin(c) ==
  /\ refunding[c] = Nothing
  /\ refunding' = [refunding EXCEPT ![c] = {FarmerOf[o] : o \in {q \in Order : CheckoutOf[q] = c}}]
  /\ UNCHANGED <<books, rows, approval, holder, provider, cleared>>

RefundLock(c) ==
  /\ refunding[c] # Nothing
  /\ \E f \in Farmer :
       /\ First(refunding[c], f)
       /\ holder[f] = Nothing
       /\ holder' = [holder EXCEPT ![f] = c]
       /\ refunding' = [refunding EXCEPT ![c] = @ \ {f}]
  /\ UNCHANGED <<books, rows, approval, provider, cleared>>

RefundEnds(c) ==
  /\ refunding' = [refunding EXCEPT ![c] = Nothing]
  /\ holder' = Unlocked(c)
  /\ UNCHANGED <<ripe, account, held, rows, approval, provider, cleared>>

(* Broken on purpose: the payouts are looked for before the locks.         *)
RefundDecideUnlocked(c) ==
  /\ refunding[c] # Nothing
  /\ \A o \in Order : CheckoutOf[o] = c => ~LiveItem(o)
  /\ whole[c] \notin LiveRefund
  /\ whole' = [whole EXCEPT ![c] = "PENDING"]
  /\ RefundEnds(c)

(* The balance is asked back unless a payout lives or nothing is left.     *)
RefundDecide(c) ==
  /\ refunding[c] = {}
  /\ \A o \in Order : CheckoutOf[o] = c => ~LiveItem(o)
  /\ whole[c] \notin LiveRefund
  /\ whole' = [whole EXCEPT ![c] = "PENDING"]
  /\ RefundEnds(c)

(* Turned down, timed out or failed.                                       *)
RefundAborts(c) ==
  /\ refunding[c] # Nothing
  /\ UNCHANGED whole
  /\ RefundEnds(c)

(* The refund's own result, from Refunds.                                  *)
WholeSettles(c) ==
  /\ whole[c] = "PENDING"
  /\ \E result \in {"PROCESSED", "FAILED"} : whole' = [whole EXCEPT ![c] = result]
  /\ UNCHANGED <<ripe, account, held, rows, calls, provider, cleared>>

----------------------------------------------------------------------------
(* The server goes down: calls are gone and open transactions roll back.   *)
Crash ==
  /\ RolledBack({p \in Payout : status[p] = "UNCOMMITTED"})
  /\ approval' = [a \in Approval |-> Nothing]
  /\ refunding' = [c \in Checkout |-> Nothing]
  /\ holder' = [f \in Farmer |-> Nothing]
  /\ UNCHANGED <<books, provider, cleared>>

Approve(a) ==
  ApproveBegin(a) \/ ApproveLock(a) \/ ApproveRead(a) \/ ApproveCreate(a) \/ ApproveCommit(a) \/ ApproveAborts(a)

Submit(a) == Send(a) \/ SendUnreached(a) \/ SendEnds(a) \/ SendRefused(a)

Provider(p) ==
  ProviderTakes(p) \/ ProviderPays(p) \/ ProviderFails(p) \/ ProviderReverses(p)

Events(p) == \E outcome \in {"paid", "failed", "reversed"} : ApplyTransfer(p, outcome)

Refunding(c) ==
  RefundBegin(c) \/ RefundLock(c) \/ RefundDecide(c) \/ RefundAborts(c) \/ WholeSettles(c)

Next ==
  \/ \E o \in Order : Ripen(o)
  \/ \E f \in Farmer : SetAccount(f) \/ HoldEnds(f)
  \/ \E a \in Approval : Approve(a) \/ Submit(a) \/ ProviderRefuses(a)
  \/ \E p \in Payout : Provider(p) \/ Events(p)
  \/ \E c \in Checkout : Refunding(c)
  \/ Crash

Spec == Init /\ [][Next]_vars

(* Paystack works on what it took, and its events are retried until they   *)
(* are handled; nothing makes a buyer, an admin or a lost request move.    *)
Fairness ==
  /\ \A a \in Approval : WF_vars(Submit(a))
  /\ \A p \in Payout :
       /\ WF_vars(ProviderTakes(p))
       /\ WF_vars(ProviderPays(p) \/ ProviderFails(p))
       /\ WF_vars(Events(p))

FairSpec == Spec /\ Fairness

----------------------------------------------------------------------------
(* An order is in at most one payout that is on its way or done, committed *)
(* or not: the farmers' locks keep approvals of one farmer apart, and the  *)
(* index that would stop a second one never has to.                        *)
OrderInOnePayout ==
  \A p, q \in Payout :
    /\ status[p] \in Live \cup {"UNCOMMITTED"}
    /\ status[q] \in Live \cup {"UNCOMMITTED"}
    /\ items[p] \cap items[q] # {}
    => p = q

(* The buyer's money back and the farmer's money out: never both for an    *)
(* order, whichever of the two is decided first.                           *)
PaidOrRefunded ==
  \A o \in Order : LiveItem(o) => whole[CheckoutOf[o]] \notin LiveRefund

(* The books say of a transfer nothing that Paystack did not do; as long   *)
(* as Paystack may still pay, they do not say FAILED or REVERSED.          *)
StatusTrue ==
  \A p \in Payout :
    /\ status[p] = "SUCCEEDED" => provider[p] \in {"paid", "reversed"}
    /\ status[p] = "FAILED" => provider[p] \in {"refused", "failed"}
    /\ status[p] = "REVERSED" => provider[p] = "reversed"
    /\ status[p] \in {"NONE", "UNCOMMITTED"} => provider[p] = "none"

(* Of an order, Paystack is never asked for a second transfer while one it *)
(* was asked for may still pay or has paid.                                *)
MoneyOnce ==
  \A p, q \in Payout :
    /\ {provider[p], provider[q]} \subseteq {"asked", "taken", "paid"}
    /\ items[p] \cap items[q] # {}
    => p = q

(* The run's question about money: PaidOrRefunded and MoneyOnce.           *)
PaidOnce == PaidOrRefunded /\ MoneyOnce

(* Transactions that wait for each other's locks in a circle never end.    *)
Todo(x) == IF x \in Checkout THEN (IF refunding[x] = Nothing THEN {} ELSE refunding[x])
           ELSE IF InTransaction(x) /\ approval[x].phase = "lock" THEN approval[x].todo ELSE {}

WaitsFor(x, y) == \E f \in Farmer : First(Todo(x), f) /\ holder[f] = y

NoCircularWait ==
  \A S \in (SUBSET (Approval \cup Checkout)) \ {{}} :
    \E x \in S : \A y \in S : ~WaitsFor(x, y)

(* A payout is made out to the account its farmer had, with no change of   *)
(* it recent, when his orders were read for it: a redirected account waits *)
(* a day.  It is the one he has now, unless he set another after that      *)
(* read and before the row was written: nothing locks his account.         *)
AccountHeld == [][\A p \in Payout :
  status[p] = "NONE" /\ status'[p] = "UNCOMMITTED" =>
    \A o \in items'[p] : LET f == FarmerOf[o] IN
      /\ paidTo'[p] # 0 /\ paidTo'[p] = cleared[f]
      /\ account[f] = cleared[f] => f \notin held]_vars

(* A result is final, but for the success a bank takes back; events that   *)
(* come late or twice change nothing.                                      *)
ResultStays == [][\A p \in Payout :
  /\ status[p] \in {"FAILED", "REVERSED"} => status'[p] = status[p]
  /\ status[p] = "SUCCEEDED" => status'[p] \in {"SUCCEEDED", "REVERSED"}
  /\ status[p] = "PENDING" => status'[p] \in PayoutStatus]_vars

(* A transfer that Paystack took is settled in the books, whether or not   *)
(* the call that asked for it got an answer, or lived to see it.           *)
TakenSettles ==
  \A p \in Payout : status[p] = "PENDING" /\ provider[p] = "taken" ~> status[p] # "PENDING"
============================================================================
