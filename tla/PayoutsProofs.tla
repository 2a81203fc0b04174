---------------------------- MODULE PayoutsProofs ----------------------------
(* Payouts for any number of farmers, orders, checkouts and approvals: the *)
(* locks keep one order from being paid twice or both paid and refunded.   *)
EXTENDS Payouts, WellFoundedInduction, TLAPS

(* Between the lock of a farmer and the next.                              *)
Locked == {"read", "create"}

(* Who holds a farmer's lock is in a transaction that goes on to larger    *)
(* farmers only; what it has passed it holds.                              *)
LocksHeld ==
  /\ \A f \in Farmer, a \in Approval : holder[f] = a =>
       /\ InTransaction(a)
       /\ \A g \in approval[a].todo : f < g \/ (f = g /\ approval[a].phase \in Locked)
  /\ \A a \in Approval : approval[a] # Nothing /\ approval[a].phase \in Locked =>
       \A f \in Farmer : First(approval[a].todo, f) => holder[f] = a
  /\ \A f \in Farmer, c \in Checkout : holder[f] = c =>
       /\ refunding[c] # Nothing
       /\ \A g \in refunding[c] : f < g
  /\ \A c \in Checkout : refunding[c] # Nothing =>
       \A o \in Order : CheckoutOf[o] = c =>
         FarmerOf[o] \in refunding[c] \/ holder[FarmerOf[o]] = c

(* The rows a call has made are its own, and as far as the call has come.  *)
MadeRows ==
  \A a \in Approval : approval[a] # Nothing =>
    \A p \in approval[a].made :
      /\ \A b \in Approval : approval[b] # Nothing /\ p \in approval[b].made => a = b
      /\ InTransaction(a) =>
           /\ status[p] = "UNCOMMITTED"
           /\ \A o \in items[p] : /\ holder[FarmerOf[o]] = a
                                  /\ FarmerOf[o] \notin approval[a].todo
      /\ approval[a].phase = "send" => status[p] = "PENDING" /\ provider[p] = "none"
      /\ approval[a].phase = "sent" => status[p] \in PayoutStatus

(* A row that is not committed belongs to an open transaction.             *)
UncommittedMade ==
  \A p \in Payout : status[p] = "UNCOMMITTED" =>
    \E a \in Approval : InTransaction(a) /\ p \in approval[a].made

(* The same as PaidOrRefunded, of rows not committed too.                  *)
Standing == Live \cup {"UNCOMMITTED"}

NotRefunded ==
  \A p \in Payout : status[p] \in Standing =>
    \A o \in items[p] : whole[CheckoutOf[o]] \notin LiveRefund

(* The account a transaction has read is the farmer's when his orders are  *)
(* read, or is not used.                                                   *)
AccountFresh ==
  \A a \in Approval : approval[a] # Nothing /\ approval[a].phase = "read" =>
    \A f \in Farmer : First(approval[a].todo, f) =>
      \/ approval[a].account = account[f]
      \/ f \in held
      \/ \A o \in approval[a].due : FarmerOf[o] # f

(* No order that a transaction has read to pay out is refunded or in a     *)
(* payout that stands, for as long as it holds the farmer's lock.          *)
OrdersClear ==
  \A a \in Approval : approval[a] # Nothing /\ approval[a].phase = "create" =>
    \A o \in approval[a].orders :
      /\ First(approval[a].todo, FarmerOf[o])
      /\ whole[CheckoutOf[o]] \notin LiveRefund
      /\ \A p \in Payout : status[p] \in Standing => o \notin items[p]

(* The account it has read is the one the farmer had when they were read,  *)
(* and no change of it is recent but a later one's.                        *)
AccountCleared ==
  /\ \A a \in Approval : approval[a] # Nothing /\ approval[a].phase = "create" =>
       \A f \in Farmer : First(approval[a].todo, f) =>
         /\ approval[a].account # 0
         /\ approval[a].account = cleared[f]
         /\ account[f] = cleared[f] => f \notin held
  /\ \A f \in Farmer : cleared[f] <= account[f]

Inv ==
  /\ TypeOK
  /\ LocksHeld
  /\ MadeRows
  /\ UncommittedMade
  /\ OrderInOnePayout
  /\ NotRefunded
  /\ StatusTrue
  /\ AccountFresh
  /\ OrdersClear
  /\ AccountCleared

(* Nothing is in the books or under way yet.                               *)
LEMMA InitInv == Init => Inv
<1> SUFFICES ASSUME Init PROVE Inv
  OBVIOUS
<1>1. TypeOK
  BY PayoutsAssumption DEF Init, TypeOK, RefundStatus, ProviderStatus, Account
<1>2. LocksHeld /\ MadeRows /\ UncommittedMade /\ AccountFresh
  BY PayoutsAssumption DEF Init, LocksHeld, MadeRows, UncommittedMade, AccountFresh
<1>3. OrderInOnePayout /\ NotRefunded /\ StatusTrue
  BY DEF Init, OrderInOnePayout, NotRefunded, StatusTrue, Live, Standing
<1>4. OrdersClear /\ AccountCleared
  BY PayoutsAssumption DEF Init, OrdersClear, AccountCleared, Account
<1>5. QED
  BY <1>1, <1>2, <1>3, <1>4 DEF Inv

(* Only one farmer comes first.                                            *)
LEMMA FirstFacts ==
  ASSUME NEW S \in SUBSET Farmer, NEW f \in Farmer, First(S, f)
  PROVE  /\ f \in S
         /\ \A g \in Farmer : First(S, g) => g = f
         /\ \A g \in S \ {f} : f < g
BY PayoutsAssumption DEF First, Farmer

(* Orders fulfilled, accounts set, holds over.                             *)
LEMMA BooksInv ==
  ASSUME Inv,
         \/ \E o \in Order : Ripen(o)
         \/ \E f \in Farmer : SetAccount(f) \/ HoldEnds(f)
  PROVE  Inv'
<1>t. /\ TypeOK /\ LocksHeld /\ MadeRows /\ UncommittedMade
      /\ OrderInOnePayout /\ NotRefunded /\ StatusTrue /\ AccountFresh
      /\ OrdersClear /\ AccountCleared
  BY DEF Inv
<1>u. UNCHANGED <<whole, rows, calls, provider, cleared>>
  BY DEF Ripen, SetAccount, HoldEnds
<1>1. LocksHeld' /\ MadeRows' /\ UncommittedMade'
  BY <1>t, <1>u DEF LocksHeld, MadeRows, UncommittedMade, InTransaction, rows, calls
<1>2. OrderInOnePayout' /\ NotRefunded' /\ StatusTrue' /\ OrdersClear'
  BY <1>t, <1>u DEF OrderInOnePayout, NotRefunded, StatusTrue, OrdersClear, rows, calls
<1>3. CASE \E o \in Order : Ripen(o)
  <2>1. TypeOK' /\ AccountFresh' /\ AccountCleared'
    BY <1>3, <1>t DEF Ripen, TypeOK, AccountFresh, AccountCleared, rows, calls
  <2>2. QED
    BY <1>1, <1>2, <2>1 DEF Inv
<1>4. ASSUME NEW f \in Farmer, SetAccount(f) PROVE Inv'
  <2>1. account[f] + 1 \in Account
    BY <1>4, <1>t, PayoutsAssumption DEF SetAccount, TypeOK, Account
  <2>2. TypeOK'
    BY <1>4, <1>t, <2>1 DEF SetAccount, TypeOK, rows, calls
  <2>3. AccountFresh'
    BY <1>4, <1>t DEF SetAccount, TypeOK, AccountFresh, rows, calls
  <2>4. AccountCleared'
    <3>1. /\ account'[f] = account[f] + 1
          /\ \A g \in Farmer : g # f => account'[g] = account[g] /\ (g \in held' <=> g \in held)
          /\ \A g \in Farmer : cleared[g] \in Int /\ account[g] \in Int
          /\ cleared[f] <= account[f]
          /\ UNCHANGED <<cleared, approval>>
      BY <1>4, <1>t, PayoutsAssumption DEF SetAccount, TypeOK, Account, AccountCleared, calls
    <3>2. QED
      BY <3>1, <1>t DEF AccountCleared
  <2>5. QED
    BY <1>1, <1>2, <2>2, <2>3, <2>4 DEF Inv
<1>5. ASSUME NEW f \in Farmer, HoldEnds(f) PROVE Inv'
  <2>1. TypeOK'
    BY <1>5, <1>t DEF HoldEnds, TypeOK, rows, calls
  <2>2. AccountFresh'
    BY <1>5, <1>t DEF HoldEnds, TypeOK, AccountFresh, InTransaction, rows, calls
  <2>3. AccountCleared'
    BY <1>5, <1>t DEF HoldEnds, AccountCleared, calls
  <2>4. QED
    BY <1>1, <1>2, <2>1, <2>2, <2>3 DEF Inv
<1>6. QED
  BY <1>3, <1>4, <1>5

(* The steps of an approval under the locks.                               *)
LEMMA ApproveBeginInv ==
  ASSUME Inv, NEW a \in Approval, ApproveBegin(a)
  PROVE  Inv'
<1>t. /\ TypeOK /\ LocksHeld /\ MadeRows /\ UncommittedMade
      /\ OrderInOnePayout /\ NotRefunded /\ StatusTrue /\ AccountFresh
      /\ OrdersClear /\ AccountCleared
  BY DEF Inv
<1> DEFINE due == {o \in ripe : FarmerOf[o] \notin held}
           call(S) == [todo |-> S, due |-> due, account |-> 0, orders |-> {}, made |-> {},
                       phase |-> "lock"]
<1>1. PICK S \in SUBSET Farmer : approval' = [approval EXCEPT ![a] = call(S)]
  BY DEF ApproveBegin
<1>2. /\ approval[a] = Nothing
      /\ UNCHANGED <<books, rows, refunding, holder, provider, cleared>>
  BY DEF ApproveBegin
<1>3. call(S) \in Call
  BY <1>t, PayoutsAssumption DEF TypeOK, Call, Account
<1>4. /\ approval'[a] = call(S)
      /\ \A b \in Approval : b # a => approval'[b] = approval[b]
  BY <1>1, <1>t DEF TypeOK
<1>5. TypeOK'
  BY <1>1, <1>2, <1>3, <1>t DEF TypeOK, books, rows
<1>6. LocksHeld'
  BY <1>2, <1>4, <1>t DEF LocksHeld, InTransaction, Locked
<1>7. MadeRows'
  BY <1>2, <1>4, <1>t DEF MadeRows, InTransaction, rows
<1>8. UncommittedMade'
  BY <1>2, <1>4, <1>t DEF UncommittedMade, InTransaction, rows
<1>9. OrderInOnePayout' /\ NotRefunded' /\ StatusTrue'
  BY <1>2, <1>t DEF OrderInOnePayout, NotRefunded, StatusTrue, rows, books
<1>10. AccountFresh' /\ OrdersClear' /\ AccountCleared'
  BY <1>2, <1>4, <1>t DEF AccountFresh, OrdersClear, AccountCleared, books, rows
<1>11. QED
  BY <1>5, <1>6, <1>7, <1>8, <1>9, <1>10 DEF Inv

(* The lock is free when it is taken, and the account is read under it.    *)
LEMMA ApproveLockInv ==
  ASSUME Inv, NEW a \in Approval, ApproveLock(a)
  PROVE  Inv'
<1>t. /\ TypeOK /\ LocksHeld /\ MadeRows /\ UncommittedMade
      /\ OrderInOnePayout /\ NotRefunded /\ StatusTrue /\ AccountFresh
      /\ OrdersClear /\ AccountCleared
  BY DEF Inv
<1> DEFINE call == approval[a]
<1>1. /\ call # Nothing /\ call.phase = "lock"
      /\ UNCHANGED <<books, rows, refunding, provider, cleared>>
  BY DEF ApproveLock
<1>2. PICK f \in Farmer :
        /\ First(call.todo, f)
        /\ holder[f] = Nothing
        /\ holder' = [holder EXCEPT ![f] = a]
        /\ approval' = [approval EXCEPT ![a] = [@ EXCEPT !.account = account[f], !.phase = "read"]]
  BY DEF ApproveLock
<1>3. call \in Call
  BY <1>1, <1>t DEF TypeOK
<1>4. /\ approval'[a] = [todo |-> call.todo, due |-> call.due, account |-> account[f],
                         orders |-> call.orders, made |-> call.made, phase |-> "read"]
      /\ approval'[a] \in Call
      /\ \A b \in Approval : b # a => approval'[b] = approval[b]
      /\ approval' \in [Approval -> Call \cup {Nothing}]
  BY <1>2, <1>3, <1>t DEF TypeOK, Call
<1>5. /\ holder' \in [Farmer -> Approval \cup Checkout \cup {Nothing}]
      /\ holder'[f] = a
      /\ \A g \in Farmer : g # f => holder'[g] = holder[g]
  BY <1>2, <1>t DEF TypeOK
<1>6. TypeOK'
  BY <1>1, <1>4, <1>5, <1>t DEF TypeOK, books, rows
<1>7. a \notin Checkout /\ a # Nothing /\ approval'[a] # Nothing
  BY <1>4, PayoutsAssumption, NothingAssumption
<1>8. LocksHeld'
  <2>1. call.todo \in SUBSET Farmer
    BY <1>3 DEF Call
  <2>2. ASSUME NEW g \in Farmer, NEW b \in Approval, holder'[g] = b
        PROVE  /\ InTransaction(b)'
               /\ \A h \in approval'[b].todo :
                    g < h \/ (g = h /\ approval'[b].phase \in Locked)
    <3>1. CASE b = a
      <4>1. InTransaction(a)' /\ approval'[a].todo = call.todo /\ approval'[a].phase \in Locked
        BY <1>4, <1>7, <1>3 DEF InTransaction, Call, Locked
      <4>2. CASE g = f
        BY <4>1, <4>2, <3>1, <1>2, <2>1, FirstFacts
      <4>3. CASE g # f
        <5>1. holder[g] = a
          BY <4>3, <3>1, <2>2, <1>5
        <5>2. \A h \in call.todo : g < h
          BY <5>1, <1>1, <1>t DEF LocksHeld, Locked
        <5>3. QED
          BY <5>2, <4>1, <3>1
      <4>4. QED
        BY <4>2, <4>3
    <3>2. CASE b # a
      BY <3>2, <2>2, <1>4, <1>5, <1>t DEF LocksHeld, InTransaction
    <3>3. QED
      BY <3>1, <3>2
  <2>3. ASSUME NEW b \in Approval, approval'[b] # Nothing, approval'[b].phase \in Locked,
               NEW g \in Farmer, First(approval'[b].todo, g)
        PROVE  holder'[g] = b
    <3>1. CASE b = a
      <4>1. First(call.todo, g)
        BY <3>1, <2>3, <1>4
      <4>2. g = f
        BY <4>1, <1>2, <2>1, FirstFacts
      <4>3. QED
        BY <3>1, <4>2, <1>5
    <3>2. CASE b # a
      <4>1. holder[g] = b
        BY <3>2, <2>3, <1>4, <1>t DEF LocksHeld
      <4>2. QED
        BY <4>1, <1>2, <1>5, PayoutsAssumption
    <3>3. QED
      BY <3>1, <3>2
  <2>4. \A g \in Farmer, c \in Checkout : holder'[g] = c =>
          /\ refunding'[c] # Nothing
          /\ \A h \in refunding'[c] : g < h
    BY <1>1, <1>5, <1>7, <1>t DEF LocksHeld
  <2>5. \A c \in Checkout : refunding'[c] # Nothing =>
          \A o \in Order : CheckoutOf[o] = c =>
            FarmerOf[o] \in refunding'[c] \/ holder'[FarmerOf[o]] = c
    BY <1>1, <1>2, <1>5, <1>t, PayoutsAssumption DEF LocksHeld
  <2>6. QED
    BY <2>2, <2>3, <2>4, <2>5 DEF LocksHeld
<1>9. MadeRows'
  <2>1. \A b \in Approval : approval'[b] # Nothing =>
          /\ approval[b] # Nothing
          /\ approval'[b].made = approval[b].made
          /\ approval'[b].todo = approval[b].todo
          /\ InTransaction(b)' = InTransaction(b)
          /\ approval'[b].phase \in {"send", "sent"} => approval'[b].phase = approval[b].phase
    BY <1>1, <1>3, <1>4 DEF InTransaction, Call
  <2>2. \A g \in Farmer, b \in Approval : holder[g] = b => holder'[g] = b
    BY <1>2, <1>5, PayoutsAssumption
  <2>3. \A b \in Approval : approval[b] # Nothing =>
          \A q \in approval[b].made : \A o \in items[q] : FarmerOf[o] \in Farmer
    BY <1>t, PayoutsAssumption DEF TypeOK, Call
  <2>4. QED
    BY <1>1, <2>1, <2>2, <2>3, <1>t DEF MadeRows, rows
<1>10. UncommittedMade'
  BY <1>1, <1>3, <1>4, <1>7, <1>t DEF Call, UncommittedMade, InTransaction, rows
<1>11. OrderInOnePayout' /\ NotRefunded' /\ StatusTrue'
  BY <1>1, <1>t DEF OrderInOnePayout, NotRefunded, StatusTrue, rows, books
<1>12. AccountFresh'
  BY <1>1, <1>2, <1>3, <1>4, <1>t, FirstFacts DEF AccountFresh, books, Call
<1>13. OrdersClear' /\ AccountCleared'
  BY <1>1, <1>4, <1>t DEF OrdersClear, AccountCleared, books, rows
<1>14. QED
  BY <1>6, <1>8, <1>9, <1>10, <1>11, <1>12, <1>13 DEF Inv

(* What a transaction is about to do next it holds the lock for; of the    *)
(* rows of others that stand, none has an order of that farmer.            *)
LEMMA CreateFacts ==
  ASSUME Inv, NEW a \in Approval, approval[a] # Nothing, approval[a].phase \in Locked,
         NEW f \in Farmer, First(approval[a].todo, f)
  PROVE  /\ approval[a] \in Call
         /\ InTransaction(a)
         /\ holder[f] = a
         /\ \A g \in Farmer : holder[g] = a => \A h \in approval[a].todo \ {f} : g < h
         /\ \A p \in Payout : status[p] = "UNCOMMITTED" => \A o \in items[p] : FarmerOf[o] # f
<1>t. TypeOK /\ LocksHeld /\ MadeRows /\ UncommittedMade
  BY DEF Inv
<1>1. approval[a] \in Call /\ InTransaction(a)
  BY <1>t DEF TypeOK, InTransaction, Locked
<1>2. approval[a].todo \in SUBSET Farmer
  BY <1>1 DEF Call
<1>3. holder[f] = a
  BY <1>t DEF LocksHeld
<1>4. ASSUME NEW g \in Farmer, holder[g] = a, NEW h \in approval[a].todo \ {f}
      PROVE  g < h
  <2>1. g < f \/ g = f
    BY <1>4, <1>t, <1>2, FirstFacts DEF LocksHeld
  <2>2. f < h
    BY <1>2, FirstFacts
  <2>3. QED
    BY <2>1, <2>2, <1>2, PayoutsAssumption DEF Farmer
<1>5. ASSUME NEW p \in Payout, status[p] = "UNCOMMITTED", NEW o \in items[p], FarmerOf[o] = f
      PROVE  FALSE
  <2>1. PICK b \in Approval : InTransaction(b) /\ p \in approval[b].made
    BY <1>5, <1>t DEF UncommittedMade
  <2>2. holder[f] = b /\ f \notin approval[b].todo
    BY <2>1, <1>5, <1>t DEF MadeRows, InTransaction
  <2>3. QED
    BY <2>2, <1>3, <1>2, FirstFacts
<1>6. QED
  BY <1>1, <1>3, <1>4, <1>5

(* A call goes on with the farmers of todo.                                *)
LEMMA PassedCall ==
  ASSUME NEW call \in Call, NEW todo \in SUBSET Farmer
  PROVE  /\ [call EXCEPT !.todo = todo, !.phase = "lock"] =
              [todo |-> todo, due |-> call.due, account |-> call.account,
               orders |-> call.orders, made |-> call.made, phase |-> "lock"]
         /\ [call EXCEPT !.todo = todo, !.phase = "lock"] \in Call
<1>1. PICK next \in Call : next = [call EXCEPT !.todo = todo]
  BY DEF Call
<1>2. next = [todo |-> todo, due |-> call.due, account |-> call.account,
              orders |-> call.orders, made |-> call.made, phase |-> call.phase]
  BY <1>1 DEF Call
<1>3. /\ [next EXCEPT !.phase = "lock"] =
           [todo |-> next.todo, due |-> next.due, account |-> next.account,
            orders |-> next.orders, made |-> next.made, phase |-> "lock"]
      /\ [next EXCEPT !.phase = "lock"] \in Call
  BY DEF Call
<1>4. [call EXCEPT !.todo = todo, !.phase = "lock"] = [next EXCEPT !.phase = "lock"]
  BY <1>1
<1>5. QED
  BY <1>2, <1>3, <1>4

(* The farmer is passed over: he has no account, or nothing is due.        *)
LEMMA PassedOverInv ==
  ASSUME Inv, NEW a \in Approval, approval[a] # Nothing, approval[a].phase = "read",
         NEW f \in Farmer, First(approval[a].todo, f),
         approval' = [approval EXCEPT ![a] =
           [approval[a] EXCEPT !.todo = @ \ {f}, !.phase = "lock"]],
         UNCHANGED <<books, rows, refunding, holder, provider, cleared>>
  PROVE  Inv'
<1>t. /\ TypeOK /\ LocksHeld /\ MadeRows /\ UncommittedMade
      /\ OrderInOnePayout /\ NotRefunded /\ StatusTrue /\ AccountFresh
      /\ OrdersClear /\ AccountCleared
  BY DEF Inv
<1> DEFINE call == approval[a]
<1>1. /\ call \in Call
      /\ InTransaction(a)
      /\ holder[f] = a
      /\ \A g \in Farmer : holder[g] = a => \A h \in call.todo \ {f} : g < h
  BY CreateFacts DEF Locked
<1>2. /\ approval'[a] = [todo |-> call.todo \ {f}, due |-> call.due, account |-> call.account,
                         orders |-> call.orders, made |-> call.made, phase |-> "lock"]
      /\ approval'[a] \in Call
      /\ \A b \in Approval : b # a => approval'[b] = approval[b]
      /\ approval' \in [Approval -> Call \cup {Nothing}]
  <2>0. call.todo \ {f} \in SUBSET Farmer
    BY <1>1 DEF Call
  <2>1. /\ approval'[a] = [call EXCEPT !.todo = call.todo \ {f}, !.phase = "lock"]
        /\ \A b \in Approval : b # a => approval'[b] = approval[b]
        /\ approval' = [approval EXCEPT ![a] = approval'[a]]
    BY <1>t DEF TypeOK
  <2>2. approval'[a] = [todo |-> call.todo \ {f}, due |-> call.due, account |-> call.account,
                        orders |-> call.orders, made |-> call.made, phase |-> "lock"]
    BY <2>1, <1>1, <2>0, PassedCall
  <2>3. approval'[a] \in Call
    BY <2>2, <1>1 DEF Call
  <2>4. QED
    BY <2>1, <2>2, <2>3, <1>t DEF TypeOK
<1>3. /\ approval'[a] # Nothing
      /\ InTransaction(a)'
      /\ approval'[a].todo = call.todo \ {f}
      /\ approval'[a].made = call.made
      /\ approval'[a].phase = "lock"
  BY SMTT(30), <1>2, NothingAssumption DEF InTransaction
<1>4. LocksHeld'
  BY <1>1, <1>2, <1>3, <1>t DEF LocksHeld, InTransaction, Locked
<1>5. TypeOK'
  BY <1>2, <1>t DEF TypeOK, books, rows
<1>6. MadeRows'
  BY <1>1, <1>2, <1>3, <1>t DEF MadeRows, InTransaction, rows
<1>7. UncommittedMade'
  BY <1>1, <1>2, <1>3, <1>t DEF UncommittedMade, InTransaction, rows
<1>8. OrderInOnePayout' /\ NotRefunded' /\ StatusTrue'
  BY <1>t DEF OrderInOnePayout, NotRefunded, StatusTrue, rows, books
<1>9. AccountFresh' /\ OrdersClear' /\ AccountCleared'
  BY <1>2, <1>3, <1>t DEF AccountFresh, OrdersClear, AccountCleared, books, rows
<1>10. QED
  BY <1>4, <1>5, <1>6, <1>7, <1>8, <1>9 DEF Inv

(* His orders are read: none is refunded or in a payout that stands, and   *)
(* as he is not held the account read before is still his.                 *)
LEMMA OrdersReadInv ==
  ASSUME Inv, NEW a \in Approval, approval[a] # Nothing, approval[a].phase = "read",
         approval[a].account # 0,
         NEW f \in Farmer, First(approval[a].todo, f), Eligible(approval[a].due, f) # {},
         approval' = [approval EXCEPT ![a] =
           [approval[a] EXCEPT !.orders = Eligible(approval[a].due, f), !.phase = "create"]],
         cleared' = [cleared EXCEPT ![f] = IF f \in held THEN 0 ELSE account[f]],
         UNCHANGED <<books, rows, refunding, holder, provider>>
  PROVE  Inv'
<1>t. /\ TypeOK /\ LocksHeld /\ MadeRows /\ UncommittedMade
      /\ OrderInOnePayout /\ NotRefunded /\ StatusTrue /\ AccountFresh
      /\ OrdersClear /\ AccountCleared
  BY DEF Inv
<1> DEFINE call == approval[a]
           orders == Eligible(call.due, f)
<1>1. /\ call \in Call
      /\ InTransaction(a)
      /\ holder[f] = a
      /\ \A p \in Payout : status[p] = "UNCOMMITTED" => \A o \in items[p] : FarmerOf[o] # f
  BY CreateFacts DEF Locked
<1>2. /\ orders \in SUBSET Order
      /\ \A o \in orders : /\ o \in call.due /\ FarmerOf[o] = f /\ f \notin held
                           /\ whole[CheckoutOf[o]] \notin LiveRefund
                           /\ ~LiveItem(o)
  BY <1>1 DEF Eligible, Call
<1>3. /\ approval'[a] = [todo |-> call.todo, due |-> call.due, account |-> call.account,
                         orders |-> orders, made |-> call.made, phase |-> "create"]
      /\ approval'[a] \in Call
      /\ \A b \in Approval : b # a => approval'[b] = approval[b]
      /\ approval' \in [Approval -> Call \cup {Nothing}]
  BY <1>1, <1>2, <1>t DEF TypeOK, Call
<1>4. /\ approval'[a] # Nothing
      /\ InTransaction(a)'
      /\ approval'[a].todo = call.todo
      /\ approval'[a].made = call.made
      /\ approval'[a].account = call.account
      /\ approval'[a].orders = orders
      /\ approval'[a].phase = "create"
  BY SMTT(30), <1>3, NothingAssumption DEF InTransaction
<1>5. /\ f \notin held /\ call.account = account[f] /\ account[f] \in Account
      /\ cleared' \in [Farmer -> Account]
      /\ cleared'[f] = account[f]
      /\ \A g \in Farmer : g # f => cleared'[g] = cleared[g]
  <2>1. f \notin held
    BY <1>2
  <2>2. call.account = account[f]
    BY <1>2, <2>1, <1>t DEF AccountFresh
  <2>3. QED
    BY <2>1, <2>2, <1>t DEF TypeOK
<1>6. TypeOK'
  BY <1>3, <1>5, <1>t DEF TypeOK, books, rows
<1>7. LocksHeld'
  BY <1>1, <1>3, <1>4, <1>t DEF LocksHeld, InTransaction, Locked
<1>8. MadeRows'
  BY <1>1, <1>3, <1>4, <1>t DEF MadeRows, InTransaction, rows
<1>9. UncommittedMade'
  BY <1>1, <1>3, <1>4, <1>t DEF UncommittedMade, InTransaction, rows
<1>10. OrderInOnePayout' /\ NotRefunded' /\ StatusTrue' /\ AccountFresh'
  BY <1>3, <1>4, <1>t DEF OrderInOnePayout, NotRefunded, StatusTrue, AccountFresh, rows, books
<1>11. OrdersClear'
  <2>1. \A o \in orders : \A p \in Payout : status[p] \in Standing => o \notin items[p]
    BY <1>1, <1>2 DEF LiveItem, Standing
  <2>2. QED
    BY <1>2, <1>3, <1>4, <2>1, <1>t DEF OrdersClear, books, rows
<1>12. AccountCleared'
  <2>1. ASSUME NEW b \in Approval, approval'[b] # Nothing, approval'[b].phase = "create",
               NEW g \in Farmer, First(approval'[b].todo, g)
        PROVE  /\ approval'[b].account # 0
               /\ approval'[b].account = cleared'[g]
               /\ account[g] = cleared'[g] => g \notin held
    <3>1. CASE b = a
      <4>1. g = f
        BY <3>1, <2>1, <1>1, <1>4, FirstFacts DEF Call
      <4>2. QED
        BY <3>1, <4>1, <1>4, <1>5
    <3>2. CASE b # a
      <4>1. approval'[b] = approval[b] /\ holder[g] = b
        BY <3>2, <2>1, <1>3, <1>t DEF LocksHeld, Locked
      <4>2. g # f
        BY <3>2, <4>1, <1>1
      <4>3. /\ approval[b].account # 0
            /\ approval[b].account = cleared[g]
            /\ account[g] = cleared[g] => g \notin held
        BY <4>1, <2>1, <1>t DEF AccountCleared
      <4>4. cleared'[g] = cleared[g]
        BY <4>2, <1>5
      <4>5. QED
        BY <4>1, <4>3, <4>4
    <3>3. QED
      BY <3>1, <3>2
  <2>2. \A g \in Farmer : cleared'[g] <= account[g]
    BY <1>5, <1>t, PayoutsAssumption DEF AccountCleared, Account
  <2>3. QED
    BY <2>1, <2>2 DEF AccountCleared, books
<1>13. QED
  BY <1>6, <1>7, <1>8, <1>9, <1>10, <1>11, <1>12 DEF Inv

LEMMA ApproveReadInv ==
  ASSUME Inv, NEW a \in Approval, ApproveRead(a)
  PROVE  Inv'
<1>1. /\ approval[a] # Nothing /\ approval[a].phase = "read"
      /\ UNCHANGED <<books, rows, refunding, holder, provider>>
  BY DEF ApproveRead
<1>2. PICK f \in Farmer :
        /\ First(approval[a].todo, f)
        /\ \/ /\ approval' = [approval EXCEPT ![a] =
                   [approval[a] EXCEPT !.todo = @ \ {f}, !.phase = "lock"]]
              /\ UNCHANGED cleared
           \/ /\ approval[a].account # 0 /\ Eligible(approval[a].due, f) # {}
              /\ approval' = [approval EXCEPT ![a] =
                   [approval[a] EXCEPT !.orders = Eligible(approval[a].due, f), !.phase = "create"]]
              /\ cleared' = [cleared EXCEPT ![f] = IF f \in held THEN 0 ELSE account[f]]
  BY DEF ApproveRead
<1>3. CASE /\ approval' = [approval EXCEPT ![a] =
                [approval[a] EXCEPT !.todo = @ \ {f}, !.phase = "lock"]]
           /\ UNCHANGED cleared
  <2>1. UNCHANGED <<books, rows, refunding, holder, provider, cleared>>
    BY <1>1, <1>3
  <2>2. QED
    BY <1>1, <1>2, <1>3, <2>1, PassedOverInv
<1>4. CASE /\ approval[a].account # 0 /\ Eligible(approval[a].due, f) # {}
           /\ approval' = [approval EXCEPT ![a] =
                [approval[a] EXCEPT !.orders = Eligible(approval[a].due, f), !.phase = "create"]]
           /\ cleared' = [cleared EXCEPT ![f] = IF f \in held THEN 0 ELSE account[f]]
  BY <1>1, <1>2, <1>4, OrdersReadInv
<1>5. QED
  BY <1>2, <1>3, <1>4

(* The farmer is done with, and the row made for him is paid to no other.  *)
LEMMA ApproveCreateInv ==
  ASSUME Inv, NEW a \in Approval, ApproveCreate(a)
  PROVE  Inv'
<1>t. /\ TypeOK /\ LocksHeld /\ MadeRows /\ UncommittedMade
      /\ OrderInOnePayout /\ NotRefunded /\ StatusTrue /\ AccountFresh
      /\ OrdersClear /\ AccountCleared
  BY DEF Inv
<1> DEFINE call == approval[a]
           orders == call.orders
<1>1. /\ call # Nothing /\ call.phase = "create"
      /\ UNCHANGED <<books, refunding, holder, provider, cleared>>
  BY DEF ApproveCreate
<1>2. PICK f \in Farmer, p \in Payout :
        /\ First(call.todo, f)
        /\ FreeRow(p)
        /\ status' = [status EXCEPT ![p] = "UNCOMMITTED"]
        /\ items' = [items EXCEPT ![p] = orders]
        /\ paidTo' = [paidTo EXCEPT ![p] = call.account]
        /\ approval' = [approval EXCEPT ![a] =
             [call EXCEPT !.todo = @ \ {f}, !.orders = {}, !.made = @ \cup {p}, !.phase = "lock"]]
  BY DEF ApproveCreate
<1>3. /\ call \in Call
      /\ InTransaction(a)
      /\ holder[f] = a
      /\ \A g \in Farmer : holder[g] = a => \A h \in call.todo \ {f} : g < h
  BY <1>1, <1>2, CreateFacts DEF Locked
<1> DEFINE made == call.made \cup {p}
<1>4. /\ approval'[a] = [todo |-> call.todo \ {f}, due |-> call.due, account |-> call.account,
                         orders |-> {}, made |-> made, phase |-> "lock"]
      /\ approval'[a] \in Call
      /\ \A b \in Approval : b # a => approval'[b] = approval[b]
      /\ approval' \in [Approval -> Call \cup {Nothing}]
  <2>1. /\ approval'[a] = [call EXCEPT !.todo = call.todo \ {f}, !.orders = {},
                                       !.made = made, !.phase = "lock"]
        /\ \A b \in Approval : b # a => approval'[b] = approval[b]
        /\ approval' = [approval EXCEPT ![a] = approval'[a]]
    BY <1>2, <1>t DEF TypeOK
  <2>2. approval'[a] = [todo |-> call.todo \ {f}, due |-> call.due, account |-> call.account,
                        orders |-> {}, made |-> made, phase |-> "lock"]
    BY <2>1, <1>3 DEF Call
  <2>3. approval'[a] \in Call
    BY <2>2, <1>3 DEF Call
  <2>4. QED
    BY <2>1, <2>2, <2>3, <1>t DEF TypeOK
<1>5. /\ approval'[a] # Nothing
      /\ InTransaction(a)'
      /\ approval'[a].todo = call.todo \ {f}
      /\ approval'[a].made = made
      /\ approval'[a].phase = "lock"
  BY SMTT(30), <1>4, NothingAssumption DEF InTransaction
<1>6. LocksHeld'
  BY <1>1, <1>3, <1>4, <1>5, <1>t DEF LocksHeld, InTransaction, Locked
<1>7. AccountFresh' /\ AccountCleared'
  BY <1>1, <1>4, <1>5, <1>t DEF AccountFresh, AccountCleared, books
<1>9. QED
  <2>1. /\ status[p] = "NONE" /\ provider[p] = "none"
        /\ call.account \in Account
    BY <1>2, <1>3, <1>t DEF FreeRow, StatusTrue, Call
  <2>2. /\ orders \in SUBSET Order
        /\ \A o \in orders : /\ FarmerOf[o] = f
                             /\ whole[CheckoutOf[o]] \notin LiveRefund
                             /\ \A q \in Payout : status[q] \in Standing => o \notin items[q]
    <3>1. orders \in SUBSET Order /\ call.todo \in SUBSET Farmer
      BY <1>3 DEF Call
    <3>2. ASSUME NEW o \in orders PROVE FarmerOf[o] = f
      <4>1. FarmerOf[o] \in Farmer
        BY <3>1, PayoutsAssumption
      <4>2. First(call.todo, FarmerOf[o])
        BY <1>1, <1>t DEF OrdersClear
      <4>3. QED
        BY <4>1, <4>2, <3>1, <1>2, FirstFacts
    <3>3. QED
      BY <3>1, <3>2, <1>1, <1>t DEF OrdersClear
  <2>3. /\ status'[p] = "UNCOMMITTED" /\ items'[p] = orders
        /\ \A q \in Payout : q # p => status'[q] = status[q] /\ items'[q] = items[q]
    BY <1>2, <1>t DEF TypeOK
  <2>4. TypeOK'
    <3>1. /\ status' \in [Payout -> {"NONE", "UNCOMMITTED"} \cup PayoutStatus]
          /\ items' \in [Payout -> SUBSET Order]
          /\ paidTo' \in [Payout -> Account]
      BY <1>2, <2>1, <2>2, <1>t DEF TypeOK
    <3>2. QED
      BY <3>1, <1>1, <1>4, <1>t DEF TypeOK, books
  <2>5. MadeRows'
    <3>1. \A b \in Approval : approval[b] # Nothing => p \notin approval[b].made
      BY <2>1, <1>t DEF MadeRows, InTransaction, TypeOK, Call, PayoutStatus
    <3>2. ASSUME NEW b \in Approval, approval'[b] # Nothing, NEW q \in approval'[b].made
          PROVE  /\ \A d \in Approval : approval'[d] # Nothing /\ q \in approval'[d].made => b = d
                 /\ InTransaction(b)' =>
                      /\ status'[q] = "UNCOMMITTED"
                      /\ \A o \in items'[q] : /\ holder[FarmerOf[o]] = b
                                              /\ FarmerOf[o] \notin approval'[b].todo
                 /\ approval'[b].phase = "send" => status'[q] = "PENDING" /\ provider[q] = "none"
                 /\ approval'[b].phase = "sent" => status'[q] \in PayoutStatus
      <4>1. q \in Payout
        BY <3>2, <1>4 DEF Call
      <4>2. CASE q = p
        <5>1. b = a
          BY <4>2, <3>2, <3>1, <1>4
        <5>2. QED
          BY <5>1, <4>2, <3>1, <1>4, <1>5, <1>3, <2>2, <2>3
      <4>3. CASE q # p
        <5>1. \A d \in Approval : approval'[d] # Nothing /\ q \in approval'[d].made =>
                approval[d] # Nothing /\ q \in approval[d].made
          BY <4>3, <1>4, <1>5, <1>1
        <5>2. InTransaction(b)' => InTransaction(b)
          BY <1>3, <1>4 DEF InTransaction
        <5>3. approval'[b].todo \subseteq approval[b].todo
          BY <1>4, <1>5
        <5>4. QED
          BY <5>1, <5>2, <5>3, <3>2, <4>1, <4>3, <2>3, <1>4, <1>5, <1>t DEF MadeRows
      <4>4. QED
        BY <4>2, <4>3
    <3>3. QED
      BY <3>2, <1>1 DEF MadeRows
  <2>6. UncommittedMade'
    <3> SUFFICES ASSUME NEW q \in Payout, status'[q] = "UNCOMMITTED"
                 PROVE  \E b \in Approval : InTransaction(b)' /\ q \in approval'[b].made
      BY DEF UncommittedMade
    <3>1. CASE q = p
      BY <3>1, <1>5
    <3>2. CASE q # p
      <4>1. PICK b \in Approval : InTransaction(b) /\ q \in approval[b].made
        BY <3>2, <2>3, <1>t DEF UncommittedMade
      <4>2. CASE b = a
        BY <4>1, <4>2, <1>5
      <4>3. CASE b # a
        BY <4>1, <4>3, <1>4 DEF InTransaction
      <4>4. QED
        BY <4>2, <4>3
    <3>3. QED
      BY <3>1, <3>2
  <2>7. \A q \in Payout : q # p /\ status[q] \in Live \cup {"UNCOMMITTED"} =>
          items[q] \cap orders = {}
    BY <2>2 DEF Standing
  <2>8. OrderInOnePayout'
    BY <2>3, <2>7, <1>t DEF OrderInOnePayout
  <2>9. NotRefunded'
    BY <2>2, <2>3, <1>1, <1>t DEF NotRefunded, Standing, books
  <2>10. StatusTrue'
    BY <2>1, <2>3, <1>1, <1>t DEF StatusTrue
  <2>11. OrdersClear'
    <3>1. ASSUME NEW b \in Approval, approval'[b] # Nothing, approval'[b].phase = "create",
                 NEW o \in approval'[b].orders, NEW q \in Payout, status'[q] \in Standing
          PROVE  /\ First(approval'[b].todo, FarmerOf[o])
                 /\ whole[CheckoutOf[o]] \notin LiveRefund
                 /\ o \notin items'[q]
      <4>1. b # a /\ approval'[b] = approval[b]
        BY <3>1, <1>4, <1>5
      <4>2. /\ First(approval[b].todo, FarmerOf[o])
            /\ whole[CheckoutOf[o]] \notin LiveRefund
            /\ status[q] \in Standing => o \notin items[q]
        BY <3>1, <4>1, <1>t DEF OrdersClear
      <4>3. o \in Order /\ FarmerOf[o] \in Farmer
        BY <3>1, <4>1, <1>t, PayoutsAssumption DEF TypeOK, Call
      <4>4. holder[FarmerOf[o]] = b
        BY <3>1, <4>1, <4>2, <4>3, <1>t DEF LocksHeld, Locked
      <4>5. o \notin orders
        BY <4>1, <4>4, <1>3, <2>2
      <4>6. QED
        BY <3>1, <4>1, <4>2, <4>5, <2>3
    <3>2. ASSUME NEW b \in Approval, approval'[b] # Nothing, approval'[b].phase = "create",
                 NEW o \in approval'[b].orders
          PROVE  First(approval'[b].todo, FarmerOf[o]) /\ whole[CheckoutOf[o]] \notin LiveRefund
      BY <3>2, <1>4, <1>5, <1>t DEF OrdersClear
    <3>3. QED
      BY <3>1, <3>2, <1>1 DEF OrdersClear, books
  <2>12. QED
    BY <1>6, <1>7, <2>4, <2>5, <2>6, <2>8, <2>9, <2>10, <2>11 DEF Inv

(* A transaction ends: its locks are free, no other loses one.             *)
LEMMA UnlockedFacts ==
  ASSUME TypeOK, NEW x \in Approval \cup Checkout, holder' = Unlocked(x)
  PROVE  /\ holder' \in [Farmer -> Approval \cup Checkout \cup {Nothing}]
         /\ \A f \in Farmer : holder'[f] # x
         /\ \A f \in Farmer : \A y : y # x /\ holder[f] = y => holder'[f] = y
         /\ \A f \in Farmer : \A y \in Approval \cup Checkout : holder'[f] = y => holder[f] = y
BY PayoutsAssumption DEF TypeOK, Unlocked

(* A call leaves its transaction, or is gone: what is said of the others.  *)
LEMMA LeaveFacts ==
  ASSUME Inv, NEW a \in Approval, UNCHANGED refunding, holder' = Unlocked(a),
         \A b \in Approval : b # a => approval'[b] = approval[b],
         approval'[a] # Nothing => approval'[a].phase \in {"send", "sent"}
  PROVE  LocksHeld'
<1>t. TypeOK /\ LocksHeld
  BY DEF Inv
<1>1. a \notin Checkout
  BY PayoutsAssumption
<1>2. /\ \A f \in Farmer : holder'[f] # a
      /\ \A f \in Farmer : \A y : y # a /\ holder[f] = y => holder'[f] = y
      /\ \A f \in Farmer : \A y \in Approval \cup Checkout : holder'[f] = y => holder[f] = y
  BY <1>t, UnlockedFacts
<1>3. ASSUME NEW f \in Farmer, NEW b \in Approval, holder'[f] = b
      PROVE  /\ InTransaction(b)'
             /\ \A g \in approval'[b].todo : f < g \/ (f = g /\ approval'[b].phase \in Locked)
  <2>1. b # a /\ holder[f] = b
    BY <1>2, <1>3
  <2>2. QED
    BY <2>1, <1>t DEF LocksHeld, InTransaction
<1>4. ASSUME NEW b \in Approval, approval'[b] # Nothing, approval'[b].phase \in Locked,
             NEW f \in Farmer, First(approval'[b].todo, f)
      PROVE  holder'[f] = b
  <2>1. b # a /\ holder[f] = b
    BY <1>4, <1>t DEF LocksHeld, Locked
  <2>2. QED
    BY <2>1, <1>2
<1>5. \A f \in Farmer, c \in Checkout : holder'[f] = c =>
        /\ refunding'[c] # Nothing
        /\ \A g \in refunding'[c] : f < g
  BY <1>2, <1>t DEF LocksHeld
<1>6. \A c \in Checkout : refunding'[c] # Nothing =>
        \A o \in Order : CheckoutOf[o] = c =>
          FarmerOf[o] \in refunding'[c] \/ holder'[FarmerOf[o]] = c
  BY <1>1, <1>2, <1>t, PayoutsAssumption DEF LocksHeld
<1>7. QED
  BY <1>3, <1>4, <1>5, <1>6 DEF LocksHeld

(* The rows of the transaction become PENDING, those of others stay.       *)
LEMMA ApproveCommitInv ==
  ASSUME Inv, NEW a \in Approval, ApproveCommit(a)
  PROVE  Inv'
<1>t. /\ TypeOK /\ LocksHeld /\ MadeRows /\ UncommittedMade
      /\ OrderInOnePayout /\ NotRefunded /\ StatusTrue /\ AccountFresh
      /\ OrdersClear /\ AccountCleared
  BY DEF Inv
<1> DEFINE call == approval[a]
           next == IF call.made = {} THEN Nothing
                   ELSE [call EXCEPT !.account = 0, !.due = {}, !.phase = "send"]
<1>1. /\ call # Nothing /\ call.phase = "lock" /\ InTransaction(a)
      /\ status' = [p \in Payout |-> IF p \in call.made THEN "PENDING" ELSE status[p]]
      /\ approval' = [approval EXCEPT ![a] = next]
      /\ holder' = Unlocked(a)
      /\ UNCHANGED <<books, items, paidTo, refunding, provider, cleared>>
  BY DEF ApproveCommit, InTransaction
<1>2. call \in Call /\ call.made \in SUBSET Payout
  BY <1>1, <1>t DEF TypeOK, Call
<1>3. next \in Call \cup {Nothing}
  <2>1. 0 \in Account
    BY PayoutsAssumption DEF Account
  <2>2. [call EXCEPT !.account = 0, !.due = {}, !.phase = "send"] \in Call
    BY <1>2, <2>1 DEF Call
  <2>3. QED
    BY <2>2
<1>4. /\ approval'[a] = next
      /\ \A b \in Approval : b # a => approval'[b] = approval[b]
      /\ approval' \in [Approval -> Call \cup {Nothing}]
  BY <1>1, <1>3, <1>t DEF TypeOK
<1>5. next # Nothing => next.phase = "send" /\ next.made = call.made
  BY <1>2 DEF Call
<1>6. \A p \in call.made : status[p] = "UNCOMMITTED" /\ provider[p] = "none"
  BY <1>1, <1>2, <1>t DEF MadeRows, StatusTrue
<1>7. /\ \A p \in call.made : status'[p] = "PENDING"
      /\ \A p \in Payout : p \notin call.made => status'[p] = status[p]
  BY <1>1, <1>2
<1>8. TypeOK'
  <2>1. status' \in [Payout -> {"NONE", "UNCOMMITTED"} \cup PayoutStatus]
    BY <1>1, <1>t DEF TypeOK, PayoutStatus
  <2>2. QED
    BY <2>1, <1>1, <1>4, <1>t, UnlockedFacts DEF TypeOK, books
<1>9. LocksHeld'
  BY <1>1, <1>4, <1>5, LeaveFacts
<1>10. MadeRows'
  <2>1. \A b \in Approval : approval'[b] # Nothing =>
          /\ approval[b] # Nothing
          /\ approval'[b].made = approval[b].made
    BY <1>1, <1>4, <1>5
  <2>2. ASSUME NEW b \in Approval, b # a, approval[b] # Nothing, NEW p \in approval[b].made
        PROVE  p \in Payout /\ status'[p] = status[p]
    BY <2>2, <1>1, <1>7, <1>t DEF MadeRows, TypeOK, Call
  <2>3. ASSUME NEW b \in Approval, b # a, approval[b] # Nothing, InTransaction(b),
               NEW p \in approval[b].made, NEW o \in items[p]
        PROVE  holder'[FarmerOf[o]] = b
    <3>1. FarmerOf[o] \in Farmer
      BY <2>2, <2>3, <1>t, PayoutsAssumption DEF TypeOK
    <3>2. QED
      BY <3>1, <2>3, <1>1, <1>t, UnlockedFacts DEF MadeRows
  <2>4. ASSUME NEW b \in Approval, b # a, approval'[b] # Nothing, NEW p \in approval'[b].made
        PROVE  /\ InTransaction(b)' =>
                    /\ status'[p] = "UNCOMMITTED"
                    /\ \A o \in items'[p] : /\ holder'[FarmerOf[o]] = b
                                            /\ FarmerOf[o] \notin approval'[b].todo
               /\ approval'[b].phase = "send" => status'[p] = "PENDING" /\ provider'[p] = "none"
               /\ approval'[b].phase = "sent" => status'[p] \in PayoutStatus
    BY <2>4, <2>2, <2>3, <1>1, <1>4, <1>t DEF MadeRows, InTransaction
  <2>5. ASSUME approval'[a] # Nothing, NEW p \in approval'[a].made
        PROVE  /\ ~InTransaction(a)' /\ approval'[a].phase = "send"
               /\ status'[p] = "PENDING" /\ provider'[p] = "none"
    BY <2>5, <1>1, <1>4, <1>5, <1>6, <1>7 DEF InTransaction
  <2>6. QED
    BY <2>1, <2>4, <2>5, <1>t DEF MadeRows
<1>11. UncommittedMade'
  <2> SUFFICES ASSUME NEW p \in Payout, status'[p] = "UNCOMMITTED"
               PROVE  \E b \in Approval : InTransaction(b)' /\ p \in approval'[b].made
    BY DEF UncommittedMade
  <2>1. p \notin call.made /\ status[p] = "UNCOMMITTED"
    BY <1>7
  <2>2. PICK b \in Approval : InTransaction(b) /\ p \in approval[b].made
    BY <2>1, <1>t DEF UncommittedMade
  <2>3. QED
    BY <2>1, <2>2, <1>4 DEF InTransaction
<1>12. \A p \in Payout : /\ status'[p] \in Standing => status[p] \in Standing
                         /\ status'[p] # "PENDING" => status'[p] = status[p]
                         /\ status'[p] \in {"NONE", "UNCOMMITTED"} => status'[p] = status[p]
  BY <1>6, <1>7 DEF Standing, Live
<1>13. OrderInOnePayout' /\ NotRefunded' /\ StatusTrue'
  BY <1>1, <1>12, <1>t DEF OrderInOnePayout, NotRefunded, StatusTrue, Standing, books
<1>14. AccountFresh' /\ AccountCleared'
  BY <1>1, <1>4, <1>5, <1>t DEF AccountFresh, AccountCleared, books
<1>15. OrdersClear'
  BY <1>1, <1>4, <1>5, <1>12, <1>t DEF OrdersClear, books
<1>16. QED
  BY <1>8, <1>9, <1>10, <1>11, <1>13, <1>14, <1>15 DEF Inv

(* The rows of one or all transactions are taken back with their locks.    *)
LEMMA RollBackInv ==
  ASSUME Inv, NEW gone \in SUBSET Payout, NEW S \in SUBSET Approval, RolledBack(gone),
         approval' = [a \in Approval |-> IF a \in S THEN Nothing ELSE approval[a]],
         \A p \in gone : status[p] = "UNCOMMITTED",
         \A p \in Payout \ gone :
           status[p] = "UNCOMMITTED" =>
             \E a \in Approval \ S : InTransaction(a) /\ p \in approval[a].made,
         \A a \in Approval \ S : approval[a] # Nothing => approval[a].made \cap gone = {},
         \A f \in Farmer, a \in Approval \ S : holder[f] = a => holder'[f] = a,
         LocksHeld', holder' \in [Farmer -> Approval \cup Checkout \cup {Nothing}],
         refunding' \in [Checkout -> (SUBSET Farmer) \cup {Nothing}],
         UNCHANGED <<books, provider, cleared>>
  PROVE  Inv'
<1>t. /\ TypeOK /\ LocksHeld /\ MadeRows /\ UncommittedMade
      /\ OrderInOnePayout /\ NotRefunded /\ StatusTrue /\ AccountFresh
      /\ OrdersClear /\ AccountCleared
  BY DEF Inv
<1>1. /\ \A p \in gone : status'[p] = "NONE" /\ items'[p] = {}
      /\ \A p \in Payout \ gone : status'[p] = status[p] /\ items'[p] = items[p]
  BY DEF RolledBack
<1>2. \A a \in Approval : approval'[a] # Nothing => a \notin S /\ approval'[a] = approval[a]
  BY DEF InTransaction
<1>3. TypeOK'
  <2>1. /\ status' \in [Payout -> {"NONE", "UNCOMMITTED"} \cup PayoutStatus]
        /\ items' \in [Payout -> SUBSET Order]
        /\ paidTo' \in [Payout -> Account]
    BY <1>t, PayoutsAssumption DEF RolledBack, TypeOK, Account
  <2>2. approval' \in [Approval -> Call \cup {Nothing}]
    BY <1>t DEF TypeOK
  <2>3. QED
    BY <2>1, <2>2, <1>t DEF TypeOK, books
<1>4. MadeRows'
  <2>1. ASSUME NEW a \in Approval, approval'[a] # Nothing, NEW p \in approval'[a].made
        PROVE  p \in Payout \ gone /\ a \in Approval \ S /\ approval'[a] = approval[a]
    BY <2>1, <1>2, <1>t DEF TypeOK, Call
  <2>2. ASSUME NEW a \in Approval \ S, approval[a] # Nothing, InTransaction(a),
               NEW p \in approval[a].made, NEW o \in items[p]
        PROVE  holder'[FarmerOf[o]] = a
    <3>1. p \in Payout
      BY <2>2, <1>t DEF TypeOK, Call
    <3>2. FarmerOf[o] \in Farmer
      BY <3>1, <2>2, <1>t, PayoutsAssumption DEF TypeOK
    <3>3. QED
      BY <3>2, <2>2, <1>t DEF MadeRows
  <2>3. QED
    BY <2>1, <2>2, <1>1, <1>2, <1>t DEF MadeRows, InTransaction
<1>5. UncommittedMade'
  BY <1>1 DEF UncommittedMade, InTransaction
<1>6. OrderInOnePayout' /\ NotRefunded' /\ StatusTrue'
  BY <1>1, <1>t DEF OrderInOnePayout, NotRefunded, StatusTrue, Standing, Live, books
<1>7. AccountFresh' /\ AccountCleared'
  BY <1>2, <1>t DEF AccountFresh, AccountCleared, books
<1>8. OrdersClear'
  BY <1>1, <1>2, <1>t DEF OrdersClear, Standing, Live, books
<1>9. QED
  BY <1>3, <1>4, <1>5, <1>6, <1>7, <1>8 DEF Inv

(* One transaction is rolled back.                                         *)
LEMMA ApproveAbortsInv ==
  ASSUME Inv, NEW a \in Approval, ApproveAborts(a)
  PROVE  Inv'
<1>t. TypeOK /\ MadeRows /\ UncommittedMade
  BY DEF Inv
<1> DEFINE gone == approval[a].made
<1>1. /\ InTransaction(a) /\ approval[a] # Nothing
      /\ RolledBack(gone)
      /\ approval' = [approval EXCEPT ![a] = Nothing]
      /\ holder' = Unlocked(a)
      /\ UNCHANGED <<books, refunding, provider, cleared>>
  BY DEF ApproveAborts, InTransaction
<1>2. gone \in SUBSET Payout
  BY <1>1, <1>t DEF TypeOK, Call
<1>3. approval' = [b \in Approval |-> IF b \in {a} THEN Nothing ELSE approval[b]]
  BY <1>1, <1>t DEF TypeOK
<1>4. \A p \in gone : status[p] = "UNCOMMITTED"
  BY <1>1, <1>t DEF MadeRows
<1>5. \A p \in Payout \ gone : status[p] = "UNCOMMITTED" =>
        \E b \in Approval \ {a} : InTransaction(b) /\ p \in approval[b].made
  BY <1>t DEF UncommittedMade
<1>6. \A b \in Approval \ {a} : approval[b] # Nothing => approval[b].made \cap gone = {}
  BY <1>1, <1>t DEF MadeRows
<1>7. /\ holder' \in [Farmer -> Approval \cup Checkout \cup {Nothing}]
      /\ \A f \in Farmer, b \in Approval \ {a} : holder[f] = b => holder'[f] = b
  BY <1>1, <1>t, UnlockedFacts
<1>8. LocksHeld'
  BY <1>1, <1>3, LeaveFacts
<1>9. refunding' \in [Checkout -> (SUBSET Farmer) \cup {Nothing}]
  BY <1>1, <1>t DEF TypeOK
<1>10. PICK S \in SUBSET Approval : S = {a}
  OBVIOUS
<1>11. QED
  <2>1. /\ approval' = [b \in Approval |-> IF b \in S THEN Nothing ELSE approval[b]]
        /\ \A p \in Payout \ gone : status[p] = "UNCOMMITTED" =>
             \E b \in Approval \ S : InTransaction(b) /\ p \in approval[b].made
        /\ \A b \in Approval \ S : approval[b] # Nothing => approval[b].made \cap gone = {}
        /\ \A f \in Farmer, b \in Approval \ S : holder[f] = b => holder'[f] = b
    BY <1>3, <1>5, <1>6, <1>7, <1>10
  <2> HIDE DEF gone
  <2>2. QED
    BY <1>1, <1>2, <1>4, <1>7, <1>8, <1>9, <2>1, RollBackInv

(* All of them are.                                                        *)
LEMMA CrashInv ==
  ASSUME Inv, Crash
  PROVE  Inv'
<1>t. TypeOK
  BY DEF Inv
<1> DEFINE gone == {p \in Payout : status[p] = "UNCOMMITTED"}
<1>1. /\ RolledBack(gone)
      /\ approval' = [a \in Approval |-> Nothing]
      /\ refunding' = [c \in Checkout |-> Nothing]
      /\ holder' = [f \in Farmer |-> Nothing]
      /\ UNCHANGED <<books, provider, cleared>>
  BY DEF Crash
<1>2. approval' = [a \in Approval |-> IF a \in Approval THEN Nothing ELSE approval[a]]
  BY <1>1
<1>3. LocksHeld'
  BY <1>1, PayoutsAssumption DEF LocksHeld
<1>4. QED
  BY <1>1, <1>2, <1>3, RollBackInv

(* A step after the commit: it settles rows that are in the books, moves   *)
(* Paystack on, and lets a call go on or end.                              *)
LEMMA SettleInv ==
  ASSUME Inv, UNCHANGED <<books, items, paidTo, refunding, holder, cleared>>,
         status' \in [Payout -> {"NONE", "UNCOMMITTED"} \cup PayoutStatus],
         provider' \in [Payout -> ProviderStatus],
         approval' \in [Approval -> Call \cup {Nothing}],
         StatusTrue',
         \A p \in Payout :
           \/ status'[p] = status[p]
           \/ /\ status[p] \in Live
              /\ status'[p] \in PayoutStatus \ {"PENDING"},
         \A a \in Approval :
           \/ /\ approval'[a] = approval[a]
              /\ approval[a] # Nothing /\ approval[a].phase = "send" =>
                   \A p \in approval[a].made : status'[p] = "PENDING" /\ provider'[p] = "none"
           \/ /\ approval[a] # Nothing /\ approval[a].phase \in {"send", "sent"}
              /\ \/ approval'[a] = Nothing
                 \/ approval'[a].made = approval[a].made /\ approval'[a].phase = "sent"
  PROVE  Inv'
<1>t. /\ TypeOK /\ LocksHeld /\ MadeRows /\ UncommittedMade
      /\ OrderInOnePayout /\ NotRefunded /\ StatusTrue /\ AccountFresh
      /\ OrdersClear /\ AccountCleared
  BY DEF Inv
<1>1. TypeOK'
  BY <1>t DEF TypeOK, books
<1>2. \A a \in Approval :
        /\ InTransaction(a)' <=> InTransaction(a)
        /\ InTransaction(a) => approval'[a] = approval[a]
  BY DEF InTransaction
<1>3. LocksHeld'
  <2>1. \A f \in Farmer, a \in Approval : holder'[f] = a =>
          /\ InTransaction(a)'
          /\ \A g \in approval'[a].todo : f < g \/ (f = g /\ approval'[a].phase \in Locked)
    BY <1>2, <1>t DEF LocksHeld
  <2>2. \A a \in Approval : approval'[a] # Nothing /\ approval'[a].phase \in Locked =>
          \A f \in Farmer : First(approval'[a].todo, f) => holder'[f] = a
    BY <1>2, <1>t DEF LocksHeld, InTransaction, Locked
  <2>3. QED
    BY <2>1, <2>2, <1>t DEF LocksHeld
<1>4. MadeRows'
  <2>1. ASSUME NEW a \in Approval, approval'[a] # Nothing, NEW p \in approval'[a].made
        PROVE  /\ p \in Payout /\ approval[a] # Nothing /\ p \in approval[a].made
               /\ status[p] = "UNCOMMITTED" => status'[p] = "UNCOMMITTED"
               /\ status[p] \in PayoutStatus => status'[p] \in PayoutStatus
    BY <2>1, <1>1 DEF TypeOK, Call, Live, PayoutStatus
  <2>2. ASSUME NEW a \in Approval, approval'[a] # Nothing, NEW p \in approval'[a].made
        PROVE  /\ InTransaction(a)' =>
                    /\ status'[p] = "UNCOMMITTED"
                    /\ \A o \in items'[p] : /\ holder'[FarmerOf[o]] = a
                                            /\ FarmerOf[o] \notin approval'[a].todo
               /\ approval'[a].phase = "send" => status'[p] = "PENDING" /\ provider'[p] = "none"
               /\ approval'[a].phase = "sent" => status'[p] \in PayoutStatus
    <3>1. InTransaction(a)' =>
            /\ status'[p] = "UNCOMMITTED"
            /\ \A o \in items'[p] : /\ holder'[FarmerOf[o]] = a
                                    /\ FarmerOf[o] \notin approval'[a].todo
      BY <2>1, <2>2, <1>2, <1>t DEF MadeRows
    <3>2. approval'[a].phase = "send" => status'[p] = "PENDING" /\ provider'[p] = "none"
      BY <2>2
    <3>3. approval'[a].phase = "sent" => status'[p] \in PayoutStatus
      BY <2>1, <2>2, <1>t DEF MadeRows, PayoutStatus
    <3>4. QED
      BY <3>1, <3>2, <3>3
  <2>3. QED
    BY <2>1, <2>2, <1>t DEF MadeRows
<1>5. UncommittedMade'
  BY <1>2, <1>t DEF UncommittedMade, PayoutStatus
<1>6. OrderInOnePayout' /\ NotRefunded'
  BY <1>t DEF OrderInOnePayout, NotRefunded, Standing, books
<1>7. AccountFresh' /\ AccountCleared'
  BY <1>2, <1>t DEF AccountFresh, AccountCleared, InTransaction, books
<1>8. OrdersClear'
  <2>1. \A p \in Payout : status'[p] \in Standing => status[p] \in Standing
    BY DEF Standing
  <2>2. QED
    BY <2>1, <1>2, <1>t DEF OrdersClear, InTransaction, books
<1>9. QED
  BY <1>1, <1>3, <1>4, <1>5, <1>6, <1>7, <1>8 DEF Inv

(* The bulk transfer and its answer.                                       *)
LEMMA SubmitInv ==
  ASSUME Inv, NEW a \in Approval, Submit(a) \/ ProviderRefuses(a)
  PROVE  Inv'
<1>t. TypeOK /\ MadeRows /\ StatusTrue
  BY DEF Inv
<1> DEFINE call == approval[a]
<1>1. /\ call # Nothing /\ call.phase \in {"send", "sent"}
      /\ UNCHANGED <<books, items, paidTo, refunding, holder, cleared>>
  BY DEF Submit, ProviderRefuses, Send, SendUnreached, SendEnds, SendRefused, Sending, rows, calls
<1>2. call \in Call /\ call.made \in SUBSET Payout
  BY <1>1, <1>t DEF TypeOK, Call
<1>3. \A p \in call.made : \A b \in Approval : approval[b] # Nothing /\ p \in approval[b].made => b = a
  BY <1>1, <1>t DEF MadeRows
<1>4. \A b \in Approval : approval[b] # Nothing /\ approval[b].phase = "send" =>
        \A p \in approval[b].made : status[p] = "PENDING" /\ provider[p] = "none"
  BY <1>t DEF MadeRows
<1>5. CASE Send(a)
  <2>1. /\ call.phase = "send"
        /\ provider' = [p \in Payout |-> IF p \in call.made THEN "asked" ELSE provider[p]]
        /\ approval' = [approval EXCEPT ![a] = [@ EXCEPT !.phase = "sent"]]
        /\ UNCHANGED status
    BY <1>5 DEF Send, Sending, rows
  <2>2. [call EXCEPT !.phase = "sent"] \in Call
    BY <1>2 DEF Call
  <2>3. /\ approval'[a].made = call.made /\ approval'[a].phase = "sent"
        /\ \A b \in Approval : b # a => approval'[b] = approval[b]
        /\ approval' \in [Approval -> Call \cup {Nothing}]
    BY <2>1, <2>2, <1>2, <1>t DEF TypeOK, Call
  <2>4. \A p \in call.made : status[p] = "PENDING"
    BY <1>1, <1>4, <2>1
  <2>5. /\ provider' \in [Payout -> ProviderStatus]
        /\ \A p \in Payout : p \notin call.made => provider'[p] = provider[p]
    BY <2>1, <1>t DEF TypeOK, ProviderStatus
  <2>6. StatusTrue'
    BY <2>1, <2>4, <2>5, <1>t DEF StatusTrue
  <2>7. \A b \in Approval \ {a} : approval[b] # Nothing /\ approval[b].phase = "send" =>
          \A p \in approval[b].made : status'[p] = "PENDING" /\ provider'[p] = "none"
    BY <1>3, <1>4, <2>1, <2>5, <1>t DEF TypeOK, Call
  <2>8. QED
    BY <1>1, <2>1, <2>3, <2>5, <2>6, <2>7, <1>t, SettleInv DEF TypeOK
<1>6. CASE SendUnreached(a) \/ SendEnds(a) \/ SendRefused(a)
  <2>1. /\ approval' = [approval EXCEPT ![a] = Nothing]
        /\ UNCHANGED provider
        /\ \/ UNCHANGED status
           \/ /\ \A p \in call.made : provider[p] = "refused"
              /\ status' = [p \in Payout |-> IF p \in call.made /\ status[p] = "PENDING"
                                             THEN "FAILED" ELSE status[p]]
    BY <1>6 DEF SendUnreached, SendEnds, SendRefused, Done, rows
  <2>2. /\ approval'[a] = Nothing
        /\ \A b \in Approval : b # a => approval'[b] = approval[b]
        /\ approval' \in [Approval -> Call \cup {Nothing}]
    BY <2>1, <1>t DEF TypeOK
  <2>3. /\ status' \in [Payout -> {"NONE", "UNCOMMITTED"} \cup PayoutStatus]
        /\ \A p \in Payout : \/ status'[p] = status[p]
                             \/ /\ p \in call.made /\ provider[p] = "refused"
                                /\ status[p] = "PENDING" /\ status'[p] = "FAILED"
    BY <2>1, <1>2, <1>t DEF TypeOK, PayoutStatus
  <2>4. StatusTrue'
    BY <2>1, <2>3, <1>t DEF StatusTrue
  <2>5. \A b \in Approval \ {a} : approval[b] # Nothing /\ approval[b].phase = "send" =>
          \A p \in approval[b].made : status'[p] = "PENDING" /\ provider'[p] = "none"
    BY <1>3, <1>4, <2>1, <2>3, <1>t DEF TypeOK, Call
  <2>6. QED
    BY <1>1, <2>1, <2>2, <2>3, <2>4, <2>5, <1>t, SettleInv DEF TypeOK, Live, PayoutStatus
<1>7. CASE ProviderRefuses(a)
  <2>1. /\ call.phase = "sent"
        /\ \A p \in call.made : provider[p] = "asked"
        /\ provider' = [p \in Payout |-> IF p \in call.made THEN "refused" ELSE provider[p]]
        /\ UNCHANGED <<status, approval>>
    BY <1>7 DEF ProviderRefuses, Sending, rows, calls
  <2>2. /\ provider' \in [Payout -> ProviderStatus]
        /\ \A p \in Payout : \/ provider'[p] = provider[p]
                             \/ provider[p] = "asked" /\ provider'[p] = "refused"
    BY <2>1, <1>t DEF TypeOK, ProviderStatus
  <2>3. StatusTrue'
    BY <2>1, <2>2, <1>t DEF StatusTrue
  <2>4. \A b \in Approval : approval[b] # Nothing /\ approval[b].phase = "send" =>
          \A p \in approval[b].made : status'[p] = "PENDING" /\ provider'[p] = "none"
    BY <1>4, <2>1, <2>2, <1>t DEF TypeOK, Call
  <2>5. QED
    BY <1>1, <2>1, <2>2, <2>3, <2>4, <1>t, SettleInv DEF TypeOK
<1>8. QED
  BY <1>5, <1>6, <1>7 DEF Submit

(* A transfer goes on at Paystack, or one of its events is handled.        *)
LEMMA EventsInv ==
  ASSUME Inv, NEW p \in Payout, Provider(p) \/ Events(p)
  PROVE  Inv'
<1>t. TypeOK /\ MadeRows /\ StatusTrue
  BY DEF Inv
<1>1. \A b \in Approval : approval[b] # Nothing /\ approval[b].phase = "send" =>
        \A q \in approval[b].made : q \in Payout /\ status[q] = "PENDING" /\ provider[q] = "none"
  BY <1>t DEF MadeRows, TypeOK, Call
<1>2. CASE Provider(p)
  <2>1. PICK from \in {"asked", "taken", "paid"}, to \in {"taken", "paid", "failed", "reversed"} :
          /\ provider[p] = from
          /\ from = "paid" => to = "reversed"
          /\ provider' = [provider EXCEPT ![p] = to]
          /\ UNCHANGED <<books, rows, calls, cleared>>
    BY <1>2 DEF Provider, ProviderTakes, ProviderPays, ProviderFails, ProviderReverses, ProviderMoves
  <2>2. /\ provider' \in [Payout -> ProviderStatus]
        /\ provider'[p] = to
        /\ \A q \in Payout : q # p => provider'[q] = provider[q]
    BY <2>1, <1>t DEF TypeOK, ProviderStatus
  <2>3. StatusTrue'
    BY <2>1, <2>2, <1>t DEF StatusTrue, rows
  <2>4. QED
    BY <2>1, <2>2, <2>3, <1>1, <1>t, SettleInv DEF TypeOK, rows, calls
<1>3. CASE Events(p)
  <2>1. PICK outcome \in {"paid", "failed", "reversed"} :
          /\ Reported(p, outcome)
          /\ status[p] = "PENDING" \/ (status[p] = "SUCCEEDED" /\ OutcomeStatus(outcome) = "REVERSED")
          /\ status' = [status EXCEPT ![p] = OutcomeStatus(outcome)]
          /\ UNCHANGED <<books, items, paidTo, calls, provider, cleared>>
    BY <1>3 DEF Events, ApplyTransfer
  <2>2. /\ outcome = "paid" => OutcomeStatus(outcome) = "SUCCEEDED"
        /\ outcome = "failed" => OutcomeStatus(outcome) = "FAILED"
        /\ outcome = "reversed" => OutcomeStatus(outcome) = "REVERSED"
    BY DEF OutcomeStatus
  <2>3. /\ status' \in [Payout -> {"NONE", "UNCOMMITTED"} \cup PayoutStatus]
        /\ status'[p] = OutcomeStatus(outcome)
        /\ \A q \in Payout : q # p => status'[q] = status[q]
    BY <2>1, <2>2, <1>t DEF TypeOK, PayoutStatus
  <2>4. provider[p] \in {"paid", "failed", "reversed"}
    BY <2>1 DEF Reported
  <2>5. StatusTrue'
    BY <2>1, <2>2, <2>3, <1>t DEF StatusTrue, Reported
  <2>6. QED
    BY <2>1, <2>2, <2>3, <2>4, <2>5, <1>1, <1>t, SettleInv DEF TypeOK, calls, Live, PayoutStatus
<1>4. QED
  BY <1>2, <1>3

(* A full refund that has all the locks meets no open approval of its      *)
(* farmers, and no payout that lives.                                      *)
LEMMA RefundingInv ==
  ASSUME Inv, NEW c \in Checkout, Refunding(c)
  PROVE  Inv'
<1>t. /\ TypeOK /\ LocksHeld /\ MadeRows /\ UncommittedMade
      /\ OrderInOnePayout /\ NotRefunded /\ StatusTrue /\ AccountFresh
      /\ OrdersClear /\ AccountCleared
  BY DEF Inv
<1>a. c \notin Approval /\ c # Nothing
  BY PayoutsAssumption
<1>1. UNCHANGED <<ripe, account, held, rows, approval, provider, cleared>>
  BY DEF Refunding, RefundBegin, RefundLock, RefundDecide, RefundAborts, WholeSettles, RefundEnds,
         books, calls
<1>2. OrderInOnePayout' /\ StatusTrue' /\ AccountFresh' /\ UncommittedMade'
  BY <1>1, <1>t DEF OrderInOnePayout, StatusTrue, AccountFresh, UncommittedMade, InTransaction, rows
<1>o. OrdersClear' /\ AccountCleared'
  <2>1. AccountCleared'
    BY <1>1, <1>t DEF AccountCleared
  <2>2. ASSUME NEW d \in Checkout, whole'[d] \in LiveRefund
        PROVE  whole[d] \in LiveRefund \/ (d = c /\ refunding[c] = {})
    BY <2>2, <1>t DEF Refunding, RefundBegin, RefundLock, RefundDecide, RefundAborts, WholeSettles,
                      RefundEnds, TypeOK, LiveRefund, books
  <2>3. ASSUME NEW a \in Approval, approval[a] # Nothing, approval[a].phase = "create",
               NEW o \in approval[a].orders
        PROVE  whole'[CheckoutOf[o]] \notin LiveRefund
    <3>1. o \in Order /\ CheckoutOf[o] \in Checkout /\ FarmerOf[o] \in Farmer
      BY <2>3, <1>t, PayoutsAssumption DEF TypeOK, Call
    <3>2. First(approval[a].todo, FarmerOf[o]) /\ whole[CheckoutOf[o]] \notin LiveRefund
      BY <2>3, <1>t DEF OrdersClear
    <3>3. holder[FarmerOf[o]] = a
      BY <2>3, <3>1, <3>2, <1>t DEF LocksHeld, Locked
    <3>4. CheckoutOf[o] = c => refunding[c] # {}
      BY <3>1, <3>3, <1>a, <1>t, NothingAssumption DEF LocksHeld
    <3>5. QED
      BY <2>2, <3>1, <3>2, <3>4
  <2>4. QED
    BY <2>1, <2>3, <1>1, <1>t DEF OrdersClear, rows
<1>3. ASSUME TypeOK', LocksHeld', NotRefunded',
             \A f \in Farmer, a \in Approval : holder[f] = a => holder'[f] = a
      PROVE  Inv'
  <2>1. \A p \in Payout : \A o \in items[p] : FarmerOf[o] \in Farmer
    BY <1>t, PayoutsAssumption DEF TypeOK
  <2>2. \A a \in Approval : approval[a] # Nothing => approval[a].made \subseteq Payout
    BY <1>t DEF TypeOK, Call
  <2>3. MadeRows'
    BY <1>1, <1>3, <2>1, <2>2, <1>t DEF MadeRows, InTransaction, rows
  <2>4. QED
    BY <1>2, <1>o, <1>3, <2>3 DEF Inv
<1>4. CASE RefundBegin(c)
  <2> DEFINE farmers == {FarmerOf[o] : o \in {q \in Order : CheckoutOf[q] = c}}
  <2>1. /\ refunding[c] = Nothing
        /\ refunding' = [refunding EXCEPT ![c] = farmers]
        /\ UNCHANGED <<books, holder>>
    BY <1>4 DEF RefundBegin
  <2>2. farmers \in SUBSET Farmer
    BY PayoutsAssumption
  <2>3. /\ refunding' \in [Checkout -> (SUBSET Farmer) \cup {Nothing}]
        /\ refunding'[c] = farmers
        /\ \A d \in Checkout : d # c => refunding'[d] = refunding[d]
    BY <2>1, <2>2, <1>t DEF TypeOK
  <2>4. TypeOK'
    BY <1>1, <2>1, <2>3, <1>t DEF TypeOK, books, rows
  <2>5. \A f \in Farmer : holder[f] # c
    BY <2>1, <1>t DEF LocksHeld
  <2>6. LocksHeld'
    BY <1>1, <2>1, <2>3, <2>5, <1>t DEF LocksHeld, InTransaction
  <2>7. NotRefunded'
    BY <1>1, <2>1, <1>t DEF NotRefunded, rows, books
  <2>8. QED
    BY <1>3, <2>1, <2>4, <2>6, <2>7
<1>5. CASE RefundLock(c)
  <2>1. PICK f \in Farmer :
          /\ refunding[c] # Nothing
          /\ First(refunding[c], f)
          /\ holder[f] = Nothing
          /\ holder' = [holder EXCEPT ![f] = c]
          /\ refunding' = [refunding EXCEPT ![c] = @ \ {f}]
          /\ UNCHANGED books
    BY <1>5 DEF RefundLock
  <2>2. refunding[c] \in SUBSET Farmer
    BY <2>1, <1>t DEF TypeOK
  <2>3. /\ refunding' \in [Checkout -> (SUBSET Farmer) \cup {Nothing}]
        /\ refunding'[c] = refunding[c] \ {f}
        /\ \A d \in Checkout : d # c => refunding'[d] = refunding[d]
        /\ holder' \in [Farmer -> Approval \cup Checkout \cup {Nothing}]
        /\ holder'[f] = c
        /\ \A g \in Farmer : g # f => holder'[g] = holder[g]
    BY <2>1, <2>2, <1>t DEF TypeOK
  <2>4. TypeOK'
    BY <1>1, <2>1, <2>3, <1>t DEF TypeOK, books, rows
  <2>5. \A g \in Farmer, a \in Approval : holder[g] = a <=> holder'[g] = a
    BY <1>a, <2>1, <2>3, PayoutsAssumption
  <2>6. \A g \in refunding[c] \ {f} : f < g
    BY <2>1, <2>2, FirstFacts
  <2>7. ASSUME NEW g \in Farmer, NEW d \in Checkout, holder'[g] = d
        PROVE  /\ refunding'[d] # Nothing
               /\ \A h \in refunding'[d] : g < h
    <3>1. CASE g = f
      <4>1. d = c
        BY <3>1, <2>3, <2>7
      <4>2. refunding'[c] # Nothing
        BY <2>2, <2>3, NothingAssumption
      <4>3. QED
        BY <4>1, <4>2, <3>1, <2>3, <2>6
    <3>2. CASE g # f
      <4>1. refunding[d] # Nothing /\ \A h \in refunding[d] : g < h
        BY <3>2, <2>3, <2>7, <1>t DEF LocksHeld
      <4>2. refunding'[c] # Nothing
        BY <2>2, <2>3, NothingAssumption
      <4>3. QED
        BY <4>1, <4>2, <2>3
    <3>3. QED
      BY <3>1, <3>2
  <2>8. \A d \in Checkout : refunding'[d] # Nothing =>
          \A o \in Order : CheckoutOf[o] = d =>
            FarmerOf[o] \in refunding'[d] \/ holder'[FarmerOf[o]] = d
    <3> SUFFICES ASSUME NEW d \in Checkout, refunding'[d] # Nothing, NEW o \in Order, CheckoutOf[o] = d
                 PROVE  FarmerOf[o] \in refunding'[d] \/ holder'[FarmerOf[o]] = d
      OBVIOUS
    <3>1. FarmerOf[o] \in Farmer /\ d # Nothing
      BY PayoutsAssumption
    <3>2. FarmerOf[o] \in refunding[d] \/ holder[FarmerOf[o]] = d
      BY <2>1, <2>3, <1>t DEF LocksHeld
    <3>3. QED
      BY <3>1, <3>2, <2>1, <2>3
  <2>9. LocksHeld'
    BY <1>1, <2>5, <2>7, <2>8, <1>t DEF LocksHeld, InTransaction, First
  <2>10. NotRefunded'
    BY <1>1, <2>1, <1>t DEF NotRefunded, rows, books
  <2>11. QED
    BY <1>3, <2>4, <2>5, <2>9, <2>10
<1>6. CASE RefundDecide(c) \/ RefundAborts(c)
  <2>1. /\ refunding' = [refunding EXCEPT ![c] = Nothing]
        /\ holder' = Unlocked(c)
        /\ \/ UNCHANGED whole
           \/ /\ refunding[c] = {}
              /\ \A o \in Order : CheckoutOf[o] = c => ~LiveItem(o)
              /\ whole' = [whole EXCEPT ![c] = "PENDING"]
    BY <1>6 DEF RefundDecide, RefundAborts, RefundEnds
  <2>2. /\ holder' \in [Farmer -> Approval \cup Checkout \cup {Nothing}]
        /\ \A f \in Farmer : holder'[f] # c
        /\ \A f \in Farmer : \A y : y # c /\ holder[f] = y => holder'[f] = y
        /\ \A f \in Farmer : \A y \in Approval \cup Checkout : holder'[f] = y => holder[f] = y
    BY <2>1, <1>t, UnlockedFacts
  <2>3. /\ refunding' \in [Checkout -> (SUBSET Farmer) \cup {Nothing}]
        /\ refunding'[c] = Nothing
        /\ \A d \in Checkout : d # c => refunding'[d] = refunding[d]
    BY <2>1, <1>t DEF TypeOK
  <2>4. whole' \in [Checkout -> RefundStatus]
    BY <2>1, <1>t DEF TypeOK, RefundStatus
  <2>5. TypeOK'
    BY <1>1, <2>2, <2>3, <2>4, <1>t DEF TypeOK, rows
  <2>6. \A f \in Farmer, a \in Approval : holder[f] = a <=> holder'[f] = a
    BY <1>a, <2>2
  <2>7. \A f \in Farmer, d \in Checkout : holder'[f] = d =>
          /\ refunding'[d] # Nothing
          /\ \A g \in refunding'[d] : f < g
    BY <2>2, <2>3, <1>t DEF LocksHeld
  <2>8. \A d \in Checkout : refunding'[d] # Nothing =>
          \A o \in Order : CheckoutOf[o] = d =>
            FarmerOf[o] \in refunding'[d] \/ holder'[FarmerOf[o]] = d
    BY <2>2, <2>3, <1>t, PayoutsAssumption DEF LocksHeld
  <2>9. LocksHeld'
    BY <1>1, <2>6, <2>7, <2>8, <1>t DEF LocksHeld, InTransaction, First
  <2>10. NotRefunded'
    <3>1. CASE UNCHANGED whole
      BY <3>1, <1>1, <1>t DEF NotRefunded, rows
    <3>2. CASE /\ refunding[c] = {}
               /\ \A o \in Order : CheckoutOf[o] = c => ~LiveItem(o)
               /\ whole' = [whole EXCEPT ![c] = "PENDING"]
      <4> SUFFICES ASSUME NEW p \in Payout, status[p] \in Standing, NEW o \in items[p]
                   PROVE  whole'[CheckoutOf[o]] \notin LiveRefund
        BY <1>1 DEF NotRefunded, rows
      <4>1. o \in Order /\ CheckoutOf[o] \in Checkout /\ FarmerOf[o] \in Farmer
        BY <1>t, PayoutsAssumption DEF TypeOK
      <4>2. CheckoutOf[o] # c
        <5> SUFFICES ASSUME CheckoutOf[o] = c PROVE FALSE
          OBVIOUS
        <5>1. status[p] = "UNCOMMITTED"
          BY <3>2, <4>1 DEF LiveItem, Standing
        <5>2. PICK a \in Approval : InTransaction(a) /\ p \in approval[a].made
          BY <5>1, <1>t DEF UncommittedMade
        <5>3. holder[FarmerOf[o]] = a
          BY <5>2, <1>t DEF MadeRows, InTransaction
        <5>4. refunding[c] # Nothing
          BY <3>2, NothingAssumption
        <5>5. holder[FarmerOf[o]] = c
          BY <5>4, <3>2, <4>1, <1>t DEF LocksHeld
        <5>6. QED
          BY <5>3, <5>5, <1>a
      <4>3. QED
        BY <4>1, <4>2, <3>2, <1>t DEF NotRefunded, TypeOK
    <3>3. QED
      BY <2>1, <3>1, <3>2
  <2>11. QED
    BY <1>3, <2>5, <2>6, <2>9, <2>10
<1>7. CASE WholeSettles(c)
  <2>1. PICK result \in {"PROCESSED", "FAILED"} :
          /\ whole[c] = "PENDING"
          /\ whole' = [whole EXCEPT ![c] = result]
          /\ UNCHANGED <<refunding, holder>>
    BY <1>7 DEF WholeSettles, calls
  <2>2. whole' \in [Checkout -> RefundStatus]
    BY <2>1, <1>t DEF TypeOK, RefundStatus
  <2>3. TypeOK'
    BY <1>1, <2>1, <2>2, <1>t DEF TypeOK, rows
  <2>4. LocksHeld'
    BY <1>1, <2>1, <1>t DEF LocksHeld, InTransaction
  <2>5. \A d \in Checkout : whole'[d] \in LiveRefund => whole[d] \in LiveRefund
    BY <2>1, <1>t DEF TypeOK, LiveRefund
  <2>6. NotRefunded'
    BY <1>1, <2>5, <1>t, PayoutsAssumption DEF NotRefunded, TypeOK, rows
  <2>7. QED
    BY <1>3, <2>1, <2>3, <2>4, <2>6
<1>8. QED
  BY <1>4, <1>5, <1>6, <1>7 DEF Refunding

(* Every step keeps the invariant.                                         *)
LEMMA NextInv == Inv /\ [Next]_vars => Inv'
<1> SUFFICES ASSUME Inv, [Next]_vars PROVE Inv'
  OBVIOUS
<1>1. CASE (\E o \in Order : Ripen(o)) \/ (\E f \in Farmer : SetAccount(f) \/ HoldEnds(f))
  BY <1>1, BooksInv
<1>2. ASSUME NEW a \in Approval, Approve(a) PROVE Inv'
  BY <1>2, ApproveBeginInv, ApproveLockInv, ApproveReadInv, ApproveCreateInv, ApproveCommitInv, ApproveAbortsInv
  DEF Approve
<1>3. ASSUME NEW a \in Approval, Submit(a) \/ ProviderRefuses(a) PROVE Inv'
  BY <1>3, SubmitInv
<1>4. ASSUME NEW p \in Payout, Provider(p) \/ Events(p) PROVE Inv'
  BY <1>4, EventsInv
<1>5. ASSUME NEW c \in Checkout, Refunding(c) PROVE Inv'
  BY <1>5, RefundingInv
<1>6. CASE Crash
  BY <1>6, CrashInv
<1>7. CASE UNCHANGED vars
  BY <1>7 DEF vars, books, rows, calls, Inv, TypeOK, LocksHeld, MadeRows, UncommittedMade,
              OrderInOnePayout, NotRefunded, StatusTrue, AccountFresh, OrdersClear, AccountCleared,
              InTransaction
<1>8. QED
  BY <1>1, <1>2, <1>3, <1>4, <1>5, <1>6, <1>7 DEF Next

(* The locks, the rows and Paystack agree in every reachable state.        *)
THEOREM Invariance == Spec => []Inv
<1>1. QED
  BY InitInv, NextInv, PTL DEF Spec

(* The tables, the calls and the locks are well formed.                    *)
THEOREM SpecTypeOK == Spec => []TypeOK
<1>1. Inv => TypeOK
  BY DEF Inv
<1>2. QED
  BY <1>1, Invariance, PTL

(* However approvals overlap, fail and are repeated, an order is in one    *)
(* payout at most that is not failed or reversed.                          *)
THEOREM SpecOrderInOnePayout == Spec => []OrderInOnePayout
<1>1. Inv => OrderInOnePayout
  BY DEF Inv
<1>2. QED
  BY <1>1, Invariance, PTL

(* No order is both paid out and refunded with its whole checkout.         *)
THEOREM SpecPaidOrRefunded == Spec => []PaidOrRefunded
<1>1. Inv => PaidOrRefunded
  BY DEF Inv, NotRefunded, PaidOrRefunded, LiveItem, Standing
<1>2. QED
  BY <1>1, Invariance, PTL

(* The books say what Paystack did, whatever order its events come in.     *)
THEOREM SpecStatusTrue == Spec => []StatusTrue
<1>1. Inv => StatusTrue
  BY DEF Inv
<1>2. QED
  BY <1>1, Invariance, PTL

(* A transfer that may still pay keeps its payout PENDING or SUCCEEDED, so *)
(* its orders are in no other.                                             *)
THEOREM SpecMoneyOnce == Spec => []MoneyOnce
<1>1. Inv => MoneyOnce
  <2> SUFFICES ASSUME Inv, NEW p \in Payout, NEW q \in Payout,
                      {provider[p], provider[q]} \subseteq {"asked", "taken", "paid"},
                      items[p] \cap items[q] # {}
               PROVE  p = q
    BY DEF MoneyOnce
  <2>1. ASSUME NEW x \in Payout, provider[x] \in {"asked", "taken", "paid"}
        PROVE  status[x] \in Live
    BY <2>1 DEF Inv, TypeOK, StatusTrue, PayoutStatus, Live
  <2>2. status[p] \in Live /\ status[q] \in Live
    BY <2>1
  <2>3. QED
    BY <2>2 DEF Inv, OrderInOnePayout
<1>2. QED
  BY <1>1, Invariance, PTL

(* Rows are made by ApproveCreate alone, of orders and to an account that  *)
(* were read when the farmer was not held.                                 *)
PaidToCleared(p, f) ==
  /\ paidTo'[p] # 0 /\ paidTo'[p] = cleared[f]
  /\ account[f] = cleared[f] => f \notin held

LEMMA StepAccountHeld ==
  ASSUME Inv, Next, NEW p \in Payout, status[p] = "NONE", status'[p] = "UNCOMMITTED",
         NEW o \in items'[p]
  PROVE  PaidToCleared(p, FarmerOf[o])
<1>t. TypeOK /\ OrdersClear /\ AccountCleared /\ MadeRows
  BY DEF Inv
<1>1. ASSUME NEW a \in Approval, ApproveCreate(a)
      PROVE  PaidToCleared(p, FarmerOf[o])
  <2>1. PICK f \in Farmer, q \in Payout :
          /\ approval[a] # Nothing /\ approval[a].phase = "create"
          /\ First(approval[a].todo, f)
          /\ status' = [status EXCEPT ![q] = "UNCOMMITTED"]
          /\ items' = [items EXCEPT ![q] = approval[a].orders]
          /\ paidTo' = [paidTo EXCEPT ![q] = approval[a].account]
    BY <1>1 DEF ApproveCreate
  <2>2. p = q
    BY <2>1, <1>t DEF TypeOK
  <2>3. items'[p] = approval[a].orders /\ paidTo'[p] = approval[a].account
    BY <2>1, <2>2, <1>t DEF TypeOK
  <2>4. o \in Order /\ FarmerOf[o] \in Farmer /\ First(approval[a].todo, FarmerOf[o])
    BY <2>1, <2>3, <1>t, PayoutsAssumption DEF OrdersClear, TypeOK, Call
  <2>5. QED
    BY <2>1, <2>3, <2>4, <1>t DEF AccountCleared, PaidToCleared
<1>2. ASSUME NEW a \in Approval, ApproveCommit(a) \/ SendRefused(a) PROVE FALSE
  BY <1>2, <1>t DEF ApproveCommit, SendRefused
<1>3. ASSUME NEW q \in Payout, Events(q) PROVE FALSE
  BY <1>3, <1>t DEF Events, ApplyTransfer, OutcomeStatus, TypeOK
<1>4. ASSUME NEW a \in Approval, ApproveAborts(a) PROVE FALSE
  BY <1>4 DEF ApproveAborts, RolledBack
<1>5. CASE Crash
  BY <1>5 DEF Crash, RolledBack
<1>6. QED
  BY <1>1, <1>2, <1>3, <1>4, <1>5
  DEF Next, Ripen, SetAccount, HoldEnds, Approve, ApproveBegin, ApproveLock, ApproveRead, Submit,
      Send, SendUnreached, SendEnds, ProviderRefuses, Provider, ProviderTakes, ProviderPays,
      ProviderFails, ProviderReverses, ProviderMoves, Refunding, RefundBegin, RefundLock,
      RefundDecide, RefundAborts, RefundEnds, WholeSettles, rows

(* A payout goes to the account the farmer had, not changed of late, when  *)
(* his orders were read; to one just replaced only if he set another       *)
(* between that read and the row.                                          *)
THEOREM SpecAccountHeld == Spec => AccountHeld
<1>1. Inv /\ [Next]_vars =>
        [\A p \in Payout : status[p] = "NONE" /\ status'[p] = "UNCOMMITTED" =>
           \A o \in items'[p] : LET f == FarmerOf[o] IN
             /\ paidTo'[p] # 0 /\ paidTo'[p] = cleared[f]
             /\ account[f] = cleared[f] => f \notin held]_vars
  BY StepAccountHeld DEF vars, rows, PaidToCleared
<1>2. QED
  BY <1>1, Invariance, PTL DEF Spec, AccountHeld

(* A write of Payout.status is guarded on what may still change.           *)
LEMMA StepResultStays ==
  ASSUME Inv, Next, NEW p \in Payout
  PROVE  /\ status[p] \in {"FAILED", "REVERSED"} => status'[p] = status[p]
         /\ status[p] = "SUCCEEDED" => status'[p] \in {"SUCCEEDED", "REVERSED"}
         /\ status[p] = "PENDING" => status'[p] \in PayoutStatus
<1>t. TypeOK /\ MadeRows
  BY DEF Inv
<1>1. ASSUME NEW a \in Approval, ApproveCreate(a)
      PROVE  status'[p] = status[p] \/ status[p] = "NONE"
  BY <1>1, <1>t DEF ApproveCreate, FreeRow, TypeOK, rows
<1>2. ASSUME NEW a \in Approval, ApproveCommit(a) \/ ApproveAborts(a)
      PROVE  status'[p] = status[p] \/ status[p] = "UNCOMMITTED"
  <2>1. approval[a] # Nothing /\ InTransaction(a)
    BY <1>2 DEF ApproveCommit, ApproveAborts, InTransaction
  <2>2. \A q \in approval[a].made : status[q] = "UNCOMMITTED"
    BY <2>1, <1>t DEF MadeRows
  <2>3. QED
    BY <1>2, <2>2 DEF ApproveCommit, ApproveAborts, RolledBack
<1>3. ASSUME NEW a \in Approval, SendRefused(a)
      PROVE  status'[p] = status[p] \/ (status[p] = "PENDING" /\ status'[p] = "FAILED")
  BY <1>3 DEF SendRefused
<1>4. ASSUME NEW q \in Payout, Events(q)
      PROVE  \/ status'[p] = status[p]
             \/ status[p] = "PENDING" /\ status'[p] \in PayoutStatus
             \/ status[p] = "SUCCEEDED" /\ status'[p] = "REVERSED"
  BY <1>4, <1>t DEF Events, ApplyTransfer, OutcomeStatus, TypeOK, PayoutStatus
<1>5. CASE Crash
  BY <1>5 DEF Crash, RolledBack, PayoutStatus
<1>6. CASE UNCHANGED status
  BY <1>6 DEF PayoutStatus
<1>7. QED
  BY <1>1, <1>2, <1>3, <1>4, <1>5, <1>6
  DEF Next, Ripen, SetAccount, HoldEnds, Approve, ApproveBegin, ApproveLock, ApproveRead, Submit, Send,
      SendUnreached, SendEnds, ProviderRefuses, Provider, ProviderTakes, ProviderPays,
      ProviderFails, ProviderReverses, ProviderMoves, Refunding, RefundBegin, RefundLock,
      RefundDecide, RefundAborts, RefundEnds, WholeSettles, rows, PayoutStatus

(* A result is final but for a success that is reversed.                   *)
THEOREM SpecResultStays == Spec => ResultStays
<1>1. Inv /\ [Next]_vars =>
        [\A p \in Payout :
           /\ status[p] \in {"FAILED", "REVERSED"} => status'[p] = status[p]
           /\ status[p] = "SUCCEEDED" => status'[p] \in {"SUCCEEDED", "REVERSED"}
           /\ status[p] = "PENDING" => status'[p] \in PayoutStatus]_vars
  BY StepResultStays DEF vars
<1>2. QED
  BY <1>1, Invariance, PTL DEF Spec, ResultStays

(* A set of farmers that is not empty has a last one.                      *)
LEMMA LastFarmer ==
  ASSUME NEW W \in SUBSET Farmer, W # {}
  PROVE  \E f \in W : \A g \in W : g <= f
<1> DEFINE T == {Farmers - f : f \in W}
<1>1. T \subseteq Nat /\ T # {}
  <2>1. \A f \in W : Farmers - f \in Nat
    BY PayoutsAssumption DEF Farmer
  <2>2. PICK f \in W : TRUE
    OBVIOUS
  <2>3. Farmers - f \in T
    OBVIOUS
  <2>4. QED
    BY <2>1, <2>3
<1>2. PICK x \in T : \A y \in T : ~(<<y, x>> \in OpToRel(<, Nat))
  BY <1>1, NatLessThanWellFounded, WFMin
<1>3. PICK f \in W : x = Farmers - f
  BY <1>2
<1>4. ASSUME NEW g \in W PROVE g <= f
  <2>1. Farmers - g \in T
    BY <1>4
  <2>2. ~(Farmers - g < Farmers - f)
    BY <1>1, <1>2, <1>3, <2>1 DEF OpToRel
  <2>3. QED
    BY <2>2, <1>4, <1>3, PayoutsAssumption DEF Farmer
<1>5. QED
  BY <1>4

(* In a circle of waiting transactions take the last farmer waited for:    *)
(* who has his lock waits for a later one still.                           *)
LEMMA NoCircle == Inv => NoCircularWait
<1> SUFFICES ASSUME Inv, NEW S \in SUBSET (Approval \cup Checkout), S # {},
                    \A x \in S : \E y \in S : WaitsFor(x, y)
             PROVE  FALSE
  BY DEF NoCircularWait
<1>t. TypeOK /\ LocksHeld
  BY DEF Inv
<1>1. \A x \in S : Todo(x) \in SUBSET Farmer
  BY <1>t DEF Todo, TypeOK, Call, InTransaction
<1>2. ASSUME NEW x \in S, NEW f \in Farmer, holder[f] = x, NEW g \in Todo(x) PROVE f < g
  <2>1. CASE x \in Checkout
    BY <2>1, <1>2, <1>t DEF LocksHeld, Todo
  <2>2. CASE x \notin Checkout
    <3>1. x \in Approval /\ InTransaction(x) /\ approval[x].phase = "lock" /\ g \in approval[x].todo
      BY <2>2, <1>2 DEF Todo
    <3>2. QED
      BY <3>1, <1>2, <1>t DEF LocksHeld, Locked
  <2>3. QED
    BY <2>1, <2>2
<1> DEFINE W == {f \in Farmer : \E x \in S : First(Todo(x), f)}
<1>3. W # {}
  BY DEF WaitsFor
<1>4. PICK f \in W : \A g \in W : g <= f
  BY <1>3, LastFarmer
<1>5. PICK x \in S : First(Todo(x), f)
  OBVIOUS
<1>6. PICK y \in S : WaitsFor(x, y)
  OBVIOUS
<1>7. holder[f] = y
  <2>1. PICK h \in Farmer : First(Todo(x), h) /\ holder[h] = y
    BY <1>6 DEF WaitsFor
  <2>2. QED
    BY <2>1, <1>1, <1>5, FirstFacts
<1>8. PICK g \in Farmer : First(Todo(y), g)
  BY DEF WaitsFor
<1>9. f < g
  BY <1>2, <1>7, <1>8 DEF First
<1>10. g \in W
  BY <1>8
<1>11. QED
  BY <1>4, <1>9, <1>10, PayoutsAssumption DEF Farmer

(* Approvals and full refunds never wait for each other in a circle, for   *)
(* any number of them.                                                     *)
THEOREM SpecNoCircularWait == Spec => []NoCircularWait
<1>1. QED
  BY NoCircle, Invariance, PTL

(* For any orders and payouts: an order's money goes to the farmer or back *)
(* to the buyer, and to the farmer once.                                   *)
THEOREM SpecPaidOnce == Spec => []PaidOnce
<1>1. PaidOrRefunded /\ MoneyOnce => PaidOnce
  BY DEF PaidOnce
<1>. QED
  BY <1>1, SpecPaidOrRefunded, SpecMoneyOnce, PTL

=============================================================================
