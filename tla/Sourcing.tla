------------------------------ MODULE Sourcing ------------------------------
(***************************************************************************)
(* One sourcing request: its stored status, the selection an admin saves,  *)
(* the checkouts placed for it and their orders.                           *)
(*                                                                         *)
(* Every transaction that changes one of these rows ends with              *)
(* syncSourcingRequest, which reads all of them and rewrites the stored    *)
(* status.  Only the row being changed is locked before that read: the     *)
(* order's row, the lock checkout:{id}, or the lock sourcing:{id} of the   *)
(* admin's operations.  The request's own row is locked by the write.  So  *)
(* a transaction is two steps: one that makes its change and reads, one    *)
(* that writes and commits, and what it read is kept in ordering, paying   *)
(* or admin meanwhile.  assign and close lock the request's row before     *)
(* they sync, so only what they check first is read earlier.               *)
(*                                                                         *)
(* PENDING stands for PENDING, CONFIRMED and PREPARING, and READY for      *)
(* READY and SHIPPED, which deriveSourcingStatus does not tell apart.      *)
(* Nothing in the code makes an order FULFILLED, so no request is ever     *)
(* COMPLETED.  Stock is the subject of Settlement and Shelf.               *)
(***************************************************************************)
EXTENDS Naturals, FiniteSets

CONSTANTS
  Checkout,     \* checkouts that may be placed for the request
  Order,        \* their orders
  CheckoutOf,   \* the checkout an order belongs to
  Call,         \* calls of escalate
  Nothing       \* no transaction under way

SourcingAssumption == CheckoutOf \in [Order -> Checkout]

VARIABLES
  status,      \* SourcingRequest.status, as stored
  closed,      \* whether closedAt is set
  agent,       \* whether assignedAgentId is set
  allocated,   \* whether the request has SourcingAllocation rows
  checkout,    \* Checkout.status
  order,       \* Order.status
  ordering,    \* the transaction on an order: its next status, what it read
  paying,      \* the transaction on a checkout, likewise
  admin,       \* the transaction holding sourcing:{id}
  escalating,  \* calls of escalate that found escalatedAt null
  escalated    \* calls of escalate that set escalatedAt and its audit event

rows == <<closed, agent, allocated, checkout, order>>
jobs == <<ordering, paying, admin>>
escalation == <<escalating, escalated>>
vars == <<status, rows, jobs, escalation>>

RequestStatus == {"NEW", "IN_REVIEW", "FINDING_SUPPLY", "AWAITING_BUYER",
                  "CONFIRMED", "FULFILMENT", "CLOSED"}
CheckoutStatus == {"NONE", "AWAITING_PAYMENT", "PAID", "CANCELLED", "EXPIRED"}
OrderStatus == {"NONE", "AWAITING_PAYMENT", "PENDING", "READY", "CANCELLED"}
OpenForMatch == {"NEW", "IN_REVIEW", "FINDING_SUPPLY"}

Live == {"AWAITING_PAYMENT", "PAID"}

(* deriveSourcingStatus, over the statuses of the paid checkout's orders.  *)
Derived(ch, ord, cl, ag, al) ==
  LET paid == {ord[o] : o \in {p \in Order : ch[CheckoutOf[p]] = "PAID"}} IN
  IF cl \/ paid = {"CANCELLED"} THEN "CLOSED"
  ELSE IF "READY" \in paid THEN "FULFILMENT"
  ELSE IF \E c \in Checkout : ch[c] = "PAID" THEN "CONFIRMED"
  ELSE IF \E c \in Checkout : ch[c] = "AWAITING_PAYMENT" THEN "AWAITING_BUYER"
  ELSE IF al THEN "FINDING_SUPPLY"
  ELSE IF ag THEN "IN_REVIEW" ELSE "NEW"

(* Broken on purpose: a release takes the paid orders along.               *)
MovedAll(S, to) ==
  [o \in Order |-> IF CheckoutOf[o] \in S THEN to ELSE order[o]]

(* The orders of the checkouts S as they are once S is paid or released.   *)
Moved(S, to) ==
  [o \in Order |-> IF CheckoutOf[o] \in S /\ order[o] = "AWAITING_PAYMENT"
                   THEN to ELSE order[o]]

TypeOK ==
  /\ status \in RequestStatus
  /\ {closed, agent, allocated} \subseteq BOOLEAN
  /\ checkout \in [Checkout -> CheckoutStatus]
  /\ order \in [Order -> OrderStatus]
  /\ ordering \in [Order -> [to : OrderStatus, status : RequestStatus] \cup {Nothing}]
  /\ paying \in [Checkout -> [to : CheckoutStatus, status : RequestStatus] \cup {Nothing}]
  /\ admin \in {Nothing} \cup [op : {"assign"}]
               \cup [op : {"save"}, to : BOOLEAN, status : RequestStatus]
               \cup [op : {"confirm"}, to : Checkout, status : RequestStatus]
               \cup [op : {"close"}, to : SUBSET Checkout]
  /\ escalating \subseteq Call
  /\ escalated \subseteq Call

(* SourcingRequestService.create *)
Init ==
  /\ status = "NEW"
  /\ closed = FALSE /\ agent = FALSE /\ allocated = FALSE
  /\ checkout = [c \in Checkout |-> "NONE"]
  /\ order = [o \in Order |-> "NONE"]
  /\ ordering = [o \in Order |-> Nothing]
  /\ paying = [c \in Checkout |-> Nothing]
  /\ admin = Nothing
  /\ escalating = {} /\ escalated = {}

(* The write of syncSourcingRequest.  It also sets closedAt when all paid  *)
(* orders were cancelled, the one way to CLOSED without it.                *)
Store(derived) ==
  /\ status' = derived
  /\ closed' = (closed \/ derived = "CLOSED")

-----------------------------------------------------------------------------
(* An order moves on, or somebody writes a message about it: OrderService, *)
(* HandoverService, ConversationService.send.                              *)
NextOf(s) == CASE s = "PENDING" -> {"PENDING", "READY", "CANCELLED"}
               [] s = "READY" -> {"READY"}
               [] OTHER -> {}

OrderSync(o, to) ==
  Derived(checkout, [order EXCEPT ![o] = to], closed, agent, allocated)

OrderBegin(o) ==
  /\ ordering[o] = Nothing
  /\ \E to \in NextOf(order[o]) :
       ordering' = [ordering EXCEPT ![o] =
                      [to |-> to, status |-> OrderSync(o, to)]]
  /\ UNCHANGED <<status, rows, paying, admin, escalation>>

OrderCommit(o) ==
  /\ ordering[o] # Nothing
  /\ order' = [order EXCEPT ![o] = ordering[o].to]
  /\ Store(ordering[o].status)
  /\ ordering' = [ordering EXCEPT ![o] = Nothing]
  /\ UNCHANGED <<agent, allocated, checkout, paying, admin, escalation>>

OrderAborts(o) ==
  /\ ordering[o] # Nothing
  /\ ordering' = [ordering EXCEPT ![o] = Nothing]
  /\ UNCHANGED <<status, rows, paying, admin, escalation>>

-----------------------------------------------------------------------------
(* The checkout is paid, cancelled by the buyer or expired, each under     *)
(* checkout:{id} with its status read under that lock (see Settlement).    *)
OrdersGo(to) == IF to = "PAID" THEN "PENDING" ELSE "CANCELLED"

CheckoutBegin(c) ==
  /\ paying[c] = Nothing
  /\ checkout[c] = "AWAITING_PAYMENT"
  /\ \E to \in {"PAID", "CANCELLED", "EXPIRED"} :
       paying' = [paying EXCEPT ![c] =
         [to |-> to,
          status |-> Derived([checkout EXCEPT ![c] = to], Moved({c}, OrdersGo(to)),
                             closed, agent, allocated)]]
  /\ UNCHANGED <<status, rows, ordering, admin, escalation>>

CheckoutCommit(c) ==
  /\ paying[c] # Nothing
  /\ checkout' = [checkout EXCEPT ![c] = paying[c].to]
  /\ order' = Moved({c}, OrdersGo(paying[c].to))
  /\ Store(paying[c].status)
  /\ paying' = [paying EXCEPT ![c] = Nothing]
  /\ UNCHANGED <<agent, allocated, ordering, admin, escalation>>

CheckoutAborts(c) ==
  /\ paying[c] # Nothing
  /\ paying' = [paying EXCEPT ![c] = Nothing]
  /\ UNCHANGED <<status, rows, ordering, admin, escalation>>

-----------------------------------------------------------------------------
(* The admin's operations, one at a time under sourcing:{id}               *)

AdminBegin(job) ==
  /\ admin = Nothing
  /\ admin' = job
  /\ UNCHANGED <<status, rows, ordering, paying, escalation>>

AdminCommit(op) ==
  /\ admin # Nothing
  /\ admin.op = op
  /\ admin' = Nothing
  /\ UNCHANGED <<ordering, paying, escalation>>

AdminAborts ==
  /\ admin # Nothing
  /\ admin' = Nothing
  /\ UNCHANGED <<status, rows, ordering, paying, escalation>>

AssignBegin == status \in OpenForMatch /\ AdminBegin([op |-> "assign"])

AssignCommit ==
  /\ AdminCommit("assign")
  /\ agent' = TRUE
  /\ Store(Derived(checkout, order, closed, TRUE, allocated))
  /\ UNCHANGED <<allocated, checkout, order>>

SaveBegin ==
  /\ agent
  /\ status \in OpenForMatch
  /\ \E some \in BOOLEAN :
       AdminBegin([op |-> "save", to |-> some,
                   status |-> Derived(checkout, order, closed, agent, some)])

SaveCommit ==
  /\ AdminCommit("save")
  /\ allocated' = admin.to
  /\ Store(admin.status)
  /\ UNCHANGED <<agent, checkout, order>>

(* Broken on purpose: a paid checkout no longer stands in the way.         *)
ConfirmBeginUnpaid(c) ==
  /\ checkout[c] = "NONE"
  /\ \A d \in Checkout : checkout[d] # "AWAITING_PAYMENT"
  /\ allocated
  /\ AdminBegin([op |-> "confirm", to |-> c,
                 status |-> Derived([checkout EXCEPT ![c] = "AWAITING_PAYMENT"],
                                    order, closed, agent, allocated)])

(* confirm looks at the checkouts and the selection, never at the status.  *)
ConfirmBegin(c) ==
  /\ checkout[c] = "NONE"
  /\ \A d \in Checkout : checkout[d] \notin Live
  /\ allocated
  /\ AdminBegin([op |-> "confirm", to |-> c,
                 status |-> Derived([checkout EXCEPT ![c] = "AWAITING_PAYMENT"],
                                    order, closed, agent, allocated)])

ConfirmCommit ==
  /\ AdminCommit("confirm")
  /\ checkout' = [checkout EXCEPT ![admin.to] = "AWAITING_PAYMENT"]
  /\ order' = [o \in Order |-> IF CheckoutOf[o] = admin.to THEN "AWAITING_PAYMENT"
                                                           ELSE order[o]]
  /\ Store(admin.status)
  /\ UNCHANGED <<agent, allocated>>

(* close finds the unpaid checkout before it has locked it ...             *)
CloseBegin ==
  /\ status \notin {"CLOSED", "CONFIRMED", "FULFILMENT"}
  /\ AdminBegin([op |-> "close",
                 to |-> {c \in Checkout : checkout[c] = "AWAITING_PAYMENT"}])

(* ... and releases it without looking again.  If a payment holds the lock *)
(* it wants the request's row in turn, and the database aborts one.        *)
CloseCommit ==
  /\ AdminCommit("close")
  /\ \A c \in admin.to : paying[c] = Nothing
  /\ checkout' = [c \in Checkout |-> IF c \in admin.to THEN "CANCELLED"
                                                       ELSE checkout[c]]
  /\ order' = Moved(admin.to, "CANCELLED")
  /\ Store("CLOSED")
  /\ UNCHANGED <<agent, allocated>>

-----------------------------------------------------------------------------
(* escalate takes no lock: it looks, then writes.                          *)
EscalateRead(a) ==
  /\ a \notin escalating \cup escalated
  /\ status # "CLOSED"
  /\ escalated = {}
  /\ escalating' = escalating \cup {a}
  /\ UNCHANGED <<status, rows, jobs, escalated>>

EscalateWrite(a) ==
  /\ a \in escalating
  /\ escalating' = escalating \ {a}
  /\ escalated' = escalated \cup {a}
  /\ UNCHANGED <<status, rows, jobs>>

Next ==
  \/ \E o \in Order : OrderBegin(o) \/ OrderCommit(o) \/ OrderAborts(o)
  \/ \E c \in Checkout : \/ CheckoutBegin(c) \/ CheckoutCommit(c)
                         \/ CheckoutAborts(c) \/ ConfirmBegin(c)
  \/ AssignBegin \/ AssignCommit \/ SaveBegin \/ SaveCommit \/ ConfirmCommit
  \/ CloseBegin \/ CloseCommit \/ AdminAborts
  \/ \E a \in Call : EscalateRead(a) \/ EscalateWrite(a)

Spec == Init /\ [][Next]_vars

-----------------------------------------------------------------------------
(* A request never has two checkouts the buyer could pay or has paid, so   *)
(* it is never bought twice.  The database refuses two awaiting ones; that *)
(* a paid one counts as well rests on confirm and its lock.                *)
OneLiveCheckout ==
  \A c, d \in Checkout : checkout[c] \in Live /\ checkout[d] \in Live => c = d

(* "The selection cannot change after a checkout is placed", although save *)
(* trusts the stored status, which may be behind the rows.                 *)
SelectionFrozen ==
  [][allocated' # allocated => \A c \in Checkout : checkout[c] \notin Live]_vars

(* Only its own cancellation ends an order the buyer has paid for: neither *)
(* a late release of its checkout nor the closing of the request does.     *)
PaidOrdersSurvive ==
  [][\A o \in Order :
       order[o] \in {"PENDING", "READY"} /\ order'[o] = "CANCELLED" =>
         ordering[o] # Nothing]_vars

(* save, assign and close look at the stored status alone, and they may:   *)
(* it can be behind on the orders, but on a request that is not closed it  *)
(* always tells whether a checkout is waiting or paid.                     *)
StatusShowsCheckout ==
  ~closed =>
    /\ (\E c \in Checkout : checkout[c] = "AWAITING_PAYMENT") <=>
         status = "AWAITING_BUYER"
    /\ (\E c \in Checkout : checkout[c] = "PAID") <=>
         status \in {"CONFIRMED", "FULFILMENT"}

(* The run's question about the request's checkouts: OneLiveCheckout and   *)
(* StatusShowsCheckout.                                                    *)
BoughtOnce == OneLiveCheckout /\ StatusShowsCheckout

(* "The caller holds the checkout lock and has checked it is               *)
(* AWAITING_PAYMENT" (release-checkout.ts).                                *)
ReleasedUnpaid ==
  [][\A c \in Checkout :
       checkout'[c] \in {"CANCELLED", "EXPIRED"} /\ checkout'[c] # checkout[c] =>
         checkout[c] = "AWAITING_PAYMENT"]_vars
=============================================================================
