------------------------------- MODULE Reports --------------------------------
(* The figures of the dashboards and detail pages.  Most of them come from    *)
(* several statements, and each statement sees the table as committed when it *)
(* starts, whether they run in a $transaction (READ COMMITTED), side by side  *)
(* in Promise.all, or as the parts of one findUnique with includes; meanwhile *)
(* farms, listings, orders and requests change.  A statement is kept as what  *)
(* it saw of the table; the figures are computed from that as the code does.  *)
EXTENDS Integers, FiniteSets

CONSTANTS
  MaxRow,      \* bound: rows of a table
  MaxChange    \* bound: changes while a page is loaded, and loaded again

ReportsAssumption == MaxRow \in Nat /\ MaxChange \in Nat

Row == 1..MaxRow
Report == {"farms", "listings", "orders", "sales", "request"}

VARIABLES
  report,      \* the page being loaded
  table,       \* status of each row of the table it is about; "NONE": no row
  seen,        \* what each statement has seen
  earned,      \* history: the orders counted as earned when last loaded
  changed,     \* whether the table changed since the first statement
  changes      \* changes so far

vars == <<report, table, seen, earned, changed, changes>>

(* The statements of a page; those of Parallel run in any order.              *)
Statements(r) ==
  CASE r = "farms" -> <<"statuses", "total">>
    [] r = "listings" -> <<"total", "statuses", "recent">>
    [] r = "orders" -> <<"earned", "active">>
    [] r = "sales" -> <<"sold", "completed", "recent">>
    [] r = "request" -> <<"request", "checkouts">>
ParallelOrders == {"farms", "listings", "orders"}
Parallel == {"farms", "listings"}
Statement == UNION {{Statements(r)[i] : i \in DOMAIN Statements(r)} : r \in Report}

FarmStatus == {"NONE", "PENDING", "VERIFIED", "REJECTED", "SUSPENDED"}
ListingStatus == {"NONE", "DRAFT", "PUBLISHED", "SOLD_OUT", "DISABLED"}
(* CONFIRMED stands for PREPARING as well, which is cancelled alike, and       *)
(* SHIPPED for READY, which is not.                                            *)
OrderStatus ==
  {"NONE", "AWAITING_PAYMENT", "PENDING", "CONFIRMED", "SHIPPED", "FULFILLED", "CANCELLED"}
(* A request and its checkouts change in one transaction (Sourcing); CONFIRMED *)
(* stands for FULFILMENT too, COMPLETED for CLOSED.                            *)
RequestStatus == {"NONE", "FINDING_SUPPLY", "AWAITING_BUYER", "CONFIRMED", "COMPLETED"}

StatusOf(r) ==
  CASE r = "farms" -> FarmStatus
    [] r = "listings" -> ListingStatus
    [] r \in {"orders", "sales"} -> OrderStatus
    [] r = "request" -> RequestStatus
AnyStatus == UNION {StatusOf(r) : r \in Report}
Unseen == [r \in Row |-> "UNSEEN"]

TypeOK ==
  /\ report \in Report \cup {"none"}
  /\ table \in [Row -> AnyStatus]
  /\ seen \in [Statement -> [Row -> AnyStatus] \cup {Unseen}]
  /\ earned \subseteq Row
  /\ changed \in BOOLEAN /\ changes \in 0..MaxChange

Init ==
  /\ report = "none"
  /\ table = [r \in Row |-> "NONE"]
  /\ seen = [s \in Statement |-> Unseen]
  /\ earned = {} /\ changed = FALSE /\ changes = 0

-----------------------------------------------------------------------------
(* How a row of each table moves                                              *)

(* Created; decided; moved or edited; suspended with its farmer; deleted.     *)
FarmMoves ==
  {"NONE"} \X {"PENDING"} \cup {"PENDING"} \X {"VERIFIED", "REJECTED"}
  \cup {"VERIFIED", "REJECTED"} \X {"PENDING"}
  \cup {"PENDING", "VERIFIED", "REJECTED"} \X {"SUSPENDED", "NONE"}
  \cup {"SUSPENDED"} \X {"NONE"}

(* The farmer's status and the stock's; an admin disables a listing and then  *)
(* may remove it, a farmer removes any (findByFarm's farm stays).             *)
ListingMoves ==
  {"NONE"} \X {"DRAFT", "PUBLISHED", "SOLD_OUT", "DISABLED"}
  \cup {"DRAFT", "PUBLISHED", "SOLD_OUT"} \X {"DRAFT", "PUBLISHED", "SOLD_OUT", "DISABLED", "NONE"}
  \cup {"DISABLED"} \X {"NONE"}

(* A legacy order, which has no checkout, may be deleted while PENDING.       *)
OrderMoves ==
  {<<"NONE", "AWAITING_PAYMENT">>, <<"AWAITING_PAYMENT", "PENDING">>, <<"PENDING", "CONFIRMED">>,
   <<"CONFIRMED", "SHIPPED">>, <<"SHIPPED", "FULFILLED">>,
   <<"PENDING", "NONE">>}
  \cup {"AWAITING_PAYMENT", "PENDING", "CONFIRMED"} \X {"CANCELLED"}

RequestMoves ==
  {"NONE"} \X {"FINDING_SUPPLY"}
  \cup {"FINDING_SUPPLY"} \X {"AWAITING_BUYER", "COMPLETED"}
  \cup {"AWAITING_BUYER"} \X {"FINDING_SUPPLY", "CONFIRMED", "COMPLETED"}
  \cup {"CONFIRMED"} \X {"COMPLETED"}

Moves(r) ==
  CASE r = "farms" -> FarmMoves
    [] r = "listings" -> ListingMoves
    [] r \in {"orders", "sales"} -> OrderMoves
    [] r = "request" -> RequestMoves

Change(r, to) ==
  /\ report # "none" /\ changes < MaxChange
  /\ <<table[r], to>> \in Moves(report)
  /\ table' = [table EXCEPT ![r] = to]
  /\ changed' = TRUE /\ changes' = changes + 1
  /\ UNCHANGED <<report, seen, earned>>

-----------------------------------------------------------------------------
(* The figures                                                                *)

Having(statement, statuses) == {r \in Row : seen[statement][r] \in statuses}
Number(statement, statuses) == Cardinality(Having(statement, statuses))
There(r) == StatusOf(r) \ {"NONE"}

Rounded(n, d) == (2 * n + d) \div (2 * d)

(* AdminFarmService.summary *)
VerifiedFarms == Number("statuses", {"VERIFIED"})
TotalFarms == Number("total", There("farms"))
VerificationRate == IF TotalFarms = 0 THEN 0 ELSE Rounded(100 * VerifiedFarms, TotalFarms)
ByStatus == VerifiedFarms + Number("statuses", {"PENDING"}) + Number("statuses", {"SUSPENDED"})
FarmsAgree == VerificationRate <= 100 /\ ByStatus <= TotalFarms

(* AdminProduceService.summary *)
ActiveListings == Number("statuses", {"PUBLISHED", "SOLD_OUT"})
InactiveListings == Number("statuses", {"DRAFT", "DISABLED"})
ListingsAgree ==
  /\ ActiveListings + InactiveListings = Number("total", There("listings"))
  /\ Number("recent", There("listings")) <= Number("total", There("listings"))

(* AdminFarmService.marketplace: SALE leaves out what is unpaid or cancelled. *)
Sale == There("sales") \ {"CANCELLED", "AWAITING_PAYMENT"}
SalesAgree ==
  /\ Number("completed", {"FULFILLED"}) <= Number("sold", Sale)
  /\ Having("recent", Sale) = Having("sold", Sale)

(* OrderService.summary *)
Earned == Having("earned", {"FULFILLED"})
Active == Having("active", {"PENDING", "CONFIRMED", "SHIPPED"})

(* AdminSourcingRequestService.findOne: the checkout the buyer has to pay, and *)
(* the status stored beside it.                                               *)
RequestAgrees == Having("checkouts", {"AWAITING_BUYER"}) = Having("request", {"AWAITING_BUYER"})

-----------------------------------------------------------------------------
(* The page                                                                   *)

Open ==
  /\ report = "none"
  /\ \E r \in Report, t \in [Row -> AnyStatus] :
       /\ \A i \in Row : t[i] \in StatusOf(r)
       /\ report' = r /\ table' = t
  /\ UNCHANGED <<seen, earned, changed, changes>>

AllSeen == report # "none" /\ \A i \in DOMAIN Statements(report) : seen[Statements(report)[i]] # Unseen

Read(i) ==
  /\ report # "none"
  /\ LET s == Statements(report) IN
     /\ i \in DOMAIN s /\ seen[s[i]] = Unseen
     /\ report \notin Parallel => \A j \in 1..(i - 1) : seen[s[j]] # Unseen
     /\ changed' = (changed /\ \E j \in DOMAIN s : seen[s[j]] # Unseen)
     /\ seen' = [seen EXCEPT ![s[i]] = table]
  /\ UNCHANGED <<report, table, earned, changes>>

(* It is loaded again, *)
Reload ==
  /\ AllSeen
  /\ earned' = IF report = "orders" THEN Earned ELSE {}
  /\ seen' = [s \in Statement |-> Unseen]
  /\ UNCHANGED <<report, table, changed, changes>>
(* or left. *)
Close ==
  /\ AllSeen
  /\ report' = "none" /\ table' = [r \in Row |-> "NONE"]
  /\ seen' = [s \in Statement |-> Unseen]
  /\ earned' = {} /\ changed' = FALSE /\ changes' = 0

Next ==
  \/ \E r \in Row, to \in AnyStatus : Change(r, to)
  \/ \E i \in 1..3 : Read(i)
  \/ Open \/ Reload \/ Close

Spec == Init /\ [][Next]_vars

-----------------------------------------------------------------------------
(* The figures of a page add up, or the table changed between its statements: *)
(* no farm is left out of the total it is counted in, no listing is neither   *)
(* active nor inactive, a request's status and its checkout belong together.  *)
(* The orders' page needs no such excuse, for it reads what is earned first:  *)
(* an order is never both earned and active, and "they only ever go up".      *)
FiguresAgree ==
  AllSeen =>
    /\ \/ changed
       \/ /\ report = "farms" => FarmsAgree
          /\ report = "listings" => ListingsAgree
          /\ report = "sales" => SalesAgree
          /\ report = "request" => RequestAgrees
    /\ report = "orders" => Earned \cap Active = {} /\ earned \subseteq Earned
=============================================================================
