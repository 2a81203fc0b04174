------------------------------- MODULE Shelf --------------------------------
(***************************************************************************)
(* One listing on the shop: its stock, its status column, and the requests *)
(* that read the row first and write it later.  Placing, paying, releasing *)
(* and cancelling an order are single steps (see Settlement); confirming   *)
(* an order, editing a listing and disabling it each read in one statement *)
(* and write in another, without a lock in between, so they are two steps  *)
(* here and what was read is kept in confirming, editing and disabling.    *)
(*                                                                         *)
(* An order goes no further than CONFIRMED: PREPARING, READY and SHIPPED   *)
(* do not touch the listing and count as open and paid like CONFIRMED.     *)
(* The farm stays VERIFIED.                                                *)
(***************************************************************************)
EXTENDS Integers, FiniteSetsExt

CONSTANTS
  Order,       \* orders for the listing
  Qty,         \* the quantity ordered
  Edit,        \* update requests of the farmer, one at a time each
  MaxActual,   \* bound: the largest quantity a farmer enters
  Nothing      \* no read under way

ProduceStatus == {"DRAFT", "PUBLISHED", "SOLD_OUT", "DISABLED"}
Row == [actual : Int, floating : Int, status : ProduceStatus]

ASSUME ShelfAssumption ==
  /\ Qty \in [Order -> Nat \ {0}]
  /\ MaxActual \in Nat
  /\ Nothing \notin Row
  /\ Nothing \notin [read : Row, write : Row]

VARIABLES
  produce,      \* the Produce row
  order,        \* Order.status
  confirming,   \* the row as read by the transaction confirming an order
  editing,      \* the row as read by an update request, and what it will write
  disabling,    \* an admin's disable has counted no open paid order
  supplied      \* history: the quantity the farmer says to have, over time

vars == <<produce, order, confirming, editing, disabling, supplied>>

OrderStatus == {"NONE", "AWAITING_PAYMENT", "PENDING", "CONFIRMED", "CANCELLED"}
OpenPaid == {"PENDING", "CONFIRMED"}
Uncommitted == {"AWAITING_PAYMENT", "PENDING"}

(* deriveProduceStatus *)
DeriveStatus(status, actual, floating) ==
  IF status \notin {"PUBLISHED", "SOLD_OUT"} THEN status
  ELSE IF actual <= 0 \/ floating <= 0 THEN "SOLD_OUT" ELSE "PUBLISHED"

(* Broken on purpose: a sold-out listing stays sold out.                   *)
SyncedDown(row) ==
  [row EXCEPT !.status = IF @ = "PUBLISHED" /\ row.floating <= 0 THEN "SOLD_OUT" ELSE @]

(* syncProduceStatus, on the row its caller has just written and locked.   *)
Synced(row) ==
  [row EXCEPT !.status = DeriveStatus(@, row.actual, row.floating)]

TypeOK ==
  /\ produce \in Row
  /\ order \in [Order -> OrderStatus]
  /\ confirming \in [Order -> Row \cup {Nothing}]
  /\ editing \in [Edit -> [read : Row, write : Row] \cup {Nothing}]
  /\ disabling \in BOOLEAN
  /\ supplied \in Int

(* ProduceService.create: the request names any quantity and any status.   *)
Init ==
  /\ \E q \in 0..MaxActual, s \in ProduceStatus :
       /\ produce = Synced([actual |-> q, floating |-> q, status |-> s])
       /\ supplied = q
  /\ order = [o \in Order |-> "NONE"]
  /\ confirming = [o \in Order |-> Nothing]
  /\ editing = [e \in Edit |-> Nothing]
  /\ disabling = FALSE

-----------------------------------------------------------------------------
(* Orders                                                                  *)

(* tryReserveProduce: the UPDATE checks and takes in one statement.        *)
Place(o) ==
  /\ order[o] = "NONE"
  /\ produce.status = "PUBLISHED"
  /\ produce.floating >= Qty[o]
  /\ produce' = Synced([produce EXCEPT !.floating = @ - Qty[o]])
  /\ order' = [order EXCEPT ![o] = "AWAITING_PAYMENT"]
  /\ UNCHANGED <<confirming, editing, disabling, supplied>>

Pay(o) ==
  /\ order[o] = "AWAITING_PAYMENT"
  /\ order' = [order EXCEPT ![o] = "PENDING"]
  /\ UNCHANGED <<produce, confirming, editing, disabling, supplied>>

(* releaseStock, for an unpaid order whose checkout ends and for a paid    *)
(* one that is cancelled.  An order being confirmed is locked: a cancel    *)
(* waits for it, then finds the status it read gone and is refused.        *)
GiveBack(o) ==
  /\ order[o] \in {"AWAITING_PAYMENT", "PENDING", "CONFIRMED"}
  /\ confirming[o] = Nothing
  /\ produce' = Synced(
       [actual |-> IF order[o] \in Uncommitted THEN produce.actual
                                               ELSE produce.actual + Qty[o],
        floating |-> produce.floating + Qty[o],
        status |-> produce.status])
  /\ order' = [order EXCEPT ![o] = "CANCELLED"]
  /\ UNCHANGED <<confirming, editing, disabling, supplied>>

(* confirm has moved the order on, uncommitted, and reads the listing ...  *)
ConfirmRead(o) ==
  /\ order[o] = "PENDING"
  /\ confirming[o] = Nothing
  /\ confirming' = [confirming EXCEPT ![o] = produce]
  /\ UNCHANGED <<produce, order, editing, disabling, supplied>>

(* ... then takes the quantity off whatever is there, and writes a status  *)
(* computed from what it read.                                             *)
ConfirmWrite(o) ==
  LET seen == confirming[o] IN
  /\ seen # Nothing
  /\ produce' = [actual |-> produce.actual - Qty[o],
                 floating |-> produce.floating,
                 status |-> DeriveStatus(seen.status, seen.actual - Qty[o],
                                         seen.floating)]
  /\ order' = [order EXCEPT ![o] = "CONFIRMED"]
  /\ confirming' = [confirming EXCEPT ![o] = Nothing]
  /\ UNCHANGED <<editing, disabling, supplied>>

(* The transaction rolls back: a timeout, a lost connection, a crash.      *)
ConfirmAborts(o) ==
  /\ confirming[o] # Nothing
  /\ confirming' = [confirming EXCEPT ![o] = Nothing]
  /\ UNCHANGED <<produce, order, editing, disabling, supplied>>

-----------------------------------------------------------------------------
(* The farmer edits the listing (ProduceService.update)                    *)

(* "An admin disable stays": asked is the status in the request, or the    *)
(* current one when it has none.                                           *)
Requested(current, asked) == IF current = "DISABLED" THEN "DISABLED" ELSE asked

EditRead(e) ==
  /\ editing[e] = Nothing
  /\ \E a \in 0..MaxActual \cup {produce.actual},
        asked \in ProduceStatus :
       LET f == produce.floating + (a - produce.actual)
           s == DeriveStatus(Requested(produce.status, asked), a, f) IN
       /\ f >= 0
       /\ editing' = [editing EXCEPT ![e] =
            [read |-> produce,
             write |-> [actual |-> a, floating |-> f, status |-> s]]]
  /\ UNCHANGED <<produce, order, confirming, disabling, supplied>>

(* Broken on purpose: guarded on half of what was read.                    *)
UnchangedActual(seen) == produce.actual = seen.actual

(* The write is refused if the quantities have changed since the read.     *)
UnchangedStock(seen) ==
  produce.actual = seen.actual /\ produce.floating = seen.floating

EditWrite(e) ==
  /\ editing[e] # Nothing
  /\ UnchangedStock(editing[e].read)
  /\ produce' = editing[e].write
  /\ supplied' = supplied + editing[e].write.actual - editing[e].read.actual
  /\ editing' = [editing EXCEPT ![e] = Nothing]
  /\ UNCHANGED <<order, confirming, disabling>>

(* "Produce stock changed; retry", or the request dies in between.         *)
EditDropped(e) ==
  /\ editing[e] # Nothing
  /\ editing' = [editing EXCEPT ![e] = Nothing]
  /\ UNCHANGED <<produce, order, confirming, disabling, supplied>>

-----------------------------------------------------------------------------
(* An admin disables the listing (AdminProduceService.disable)             *)

DisableCheck ==
  /\ ~disabling
  /\ \A o \in Order : order[o] \notin OpenPaid
  /\ disabling' = TRUE
  /\ UNCHANGED <<produce, order, confirming, editing, supplied>>

DisableWrite ==
  /\ disabling
  /\ disabling' = FALSE
  /\ produce' = [produce EXCEPT !.status = "DISABLED"]
  /\ UNCHANGED <<order, confirming, editing, supplied>>

Next ==
  \/ \E o \in Order :
       \/ Place(o) \/ Pay(o) \/ GiveBack(o)
       \/ ConfirmRead(o) \/ ConfirmWrite(o) \/ ConfirmAborts(o)
  \/ \E e \in Edit : EditRead(e) \/ EditWrite(e) \/ EditDropped(e)
  \/ DisableCheck \/ DisableWrite

Spec == Init /\ [][Next]_vars

-----------------------------------------------------------------------------
(* Every unit is accounted for through edits as well: what orders hold and *)
(* what the farmer has confirmed are together what was ever supplied, and  *)
(* an edit racing an order or a confirmation neither frees reserved units  *)
(* nor loses a change (update guards its write on both quantities).  The   *)
(* CHECKs of the table, 0 <= floatingQuantity <= actualQuantity, follow.   *)
UnitsIn(S) == MapThenSumSet(LAMBDA o : Qty[o], {o \in Order : order[o] \in S})
StockAccounted ==
  /\ produce.actual = supplied - UnitsIn({"CONFIRMED"})
  /\ produce.floating = supplied - UnitsIn(Uncommitted \cup {"CONFIRMED"})
  /\ 0 <= produce.floating
  /\ produce.floating <= produce.actual

(* A request that starts after a disable respects it: only an edit or a    *)
(* confirmation that read the listing while it was not DISABLED takes it   *)
(* out of DISABLED again.                                                  *)
LateRequestsRespectDisable ==
  [][produce.status = "DISABLED" /\ produce'.status # "DISABLED" =>
       \/ \E e \in Edit : editing[e] # Nothing /\ editing[e].read.status # "DISABLED"
       \/ \E o \in Order : confirming[o] # Nothing /\ confirming[o].status # "DISABLED"
    ]_vars

InStep(row) == row.status = DeriveStatus(row.status, row.actual, row.floating)

(* The status parts from the stock in one place only: a confirmation that  *)
(* writes over a row changed since it read it.  Orders, releases, edits    *)
(* and lone confirmations keep PUBLISHED and SOLD_OUT in step with the     *)
(* stock.                                                                  *)
DriftNeedsOverlap ==
  [][InStep(produce) /\ ~InStep(produce)' =>
       \E o \in Order : /\ order[o] = "PENDING"
                        /\ order'[o] = "CONFIRMED"
                        /\ confirming[o] # produce]_vars

(* The run's question about the status: LateRequestsRespectDisable and     *)
(* DriftNeedsOverlap.                                                      *)
StatusStrays == LateRequestsRespectDisable /\ DriftNeedsOverlap
=============================================================================
