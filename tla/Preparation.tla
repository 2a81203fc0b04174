----------------------------- MODULE Preparation -----------------------------
(* The preparation of one order by its farmer (src/src/order): prepare makes *)
(* the checklist, updateChecklist ticks and unticks its items, markReady     *)
(* wants them all, and cancel ends it meanwhile.  Each reads, then writes    *)
(* one row in a transaction; its condition on the other row is read, as      *)
(* committed so far, and not held.  Amounts, stock (Settlement, Shelf) and   *)
(* the handover that begins (Documents) are left out.                        *)
EXTENDS Naturals

CONSTANTS
  Item,     \* CHECKLIST_ITEMS
  Request   \* requests under way

VARIABLES
  stage,    \* Order.status
  ticks,    \* OrderChecklist: the items that are ticked
  doing,    \* what each request is about
  crossed   \* the order was written while its checklist was, or the reverse

vars == <<stage, ticks, doing, crossed>>

OrderChecklist == SUBSET Item
SellerCancellable == {"CONFIRMED", "PREPARING"}
Idle == [do |-> "none", step |-> "idle"]
Step == {"read", "written"}
Doing ==
  {Idle} \cup [do : {"tick"}, step : Step, on : OrderChecklist, off : OrderChecklist]
         \cup [do : {"ready"}, step : Step]
         \cup [do : {"cancel"}, step : Step, saw : SellerCancellable]

TypeOK ==
  /\ stage \in {"CONFIRMED", "PREPARING", "READY", "CANCELLED"}
  /\ ticks \in OrderChecklist
  /\ doing \in [Request -> Doing]
  /\ crossed \in BOOLEAN

Init ==
  /\ stage = "CONFIRMED" /\ ticks = {}
  /\ doing = [r \in Request |-> Idle] /\ crossed = FALSE

-----------------------------------------------------------------------------
(* A row is held from the write to the commit. *)
Held(ops) == \E r \in Request : doing[r].step = "written" /\ doing[r].do \in ops
OrderHeld == Held({"ready", "cancel"})
ChecklistHeld == Held({"tick"})

Begin(r, what) ==
  /\ doing[r] = Idle /\ doing' = [doing EXCEPT ![r] = what]
  /\ UNCHANGED <<stage, ticks, crossed>>
Is(r, do, step) == doing[r].do = do /\ doing[r].step = step
Ends(r) == doing' = [doing EXCEPT ![r] = Idle]
(* The write of r, if its condition still holds, beside the one it crosses.  *)
Write(r, holds, crosses) ==
  /\ IF holds THEN /\ doing' = [doing EXCEPT ![r].step = "written"]
                   /\ crossed' = (crossed \/ crosses)
              ELSE Ends(r) /\ UNCHANGED crossed
  /\ UNCHANGED <<stage, ticks>>

(* prepare, in one guarded transaction that also makes the checklist. *)
Prepare ==
  /\ stage = "CONFIRMED" /\ ~OrderHeld
  /\ stage' = "PREPARING"
  /\ UNCHANGED <<ticks, doing, crossed>>

(* updateChecklist *)
TickRead(r) ==
  /\ stage = "PREPARING"
  /\ \E on, off \in OrderChecklist :
       on \cap off = {} /\ Begin(r, [do |-> "tick", step |-> "read", on |-> on, off |-> off])
TickGuard == stage = "PREPARING"
TickWrite(r) ==
  /\ Is(r, "tick", "read") /\ ~ChecklistHeld
  /\ Write(r, TickGuard, OrderHeld)
TickCommit(r) ==
  /\ Is(r, "tick", "written")
  /\ ticks' = (ticks \cup doing[r].on) \ doing[r].off
  /\ Ends(r) /\ UNCHANGED <<stage, crossed>>

(* markReady *)
Complete == ticks = Item
ReadyRead(r) ==
  /\ stage = "PREPARING" /\ Complete
  /\ Begin(r, [do |-> "ready", step |-> "read"])
ReadyGuardLoose == stage = "PREPARING"
ReadyGuard == stage = "PREPARING" /\ Complete
ReadyWrite(r) ==
  /\ Is(r, "ready", "read") /\ ~OrderHeld
  /\ Write(r, ReadyGuard, ChecklistHeld)
ReadyCommit(r) ==
  /\ Is(r, "ready", "written")
  /\ stage' = "READY"
  /\ Ends(r) /\ UNCHANGED <<ticks, crossed>>

(* cancel, guarded by the status it read *)
CancelRead(r) ==
  /\ stage \in SellerCancellable
  /\ Begin(r, [do |-> "cancel", step |-> "read", saw |-> stage])
CancelWrite(r) ==
  /\ Is(r, "cancel", "read") /\ ~OrderHeld
  /\ Write(r, stage = doing[r].saw, ChecklistHeld)
CancelCommit(r) ==
  /\ Is(r, "cancel", "written")
  /\ stage' = "CANCELLED"
  /\ Ends(r) /\ UNCHANGED <<ticks, crossed>>

(* A transaction fails or its process dies. *)
Abort(r) ==
  /\ doing[r].step = "written"
  /\ Ends(r) /\ UNCHANGED <<stage, ticks, crossed>>

(* Nothing moves an order that is READY (its handover does) or CANCELLED:    *)
(* every request is refused when it reads it.                                *)
Refused == stage \notin SellerCancellable /\ UNCHANGED vars

Next ==
  \/ Prepare \/ Refused
  \/ \E r \in Request :
       \/ TickRead(r) \/ TickWrite(r) \/ TickCommit(r)
       \/ ReadyRead(r) \/ ReadyWrite(r) \/ ReadyCommit(r)
       \/ CancelRead(r) \/ CancelWrite(r) \/ CancelCommit(r)
       \/ Abort(r)

Spec == Init /\ [][Next]_vars

-----------------------------------------------------------------------------
(* "So a tick can't land after the order moved on": an order becomes READY   *)
(* with every item ticked and its checklist changes only while PREPARING,    *)
(* unless the two rows were written in transactions that overlapped, each    *)
(* with the other's old row before it (write skew, which READ COMMITTED      *)
(* allows).                                                                  *)
ReadyAsTicked ==
  [][/\ stage' = "READY" /\ stage # "READY" => ticks = Item \/ crossed
     /\ ticks' # ticks => stage = "PREPARING" \/ crossed]_vars
=============================================================================
