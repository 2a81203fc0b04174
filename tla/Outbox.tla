------------------------------- MODULE Outbox -------------------------------
(* What the notifications promise: a delivery written with a notification  *)
(* waits, is offered to its channel any number of times, and is settled    *)
(* once; only an administrator makes a failed one wait again.              *)
EXTENDS Naturals

CONSTANT Delivery

VARIABLES
  status,    \* NotificationDelivery.status of each delivery, "NONE" before it is written
  accepted   \* how often the channel took the message

vars == <<status, accepted>>

Init == /\ status = [d \in Delivery |-> "NONE"]
        /\ accepted = [d \in Delivery |-> 0]

(* The deliveries of one notification are written together. *)
Write(S) ==
  /\ \A d \in S : status[d] = "NONE"
  /\ status' = [d \in Delivery |-> IF d \in S THEN "PENDING" ELSE status[d]]
  /\ UNCHANGED accepted

Offer(d) ==
  /\ status[d] # "NONE"
  /\ accepted' = [accepted EXCEPT ![d] = @ + 1]
  /\ UNCHANGED status

(* SENT is said only of a message its channel took. *)
Settle(d) ==
  /\ status[d] = "PENDING"
  /\ \E result \in {"SENT", "SKIPPED", "FAILED"} :
       /\ result = "SENT" => accepted[d] > 0
       /\ status' = [status EXCEPT ![d] = result]
  /\ UNCHANGED accepted

Retry(d) ==
  /\ status[d] = "FAILED"
  /\ status' = [status EXCEPT ![d] = "PENDING"]
  /\ UNCHANGED accepted

Next == \/ \E S \in (SUBSET Delivery) \ {{}} : Write(S)
        \/ \E d \in Delivery : Offer(d) \/ Settle(d) \/ Retry(d)

Spec == Init /\ [][Next]_vars
=============================================================================
