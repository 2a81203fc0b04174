---------------------------- MODULE Notifications ----------------------------
(* The outbox of src/src/notifications: rows written with the business      *)
(* change, one queue job per row under the row's id, workers that send and  *)
(* then settle the row, a sweep that queues again what is still PENDING,    *)
(* and administrators who retry what failed.  A notification's text and     *)
(* the channel are left out: a send is one of four outcomes.                *)
EXTENDS Naturals, FiniteSets

CONSTANTS
  Delivery,      \* rows of NotificationDelivery
  Worker,        \* slots that run jobs, over every instance of the backend
  Caller,        \* calls of NotificationQueue.enqueue under way at once
  Admin,
  Nobody,
  MaxAttempts,   \* "attempts" of a job
  MaxRounds,     \* bound: administrators retry a row so often
  MaxFaults      \* bound: faults a row meets

ASSUME NotificationsAssumption ==
  /\ MaxAttempts \in Nat \ {0}
  /\ MaxRounds \in Nat
  /\ MaxFaults \in Nat
  /\ Nobody \notin Worker
  /\ Nobody \notin Delivery

VARIABLES
  row,        \* NotificationDelivery: its status, and how often it was retried
  job,        \* the job the queue keeps under the row's id
  working,    \* what each worker does
  calling,    \* enqueue calls under way
  retrying,   \* the row each administrator has found FAILED
  accepted,   \* how often the channel took the row's message
  faults,     \* faults the row met
  stalled     \* rows whose job was given to a second worker while the first still ran

vars == <<row, job, working, calling, retrying, accepted, faults, stalled>>

DeliveryStatus == {"NONE", "PENDING", "SENT", "SKIPPED", "FAILED"}
JobState == {"none", "waiting", "active", "failed", "completed"}
Finished == {"failed", "completed"}
ChannelOutcome == {"SENT", "SKIPPED", "TRANSIENT", "PERMANENT"}

NoJob == [state |-> "none", made |-> 0, owner |-> Nobody]
Idle == [step |-> "idle", d |-> Nobody, round |-> 0, final |-> FALSE,
         outcome |-> "SKIPPED", ending |-> "completed"]
Done(d, ending) == [Idle EXCEPT !.step = "done", !.d = d, !.ending = ending]
NoCall == [todo |-> {}, seen |-> {}, ready |-> {}]
CallFor(S) == [todo |-> S, seen |-> {}, ready |-> {}]
Free(c) == calling[c] = NoCall

TypeOK ==
  /\ row \in [Delivery -> [status : DeliveryStatus, round : Nat]]
  /\ job \in [Delivery -> [state : JobState, made : Nat, owner : Worker \cup {Nobody}]]
  /\ working \in [Worker -> [step : {"idle", "taken", "read", "sent", "done"},
                             d : Delivery \cup {Nobody}, round : Nat, final : BOOLEAN,
                             outcome : ChannelOutcome,
                             ending : {"waiting", "failed", "completed"}]]
  /\ \A w \in Worker : working[w].step # "idle" => working[w].d \in Delivery
  /\ calling \in [Caller -> [todo : SUBSET Delivery, seen : SUBSET Delivery,
                             ready : SUBSET Delivery]]
  /\ retrying \in [Admin -> Delivery \cup {Nobody}]
  /\ accepted \in [Delivery -> Nat]
  /\ faults \in [Delivery -> Nat]
  /\ stalled \in SUBSET Delivery

Init ==
  /\ row = [d \in Delivery |-> [status |-> "NONE", round |-> 0]]
  /\ job = [d \in Delivery |-> NoJob]
  /\ working = [w \in Worker |-> Idle]
  /\ calling = [c \in Caller |-> NoCall]
  /\ retrying = [a \in Admin |-> Nobody]
  /\ accepted = [d \in Delivery |-> 0]
  /\ faults = [d \in Delivery |-> 0]
  /\ stalled = {}

Pending(d) == row[d].status = "PENDING"
MayFail(d) == faults[d] < MaxFaults
Fault(S) == faults' = [d \in Delivery |-> IF d \in S THEN faults[d] + 1 ELSE faults[d]]

-----------------------------------------------------------------------------
(* The rows *)

(* notify commits the rows and, not awaited, has them queued. *)
Notify(S, c) ==
  /\ S # {} /\ Free(c)
  /\ \A d \in S : row[d].status = "NONE"
  /\ row' = [d \in Delivery |-> IF d \in S THEN [row[d] EXCEPT !.status = "PENDING"] ELSE row[d]]
  /\ calling' = [calling EXCEPT ![c] = CallFor(S)]
  /\ UNCHANGED <<job, working, retrying, accepted, faults, stalled>>

(* sweep queues every row that waits.  A row waits five minutes first, which *)
(* is no longer than a dispatch may hang, so no order of the two is excluded.*)
Sweep(c) ==
  LET stale == {d \in Delivery : Pending(d)}
  IN /\ Free(c) /\ stale # {}
     /\ calling' = [calling EXCEPT ![c] = CallFor(stale)]
     /\ UNCHANGED <<row, job, working, retrying, accepted, faults, stalled>>

(* retry reads the row, *)
RetryRead(a, d) ==
  /\ retrying[a] = Nobody
  /\ row[d].status = "FAILED" /\ row[d].round < MaxRounds
  /\ retrying' = [retrying EXCEPT ![a] = d]
  /\ UNCHANGED <<row, job, working, calling, accepted, faults, stalled>>

(* writes it if it is still FAILED, and has it queued; *)
RetryWrite(a, c) ==
  LET d == retrying[a]
  IN /\ d # Nobody /\ Free(c)
     /\ row[d].status = "FAILED"
     /\ row' = [row EXCEPT ![d] = [status |-> "PENDING", round |-> @.round + 1]]
     /\ calling' = [calling EXCEPT ![c] = CallFor({d})]
     /\ retrying' = [retrying EXCEPT ![a] = Nobody]
     /\ UNCHANGED <<job, working, accepted, faults, stalled>>

(* "Delivery is no longer failed". *)
RetryRefused(a) ==
  LET d == retrying[a]
  IN /\ d # Nobody
     /\ row[d].status # "FAILED"
     /\ retrying' = [retrying EXCEPT ![a] = Nobody]
     /\ UNCHANGED <<row, job, working, calling, accepted, faults, stalled>>

-----------------------------------------------------------------------------
(* NotificationQueue.enqueue: look at the job kept under each id, remove a   *)
(* finished one, then add them all.                                          *)
RemovableNever(d) == FALSE
Removable(d) == job[d].state \in Finished

Look(c, d) ==
  LET call == calling[c]
      rest == call.todo \ {d}
  IN /\ d \in call.todo
     /\ calling' = [calling EXCEPT
          ![c] = IF Removable(d) THEN [call EXCEPT !.todo = rest, !.seen = call.seen \cup {d}]
                                 ELSE [call EXCEPT !.todo = rest, !.ready = call.ready \cup {d}]]
     /\ UNCHANGED <<row, job, working, retrying, accepted, faults, stalled>>

(* A job that a worker holds by now is not removed: the call throws, and     *)
(* adds nothing of its batch.                                                *)
Remove(c, d) ==
  LET call == calling[c]
  IN /\ d \in call.seen
     /\ IF job[d].state = "active"
        THEN /\ calling' = [calling EXCEPT ![c] = NoCall]
             /\ UNCHANGED job
        ELSE /\ calling' = [calling EXCEPT
                  ![c] = [call EXCEPT !.seen = call.seen \ {d}, !.ready = call.ready \cup {d}]]
             /\ job' = [job EXCEPT ![d] = NoJob]
     /\ UNCHANGED <<row, working, retrying, accepted, faults, stalled>>

(* Adding under an id the queue keeps does nothing. *)
AddedAnyway(d) == [NoJob EXCEPT !.state = "waiting"]
Added(d) == IF job[d].state = "none" THEN [NoJob EXCEPT !.state = "waiting"] ELSE job[d]

Add(c) ==
  LET call == calling[c]
  IN /\ call.todo = {} /\ call.seen = {} /\ call.ready # {}
     /\ job' = [d \in Delivery |-> IF d \in call.ready THEN Added(d) ELSE job[d]]
     /\ calling' = [calling EXCEPT ![c] = NoCall]
     /\ UNCHANGED <<row, working, retrying, accepted, faults, stalled>>

(* Redis does not answer, or the process ends: what the call had left to do  *)
(* is not done.                                                              *)
CallFails(c) ==
  LET call == calling[c]
      batch == (call.todo \cup call.seen) \cup call.ready
  IN /\ batch # {} /\ \A d \in batch : MayFail(d)
     /\ calling' = [calling EXCEPT ![c] = NoCall]
     /\ Fault(batch)
     /\ UNCHANGED <<row, job, working, retrying, accepted, stalled>>

-----------------------------------------------------------------------------
(* NotificationProcessor.process and DeliveryService.deliver *)

Take(w, d) ==
  /\ working[w].step = "idle" /\ job[d].state = "waiting"
  /\ job' = [job EXCEPT ![d].state = "active", ![d].owner = w]
  /\ working' = [working EXCEPT
       ![w] = [Idle EXCEPT !.step = "taken", !.d = d,
                           !.final = job[d].made + 1 >= MaxAttempts]]
  /\ UNCHANGED <<row, calling, retrying, accepted, faults, stalled>>

(* A row that is not PENDING is left alone and the job ends. *)
DeliverableAlways(d) == row[d].status # "NONE"
Deliverable(d) == Pending(d)

Read(w) ==
  LET d == working[w].d
  IN /\ working[w].step = "taken"
     /\ working' = [working EXCEPT
          ![w] = IF Deliverable(d) THEN [@ EXCEPT !.step = "read", !.round = row[d].round]
                                   ELSE Done(d, "completed")]
     /\ UNCHANGED <<row, job, calling, retrying, accepted, faults, stalled>>

Send(w, outcome) ==
  /\ working[w].step = "read"
  /\ working' = [working EXCEPT ![w] = [@ EXCEPT !.step = "sent", !.outcome = outcome]]
  /\ accepted' = IF outcome = "SENT" THEN [accepted EXCEPT ![working[w].d] = @ + 1] ELSE accepted
  /\ UNCHANGED <<row, job, calling, retrying, faults, stalled>>

(* The channel took the message and its answer was lost. *)
SendUnheard(w) ==
  LET d == working[w].d
  IN /\ working[w].step = "read" /\ MayFail(d)
     /\ working' = [working EXCEPT ![w] = [@ EXCEPT !.step = "sent", !.outcome = "TRANSIENT"]]
     /\ accepted' = [accepted EXCEPT ![d] = @ + 1]
     /\ Fault({d})
     /\ UNCHANGED <<row, job, calling, retrying, stalled>>

(* The status deliver writes for an outcome, and what becomes of the job. *)
Verdict(outcome, final) ==
  IF outcome \in {"SENT", "SKIPPED"} THEN outcome
  ELSE IF outcome = "PERMANENT" \/ final THEN "FAILED" ELSE "PENDING"
Ending(outcome, final) ==
  IF outcome \in {"SENT", "SKIPPED"} THEN "completed"
  ELSE IF outcome = "PERMANENT" \/ final THEN "failed" ELSE "waiting"

(* settle writes only a row that is PENDING. *)
SettleableAlways(d) == row[d].status # "NONE"
Settleable(d) == Pending(d)

Settle(w) ==
  LET d == working[w].d
      verdict == Verdict(working[w].outcome, working[w].final)
  IN /\ working[w].step = "sent"
     /\ row' = IF Settleable(d) THEN [row EXCEPT ![d].status = verdict] ELSE row
     /\ working' = [working EXCEPT
          ![w] = Done(d, Ending(working[w].outcome, working[w].final))]
     /\ UNCHANGED <<job, calling, retrying, accepted, faults, stalled>>

(* The database refuses: the attempt fails, even one that was sent. *)
SettleFails(w) ==
  LET d == working[w].d
  IN /\ working[w].step = "sent" /\ MayFail(d)
     /\ working' = [working EXCEPT
          ![w] = Done(d, IF working[w].final THEN "failed" ELSE "waiting")]
     /\ Fault({d})
     /\ UNCHANGED <<row, job, calling, retrying, accepted, stalled>>

(* The queue keeps the result of a worker that still holds the job. *)
Finish(w) ==
  LET d == working[w].d
      ending == working[w].ending
  IN /\ working[w].step = "done"
     /\ job' = IF job[d].state = "active" /\ job[d].owner = w
               THEN [job EXCEPT ![d] = [state |-> ending, owner |-> Nobody,
                                        made |-> IF ending = "waiting" THEN @.made + 1 ELSE @.made]]
               ELSE job
     /\ working' = [working EXCEPT ![w] = Idle]
     /\ UNCHANGED <<row, calling, retrying, accepted, faults, stalled>>

(* The process dies in the middle of a job. *)
Crash(w) ==
  /\ working[w].step # "idle" /\ MayFail(working[w].d)
  /\ working' = [working EXCEPT ![w] = Idle]
  /\ Fault({working[w].d})
  /\ UNCHANGED <<row, job, calling, retrying, accepted, stalled>>

Held(d) == \E w \in Worker : job[d].owner = w /\ working[w].step # "idle" /\ working[w].d = d
GivenUp(d) == \E state \in {"waiting", "failed"} :
                job' = [job EXCEPT ![d].state = state, ![d].owner = Nobody]

(* The queue takes back a job whose worker is gone, or gives it up. *)
Recover(d) ==
  /\ job[d].state = "active" /\ ~Held(d)
  /\ GivenUp(d)
  /\ UNCHANGED <<row, working, calling, retrying, accepted, faults, stalled>>

(* A worker that was too busy to renew its lock loses the job and runs on. *)
Stall(d) ==
  /\ job[d].state = "active" /\ Held(d) /\ MayFail(d)
  /\ GivenUp(d)
  /\ stalled' = stalled \cup {d}
  /\ Fault({d})
  /\ UNCHANGED <<row, working, calling, retrying, accepted>>

-----------------------------------------------------------------------------
Enqueueing(c) == Add(c) \/ \E d \in Delivery : Look(c, d) \/ Remove(c, d)
Delivering(w) == \/ \E d \in Delivery : Take(w, d)
                 \/ \E outcome \in ChannelOutcome : Send(w, outcome)
                 \/ Read(w) \/ Settle(w) \/ Finish(w)

Next ==
  \/ \E c \in Caller : \/ Sweep(c) \/ CallFails(c) \/ Enqueueing(c)
                       \/ \E S \in SUBSET Delivery : Notify(S, c)
                       \/ \E a \in Admin : RetryWrite(a, c)
  \/ \E a \in Admin : RetryRefused(a) \/ \E d \in Delivery : RetryRead(a, d)
  \/ \E w \in Worker : Delivering(w) \/ SendUnheard(w) \/ SettleFails(w) \/ Crash(w)
  \/ \E d \in Delivery : Recover(d) \/ Stall(d)

Spec == Init /\ [][Next]_vars

(* The scheduler repeats the sweep, calls end, workers and the queue go on. *)
FairSpec ==
  /\ Spec
  /\ WF_vars(\E c \in Caller : Sweep(c))
  /\ \A c \in Caller : WF_vars(Enqueueing(c))
  /\ \A w \in Worker : WF_vars(Delivering(w))
  /\ \A d \in Delivery : WF_vars(Recover(d))

-----------------------------------------------------------------------------
(* A message goes out once, and once more for each fault at most: the job   *)
(* kept under the row's id, the status read before the send and the guards  *)
(* of settle and retry leave no other way to send it again.                 *)
SentOnce == \A d \in Delivery : accepted[d] <= 1 + faults[d]

(* settle is "guarded on PENDING so a concurrent admin action is never      *)
(* overwritten": an attempt that began before an administrator's retry      *)
(* settles the retried row only if the queue ran the job a second time      *)
(* while the first run was still going.                                     *)
RetryKept ==
  [][\A w \in Worker :
       LET d == working[w].d
       IN (working[w].step = "sent" /\ row[d].round # working[w].round /\ row'[d] # row[d])
            => d \in stalled]_vars

(* What waits is settled: neither a lost dispatch, nor a crash, nor a        *)
(* finished job left under the row's id keeps a row PENDING for good.        *)
PendingSettles == \A d \in Delivery : Pending(d) ~> ~Pending(d)

(* The rows and what the channels took are those of the outbox. *)
Abstract == INSTANCE Outbox WITH status <- [d \in Delivery |-> row[d].status]
ImplementsOutbox == Abstract!Spec
=============================================================================
