------------------------ MODULE NotificationsProofs -------------------------
(* Proofs about the notifications, for any deliveries, workers, calls and   *)
(* administrators and any number of attempts, retries and faults: the type  *)
(* invariant, that an administrator's retry is kept, that the rows implement *)
(* the abstract outbox, and that a message is sent once but for faults.     *)
EXTENDS Notifications, FiniteSetTheorems, TLAPS

(* While no job of d was given away under its worker, the worker that has d  *)
(* is the one the queue knows, and the row it read is as it read it.         *)
OneRunner ==
  \A w \in Worker : \A d \in Delivery \ stalled :
    (working[w].step # "idle" /\ working[w].d = d) =>
      /\ job[d].state = "active" /\ job[d].owner = w
      /\ working[w].step \in {"read", "sent"} =>
           row[d].status = "PENDING" /\ row[d].round = working[w].round

(* Only a row that was written is sent, and a worker says SENT of a message  *)
(* its channel took.                                                         *)
SendsWritten ==
  \A w \in Worker :
    working[w].step \in {"read", "sent"} =>
      /\ row[working[w].d].status # "NONE"
      /\ (working[w].step = "sent" /\ working[w].outcome = "SENT")
           => accepted[working[w].d] > 0

Inv == TypeOK /\ OneRunner /\ SendsWritten

-----------------------------------------------------------------------------
(* The types of one row's, one job's, one worker's and one call's state. *)
Row == [status : DeliveryStatus, round : Nat]
Job == [state : JobState, made : Nat, owner : Worker \cup {Nobody}]
Work == [step : {"idle", "taken", "read", "sent", "done"},
         d : Delivery \cup {Nobody}, round : Nat, final : BOOLEAN,
         outcome : ChannelOutcome, ending : {"waiting", "failed", "completed"}]
Call == [todo : SUBSET Delivery, seen : SUBSET Delivery, ready : SUBSET Delivery]

(* The type invariant in those terms. *)
LEMMA TypeParts ==
  TypeOK <=> /\ row \in [Delivery -> Row]
             /\ job \in [Delivery -> Job]
             /\ working \in [Worker -> Work]
             /\ \A w \in Worker : working[w].step # "idle" => working[w].d \in Delivery
             /\ calling \in [Caller -> Call]
             /\ retrying \in [Admin -> Delivery \cup {Nobody}]
             /\ accepted \in [Delivery -> Nat]
             /\ faults \in [Delivery -> Nat]
             /\ stalled \in SUBSET Delivery
BY DEF TypeOK, Row, Job, Work, Call

LEMMA TypeParts2 ==
  TypeOK' <=> /\ row' \in [Delivery -> Row]
              /\ job' \in [Delivery -> Job]
              /\ working' \in [Worker -> Work]
              /\ \A w \in Worker : working'[w].step # "idle" => working'[w].d \in Delivery
              /\ calling' \in [Caller -> Call]
              /\ retrying' \in [Admin -> Delivery \cup {Nobody}]
              /\ accepted' \in [Delivery -> Nat]
              /\ faults' \in [Delivery -> Nat]
              /\ stalled' \in SUBSET Delivery
BY DEF TypeOK, Row, Job, Work, Call

LEMMA Constants ==
  /\ Idle \in Work /\ NoJob \in Job /\ NoCall \in Call
  /\ \A S \in SUBSET Delivery : CallFor(S) \in Call
  /\ \A d \in Delivery, ending \in {"waiting", "failed", "completed"} : Done(d, ending) \in Work
BY DEF Idle, NoJob, NoCall, CallFor, Done, Work, Job, Call, JobState, ChannelOutcome

(* Counting a fault keeps the counts. *)
LEMMA FaultType ==
  ASSUME faults \in [Delivery -> Nat], NEW S \in SUBSET Delivery, Fault(S)
  PROVE  faults' \in [Delivery -> Nat]
BY DEF Fault

LEMMA InitTypeOK == Init => TypeOK
<1> SUFFICES ASSUME Init PROVE TypeOK
  OBVIOUS
<1>1. row \in [Delivery -> Row]
  BY DEF Init, Row, DeliveryStatus
<1> QED
  BY <1>1, TypeParts, Constants DEF Init, Idle

(* A step of a call keeps the types. *)
LEMMA CallerTypeOK ==
  ASSUME TypeOK, NEW c \in Caller,
         \/ Sweep(c) \/ CallFails(c) \/ Enqueueing(c)
         \/ \E S \in SUBSET Delivery : Notify(S, c)
         \/ \E a \in Admin : RetryWrite(a, c)
  PROVE  TypeOK'
<1>1. CASE Sweep(c)
  <2>1. {d \in Delivery : Pending(d)} \in SUBSET Delivery
    OBVIOUS
  <2> QED
    BY <1>1, <2>1, TypeParts, TypeParts2, Constants DEF Sweep
<1>2. CASE CallFails(c)
  <2>1. (calling[c].todo \cup calling[c].seen) \cup calling[c].ready \in SUBSET Delivery
    BY TypeParts DEF Call
  <2>2. faults' \in [Delivery -> Nat]
    BY <1>2, <2>1, TypeParts, FaultType DEF CallFails
  <2> QED
    BY <1>2, <2>2, TypeParts, TypeParts2, Constants DEF CallFails
<1>3. CASE Add(c)
  <2>1. \A d \in Delivery : Added(d) \in Job
    BY TypeParts DEF Added, NoJob, Job, JobState
  <2>2. job' \in [Delivery -> Job]
    BY <1>3, <2>1, TypeParts DEF Add
  <2> QED
    BY <1>3, <2>2, TypeParts, TypeParts2, Constants DEF Add
<1>4. ASSUME NEW d \in Delivery, Look(c, d)
      PROVE  TypeOK'
  <2> DEFINE call == calling[c]
             rest == call.todo \ {d}
  <2>1. /\ [call EXCEPT !.todo = rest, !.seen = call.seen \cup {d}] \in Call
        /\ [call EXCEPT !.todo = rest, !.ready = call.ready \cup {d}] \in Call
    BY TypeParts DEF Call
  <2>2. calling' \in [Caller -> Call]
    BY <1>4, <2>1, TypeParts DEF Look
  <2> QED
    BY <1>4, <2>2, TypeParts, TypeParts2 DEF Look
<1>5. ASSUME NEW d \in Delivery, Remove(c, d)
      PROVE  TypeOK'
  <2> DEFINE call == calling[c]
             later == [call EXCEPT !.seen = call.seen \ {d}, !.ready = call.ready \cup {d}]
  <2>1. later \in Call
    BY TypeParts DEF Call
  <2>2. \/ calling' = [calling EXCEPT ![c] = NoCall] /\ job' = job
        \/ /\ calling' = [calling EXCEPT ![c] = later]
           /\ job' = [job EXCEPT ![d] = NoJob]
    BY <1>5 DEF Remove
  <2> HIDE DEF later
  <2>3. calling' \in [Caller -> Call] /\ job' \in [Delivery -> Job]
    BY <2>1, <2>2, TypeParts, Constants
  <2> QED
    BY <1>5, <2>3, TypeParts, TypeParts2 DEF Remove
<1>6. ASSUME NEW S \in SUBSET Delivery, Notify(S, c)
      PROVE  TypeOK'
  <2>1. \A d \in Delivery : [row[d] EXCEPT !.status = "PENDING"] \in Row
    BY TypeParts DEF Row, DeliveryStatus
  <2>2. row' \in [Delivery -> Row]
    BY <1>6, <2>1, TypeParts DEF Notify
  <2> QED
    BY <1>6, <2>2, TypeParts, TypeParts2, Constants DEF Notify
<1>7. ASSUME NEW a \in Admin, RetryWrite(a, c)
      PROVE  TypeOK'
  <2> DEFINE d == retrying[a]
  <2>1. d \in Delivery
    BY <1>7, TypeParts DEF RetryWrite
  <2>2. [status |-> "PENDING", round |-> row[d].round + 1] \in Row
    BY <2>1, TypeParts DEF Row, DeliveryStatus
  <2>3. row' \in [Delivery -> Row]
    BY <1>7, <2>2, TypeParts DEF RetryWrite
  <2> QED
    BY <1>7, <2>1, <2>3, TypeParts, TypeParts2, Constants DEF RetryWrite
<1> QED
  BY <1>1, <1>2, <1>3, <1>4, <1>5, <1>6, <1>7 DEF Enqueueing

(* A step of a worker keeps the types. *)
LEMMA WorkerTypeOK ==
  ASSUME TypeOK, NEW w \in Worker,
         Delivering(w) \/ SendUnheard(w) \/ SettleFails(w) \/ Crash(w)
  PROVE  TypeOK'
<1> DEFINE D == working[w].d
<1>0. working[w] \in Work /\ (working[w].step # "idle" => D \in Delivery)
  BY TypeParts
<1>1. ASSUME NEW d \in Delivery, Take(w, d)
      PROVE  TypeOK'
  <2>1. job' \in [Delivery -> Job]
    BY ZenonT(40), <1>1, TypeParts DEF Take, Job, JobState
  <2> DEFINE x == [Idle EXCEPT !.step = "taken", !.d = d, !.final = job[d].made + 1 >= MaxAttempts]
  <2>2. x \in Work /\ x.d = d
    <3>1. \A f \in BOOLEAN : LET y == [Idle EXCEPT !.step = "taken", !.d = d, !.final = f]
                              IN y \in Work /\ y.d = d
      BY DEF Work, Idle, ChannelOutcome
    <3>2. (job[d].made + 1 >= MaxAttempts) \in BOOLEAN
      OBVIOUS
    <3> QED
      BY <3>1, <3>2
  <2>3. working' = [working EXCEPT ![w] = x]
    BY <1>1 DEF Take
  <2> HIDE DEF x
  <2> QED
    BY <1>1, <2>1, <2>2, <2>3, TypeParts, TypeParts2 DEF Take
<1>2. ASSUME NEW outcome \in ChannelOutcome, Send(w, outcome)
      PROVE  TypeOK'
  <2>1. /\ [working[w] EXCEPT !.step = "sent", !.outcome = outcome] \in Work
        /\ working[w].d \in Delivery
    BY <1>0, <1>2 DEF Work, Send
  <2>2. working' = [working EXCEPT ![w] = [working[w] EXCEPT !.step = "sent", !.outcome = outcome]]
    BY <1>2, TypeParts DEF Send
  <2>3. accepted' \in [Delivery -> Nat]
    BY <1>2, <2>1, TypeParts DEF Send
  <2>4. \A q \in Worker : working'[q].step # "idle" => working'[q].d \in Delivery
    BY <2>1, <2>2, <1>0, TypeParts DEF Work
  <2> QED
    BY <1>2, <2>1, <2>2, <2>3, <2>4, TypeParts, TypeParts2 DEF Send
<1>3. CASE Read(w)
  <2>1. /\ [working[w] EXCEPT !.step = "read", !.round = row[D].round] \in Work
        /\ [working[w] EXCEPT !.step = "read", !.round = row[D].round].d = D
        /\ Done(D, "completed") \in Work /\ Done(D, "completed").d = D /\ D \in Delivery
    BY ZenonT(40), <1>0, <1>3, TypeParts, Constants DEF Work, Row, Read, Done, Idle
  <2>2. \E x \in Work : x.d = D /\ working' = [working EXCEPT ![w] = x]
    BY <1>3, <2>1, TypeParts DEF Read
  <2> QED
    BY <1>3, <2>1, <2>2, TypeParts, TypeParts2 DEF Read
<1>4. CASE Settle(w)
  <2>1. Verdict(working[w].outcome, working[w].final) \in DeliveryStatus
    BY <1>0 DEF Work, Verdict, DeliveryStatus, ChannelOutcome
  <2>2. Ending(working[w].outcome, working[w].final) \in {"waiting", "failed", "completed"}
    BY DEF Ending
  <2>3. row' \in [Delivery -> Row]
    BY <1>4, <2>1, TypeParts DEF Settle, Row
  <2>4. \E x \in Work : x.d = D /\ working' = [working EXCEPT ![w] = x]
    BY <1>0, <1>4, <2>2, Constants DEF Settle, Done, Idle
  <2> QED
    BY <1>0, <1>4, <2>3, <2>4, TypeParts, TypeParts2 DEF Settle
<1>5. CASE Finish(w)
  <2>1. D \in Delivery /\ working[w].ending \in JobState
    BY <1>0, <1>5 DEF Finish, Work, JobState
  <2> DEFINE e == working[w].ending
             y == [state |-> e, owner |-> Nobody,
                   made |-> IF e = "waiting" THEN job[D].made + 1 ELSE job[D].made]
  <2>2. job[D].made \in Nat /\ job[D].made + 1 \in Nat
    BY <2>1, TypeParts DEF Job
  <2>3. y \in Job
    BY <2>1, <2>2 DEF Job
  <2>4. job' = [job EXCEPT ![D] = y] \/ job' = job
    BY <1>5 DEF Finish
  <2> HIDE DEF y
  <2> QED
    BY <1>5, <2>3, <2>4, TypeParts, TypeParts2, Constants DEF Finish, Idle
<1>6. CASE SendUnheard(w)
  <2>1. /\ [working[w] EXCEPT !.step = "sent", !.outcome = "TRANSIENT"] \in Work
        /\ [working[w] EXCEPT !.step = "sent", !.outcome = "TRANSIENT"].d = D
        /\ D \in Delivery
    BY <1>0, <1>6 DEF Work, SendUnheard, ChannelOutcome
  <2>2. \E x \in Work : x.d = D /\ working' = [working EXCEPT ![w] = x]
    BY <1>6, <2>1, TypeParts DEF SendUnheard
  <2>3. faults' \in [Delivery -> Nat] /\ accepted' \in [Delivery -> Nat]
    BY <1>6, <2>1, TypeParts, FaultType DEF SendUnheard
  <2> QED
    BY <1>6, <2>1, <2>2, <2>3, TypeParts, TypeParts2 DEF SendUnheard
<1>7. CASE SettleFails(w)
  <2>1. D \in Delivery /\ faults' \in [Delivery -> Nat]
    BY <1>0, <1>7, TypeParts, FaultType DEF SettleFails
  <2>2. \E x \in Work : x.d = D /\ working' = [working EXCEPT ![w] = x]
    BY <1>7, <2>1, Constants DEF SettleFails, Done, Idle
  <2> QED
    BY <1>7, <2>1, <2>2, TypeParts, TypeParts2 DEF SettleFails
<1>8. CASE Crash(w)
  <2>1. D \in Delivery /\ faults' \in [Delivery -> Nat]
    BY <1>0, <1>8, TypeParts, FaultType DEF Crash
  <2> QED
    BY <1>8, <2>1, TypeParts, TypeParts2, Constants DEF Crash, Idle
<1> QED
  BY <1>1, <1>2, <1>3, <1>4, <1>5, <1>6, <1>7, <1>8 DEF Delivering

LEMMA StepTypeOK == TypeOK /\ [Next]_vars => TypeOK'
<1> SUFFICES ASSUME TypeOK, [Next]_vars PROVE TypeOK'
  OBVIOUS
<1>1. CASE UNCHANGED vars
  BY <1>1 DEF TypeOK, vars
<1>2. ASSUME NEW a \in Admin, RetryRefused(a) \/ \E d \in Delivery : RetryRead(a, d)
      PROVE  TypeOK'
  BY <1>2, TypeParts, TypeParts2 DEF RetryRefused, RetryRead
<1>3. ASSUME NEW d \in Delivery, Recover(d) \/ Stall(d)
      PROVE  TypeOK'
  <2>1. job' \in [Delivery -> Job]
    BY SMTT(30), <1>3, TypeParts DEF Recover, Stall, GivenUp, Job, JobState
  <2>2. faults' \in [Delivery -> Nat] /\ stalled' \in SUBSET Delivery
    BY <1>3, TypeParts, FaultType DEF Recover, Stall
  <2> QED
    BY <1>3, <2>1, <2>2, TypeParts, TypeParts2 DEF Recover, Stall
<1> QED
  BY <1>1, <1>2, <1>3, CallerTypeOK, WorkerTypeOK DEF Next

(* The rows, jobs, workers and calls are of their types in every reachable   *)
(* state, whatever fails.                                                    *)
THEOREM SpecTypeOK == Spec => []TypeOK
BY InitTypeOK, StepTypeOK, PTL DEF Spec
-----------------------------------------------------------------------------
(* The workers, the queue and the rows.  An action of a call, of the queue   *)
(* or of an administrator leaves every worker where it is.                   *)

LEMMA InitRunners == Init => OneRunner /\ SendsWritten
BY DEF Init, OneRunner, SendsWritten, Idle

(* Calls and administrators keep the invariant: they add or remove no job a  *)
(* worker holds, and write only rows nobody is sending.                      *)
LEMMA CallerRunners ==
  ASSUME Inv, NEW c \in Caller,
         \/ Sweep(c) \/ CallFails(c) \/ Enqueueing(c)
         \/ \E S \in SUBSET Delivery : Notify(S, c)
         \/ \E a \in Admin : RetryWrite(a, c)
  PROVE  OneRunner' /\ SendsWritten'
<1>1. CASE Sweep(c) \/ CallFails(c) \/ \E d \in Delivery : Look(c, d)
  <2>1. UNCHANGED <<row, job, working, accepted, stalled>>
    BY <1>1 DEF Sweep, CallFails, Look
  <2> QED
    BY <2>1 DEF Inv, OneRunner, SendsWritten
<1>2. CASE Add(c)
  <2>1. \A d \in Delivery : job[d].state = "active" => job'[d] = job[d]
    BY <1>2 DEF Add, Added
  <2> QED
    BY <1>2, <2>1 DEF Inv, OneRunner, SendsWritten, Add
<1>3. ASSUME NEW d \in Delivery, Remove(c, d)
      PROVE  OneRunner' /\ SendsWritten'
  <2>1. \A e \in Delivery : job[e].state = "active" => job'[e] = job[e]
    BY <1>3 DEF Inv, TypeOK, Remove
  <2> QED
    BY <1>3, <2>1 DEF Inv, OneRunner, SendsWritten, Remove
<1>4. ASSUME NEW S \in SUBSET Delivery, Notify(S, c)
      PROVE  OneRunner' /\ SendsWritten'
  <2>1. \A d \in Delivery : row[d].status # "NONE" => row'[d] = row[d]
    BY <1>4 DEF Notify
  <2> QED
    BY <1>4, <2>1, TypeParts DEF Inv, OneRunner, SendsWritten, Notify
<1>5. ASSUME NEW a \in Admin, RetryWrite(a, c)
      PROVE  OneRunner' /\ SendsWritten'
  <2>1. \A d \in Delivery : row[d].status = "PENDING" => row'[d] = row[d]
    BY <1>5, TypeParts DEF Inv, RetryWrite
  <2>2. \A d \in Delivery : row[d].status # "NONE" => row'[d].status # "NONE"
    BY <1>5, TypeParts DEF Inv, RetryWrite
  <2> QED
    BY <1>5, <2>1, <2>2, TypeParts DEF Inv, OneRunner, SendsWritten, RetryWrite
<1> QED
  BY <1>1, <1>2, <1>3, <1>4, <1>5 DEF Enqueueing

(* A worker's step keeps the invariant: it takes a job that waits, so nobody *)
(* else has the row, and settles a row nobody else has.                      *)
LEMMA WorkerRunners ==
  ASSUME Inv, NEW w \in Worker,
         Delivering(w) \/ SendUnheard(w) \/ SettleFails(w) \/ Crash(w)
  PROVE  OneRunner' /\ SendsWritten'
<1> DEFINE D == working[w].d
<1>a. /\ working \in [Worker -> Work] /\ job \in [Delivery -> Job] /\ row \in [Delivery -> Row]
      /\ accepted \in [Delivery -> Nat]
      /\ \A q \in Worker : working[q].step # "idle" => working[q].d \in Delivery
  BY TypeParts DEF Inv
<1>b. \A q \in Worker \ {w} : working'[q] = working[q]
  BY <1>a DEF Delivering, Take, Send, Read, Settle, Finish, SendUnheard, SettleFails, Crash
<1>1. ASSUME NEW d \in Delivery, Take(w, d)
      PROVE  OneRunner' /\ SendsWritten'
  <2>1. working'[w].step = "taken" /\ working'[w].d = d
    BY <1>1, <1>a DEF Take, Idle
  <2>2. /\ job'[d].state = "active" /\ job'[d].owner = w
        /\ \A e \in Delivery \ {d} : job'[e] = job[e]
    BY <1>1, <1>a DEF Take, Job
  <2>3. \A q \in Worker : d \notin stalled /\ working[q].step # "idle" => working[q].d # d
    BY <1>1 DEF Inv, OneRunner, Take
  <2>4. UNCHANGED <<row, accepted, stalled>>
    BY <1>1 DEF Take
  <2>5. OneRunner'
    BY <1>b, <2>1, <2>2, <2>3, <2>4 DEF Inv, OneRunner
  <2>6. SendsWritten'
    BY <1>b, <2>1, <2>4 DEF Inv, SendsWritten
  <2> QED
    BY <2>5, <2>6
<1>2. CASE \E outcome \in ChannelOutcome : Send(w, outcome)
  <2> PICK outcome \in ChannelOutcome : Send(w, outcome)
    BY <1>2
  <2>1. /\ working[w].step = "read" /\ D \in Delivery
        /\ working'[w].step = "sent" /\ working'[w].d = D /\ working'[w].round = working[w].round
        /\ working'[w].outcome = outcome
    BY <1>a DEF Send, Work
  <2>2. /\ \A d \in Delivery : accepted[d] > 0 => accepted'[d] > 0
        /\ outcome = "SENT" => accepted'[D] > 0
    BY <2>1, <1>a DEF Send
  <2> QED
    BY <1>a, <1>b, <2>1, <2>2 DEF Inv, OneRunner, SendsWritten, Send
<1>3. CASE Read(w)
  <2>1. /\ working[w].step = "taken" /\ D \in Delivery /\ working'[w].d = D
        /\ \/ working'[w].step = "done"
           \/ /\ working'[w].step = "read" /\ row[D].status = "PENDING"
              /\ working'[w].round = row[D].round
    BY <1>3, <1>a DEF Read, Work, Done, Idle, Deliverable, Pending
  <2> QED
    BY SMTT(30), <1>3, <1>a, <1>b, <2>1 DEF Inv, OneRunner, SendsWritten, Read
<1>4. CASE Settle(w)
  <2>1. working[w].step = "sent" /\ D \in Delivery /\ working'[w].step = "done" /\ working'[w].d = D
    BY <1>4, <1>a DEF Settle, Done, Idle
  <2>2. /\ \A d \in Delivery \ {D} : row'[d] = row[d]
        /\ row[D].status # "NONE" => row'[D].status # "NONE"
    BY <1>4, <2>1, <1>a DEF Settle, Settleable, Pending, Verdict, Row
  <2>3. \A q \in Worker \ {w} : D \notin stalled /\ working[q].step # "idle" => working[q].d # D
    BY <2>1 DEF Inv, OneRunner
  <2> QED
    BY SMTT(30), <1>4, <1>a, <1>b, <2>1, <2>2, <2>3 DEF Inv, OneRunner, SendsWritten, Settle
<1>5. CASE Finish(w)
  <2>1. working[w].step = "done" /\ D \in Delivery /\ working'[w].step = "idle"
    BY <1>5, <1>a DEF Finish, Idle
  <2>2. /\ \A d \in Delivery \ {D} : job'[d] = job[d]
        /\ job[D].owner # w => job'[D] = job[D]
    BY <1>5, <2>1, <1>a DEF Finish
  <2>3. \A q \in Worker \ {w} : D \notin stalled /\ working[q].step # "idle" => working[q].d # D
    BY <2>1 DEF Inv, OneRunner
  <2> QED
    BY <1>5, <1>a, <1>b, <2>1, <2>2, <2>3 DEF Inv, OneRunner, SendsWritten, Finish
<1>6. CASE SendUnheard(w)
  <2>1. /\ working[w].step = "read" /\ D \in Delivery
        /\ working'[w].step = "sent" /\ working'[w].d = D /\ working'[w].round = working[w].round
        /\ working'[w].outcome = "TRANSIENT"
    BY <1>6, <1>a DEF SendUnheard, Work
  <2>2. \A d \in Delivery : accepted[d] > 0 => accepted'[d] > 0
    BY <1>6, <2>1, <1>a DEF SendUnheard
  <2> QED
    BY <1>6, <1>a, <1>b, <2>1, <2>2 DEF Inv, OneRunner, SendsWritten, SendUnheard
<1>7. CASE SettleFails(w)
  <2>1. working[w].step = "sent" /\ D \in Delivery /\ working'[w].step = "done" /\ working'[w].d = D
    BY <1>7, <1>a DEF SettleFails, Done, Idle
  <2> QED
    BY SMTT(30), <1>7, <1>b, <2>1 DEF Inv, OneRunner, SendsWritten, SettleFails
<1>8. CASE Crash(w)
  <2>1. working'[w].step = "idle"
    BY <1>8, <1>a DEF Crash, Idle
  <2> QED
    BY <1>8, <1>b, <2>1 DEF Inv, OneRunner, SendsWritten, Crash
<1> QED
  BY <1>1, <1>2, <1>3, <1>4, <1>5, <1>6, <1>7, <1>8 DEF Delivering

LEMMA StepInv == Inv /\ [Next]_vars => Inv'
<1> SUFFICES ASSUME Inv, [Next]_vars PROVE Inv'
  OBVIOUS
<1>0. TypeOK'
  BY StepTypeOK DEF Inv
<1>1. CASE UNCHANGED vars
  BY <1>0, <1>1 DEF Inv, OneRunner, SendsWritten, vars
<1>2. ASSUME NEW a \in Admin, RetryRefused(a) \/ \E d \in Delivery : RetryRead(a, d)
      PROVE  OneRunner' /\ SendsWritten'
  BY <1>2 DEF Inv, OneRunner, SendsWritten, RetryRefused, RetryRead
<1>3. ASSUME NEW d \in Delivery, Recover(d)
      PROVE  OneRunner' /\ SendsWritten'
  <2>1. \A e \in Delivery \ {d} : job'[e] = job[e]
    BY <1>3, TypeParts DEF Inv, Recover, GivenUp
  <2>2. \A w \in Worker : d \notin stalled /\ working[w].step # "idle" => working[w].d # d
    BY <1>3 DEF Inv, OneRunner, Recover, Held
  <2> QED
    BY <1>3, <2>1, <2>2 DEF Inv, OneRunner, SendsWritten, Recover
<1>4. ASSUME NEW d \in Delivery, Stall(d)
      PROVE  OneRunner' /\ SendsWritten'
  <2>1. \A e \in Delivery \ {d} : job'[e] = job[e]
    BY <1>4, TypeParts DEF Inv, Stall, GivenUp
  <2> QED
    BY <1>4, <2>1 DEF Inv, OneRunner, SendsWritten, Stall
<1> QED
  BY <1>0, <1>1, <1>2, <1>3, <1>4, CallerRunners, WorkerRunners DEF Inv, Next

(* The invariant holds in every reachable state. *)
THEOREM SpecInv == Spec => []Inv
<1>1. Init => Inv
  BY InitTypeOK, InitRunners DEF Inv
<1> QED
  BY <1>1, StepInv, PTL DEF Spec

(* An attempt that began before an administrator's retry settles the retried *)
(* row only if the queue gave its job to a second worker (settle's guard).   *)
THEOREM SpecRetryKept == Spec => RetryKept
<1>1. ASSUME Inv
      PROVE  \A w \in Worker :
               LET d == working[w].d
               IN (working[w].step = "sent" /\ row[d].round # working[w].round /\ row'[d] # row[d])
                    => d \in stalled
  BY <1>1, TypeParts DEF Inv, OneRunner
<1> QED
  BY <1>1, SpecInv, PTL DEF RetryKept

-----------------------------------------------------------------------------
(* The outbox *)
OutboxStatus == [d \in Delivery |-> row[d].status]

(* Sweeps, jobs and the calls that queue them are nothing the outbox sees.   *)
LEMMA CallerImplements ==
  ASSUME Inv, NEW c \in Caller,
         \/ Sweep(c) \/ CallFails(c) \/ Enqueueing(c)
         \/ \E S \in SUBSET Delivery : Notify(S, c)
         \/ \E a \in Admin : RetryWrite(a, c)
  PROVE  [Abstract!Next]_(Abstract!vars)
<1>1. CASE Sweep(c) \/ CallFails(c) \/ Enqueueing(c)
  <2>1. UNCHANGED <<row, accepted>>
    BY <1>1 DEF Sweep, CallFails, Enqueueing, Add, Look, Remove
  <2> QED
    BY <2>1 DEF Abstract!vars
<1>2. ASSUME NEW S \in SUBSET Delivery, Notify(S, c)
      PROVE  Abstract!Next
  <2>1. Abstract!Write(S)
    BY <1>2, TypeParts DEF Inv, Notify, Abstract!Write, Row
  <2> QED
    BY <1>2, <2>1 DEF Abstract!Next, Notify
<1>3. ASSUME NEW a \in Admin, RetryWrite(a, c)
      PROVE  Abstract!Next
  <2>1. retrying[a] \in Delivery
    BY <1>3, TypeParts DEF Inv, RetryWrite
  <2> PICK d \in Delivery : d = retrying[a]
    BY <2>1
  <2>2. row[d].status = "FAILED" /\ row' = [row EXCEPT ![d] = [status |-> "PENDING", round |-> row[d].round + 1]]
    BY <1>3 DEF RetryWrite
  <2>3. OutboxStatus' = [OutboxStatus EXCEPT ![d] = "PENDING"]
    BY <2>2, TypeParts DEF Inv, OutboxStatus
  <2>4. accepted' = accepted /\ OutboxStatus[d] = "FAILED"
    BY <1>3, <2>2 DEF RetryWrite, OutboxStatus
  <2>5. Abstract!Retry(d)
    BY <2>3, <2>4 DEF Abstract!Retry, OutboxStatus
  <2> QED
    BY <2>5 DEF Abstract!Next
<1> QED
  BY <1>1, <1>2, <1>3

(* A send offers the message, and only settle touches the row.               *)
LEMMA WorkerImplements ==
  ASSUME Inv, NEW w \in Worker,
         Delivering(w) \/ SendUnheard(w) \/ SettleFails(w) \/ Crash(w)
  PROVE  [Abstract!Next]_(Abstract!vars)
<1> DEFINE D == working[w].d
<1>0. /\ row \in [Delivery -> Row] /\ accepted \in [Delivery -> Nat]
      /\ working[w] \in Work /\ (working[w].step # "idle" => D \in Delivery)
  BY TypeParts DEF Inv
<1>1. CASE \/ \E d \in Delivery : Take(w, d)
           \/ Read(w) \/ Finish(w) \/ SettleFails(w) \/ Crash(w)
  <2>1. UNCHANGED <<row, accepted>>
    BY <1>1 DEF Take, Read, Finish, SettleFails, Crash
  <2> QED
    BY <2>1 DEF Abstract!vars
<1>2. CASE SendUnheard(w) \/ \E outcome \in ChannelOutcome : Send(w, outcome)
  <2>1. D \in Delivery /\ row[D].status # "NONE" /\ row' = row
    BY <1>0, <1>2 DEF Inv, SendsWritten, Send, SendUnheard
  <2>2. accepted' = accepted \/ accepted' = [accepted EXCEPT ![D] = @ + 1]
    BY <1>2 DEF Send, SendUnheard
  <2>3. UNCHANGED Abstract!vars \/ Abstract!Offer(D)
    BY <2>1, <2>2 DEF Abstract!vars, Abstract!Offer
  <2> QED
    BY <2>1, <2>3 DEF Abstract!Next
<1>3. CASE Settle(w)
  <2> DEFINE v == Verdict(working[w].outcome, working[w].final)
  <2>1. D \in Delivery /\ accepted' = accepted
    BY <1>0, <1>3 DEF Settle
  <2>2. v \in {"SENT", "SKIPPED", "FAILED", "PENDING"} /\ (v = "SENT" => accepted[D] > 0)
    BY <1>0, <1>3 DEF Inv, SendsWritten, Settle, Verdict, Work, ChannelOutcome
  <2>3. \/ row' = row
        \/ row[D].status = "PENDING" /\ row' = [row EXCEPT ![D].status = v]
    BY <1>3 DEF Settle, Settleable, Pending
  <2> HIDE DEF v
  <2>4. CASE row' = row \/ v = "PENDING"
    <3>1. OutboxStatus' = OutboxStatus
      BY <1>0, <2>1, <2>3, <2>4 DEF OutboxStatus, Row
    <3> QED
      BY <2>1, <3>1 DEF Abstract!vars, OutboxStatus
  <2>5. CASE row[D].status = "PENDING" /\ row' = [row EXCEPT ![D].status = v] /\ v # "PENDING"
    <3>1. OutboxStatus' = [OutboxStatus EXCEPT ![D] = v]
      BY <1>0, <2>1, <2>5 DEF OutboxStatus, Row
    <3> PICK d \in Delivery : d = D
      BY <2>1
    <3>2. Abstract!Settle(d)
      BY <2>1, <2>2, <2>5, <3>1 DEF Abstract!Settle, OutboxStatus
    <3>3. Abstract!Next
      BY <3>2 DEF Abstract!Next
    <3> QED
      BY <3>3
  <2> QED
    BY <2>3, <2>4, <2>5
<1> QED
  BY <1>1, <1>2, <1>3 DEF Delivering

(* The rows and what the channels took are those of the outbox: written once *)
(* and together, offered, settled from PENDING alone, SENT only when the     *)
(* channel took the message, waiting again only by an administrator.         *)
THEOREM SpecImplementsOutbox == Spec => ImplementsOutbox
<1>1. Init => Abstract!Init
  BY DEF Init, Abstract!Init
<1>2. ASSUME Inv, [Next]_vars
      PROVE  [Abstract!Next]_(Abstract!vars)
  <2>1. CASE UNCHANGED vars
    BY <2>1 DEF vars, Abstract!vars
  <2>2. ASSUME NEW a \in Admin, RetryRefused(a) \/ \E d \in Delivery : RetryRead(a, d)
        PROVE  UNCHANGED Abstract!vars
    BY <2>2 DEF RetryRefused, RetryRead, Abstract!vars
  <2>3. ASSUME NEW d \in Delivery, Recover(d) \/ Stall(d)
        PROVE  UNCHANGED Abstract!vars
    BY <2>3 DEF Recover, Stall, Abstract!vars
  <2> QED
    BY <1>2, <2>1, <2>2, <2>3, CallerImplements, WorkerImplements DEF Next
<1> QED
  BY <1>1, <1>2, SpecInv, PTL DEF Spec, ImplementsOutbox, Abstract!Spec

-----------------------------------------------------------------------------
(* Counting the sends.  A worker the queue believes in may still send its    *)
(* row's message once, for free; every other worker on a row was left there  *)
(* by a fault, which pays for what it may still send, and so was a worker    *)
(* whose row was settled while it was sending.  A worker whose message was   *)
(* taken, on a row that still waits, will settle it SENT or meet a fault.    *)
Holds(w, d) ==
  /\ job[d].state = "active" /\ job[d].owner = w
  /\ working[w].step # "idle" /\ working[w].d = d
Took(w) == working[w].step = "sent" /\ working[w].outcome = "SENT"
Spare(w, d) ==
  /\ working[w].d = d /\ ~Took(w)
  /\ \/ working[w].step \in {"taken", "read", "sent"} /\ ~Holds(w, d)
     \/ working[w].step \in {"read", "sent"} /\ ~Pending(d)
Extra(d) == {w \in Worker : Spare(w, d)}
Credit(d) ==
  \/ row[d].status = "SENT"
  \/ Pending(d) /\ \E w \in Worker : Holds(w, d) /\ Took(w)

Counted(d) ==
  /\ Credit(d) => accepted[d] + Cardinality(Extra(d)) <= faults[d] + 1
  /\ ~Credit(d) => accepted[d] + Cardinality(Extra(d)) <= faults[d]

Doing == {w \in Worker : working[w].step # "idle"}

SendsInv ==
  /\ IsFiniteSet(Doing)
  /\ \A d \in Delivery : Counted(d)

LEMMA ExtraFinite ==
  ASSUME NEW d \in Delivery
  PROVE  /\ IsFiniteSet(Doing) => IsFiniteSet(Extra(d)) /\ Cardinality(Extra(d)) \in Nat
         /\ IsFiniteSet(Doing') => IsFiniteSet(Extra(d)') /\ Cardinality(Extra(d)') \in Nat
<1>1. Extra(d) \subseteq Doing /\ Extra(d)' \subseteq Doing'
  BY DEF Extra, Spare, Doing
<1>2. QED
  BY <1>1, FS_Subset, FS_CardinalityType

(* Sets that differ by a member.                                             *)
LEMMA Sizes ==
  ASSUME NEW S, IsFiniteSet(S), NEW T
  PROVE  /\ T \subseteq S => Cardinality(T) <= Cardinality(S)
         /\ \A x : T \subseteq S \cup {x} => Cardinality(T) <= Cardinality(S) + 1
         /\ \A x \in S : T \subseteq S \ {x} => Cardinality(T) + 1 <= Cardinality(S)
         /\ \A x \in S : \A y : T \subseteq (S \ {x}) \cup {y} => Cardinality(T) <= Cardinality(S)
<1>1. ASSUME NEW U, IsFiniteSet(U), NEW V, V \subseteq U
      PROVE  Cardinality(V) <= Cardinality(U) /\ Cardinality(V) \in Nat /\ Cardinality(U) \in Nat
  BY <1>1, FS_Subset, FS_CardinalityType
<1>2. ASSUME NEW U, IsFiniteSet(U), NEW x
      PROVE  IsFiniteSet(U \cup {x}) /\ Cardinality(U \cup {x}) <= Cardinality(U) + 1
  <2>1. CASE x \in U
    <3>1. U \cup {x} = U
      BY <2>1
    <3>2. Cardinality(U \cup {x}) = Cardinality(U) /\ IsFiniteSet(U \cup {x})
      BY <1>2, <3>1
    <3>3. Cardinality(U) \in Nat
      BY <1>2, FS_CardinalityType
    <3>4. QED
      BY <3>2, <3>3
  <2>2. CASE x \notin U
    <3>1. IsFiniteSet(U \cup {x}) /\ Cardinality(U \cup {x}) = Cardinality(U) + 1
      BY <1>2, <2>2, FS_AddElement
    <3>2. Cardinality(U) \in Nat
      BY <1>2, FS_CardinalityType
    <3>3. QED
      BY <3>1, <3>2
  <2>3. QED
    BY <2>1, <2>2
<1>3. ASSUME NEW x \in S
      PROVE  IsFiniteSet(S \ {x}) /\ Cardinality(S \ {x}) = Cardinality(S) - 1 /\ Cardinality(S) \in Nat
  BY FS_RemoveElement, FS_CardinalityType
<1>4. ASSUME NEW x, T \subseteq S \cup {x} PROVE Cardinality(T) <= Cardinality(S) + 1
  <2>1. IsFiniteSet(S \cup {x}) /\ Cardinality(S \cup {x}) <= Cardinality(S) + 1
    BY <1>2
  <2>2. Cardinality(T) <= Cardinality(S \cup {x}) /\ Cardinality(T) \in Nat
        /\ Cardinality(S \cup {x}) \in Nat
    BY <1>1, <1>4, <2>1
  <2>3. Cardinality(S) \in Nat
    BY FS_CardinalityType
  <2>4. QED
    BY <2>1, <2>2, <2>3
<1>5. ASSUME NEW x \in S, T \subseteq S \ {x} PROVE Cardinality(T) + 1 <= Cardinality(S)
  <2>1. Cardinality(T) <= Cardinality(S \ {x}) /\ Cardinality(T) \in Nat
    BY <1>1, <1>3, <1>5
  <2>2. QED
    BY <1>3, <2>1
<1>6. ASSUME NEW x \in S, NEW y, T \subseteq (S \ {x}) \cup {y} PROVE Cardinality(T) <= Cardinality(S)
  <2> DEFINE U == S \ {x}
  <2>1. IsFiniteSet(U) /\ Cardinality(U) = Cardinality(S) - 1 /\ Cardinality(S) \in Nat
    BY <1>3
  <2>2. T \subseteq U \cup {y}
    BY <1>6
  <2> HIDE DEF U
  <2>3. IsFiniteSet(U \cup {y}) /\ Cardinality(U \cup {y}) <= Cardinality(U) + 1
    BY <1>2, <2>1
  <2>4. Cardinality(T) <= Cardinality(U \cup {y}) /\ Cardinality(T) \in Nat /\ Cardinality(U \cup {y}) \in Nat
    BY <1>1, <2>2, <2>3
  <2>5. QED
    BY <2>1, <2>3, <2>4
<1>7. QED
  BY <1>1, <1>4, <1>5, <1>6

(* What a step must do to the counts of a row.                               *)
LEMMA Balance ==
  ASSUME TypeOK, TypeOK', SendsInv, IsFiniteSet(Doing'), NEW d \in Delivery, faults'[d] >= faults[d],
         \/ /\ accepted'[d] = accepted[d] /\ (Credit(d) => Credit(d)')
            /\ \/ Extra(d)' \subseteq Extra(d)
               \/ \E x \in Extra(d) : \E y : Extra(d)' \subseteq (Extra(d) \ {x}) \cup {y}
         \/ /\ accepted'[d] = accepted[d] + 1 /\ (Credit(d) => Credit(d)')
            /\ \E x \in Extra(d) : Extra(d)' \subseteq Extra(d) \ {x}
         \/ /\ accepted'[d] = accepted[d] + 1 /\ ~Credit(d) /\ Credit(d)'
            /\ Extra(d)' \subseteq Extra(d)
         \/ /\ accepted'[d] = accepted[d] /\ ~Credit(d) /\ Credit(d)'
            /\ \E x : Extra(d)' \subseteq Extra(d) \cup {x}
         \/ /\ accepted'[d] = accepted[d]
            /\ \E x \in Extra(d) : Extra(d)' \subseteq Extra(d) \ {x}
         \/ /\ accepted'[d] = accepted[d] /\ faults'[d] = faults[d] + 1
            /\ Extra(d)' \subseteq Extra(d)
         \/ /\ accepted'[d] = accepted[d] /\ faults'[d] = faults[d] + 1
            /\ Credit(d) => Credit(d)'
            /\ \E x : Extra(d)' \subseteq Extra(d) \cup {x}
         \/ /\ accepted'[d] = accepted[d] + 1 /\ faults'[d] = faults[d] + 1
            /\ Credit(d) => Credit(d)'
            /\ Extra(d)' \subseteq Extra(d)
  PROVE  Counted(d)'
<1> DEFINE a == accepted[d]
           b == accepted'[d]
           f == faults[d]
           g == faults'[d]
           m == Cardinality(Extra(d))
           n == Cardinality(Extra(d)')
<1>1. a \in Nat /\ b \in Nat /\ f \in Nat /\ g \in Nat
  BY TypeParts, TypeParts2
<1>2. IsFiniteSet(Extra(d)) /\ m \in Nat /\ n \in Nat
  BY ExtraFinite DEF SendsInv
<1>3. /\ Credit(d) => a + m <= f + 1
      /\ ~Credit(d) => a + m <= f
  BY DEF SendsInv, Counted
<1>4. /\ Extra(d)' \subseteq Extra(d) => n <= m
      /\ (\E x : Extra(d)' \subseteq Extra(d) \cup {x}) => n <= m + 1
      /\ (\E x \in Extra(d) : Extra(d)' \subseteq Extra(d) \ {x}) => n + 1 <= m
      /\ (\E x \in Extra(d) : \E y : Extra(d)' \subseteq (Extra(d) \ {x}) \cup {y}) => n <= m
  BY <1>2, Sizes
<1>5. \/ b = a /\ (Credit(d) => Credit(d)') /\ n <= m
      \/ b = a + 1 /\ (Credit(d) => Credit(d)') /\ n + 1 <= m
      \/ b = a + 1 /\ ~Credit(d) /\ Credit(d)' /\ n <= m
      \/ b = a /\ ~Credit(d) /\ Credit(d)' /\ n <= m + 1
      \/ b = a /\ n + 1 <= m
      \/ b = a /\ g = f + 1 /\ n <= m
      \/ b = a /\ g = f + 1 /\ (Credit(d) => Credit(d)') /\ n <= m + 1
      \/ b = a + 1 /\ g = f + 1 /\ (Credit(d) => Credit(d)') /\ n <= m
  BY <1>4
<1>6. g >= f
  OBVIOUS
<1> DEFINE c == Credit(d)
           e == Credit(d)'
<1>7. c \in BOOLEAN /\ e \in BOOLEAN
  BY DEF Credit, Pending
<1> HIDE DEF a, b, f, g, m, n, c, e
<1>8. (e => b + n <= g + 1) /\ (~e => b + n <= g)
  BY <1>1, <1>2, <1>3, <1>5, <1>6, <1>7 DEF c, e
<1>9. QED
  BY <1>8 DEF Counted, a, b, f, g, m, n, c, e

LEMMA InitSends == Init => SendsInv
<1> SUFFICES ASSUME Init PROVE SendsInv
  OBVIOUS
<1>1. Doing = {} /\ \A d \in Delivery : Extra(d) = {}
  BY DEF Init, Doing, Idle, Extra, Spare
<1>2. IsFiniteSet({}) /\ Cardinality({}) = 0
  BY FS_EmptySet
<1>3. \A d \in Delivery : Cardinality(Extra(d)) = 0
  BY <1>1, <1>2
<1>4. \A d \in Delivery : accepted[d] = 0 /\ faults[d] = 0
  BY DEF Init
<1>5. QED
  BY <1>1, <1>2, <1>3, <1>4 DEF SendsInv, Counted

(* Only worker w moves.                                                      *)
LEMMA DoingGrows ==
  ASSUME IsFiniteSet(Doing), NEW w, \A q \in Worker : q # w => working'[q] = working[q]
  PROVE  IsFiniteSet(Doing')
<1>1. Doing' \subseteq Doing \cup {w}
  BY DEF Doing
<1>2. IsFiniteSet(Doing \cup {w})
  BY FS_AddElement
<1>3. QED
  BY <1>1, <1>2, FS_Subset

(* Workers stay, and rows change at most to wait (again).                    *)
LEMMA QuietSends ==
  ASSUME TypeOK, TypeOK', SendsInv, UNCHANGED <<working, accepted>>,
         \A d \in Delivery : faults'[d] >= faults[d],
         \A d \in Delivery, w \in Worker : Holds(w, d)' <=> Holds(w, d),
         \A d \in Delivery :
           \/ row'[d].status = row[d].status
           \/ row[d].status \notin {"PENDING", "SENT"} /\ row'[d].status = "PENDING"
  PROVE  SendsInv'
<1>1. IsFiniteSet(Doing')
  BY DEF SendsInv, Doing
<1>2. ASSUME NEW d \in Delivery PROVE Counted(d)'
  <2>1. \A w \in Worker : /\ (Holds(w, d)' <=> Holds(w, d)) /\ (Took(w)' <=> Took(w))
                          /\ working'[w] = working[w]
    BY DEF Took
  <2>2. Pending(d) => Pending(d)'
    BY DEF Pending
  <2>3. Extra(d)' \subseteq Extra(d)
    BY <2>1, <2>2 DEF Extra, Spare
  <2>4. Credit(d) => Credit(d)'
    BY <2>1, <2>2 DEF Credit, Pending
  <2>5. QED
    BY <1>1, <2>3, <2>4, Balance
<1>3. QED
  BY <1>1, <1>2 DEF SendsInv

LEMMA CallerSends ==
  ASSUME Inv, TypeOK', SendsInv, NEW c \in Caller,
         \/ Sweep(c) \/ CallFails(c) \/ Enqueueing(c)
         \/ \E S \in SUBSET Delivery : Notify(S, c)
         \/ \E a \in Admin : RetryWrite(a, c)
  PROVE  SendsInv'
<1>t. /\ TypeOK /\ row \in [Delivery -> Row] /\ job \in [Delivery -> Job]
      /\ faults \in [Delivery -> Nat]
  BY TypeParts DEF Inv
<1>1. UNCHANGED <<working, accepted>>
  BY DEF Sweep, CallFails, Enqueueing, Notify, RetryWrite, Add, Look, Remove
<1>2. \A d \in Delivery : faults'[d] >= faults[d]
  <2>1. CASE CallFails(c)
    <3>1. \E S : Fault(S)
      BY <2>1 DEF CallFails
    <3>2. QED
      BY <3>1, <1>t DEF Fault
  <2>2. CASE ~CallFails(c)
    <3>1. faults' = faults
      BY <2>2 DEF Sweep, Enqueueing, Notify, RetryWrite, Add, Look, Remove
    <3>2. QED
      BY <3>1, <1>t
  <2>3. QED
    BY <2>1, <2>2
<1>3. \A d \in Delivery : job'[d] = job[d] \/ (job[d].state # "active" /\ job'[d].state # "active")
  <2>1. CASE Add(c)
    <3>1. \A d \in Delivery : job'[d] = Added(d) \/ job'[d] = job[d]
      BY <2>1 DEF Add
    <3>2. QED
      BY <3>1 DEF Added, NoJob
  <2>2. ASSUME NEW e \in Delivery, Remove(c, e), NEW d \in Delivery
        PROVE  job'[d] = job[d] \/ (job[d].state # "active" /\ job'[d].state # "active")
    BY <2>2, <1>t DEF Remove, NoJob
  <2>3. CASE job' = job
    BY <2>3
  <2>4. QED
    BY <2>1, <2>2, <2>3 DEF Sweep, CallFails, Enqueueing, Notify, RetryWrite, Look
<1>4. \A d \in Delivery, w \in Worker : Holds(w, d)' <=> Holds(w, d)
  BY <1>1, <1>3 DEF Holds
<1>5. \A d \in Delivery :
        \/ row'[d].status = row[d].status
        \/ row[d].status \notin {"PENDING", "SENT"} /\ row'[d].status = "PENDING"
  <2>1. CASE row' = row
    BY <2>1
  <2>2. ASSUME NEW S \in SUBSET Delivery, Notify(S, c), NEW d \in Delivery
        PROVE  \/ row'[d].status = row[d].status
               \/ row[d].status \notin {"PENDING", "SENT"} /\ row'[d].status = "PENDING"
    BY <2>2, <1>t DEF Notify, Row
  <2>3. ASSUME NEW a \in Admin, RetryWrite(a, c), NEW d \in Delivery
        PROVE  \/ row'[d].status = row[d].status
               \/ row[d].status \notin {"PENDING", "SENT"} /\ row'[d].status = "PENDING"
    BY <2>3, <1>t DEF RetryWrite
  <2>4. QED
    BY <2>1, <2>2, <2>3 DEF Sweep, CallFails, Enqueueing, Add, Look, Remove
<1>6. QED
  BY <1>t, <1>1, <1>2, <1>4, <1>5, QuietSends

LEMMA QueueSends ==
  ASSUME Inv, TypeOK', SendsInv, NEW d \in Delivery, Recover(d) \/ Stall(d)
  PROVE  SendsInv'
<1>t. TypeOK /\ job \in [Delivery -> Job] /\ faults \in [Delivery -> Nat]
  BY TypeParts DEF Inv
<1>1. /\ job[d].state = "active" /\ job'[d].state # "active"
      /\ \A e \in Delivery : e # d => job'[e] = job[e]
      /\ UNCHANGED <<row, working, accepted>>
  BY <1>t DEF Recover, Stall, GivenUp, Job
<1>2. \A e \in Delivery, w \in Worker : e # d => (Holds(w, e)' <=> Holds(w, e))
  BY <1>1 DEF Holds
<1>3. \A w \in Worker : ~Holds(w, d)'
  BY <1>1 DEF Holds
<1>4. CASE Recover(d)
  <2>1. \A w \in Worker : ~Holds(w, d)
    BY <1>4 DEF Recover, Held, Holds
  <2>2. \A e \in Delivery, w \in Worker : Holds(w, e)' <=> Holds(w, e)
    BY <1>2, <1>3, <2>1
  <2>3. \A e \in Delivery : faults'[e] >= faults[e]
    BY <1>4, <1>t DEF Recover
  <2>4. QED
    BY <1>t, <1>1, <2>2, <2>3, QuietSends
<1>5. CASE Stall(d)
  <2>1. PICK h \in Worker : Holds(h, d)
    BY <1>5 DEF Stall, Held, Holds
  <2>2. \A w \in Worker : Holds(w, d) => w = h
    BY <2>1 DEF Holds
  <2>3. IsFiniteSet(Doing')
    BY <1>1 DEF SendsInv, Doing
  <2>4. faults'[d] = faults[d] + 1 /\ \A e \in Delivery : e # d => faults'[e] = faults[e]
    BY <1>5, <1>t DEF Stall, Fault
  <2>5. \A w \in Worker, e \in Delivery :
          (Took(w)' <=> Took(w)) /\ (Pending(e)' <=> Pending(e)) /\ working'[w] = working[w]
    BY <1>1 DEF Took, Pending
  <2>6. Extra(d)' \subseteq Extra(d) \cup {h}
    BY <1>3, <2>2, <2>5 DEF Extra, Spare
  <2>7. Counted(d)'
    <3>1. CASE Took(h)
      <4>1. Extra(d)' \subseteq Extra(d)
        BY <2>5, <2>6, <3>1 DEF Extra, Spare
      <4>2. QED
        BY <1>t, <1>1, <2>3, <2>4, <4>1, Balance
    <3>2. CASE ~Took(h)
      <4>1. Credit(d) => Credit(d)'
        BY <1>1, <2>2, <3>2 DEF Credit
      <4>2. QED
        BY <1>t, <1>1, <2>3, <2>4, <2>6, <4>1, Balance
    <3>3. QED
      BY <3>1, <3>2
  <2>8. ASSUME NEW e \in Delivery, e # d PROVE Counted(e)'
    <3>1. Extra(e)' \subseteq Extra(e)
      BY <1>2, <2>5, <2>8 DEF Extra, Spare
    <3>2. Credit(e) => Credit(e)'
      BY <1>1, <1>2, <2>5, <2>8 DEF Credit
    <3>3. faults'[e] >= faults[e]
      BY <2>4, <2>8, <1>t
    <3>4. QED
      BY <1>t, <1>1, <2>3, <3>1, <3>2, <3>3, Balance
  <2>9. QED
    BY <2>3, <2>7, <2>8 DEF SendsInv
<1>6. QED
  BY <1>4, <1>5

(* A worker's step does not matter to the rows it is not working on.         *)
LEMMA Elsewhere ==
  ASSUME Inv, TypeOK', SendsInv, NEW w \in Worker, NEW d \in Delivery, IsFiniteSet(Doing'),
         \A q \in Worker : q # w => working'[q] = working[q],
         working[w].step = "idle" \/ working[w].d # d,
         working'[w].step = "idle" \/ working'[w].d # d,
         job'[d] = job[d], row'[d] = row[d], accepted'[d] = accepted[d], faults'[d] = faults[d]
  PROVE  Counted(d)'
<1>t. TypeOK /\ faults \in [Delivery -> Nat]
  BY TypeParts DEF Inv
<1>1. \A q \in Worker : q # w => (Holds(q, d)' <=> Holds(q, d)) /\ (Took(q)' <=> Took(q))
  BY DEF Holds, Took
<1>2. ~Holds(w, d) /\ ~Holds(w, d)' /\ ~Spare(w, d)'
  BY DEF Holds, Spare
<1>3. Pending(d)' <=> Pending(d)
  BY DEF Pending
<1>4. Extra(d)' \subseteq Extra(d)
  BY <1>1, <1>2, <1>3 DEF Extra, Spare
<1>5. Credit(d) => Credit(d)'
  BY <1>1, <1>2, <1>3 DEF Credit
<1>6. faults'[d] >= faults[d]
  BY <1>t
<1>7. QED
  BY <1>t, <1>4, <1>5, <1>6, Balance
(* While the job of d stays with whom it was, the others on d stay as they   *)
(* were, but that the holder of a row that no longer waits may send to no    *)
(* purpose.                                                                  *)
LEMMA Colleagues ==
  ASSUME NEW w \in Worker, NEW d \in Delivery, job'[d] = job[d],
         \A q \in Worker : q # w => working'[q] = working[q],
         NEW q \in Worker, q # w
  PROVE  /\ Holds(q, d)' <=> Holds(q, d)
         /\ Took(q)' <=> Took(q)
         /\ Spare(q, d)' /\ ~Spare(q, d) => Holds(q, d) /\ ~Took(q) /\ ~Pending(d)'
<1>1. working'[q] = working[q]
  OBVIOUS
<1>2. (Holds(q, d)' <=> Holds(q, d)) /\ (Took(q)' <=> Took(q))
  BY <1>1 DEF Holds, Took
<1>3. QED
  BY <1>1, <1>2 DEF Spare

(* A worker's step is settled by the row it works on.                        *)
LEMMA AtWork ==
  ASSUME Inv, TypeOK', SendsInv, NEW w \in Worker, NEW d \in Delivery,
         \A q \in Worker : q # w => working'[q] = working[q],
         working[w].step = "idle" \/ working[w].d = d,
         working'[w].step = "idle" \/ working'[w].d = d,
         \A e \in Delivery : e # d => /\ job'[e] = job[e] /\ row'[e] = row[e]
                                     /\ accepted'[e] = accepted[e] /\ faults'[e] = faults[e],
         IsFiniteSet(Doing') => Counted(d)'
  PROVE  SendsInv'
<1>1. IsFiniteSet(Doing')
  BY DoingGrows DEF SendsInv
<1>2. ASSUME NEW e \in Delivery, e # d PROVE Counted(e)'
  <2>1. working[w].step = "idle" \/ working[w].d # e
    BY <1>2
  <2>2. working'[w].step = "idle" \/ working'[w].d # e
    BY <1>2
  <2>3. job'[e] = job[e] /\ row'[e] = row[e] /\ accepted'[e] = accepted[e] /\ faults'[e] = faults[e]
    BY <1>2
  <2>4. QED
    BY <1>1, <2>1, <2>2, <2>3, Elsewhere
<1>3. QED
  BY <1>1, <1>2 DEF SendsInv

(* A worker moves on and neither the row's status nor its job does: only     *)
(* what becomes of the worker itself counts.                                 *)
LEMMA OnlyHe ==
  ASSUME NEW w \in Worker, NEW d \in Delivery, job'[d] = job[d], row'[d] = row[d],
         \A q \in Worker : q # w => working'[q] = working[q]
  PROVE  /\ (Spare(w, d)' => Spare(w, d)) => Extra(d)' \subseteq Extra(d)
         /\ ~Spare(w, d)' => Extra(d)' \subseteq Extra(d) \ {w}
         /\ (Holds(w, d) /\ Took(w) => Holds(w, d)' /\ Took(w)') => (Credit(d) => Credit(d)')
<1>1. Pending(d)' <=> Pending(d)
  BY DEF Pending
<1>2. ASSUME NEW q \in Worker, q # w
      PROVE  /\ Holds(q, d)' <=> Holds(q, d)
             /\ Took(q)' <=> Took(q)
             /\ Spare(q, d)' <=> Spare(q, d)
  <2>1. working'[q] = working[q]
    BY <1>2
  <2>2. (Holds(q, d)' <=> Holds(q, d)) /\ (Took(q)' <=> Took(q))
    BY <2>1 DEF Holds, Took
  <2>3. QED
    BY <1>1, <2>1, <2>2 DEF Spare
<1>3. (Spare(w, d)' => Spare(w, d)) => Extra(d)' \subseteq Extra(d)
  BY <1>2 DEF Extra
<1>4. ~Spare(w, d)' => Extra(d)' \subseteq Extra(d) \ {w}
  BY <1>2 DEF Extra
<1>5. (Holds(w, d) /\ Took(w) => Holds(w, d)' /\ Took(w)') => (Credit(d) => Credit(d)')
  <2> SUFFICES ASSUME Holds(w, d) /\ Took(w) => Holds(w, d)' /\ Took(w)', Credit(d) PROVE Credit(d)'
    OBVIOUS
  <2>1. \A q \in Worker : Holds(q, d) /\ Took(q) => Holds(q, d)' /\ Took(q)'
    BY <1>2
  <2>2. QED
    BY <1>1, <2>1 DEF Credit
<1>6. QED
  BY <1>3, <1>4, <1>5
LEMMA TakeSends ==
  ASSUME Inv, TypeOK', SendsInv, NEW w \in Worker, NEW d \in Delivery, Take(w, d)
  PROVE  SendsInv'
<1>t. /\ TypeOK /\ working \in [Worker -> Work] /\ job \in [Delivery -> Job]
      /\ faults \in [Delivery -> Nat]
  BY TypeParts DEF Inv
<1>1. /\ \A q \in Worker : q # w => working'[q] = working[q]
      /\ working[w].step = "idle" /\ working'[w].step = "taken" /\ working'[w].d = d
      /\ UNCHANGED <<row, accepted, faults>>
      /\ \A e \in Delivery : e # d => job'[e] = job[e]
      /\ job[d].state = "waiting" /\ job'[d].state = "active" /\ job'[d].owner = w
  BY <1>t DEF Take, Idle, Job
<1>2. \A q \in Worker : ~Holds(q, d) /\ (q # w => ~Holds(q, d)')
  BY <1>1 DEF Holds
<1>3. Holds(w, d)' /\ ~Spare(w, d)'
  BY <1>1 DEF Holds, Spare
<1>4. Pending(d)' <=> Pending(d)
  BY <1>1 DEF Pending
<1>5. Extra(d)' \subseteq Extra(d)
  BY <1>1, <1>2, <1>3, <1>4 DEF Extra, Spare, Took
<1>6. Credit(d) => Credit(d)'
  BY <1>1, <1>2 DEF Credit
<1>7. faults'[d] >= faults[d]
  BY <1>1, <1>t
<1>8. IsFiniteSet(Doing') => Counted(d)'
  BY <1>t, <1>1, <1>5, <1>6, <1>7, Balance
<1>9. QED
  BY <1>1, <1>8, AtWork

LEMMA ReadSends ==
  ASSUME Inv, TypeOK', SendsInv, NEW w \in Worker, Read(w)
  PROVE  SendsInv'
<1>t. /\ TypeOK /\ working \in [Worker -> Work] /\ faults \in [Delivery -> Nat]
      /\ working[w].d \in Delivery
  BY TypeParts DEF Inv, Read
<1> PICK d \in Delivery : d = working[w].d
  BY <1>t
<1>1. /\ \A q \in Worker : q # w => working'[q] = working[q]
      /\ working[w].step = "taken" /\ working'[w].d = d
      /\ UNCHANGED <<row, job, accepted, faults>>
      /\ Pending(d) => working'[w].step = "read"
      /\ ~Pending(d) => working'[w].step = "done"
  BY <1>t DEF Read, Deliverable, Done, Idle, Work
<1>2. (Holds(w, d)' <=> Holds(w, d)) /\ ~Took(w) /\ ~Took(w)' /\ (Pending(d)' <=> Pending(d))
  BY <1>1 DEF Holds, Took, Pending
<1>3. Spare(w, d)' => Spare(w, d)
  BY <1>1, <1>2 DEF Spare
<1>4. Extra(d)' \subseteq Extra(d) /\ (Credit(d) => Credit(d)')
  BY <1>1, <1>2, <1>3, OnlyHe
<1>5. accepted'[d] = accepted[d] /\ faults'[d] >= faults[d]
  BY <1>1, <1>t
<1>6. IsFiniteSet(Doing') => Counted(d)'
  BY <1>t, <1>4, <1>5, Balance
<1>7. QED
  BY <1>1, <1>6, AtWork

(* A message its channel took costs the worker its free send, or the fault   *)
(* that left it on the row.                                                  *)
LEMMA SendSends ==
  ASSUME Inv, TypeOK', SendsInv, NEW w \in Worker, NEW outcome \in ChannelOutcome, Send(w, outcome)
  PROVE  SendsInv'
<1>t. /\ TypeOK /\ working \in [Worker -> Work] /\ faults \in [Delivery -> Nat]
      /\ accepted \in [Delivery -> Nat] /\ working[w].d \in Delivery
      /\ row \in [Delivery -> Row]
  BY TypeParts DEF Inv, Send
<1> PICK d \in Delivery : d = working[w].d
  BY <1>t
<1>1. /\ \A q \in Worker : q # w => working'[q] = working[q]
      /\ working[w].step = "read" /\ working'[w].step = "sent"
      /\ working'[w].d = d /\ working'[w].outcome = outcome
      /\ UNCHANGED <<row, job, faults>>
      /\ outcome = "SENT" => accepted' = [accepted EXCEPT ![d] = @ + 1]
      /\ outcome # "SENT" => accepted' = accepted
  BY <1>t DEF Send, Work
<1>2. (Holds(w, d)' <=> Holds(w, d)) /\ ~Took(w) /\ (Pending(d)' <=> Pending(d))
      /\ (Took(w)' <=> outcome = "SENT")
  BY <1>1 DEF Holds, Took, Pending
<1>3. Credit(d) => Credit(d)'
  BY <1>1, <1>2, OnlyHe
<1>4. faults'[d] >= faults[d]
  BY <1>1, <1>t
<1>5. CASE outcome # "SENT"
  <2>1. Spare(w, d)' => Spare(w, d)
    BY <1>1, <1>2, <1>5 DEF Spare
  <2>2. Extra(d)' \subseteq Extra(d)
    BY <1>1, <2>1, OnlyHe
  <2>3. accepted'[d] = accepted[d]
    BY <1>1, <1>5
  <2>4. IsFiniteSet(Doing') => Counted(d)'
    BY <1>t, <1>3, <1>4, <2>2, <2>3, Balance
  <2>5. \A e \in Delivery : e # d => /\ job'[e] = job[e] /\ row'[e] = row[e]
                                    /\ accepted'[e] = accepted[e] /\ faults'[e] = faults[e]
    BY <1>1, <1>5
  <2>6. QED
    BY <1>1, <2>4, <2>5, AtWork
<1>6. CASE outcome = "SENT"
  <2>1. ~Spare(w, d)'
    BY <1>1, <1>2, <1>6 DEF Spare
  <2>2. Extra(d)' \subseteq Extra(d) \ {w}
    BY <1>1, <2>1, OnlyHe
  <2>3. accepted'[d] = accepted[d] + 1
    BY <1>1, <1>6, <1>t
  <2>4. ASSUME Holds(w, d) /\ Pending(d) PROVE IsFiniteSet(Doing') => Counted(d)'
    <3>1. ~Credit(d)
      BY <1>2, <2>4 DEF Credit, Holds, Pending
    <3>2. Credit(d)'
      BY <1>2, <1>6, <2>4 DEF Credit
    <3>3. Extra(d)' \subseteq Extra(d)
      BY <2>2
    <3>4. IsFiniteSet(Doing') => Counted(d)'
      BY <1>t, <1>4, <2>3, <3>1, <3>2, <3>3, Balance
    <3>5. QED
      BY <3>4
  <2>5. ASSUME ~(Holds(w, d) /\ Pending(d)) PROVE IsFiniteSet(Doing') => Counted(d)'
    <3>1. Spare(w, d)
      BY <1>1, <1>2, <2>5 DEF Spare
    <3>2. w \in Extra(d)
      BY <3>1 DEF Extra
    <3>3. IsFiniteSet(Doing') => Counted(d)'
      BY <1>t, <1>3, <1>4, <2>2, <2>3, <3>2, Balance
    <3>4. QED
      BY <3>3
  <2>6. IsFiniteSet(Doing') => Counted(d)'
    BY <2>4, <2>5
  <2>7. \A e \in Delivery : e # d => /\ job'[e] = job[e] /\ row'[e] = row[e]
                                    /\ accepted'[e] = accepted[e] /\ faults'[e] = faults[e]
    BY <1>1, <1>6, <1>t
  <2>8. QED
    BY <1>1, <2>6, <2>7, AtWork
<1>7. QED
  BY <1>5, <1>6

LEMMA UnheardSends ==
  ASSUME Inv, TypeOK', SendsInv, NEW w \in Worker, SendUnheard(w)
  PROVE  SendsInv'
<1>t. /\ TypeOK /\ working \in [Worker -> Work] /\ faults \in [Delivery -> Nat]
      /\ accepted \in [Delivery -> Nat] /\ working[w].d \in Delivery
  BY TypeParts DEF Inv, SendUnheard
<1> PICK d \in Delivery : d = working[w].d
  BY <1>t
<1>1. /\ \A q \in Worker : q # w => working'[q] = working[q]
      /\ working[w].step = "read" /\ working'[w].step = "sent"
      /\ working'[w].d = d /\ working'[w].outcome = "TRANSIENT"
      /\ UNCHANGED <<row, job>>
      /\ accepted' = [accepted EXCEPT ![d] = @ + 1]
      /\ faults'[d] = faults[d] + 1
      /\ \A e \in Delivery : e # d => faults'[e] = faults[e]
  BY <1>t DEF SendUnheard, Fault, Work
<1>2. (Holds(w, d)' <=> Holds(w, d)) /\ ~Took(w) /\ ~Took(w)' /\ (Pending(d)' <=> Pending(d))
  BY <1>1 DEF Holds, Took, Pending
<1>3. Spare(w, d)' => Spare(w, d)
  BY <1>1, <1>2 DEF Spare
<1>4. Extra(d)' \subseteq Extra(d) /\ (Credit(d) => Credit(d)')
  BY <1>1, <1>2, <1>3, OnlyHe
<1>5. accepted'[d] = accepted[d] + 1 /\ faults'[d] >= faults[d]
  BY <1>1, <1>t
<1>6. IsFiniteSet(Doing') => Counted(d)'
  BY <1>t, <1>1, <1>4, <1>5, Balance
<1>7. \A e \in Delivery : e # d => /\ job'[e] = job[e] /\ row'[e] = row[e]
                                  /\ accepted'[e] = accepted[e] /\ faults'[e] = faults[e]
  BY <1>1, <1>t
<1>8. QED
  BY <1>1, <1>6, <1>7, AtWork

(* A worker that leaves its row with a fault.                                *)
LEMMA FailureSends ==
  ASSUME Inv, TypeOK', SendsInv, NEW w \in Worker, SettleFails(w) \/ Crash(w)
  PROVE  SendsInv'
<1>t. /\ TypeOK /\ working \in [Worker -> Work] /\ faults \in [Delivery -> Nat]
      /\ working[w].d \in Delivery
  BY TypeParts DEF Inv, SettleFails, Crash
<1> PICK d \in Delivery : d = working[w].d
  BY <1>t
<1>1. /\ \A q \in Worker : q # w => working'[q] = working[q]
      /\ \/ working'[w].step = "done" /\ working'[w].d = d
         \/ working'[w].step = "idle"
      /\ UNCHANGED <<row, job, accepted>>
      /\ faults'[d] = faults[d] + 1
      /\ \A e \in Delivery : e # d => faults'[e] = faults[e]
  <2>1. CASE SettleFails(w)
    BY <2>1, <1>t DEF SettleFails, Fault, Done, Idle, Work
  <2>2. CASE Crash(w)
    BY <2>2, <1>t DEF Crash, Fault, Idle, Work
  <2>3. QED
    BY <2>1, <2>2
<1>2. ~Spare(w, d)'
  BY <1>1 DEF Spare
<1>3. Extra(d)' \subseteq Extra(d)
  BY <1>1, <1>2, OnlyHe
<1>4. accepted'[d] = accepted[d] /\ faults'[d] >= faults[d]
  BY <1>1, <1>t
<1>5. IsFiniteSet(Doing') => Counted(d)'
  BY <1>t, <1>1, <1>3, <1>4, Balance
<1>6. \A e \in Delivery : e # d => /\ job'[e] = job[e] /\ row'[e] = row[e]
                                  /\ accepted'[e] = accepted[e] /\ faults'[e] = faults[e]
  BY <1>1
<1>7. QED
  BY <1>1, <1>5, <1>6, AtWork

LEMMA FinishSends ==
  ASSUME Inv, TypeOK', SendsInv, NEW w \in Worker, Finish(w)
  PROVE  SendsInv'
<1>t. /\ TypeOK /\ working \in [Worker -> Work] /\ faults \in [Delivery -> Nat]
      /\ job \in [Delivery -> Job] /\ working[w].d \in Delivery
  BY TypeParts DEF Inv, Finish
<1> PICK d \in Delivery : d = working[w].d
  BY <1>t
<1>1. /\ \A q \in Worker : q # w => working'[q] = working[q]
      /\ working[w].step = "done" /\ working'[w].step = "idle"
      /\ UNCHANGED <<row, accepted, faults>>
      /\ \A e \in Delivery : e # d => job'[e] = job[e]
      /\ Holds(w, d) => job'[d].state # "active"
      /\ ~Holds(w, d) => job' = job
  <2>1. working[w].d = d /\ working[w].step = "done"
    BY DEF Finish
  <2>2. Holds(w, d) <=> job[d].state = "active" /\ job[d].owner = w
    BY <2>1 DEF Holds
  <2>3. working[w].ending # "active"
    BY <1>t DEF Work
  <2>4. QED
    BY <1>t, <2>1, <2>2, <2>3 DEF Finish, Idle, Job
<1>2. ~Spare(w, d)' /\ ~Took(w)
  BY <1>1 DEF Spare, Took
<1>3. Extra(d)' \subseteq Extra(d) /\ (Credit(d) => Credit(d)')
  <2>1. CASE ~Holds(w, d)
    BY <1>1, <1>2, <2>1, OnlyHe
  <2>2. CASE Holds(w, d)
    <3>1. \A q \in Worker : ~Holds(q, d)' /\ (q # w => ~Holds(q, d))
      BY <1>1, <2>2 DEF Holds
    <3>2. Pending(d)' <=> Pending(d)
      BY <1>1 DEF Pending
    <3>3. Extra(d)' \subseteq Extra(d)
      BY <1>1, <1>2, <3>1, <3>2 DEF Extra, Spare, Took
    <3>4. Credit(d) => Credit(d)'
      BY <1>1, <1>2, <3>1 DEF Credit
    <3>5. QED
      BY <3>3, <3>4
  <2>3. QED
    BY <2>1, <2>2
<1>4. accepted'[d] = accepted[d] /\ faults'[d] >= faults[d]
  BY <1>1, <1>t
<1>5. IsFiniteSet(Doing') => Counted(d)'
  BY <1>t, <1>3, <1>4, Balance
<1>6. QED
  BY <1>1, <1>5, AtWork

(* Settling gives a row that waited its verdict.  A worker that still holds  *)
(* a row another one settled may send once more: it takes the place of the   *)
(* one that settled, or the row now says SENT.                               *)
LEMMA SettleSends ==
  ASSUME Inv, TypeOK', SendsInv, NEW w \in Worker, Settle(w)
  PROVE  SendsInv'
<1>t. /\ TypeOK /\ working \in [Worker -> Work] /\ faults \in [Delivery -> Nat]
      /\ row \in [Delivery -> Row] /\ working[w].d \in Delivery
  BY TypeParts DEF Inv, Settle
<1> PICK d \in Delivery : d = working[w].d
  BY <1>t
<1> DEFINE verdict == Verdict(working[w].outcome, working[w].final)
<1>1. /\ \A q \in Worker : q # w => working'[q] = working[q]
      /\ working[w].step = "sent" /\ working'[w].step = "done" /\ working'[w].d = d
      /\ UNCHANGED <<job, accepted, faults>>
      /\ \A e \in Delivery : e # d => row'[e] = row[e]
      /\ ~Pending(d) => row' = row
      /\ Pending(d) => row'[d].status = verdict
  BY <1>t DEF Settle, Settleable, Done, Idle, Work, Row
<1>2. ~Spare(w, d)' /\ ~Took(w)' /\ (Took(w) <=> working[w].outcome = "SENT")
  BY <1>1 DEF Spare, Took
<1>3. ASSUME NEW q \in Worker, q # w
      PROVE  /\ Holds(q, d)' <=> Holds(q, d)
             /\ Took(q)' <=> Took(q)
             /\ Spare(q, d)' /\ ~Spare(q, d) => Holds(q, d) /\ ~Took(q) /\ ~Pending(d)'
  BY <1>1, <1>3, Colleagues
<1>4. accepted'[d] = accepted[d] /\ faults'[d] >= faults[d]
  BY <1>1, <1>t
<1>5. \A q, h \in Worker : Holds(q, d) /\ Holds(h, d) => q = h
  BY DEF Holds
<1> DEFINE owner == job[d].owner
<1>6. \A q \in Worker : Holds(q, d) => q = owner
  BY DEF Holds
<1>7. Extra(d)' \subseteq (Extra(d) \ {w}) \cup {owner}
  BY <1>2, <1>3, <1>6 DEF Extra
<1>8. IsFiniteSet(Doing') => Counted(d)'
  <2>1. CASE ~Pending(d)
    <3>1. row'[d] = row[d] /\ job'[d] = job[d]
      BY <1>1, <2>1
    <3>2. Extra(d)' \subseteq Extra(d) \ {w}
      BY <1>1, <1>2, <3>1, OnlyHe
    <3>3. Credit(d) => Credit(d)'
      BY <2>1, <3>1 DEF Credit, Pending
    <3>4. Extra(d)' \subseteq Extra(d)
      BY <3>2
    <3>5. QED
      BY <1>t, <1>4, <3>3, <3>4, Balance
  <2>2. CASE Pending(d) /\ verdict = "SENT"
    <3>1. Credit(d)'
      BY <1>1, <2>2 DEF Credit
    <3>2. CASE Credit(d)
      <4>1. PICK h \in Worker : Holds(h, d) /\ Took(h)
        BY <2>2, <3>2 DEF Credit, Pending
      <4>2. Extra(d)' \subseteq Extra(d)
        BY <1>2, <1>3, <1>5, <4>1 DEF Extra
      <4>3. QED
        BY <1>t, <1>4, <3>1, <4>2, Balance
    <3>3. CASE ~Credit(d)
      <4>1. \E x : Extra(d)' \subseteq Extra(d) \cup {x}
        BY <1>7
      <4>2. QED
        BY <1>t, <1>4, <3>1, <3>3, <4>1, Balance
    <3>4. QED
      BY <3>2, <3>3
  <2>3. CASE Pending(d) /\ verdict # "SENT"
    <3>1. ~Took(w)
      BY <1>2, <2>3 DEF Verdict
    <3>2. CASE verdict = "PENDING"
      <4>1. Pending(d)'
        BY <1>1, <2>3, <3>2 DEF Pending
      <4>2. Extra(d)' \subseteq Extra(d)
        BY <1>2, <1>3, <4>1 DEF Extra
      <4>3. Credit(d) => Credit(d)'
        BY <1>3, <2>3, <3>1, <4>1 DEF Credit, Pending
      <4>4. QED
        BY <1>t, <1>4, <4>2, <4>3, Balance
    <3>3. CASE Holds(w, d)
      <4>1. \A q \in Worker : q # w => ~Holds(q, d)
        BY <1>5, <3>3
      <4>2. Extra(d)' \subseteq Extra(d)
        BY <1>2, <1>3, <4>1 DEF Extra
      <4>3. ~Credit(d)
        BY <2>3, <3>1, <4>1 DEF Credit, Pending
      <4>4. QED
        BY <1>t, <1>4, <4>2, <4>3, Balance
    <3>4. CASE ~Holds(w, d)
      <4>1. w \in Extra(d)
        BY <1>1, <3>1, <3>4 DEF Extra, Spare
      <4>2. CASE Credit(d)
        <5>1. PICK h \in Worker : Holds(h, d) /\ Took(h)
          BY <2>3, <4>2 DEF Credit, Pending
        <5>2. Extra(d)' \subseteq Extra(d) \ {w}
          BY <1>2, <1>3, <1>5, <5>1 DEF Extra
        <5>3. QED
          BY <1>t, <1>4, <4>1, <5>2, Balance
      <4>3. CASE ~Credit(d)
        BY <1>t, <1>4, <1>7, <4>1, <4>3, Balance
      <4>4. QED
        BY <4>2, <4>3
    <3>5. QED
      BY <3>3, <3>4
  <2>4. QED
    BY <2>1, <2>2, <2>3
<1>9. \A e \in Delivery : e # d => /\ job'[e] = job[e] /\ row'[e] = row[e]
                                  /\ accepted'[e] = accepted[e] /\ faults'[e] = faults[e]
  BY <1>1
<1>10. QED
  BY <1>1, <1>8, <1>9, AtWork

LEMMA StepSends == Inv /\ Inv' /\ SendsInv /\ [Next]_vars => SendsInv'
<1> SUFFICES ASSUME Inv, Inv', SendsInv, [Next]_vars PROVE SendsInv'
  OBVIOUS
<1>t. /\ TypeOK /\ TypeOK' /\ faults \in [Delivery -> Nat]
  BY TypeParts DEF Inv
<1>1. ASSUME NEW c \in Caller,
             \/ Sweep(c) \/ CallFails(c) \/ Enqueueing(c)
             \/ \E S \in SUBSET Delivery : Notify(S, c)
             \/ \E a \in Admin : RetryWrite(a, c)
      PROVE  SendsInv'
  BY <1>1, <1>t, CallerSends
<1>2. ASSUME UNCHANGED <<row, job, working, accepted, faults>> PROVE SendsInv'
  <2>1. \A d \in Delivery, w \in Worker : Holds(w, d)' <=> Holds(w, d)
    BY <1>2 DEF Holds
  <2>2. \A d \in Delivery : faults'[d] >= faults[d]
    BY <1>2, <1>t
  <2>3. QED
    BY <1>2, <1>t, <2>1, <2>2, QuietSends
<1>3. ASSUME NEW w \in Worker, Delivering(w) \/ SendUnheard(w) \/ SettleFails(w) \/ Crash(w)
      PROVE  SendsInv'
  BY <1>3, <1>t, TakeSends, ReadSends, SendSends, SettleSends, FinishSends, UnheardSends,
     FailureSends DEF Delivering
<1>4. ASSUME NEW d \in Delivery, Recover(d) \/ Stall(d) PROVE SendsInv'
  BY <1>4, <1>t, QueueSends
<1>5. QED
  BY <1>1, <1>2, <1>3, <1>4 DEF Next, vars, RetryRefused, RetryRead

(* A row's message goes out once, and once more for each fault at most.      *)
THEOREM SpecSentOnce == Spec => []SentOnce
<1>1. Inv /\ SendsInv => SentOnce
  <2> SUFFICES ASSUME Inv, SendsInv, NEW d \in Delivery PROVE accepted[d] <= 1 + faults[d]
    BY DEF SentOnce
  <2>1. accepted[d] \in Nat /\ faults[d] \in Nat
    BY TypeParts DEF Inv
  <2>2. Cardinality(Extra(d)) \in Nat
    BY ExtraFinite DEF SendsInv
  <2>3. Counted(d)
    BY DEF SendsInv
  <2>4. \/ accepted[d] + Cardinality(Extra(d)) <= faults[d] + 1
        \/ accepted[d] + Cardinality(Extra(d)) <= faults[d]
    BY <2>3 DEF Counted
  <2>5. QED
    BY <2>1, <2>2, <2>4
<1>2. QED
  BY <1>1, SpecInv, InitSends, StepSends, PTL DEF Spec
=============================================================================
