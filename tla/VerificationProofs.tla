------------------------- MODULE VerificationProofs -------------------------
(***************************************************************************)
(* What holds of Verification for any agents, LGAs, edits and rounds.      *)
(*                                                                         *)
(* Inv is inductive.  Beside the properties it has parts that say what     *)
(* the actions rely on: a farm that is not there has no rounds, and an     *)
(* agent the retry job has picked covers the LGA the job read.  The two    *)
(* action properties follow from Inv step by step.                         *)
(***************************************************************************)
EXTENDS Verification, TLAPS

NoFarmNoRounds ==
  farm \in {"NONE", "GONE"} =>
    cluster = Nothing /\ \A r \in Round : status[r] = "NONE"

PickCoversRead ==
  retry # Nothing /\ retry.pick # Nothing =>
    retry.lga # Nothing /\ LgaOf[retry.pick] = retry.lga

(* A round is not decided while an update moves it.                        *)
MovesOpen == moving # Nothing => IsOpen(moving.round)

NothingRecorded ==
  \A r \in Round : status[r] \in {"UNASSIGNED", "ASSIGNED"} => ~recorded[r]

Inv ==
  /\ TypeOK
  /\ FarmFollowsRounds
  /\ ClusterIsApprovers
  /\ NothingRecorded
  /\ OnSaleInGoodStanding
  /\ NoFarmNoRounds
  /\ PickCoversRead
  /\ MovesOpen

USE DEF Round

-----------------------------------------------------------------------------
(* Whoever pickAgent takes is a candidate; without one it is nobody.       *)
LEMMA PicksAreCandidates ==
  ASSUME NEW declined, NEW l, NEW preferred,
         NEW a \in Picks(Candidates(declined, l), preferred), TypeOK
  PROVE  /\ a \in Agent \cup {Nothing}
         /\ a # Nothing => LgaOf[a] = l /\ a \notin declined
  BY DEF Picks, Candidates, TypeOK

(* What StartOver makes of the rounds' table.                              *)
LEMMA StartOverRounds ==
  ASSUME TypeOK, NEW r \in Round, NEW declined, NEW late, NEW l, NEW preferred,
         StartOver(r, declined, late, l, preferred)
  PROVE  \E a \in Agent \cup {Nothing} :
           /\ agent' = [agent EXCEPT ![r] = a]
           /\ status' = [status EXCEPT ![r] = IF a = Nothing THEN "UNASSIGNED" ELSE "ASSIGNED"]
           /\ recorded' = [recorded EXCEPT ![r] = FALSE]
           /\ work' = [work EXCEPT ![r] = late]
           /\ declines' = [declines EXCEPT ![r] = declined]
           /\ a # Nothing => LgaOf[a] = l /\ a \notin declined
  <1>1. PICK a \in Picks(Candidates(declined, l), preferred) :
          /\ agent' = [agent EXCEPT ![r] = a]
          /\ status' = [status EXCEPT ![r] = IF a = Nothing THEN "UNASSIGNED" ELSE "ASSIGNED"]
    BY DEF StartOver
  <1>2. /\ recorded' = [recorded EXCEPT ![r] = FALSE]
        /\ work' = [work EXCEPT ![r] = late]
        /\ declines' = [declines EXCEPT ![r] = declined]
    BY DEF StartOver
  <1>3. /\ a \in Agent \cup {Nothing}
        /\ a # Nothing => LgaOf[a] = l /\ a \notin declined
    BY PicksAreCandidates
  <1>4. QED
    BY <1>1, <1>2, <1>3

-----------------------------------------------------------------------------
LEMMA InitInv == Init => Inv
  BY VerificationAssumption
  DEF Init, Inv, TypeOK, FarmFollowsRounds, ClusterIsApprovers, NothingRecorded,
      OnSaleInGoodStanding, NoFarmNoRounds, PickCoversRead, MovesOpen, IsOpen, Latest,
      OpenRound, FarmStatus, TaskStatus, Open

(* The retry job.                                                          *)
LEMMA RetryInv == Inv /\ Retry => Inv'
  <1> SUFFICES ASSUME Inv, Retry PROVE Inv'
    OBVIOUS
  <1> USE VerificationAssumption DEF Inv, TypeOK
  <1>1. CASE RetryScan \/ RetryRead \/ RetryPick \/ RetryDies
    <2>1. UNCHANGED <<farmVars, roundVars, verified, approving, updating, moving>>
      BY <1>1 DEF RetryScan, RetryRead, RetryPick, RetryDies
    <2>2. /\ retry' = Nothing \/ retry' \in Job
          /\ PickCoversRead'
      <3>1. CASE RetryScan
        BY <3>1 DEF RetryScan, Job, PickCoversRead
      <3>2. CASE RetryRead
        BY <3>2 DEF RetryRead, Job, PickCoversRead
      <3>3. CASE RetryPick
        <4>1. PICK a \in Picks(Candidates(declines[retry.round], retry.lga), Nothing) :
                retry' = IF a = Nothing THEN Nothing ELSE [retry EXCEPT !.pick = a]
          BY <3>3 DEF RetryPick
        <4>2. a \in Agent \cup {Nothing} /\ (a # Nothing => LgaOf[a] = retry.lga)
          BY SMTT(30), PicksAreCandidates
        <4>3. QED
          BY <3>3, <4>1, <4>2 DEF RetryPick, Job, PickCoversRead
      <3>4. CASE RetryDies
        BY <3>4 DEF RetryDies, PickCoversRead
      <3>5. QED
        BY <1>1, <3>1, <3>2, <3>3, <3>4
    <2>3. QED
      BY <2>1, <2>2
      DEF farmVars, roundVars, FarmFollowsRounds, ClusterIsApprovers, NothingRecorded,
          OnSaleInGoodStanding, NoFarmNoRounds, MovesOpen, IsOpen, Latest
  <1>2. CASE RetryWrite
    <2>1. /\ retry.round \in Round /\ retry.pick \in Agent
          /\ retry' = Nothing
          /\ UNCHANGED <<farmVars, recorded, work, declines, verified, approving, updating, moving>>
      BY <1>2 DEF RetryWrite, Job
    <2>2. CASE status[retry.round] # "UNASSIGNED"
      <3>1. UNCHANGED <<status, agent>>
        BY <1>2, <2>2 DEF RetryWrite
      <3>2. QED
        BY <2>1, <3>1
        DEF farmVars, FarmFollowsRounds, ClusterIsApprovers, NothingRecorded,
            OnSaleInGoodStanding, NoFarmNoRounds, PickCoversRead, MovesOpen, IsOpen, Latest
    <2>3. CASE status[retry.round] = "UNASSIGNED"
      <3>1. /\ status' = [status EXCEPT ![retry.round] = "ASSIGNED"]
            /\ agent' = [agent EXCEPT ![retry.round] = retry.pick]
        BY <1>2, <2>3 DEF RetryWrite
      <3>2. TypeOK'
        BY <2>1, <3>1 DEF farmVars, TaskStatus, OpenRound
      <3>3. \A r \in Round : (IsOpen(r)' <=> IsOpen(r)) /\ (Latest(r)' <=> Latest(r))
        BY <2>1, <2>3, <3>1 DEF IsOpen, Latest, OpenRound
      <3>4. FarmFollowsRounds'
        BY <2>1, <2>3, <3>1, <3>3 DEF FarmFollowsRounds, farmVars, IsOpen, OpenRound
      <3>5. ClusterIsApprovers'
        <4>1. IsOpen(retry.round) /\ Latest(retry.round)
          BY <2>1, <2>3 DEF IsOpen, OpenRound, FarmFollowsRounds
        <4>2. farm # "VERIFIED"
          BY <2>1, <4>1 DEF FarmFollowsRounds
        <4>3. QED
          BY <2>1, <2>3, <3>1, <3>3, <4>2 DEF ClusterIsApprovers, farmVars
      <3>6. NothingRecorded' /\ OnSaleInGoodStanding' /\ NoFarmNoRounds' /\ PickCoversRead'
        BY <2>1, <2>3, <3>1
        DEF NothingRecorded, OnSaleInGoodStanding, NoFarmNoRounds, PickCoversRead, farmVars
      <3>7. MovesOpen'
        BY <2>1, <3>3 DEF MovesOpen, Move
      <3>8. QED
        BY <3>2, <3>4, <3>5, <3>6, <3>7
    <2>4. QED
      BY <2>2, <2>3
  <1>3. QED
    BY <1>1, <1>2 DEF Retry

(* An update that moves a round goes on with what was saved since.         *)
LEMMA MovingAfterFacts ==
  ASSUME TypeOK, NEW r \in Round, NEW late, NEW declined,
         moving # Nothing => late \in SUBSET Agent /\ declined \in SUBSET Agent,
         moving' = MovingAfter(r, late, declined)
  PROVE  /\ moving' = Nothing \/ moving' \in Move
         /\ moving' = Nothing \/ (moving # Nothing /\ moving'.round = moving.round)
  <1>1. CASE moving # Nothing /\ moving.round = r
    <2>1. moving' = [edit |-> moving.edit, round |-> r, late |-> late, declined |-> declined]
      BY <1>1 DEF MovingAfter
    <2>2. moving \in Move
      BY <1>1 DEF TypeOK
    <2>3. QED
      BY <1>1, <2>1, <2>2 DEF Move
  <1>2. CASE ~(moving # Nothing /\ moving.round = r)
    BY <1>2 DEF MovingAfter, TypeOK
  <1>3. QED
    BY <1>1, <1>2

(* The agent's work.                                                       *)
LEMMA RecordInv ==
  ASSUME Inv, NEW a \in Agent, NEW r \in Round, Record(a, r)
  PROVE  Inv'
  <1> USE VerificationAssumption DEF Inv, TypeOK
  <1>1. PICK kept \in SUBSET (work[r] \cup {a}), done \in BOOLEAN :
          /\ recorded' = [recorded EXCEPT ![r] = done]
          /\ work' = [work EXCEPT ![r] = kept]
          /\ moving' = MovingAfter(r, (moving.late \cup {a}) \cap kept, moving.declined)
    BY DEF Record
  <1>2. /\ status[r] \in Open /\ agent[r] = a
        /\ status' = [status EXCEPT ![r] = "IN_PROGRESS"]
        /\ UNCHANGED <<farmVars, agent, declines, verified, approving, updating, retry>>
    BY DEF Record, Holds
  <1>m. /\ moving' = Nothing \/ moving' \in Move
        /\ moving' = Nothing \/ (moving # Nothing /\ moving'.round = moving.round)
    <2>1. moving # Nothing =>
            (moving.late \cup {a}) \cap kept \in SUBSET Agent /\ moving.declined \in SUBSET Agent
      BY DEF Move
    <2>2. QED
      BY <1>1, <2>1, MovingAfterFacts
  <1>3. TypeOK'
    <2>1. kept \in SUBSET Agent
      BY <1>1
    <2>2. QED
      BY <1>1, <1>2, <1>m, <2>1 DEF farmVars, TaskStatus, OpenRound
  <1>4. \A q \in Round : (IsOpen(q)' <=> IsOpen(q)) /\ (Latest(q)' <=> Latest(q))
    BY <1>2 DEF IsOpen, Latest, OpenRound, Open
  <1>5. FarmFollowsRounds'
    BY <1>2, <1>4 DEF FarmFollowsRounds, farmVars, IsOpen, OpenRound, Open
  <1>6. ClusterIsApprovers'
    BY <1>2, <1>4 DEF ClusterIsApprovers, farmVars, IsOpen, OpenRound, Open
  <1>7. NothingRecorded' /\ OnSaleInGoodStanding' /\ NoFarmNoRounds' /\ PickCoversRead'
    BY <1>1, <1>2
    DEF NothingRecorded, OnSaleInGoodStanding, NoFarmNoRounds, PickCoversRead, farmVars, Open
  <1>8. MovesOpen'
    BY <1>4, <1>m DEF MovesOpen, Move
  <1>9. QED
    BY <1>3, <1>5, <1>6, <1>7, <1>8

(* An open round that starts over stays open, and the farm is as it was.   *)
LEMMA OpenStartsOver ==
  ASSUME Inv, TypeOK', NEW r \in Round, IsOpen(r),
         NEW declined, NEW late, NEW l, NEW preferred, StartOver(r, declined, late, l, preferred),
         moving' = Nothing \/ (moving # Nothing /\ moving'.round = moving.round),
         UNCHANGED <<farm, cluster, farmer, retry>>
  PROVE  Inv'
  <1>0. TypeOK
    BY DEF Inv
  <1>1. PICK a \in Agent \cup {Nothing} :
          /\ agent' = [agent EXCEPT ![r] = a]
          /\ status' = [status EXCEPT ![r] = IF a = Nothing THEN "UNASSIGNED" ELSE "ASSIGNED"]
          /\ recorded' = [recorded EXCEPT ![r] = FALSE]
    BY <1>0, StartOverRounds
  <1> USE VerificationAssumption DEF Inv, TypeOK
  <1>2. \A q \in Round : (IsOpen(q)' <=> IsOpen(q)) /\ (Latest(q)' <=> Latest(q))
    BY <1>1 DEF IsOpen, Latest, OpenRound
  <1>3. FarmFollowsRounds'
    BY <1>1, <1>2 DEF FarmFollowsRounds, IsOpen, OpenRound
  <1>4. ClusterIsApprovers'
    <2>1. Latest(r) /\ farm # "VERIFIED"
      BY DEF FarmFollowsRounds
    <2>2. QED
      BY <1>1, <1>2, <2>1 DEF ClusterIsApprovers
  <1>5. NothingRecorded' /\ OnSaleInGoodStanding' /\ PickCoversRead'
    BY <1>1 DEF NothingRecorded, OnSaleInGoodStanding, PickCoversRead
  <1>6. NoFarmNoRounds'
    BY DEF NoFarmNoRounds, IsOpen, OpenRound
  <1>7. MovesOpen'
    BY <1>2 DEF MovesOpen, Move
  <1>8. QED
    BY <1>3, <1>4, <1>5, <1>6, <1>7

(* A new round after the last, none being open, makes the farm PENDING.    *)
LEMMA NewRoundOpens ==
  ASSUME Inv, TypeOK', NEW r \in Round, \A q \in Round : ~IsOpen(q),
         \A q \in Round : q > r => status[q] = "NONE",
         NEW declined, NEW late, NEW l, NEW preferred, StartOver(r, declined, late, l, preferred),
         farm' = "PENDING", cluster' = Nothing, moving' = Nothing, UNCHANGED <<farmer, retry>>
  PROVE  Inv'
  <1>0. TypeOK
    BY DEF Inv
  <1>1. PICK a \in Agent \cup {Nothing} :
          /\ agent' = [agent EXCEPT ![r] = a]
          /\ status' = [status EXCEPT ![r] = IF a = Nothing THEN "UNASSIGNED" ELSE "ASSIGNED"]
          /\ recorded' = [recorded EXCEPT ![r] = FALSE]
    BY <1>0, StartOverRounds
  <1> USE VerificationAssumption DEF Inv, TypeOK
  <1>2. Latest(r)' /\ \A q \in Round : IsOpen(q)' <=> q = r
    BY <1>1 DEF IsOpen, Latest, OpenRound
  <1>3. FarmFollowsRounds' /\ ClusterIsApprovers'
    BY <1>1, <1>2 DEF FarmFollowsRounds, ClusterIsApprovers
  <1>4. /\ NothingRecorded' /\ OnSaleInGoodStanding' /\ NoFarmNoRounds'
        /\ PickCoversRead' /\ MovesOpen'
    BY <1>1 DEF NothingRecorded, OnSaleInGoodStanding, NoFarmNoRounds, PickCoversRead, MovesOpen
  <1>5. QED
    BY <1>3, <1>4

(* The tables stay well formed when a round starts over.                   *)
LEMMA StartOverTypeOK ==
  ASSUME TypeOK, NEW r \in Round, NEW declined \in SUBSET Agent, NEW late \in SUBSET Agent, NEW l, NEW preferred,
         StartOver(r, declined, late, l, preferred)
  PROVE  /\ status' \in [Round -> TaskStatus \cup {"NONE"}]
         /\ agent' \in [Round -> Agent \cup {Nothing}]
         /\ recorded' \in [Round -> BOOLEAN]
         /\ work' \in [Round -> SUBSET Agent]
         /\ declines' \in [Round -> SUBSET Agent]
  <1>1. PICK a \in Agent \cup {Nothing} :
          /\ agent' = [agent EXCEPT ![r] = a]
          /\ status' = [status EXCEPT ![r] = IF a = Nothing THEN "UNASSIGNED" ELSE "ASSIGNED"]
          /\ recorded' = [recorded EXCEPT ![r] = FALSE]
          /\ work' = [work EXCEPT ![r] = late]
          /\ declines' = [declines EXCEPT ![r] = declined]
    BY StartOverRounds
  <1>2. QED
    BY <1>1 DEF TypeOK, TaskStatus, OpenRound

LEMMA DeclineInv ==
  ASSUME Inv, NEW a \in Agent, NEW r \in Round, Decline(a, r)
  PROVE  Inv'
  <1>1. TypeOK /\ declines[r] \cup {a} \in SUBSET Agent
    BY DEF Inv, TypeOK
  <1>2. /\ StartOver(r, declines[r] \cup {a}, {}, lga, Nothing)
        /\ moving' = MovingAfter(r, {}, moving.declined \cup {a})
        /\ UNCHANGED <<farmVars, verified, approving, updating, retry>>
        /\ IsOpen(r)
    BY DEF Decline, Holds, IsOpen, Open, OpenRound
  <1>3. /\ moving' = Nothing \/ moving' \in Move
        /\ moving' = Nothing \/ (moving # Nothing /\ moving'.round = moving.round)
    <2>1. moving # Nothing =>
            {} \in SUBSET Agent /\ moving.declined \cup {a} \in SUBSET Agent
      BY <1>1 DEF TypeOK, Move
    <2>2. QED
      BY <1>1, <1>2, <2>1, MovingAfterFacts
  <1>4. TypeOK'
    <2>1. {} \in SUBSET Agent
      OBVIOUS
    <2>2. /\ status' \in [Round -> TaskStatus \cup {"NONE"}]
          /\ agent' \in [Round -> Agent \cup {Nothing}]
          /\ recorded' \in [Round -> BOOLEAN]
          /\ work' \in [Round -> SUBSET Agent]
          /\ declines' \in [Round -> SUBSET Agent]
      BY <1>1, <1>2, <2>1, StartOverTypeOK
    <2>3. QED
      BY <1>1, <1>2, <1>3, <2>2 DEF TypeOK, farmVars
  <1>5. QED
    BY <1>2, <1>3, <1>4, OpenStartsOver DEF farmVars

LEMMA ApproveReadInv ==
  ASSUME Inv, NEW a \in Agent, NEW r \in Round, ApproveRead(a, r)
  PROVE  Inv'
  <1>1. /\ approving' = [approving EXCEPT ![a] = r]
        /\ UNCHANGED <<farmVars, roundVars, verified, updating, moving, retry>>
    BY DEF ApproveRead
  <1>2. TypeOK'
    BY <1>1 DEF Inv, TypeOK, farmVars, roundVars
  <1>3. QED
    BY <1>1, <1>2
    DEF Inv, farmVars, roundVars, FarmFollowsRounds, ClusterIsApprovers, NothingRecorded,
        OnSaleInGoodStanding, NoFarmNoRounds, PickCoversRead, MovesOpen, IsOpen, Latest

(* A decision closes the round that is open, the latest.                   *)
LEMMA DecideInv ==
  ASSUME Inv, TypeOK', NEW a \in Agent, NEW r \in Round, Holds(a, r),
         NEW decision \in {"APPROVED", "REJECTED"},
         status' = [status EXCEPT ![r] = decision],
         farm' = IF decision = "APPROVED" THEN "VERIFIED" ELSE "REJECTED",
         cluster' = IF decision = "APPROVED" THEN a ELSE Nothing,
         decision = "APPROVED" => farmer' = "ACTIVE",
         moving' = Nothing,
         UNCHANGED <<agent, recorded, retry>>
  PROVE  Inv'
  <1> USE VerificationAssumption DEF Inv, TypeOK
  <1>1. IsOpen(r) /\ agent[r] = a /\ a # Nothing
    BY DEF Holds, IsOpen, Open, OpenRound
  <1>2. Latest(r) /\ \A q \in Round : IsOpen(q) => q = r
    <2>1. \A q \in Round : IsOpen(q) => Latest(q)
      BY DEF FarmFollowsRounds
    <2>2. QED
      BY <1>1, <2>1 DEF Latest, IsOpen, OpenRound
  <1>3. Latest(r)' /\ \A q \in Round : ~IsOpen(q)'
    BY <1>2 DEF Latest, IsOpen, OpenRound
  <1>4. FarmFollowsRounds' /\ ClusterIsApprovers'
    BY <1>1, <1>3 DEF FarmFollowsRounds, ClusterIsApprovers
  <1>5. /\ NothingRecorded' /\ OnSaleInGoodStanding' /\ NoFarmNoRounds'
        /\ PickCoversRead' /\ MovesOpen'
    BY DEF NothingRecorded, OnSaleInGoodStanding, NoFarmNoRounds, PickCoversRead, MovesOpen
  <1>6. QED
    BY <1>4, <1>5

LEMMA ApproveCommitInv ==
  ASSUME Inv, NEW a \in Agent, ApproveCommit(a)
  PROVE  Inv'
  <1> USE VerificationAssumption DEF Inv, TypeOK
  <1>1. approving[a] \in Round
    BY DEF ApproveCommit
  <1>2. /\ approving' = [approving EXCEPT ![a] = Nothing]
        /\ moving = Nothing
        /\ UNCHANGED <<lga, papers, agent, recorded, work, declines, verified, updating, moving, retry>>
    BY DEF ApproveCommit, FarmFree
  <1>3. CASE Holds(a, approving[a])
    <2>1. /\ status' = [status EXCEPT ![approving[a]] = "APPROVED"]
          /\ farm' = "VERIFIED" /\ cluster' = a /\ farmer' = "ACTIVE"
      BY <1>3 DEF ApproveCommit
    <2>2. TypeOK'
      BY <1>1, <1>2, <2>1 DEF FarmStatus, TaskStatus, OpenRound
    <2>3. QED
      BY <1>1, <1>2, <1>3, <2>1, <2>2, DecideInv
  <1>4. CASE ~Holds(a, approving[a])
    <2>1. UNCHANGED <<status, farm, cluster, farmer>>
      BY <1>4 DEF ApproveCommit
    <2>2. QED
      BY <1>2, <2>1
      DEF FarmFollowsRounds, ClusterIsApprovers, NothingRecorded, OnSaleInGoodStanding,
          NoFarmNoRounds, PickCoversRead, MovesOpen, IsOpen, Latest
  <1>5. QED
    BY <1>3, <1>4

LEMMA RejectInv ==
  ASSUME Inv, NEW a \in Agent, NEW r \in Round, Reject(a, r)
  PROVE  Inv'
  <1>1. /\ Holds(a, r)
        /\ status' = [status EXCEPT ![r] = "REJECTED"]
        /\ farm' = "REJECTED" /\ cluster' = Nothing
        /\ moving = Nothing
        /\ UNCHANGED <<lga, farmer, papers, agent, recorded, work, declines, verified, calls>>
    BY DEF Reject, FarmFree
  <1>2. TypeOK'
    BY <1>1 DEF Inv, TypeOK, FarmStatus, TaskStatus, calls
  <1>3. QED
    BY <1>1, <1>2, DecideInv DEF calls

-----------------------------------------------------------------------------
(* The farmer and the admin.                                               *)
LEMMA CreateInv ==
  ASSUME Inv, NEW l \in Lga, NEW preferred, Create(l, preferred)
  PROVE  Inv'
  <1> USE VerificationAssumption DEF Inv, TypeOK
  <1>1. /\ farm = "NONE" /\ farm' = "PENDING" /\ lga' = l
        /\ papers' \in BOOLEAN
        /\ StartOver(1, {}, {}, l, preferred)
        /\ UNCHANGED <<cluster, farmer, verified, calls>>
    BY DEF Create
  <1>2. 1 \in Round /\ \A q \in Round : status[q] = "NONE"
    BY <1>1 DEF NoFarmNoRounds
  <1>3. /\ cluster = Nothing
        /\ \A q \in Round : ~IsOpen(q)
    BY <1>1, <1>2 DEF IsOpen, OpenRound, NoFarmNoRounds
  <1>4. TypeOK'
    <2>1. {} \in SUBSET Agent
      OBVIOUS
    <2>2. /\ status' \in [Round -> TaskStatus \cup {"NONE"}]
          /\ agent' \in [Round -> Agent \cup {Nothing}]
          /\ recorded' \in [Round -> BOOLEAN]
          /\ work' \in [Round -> SUBSET Agent]
          /\ declines' \in [Round -> SUBSET Agent]
      BY <1>1, <1>2, <2>1, StartOverTypeOK
    <2>3. QED
      BY <1>1, <2>2 DEF calls, FarmStatus
  <1>5. moving' = Nothing
    BY <1>1, <1>3 DEF calls, MovesOpen, Move
  <1>6. QED
    BY <1>1, <1>2, <1>3, <1>4, <1>5, NewRoundOpens DEF calls

LEMMA UpdateReadInv ==
  ASSUME Inv, NEW e \in Edit, NEW l \in Lga, NEW address \in BOOLEAN,
         UpdateRead(e, l, address)
  PROVE  Inv'
  <1>1. /\ farm \in FarmStatus
        /\ updating' = [updating EXCEPT ![e] = Planned(l, address)]
        /\ UNCHANGED <<farmVars, roundVars, verified, approving, moving, retry>>
    BY DEF UpdateRead
  <1>2. TypeOK'
    BY <1>1 DEF Inv, TypeOK, farmVars, roundVars, Plan, Planned
  <1>3. QED
    BY <1>1, <1>2
    DEF Inv, farmVars, roundVars, FarmFollowsRounds, ClusterIsApprovers, NothingRecorded,
        OnSaleInGoodStanding, NoFarmNoRounds, PickCoversRead, MovesOpen, IsOpen, Latest

(* What the three outcomes of update have in common keeps the types.       *)
LEMMA UpdateWritesTypes ==
  ASSUME TypeOK, NEW e \in Edit, UpdateWrites(e)
  PROVE  /\ updating[e] \in Plan
         /\ lga' \in Lga
         /\ farmer' \in {"ACTIVE", "DISABLED"} /\ papers' \in BOOLEAN
         /\ verified' \subseteq Agent
         /\ approving' \in [Agent -> Round \cup {Nothing}]
         /\ \A f \in Edit : updating'[f] = Nothing \/ updating'[f] \in Plan
         /\ DOMAIN updating' = Edit
         /\ moving' = Nothing
         /\ retry' = Nothing \/ retry' \in Job
  <1>1. updating[e] \in Plan
    BY DEF TypeOK, UpdateWrites
  <1>2. updating[e].to \in Lga
    BY <1>1 DEF Plan
  <1>3. QED
    BY <1>1, <1>2 DEF TypeOK, UpdateWrites

LEMMA UpdateReopensInv ==
  ASSUME Inv, NEW e \in Edit, UpdateReopens(e)
  PROVE  Inv'
  <1> USE VerificationAssumption DEF Inv
  <1>1. /\ UpdateWrites(e)
        /\ \A q \in Round : ~IsOpen(q)
        /\ farm' = "PENDING" /\ cluster' = Nothing
    BY DEF UpdateReopens
  <1>2. PICK r \in Round :
          /\ Latest(r)
          /\ r + 1 \in Round
          /\ StartOver(r + 1, {}, {}, updating[e].to,
                       IF updating[e].moves THEN Nothing ELSE agent[r])
    BY DEF UpdateReopens
  <1>3. TypeOK'
    <2>1. {} \in SUBSET Agent
      OBVIOUS
    <2>2. /\ status' \in [Round -> TaskStatus \cup {"NONE"}]
          /\ agent' \in [Round -> Agent \cup {Nothing}]
          /\ recorded' \in [Round -> BOOLEAN]
          /\ work' \in [Round -> SUBSET Agent]
          /\ declines' \in [Round -> SUBSET Agent]
      BY <1>2, <2>1, StartOverTypeOK
    <2>3. QED
      BY <1>1, <2>2, UpdateWritesTypes DEF TypeOK, FarmStatus
  <1>4. \A q \in Round : q > r + 1 => status[q] = "NONE"
    BY <1>2 DEF Latest
  <1>5. moving' = Nothing /\ UNCHANGED <<farmer, retry>>
    BY <1>1 DEF UpdateWrites
  <1>6. QED
    BY <1>1, <1>2, <1>3, <1>4, <1>5, NewRoundOpens

LEMMA UpdateReassignsInv ==
  ASSUME Inv, NEW e \in Edit, UpdateReassigns(e)
  PROVE  Inv'
  <1> USE DEF Inv
  <1>1. /\ UpdateWrites(e)
        /\ UNCHANGED <<farm, cluster>>
    BY DEF UpdateReassigns
  <1>2. PICK r \in Round, late \in SUBSET Agent, declined \in SUBSET Agent :
          IsOpen(r) /\ StartOver(r, declined, late, updating[e].to, Nothing)
    <2>1. moving \in Move
      BY DEF UpdateReassigns, TypeOK
    <2>2. QED
      BY <2>1 DEF UpdateReassigns, Move, MovesOpen
  <1>3. TypeOK'
    <2>2. /\ status' \in [Round -> TaskStatus \cup {"NONE"}]
          /\ agent' \in [Round -> Agent \cup {Nothing}]
          /\ recorded' \in [Round -> BOOLEAN]
          /\ work' \in [Round -> SUBSET Agent]
          /\ declines' \in [Round -> SUBSET Agent]
      BY <1>2, StartOverTypeOK
    <2>3. QED
      BY <1>1, <2>2, UpdateWritesTypes DEF TypeOK
  <1>4. moving' = Nothing /\ UNCHANGED <<farmer, retry>>
    BY <1>1 DEF UpdateWrites
  <1>5. QED
    BY <1>1, <1>2, <1>3, <1>4, OpenStartsOver

LEMMA UpdateClearsInv ==
  ASSUME Inv, NEW e \in Edit, UpdateClears(e)
  PROVE  Inv'
  <1>1. PICK r \in Round :
          /\ IsOpen(r)
          /\ moving' = [edit |-> e, round |-> r, late |-> {}, declined |-> {}]
    BY DEF UpdateClears
  <1>2. UNCHANGED <<farmVars, roundVars, verified, approving, updating, retry>>
    BY DEF UpdateClears
  <1>3. moving' \in Move /\ IsOpen(r)' /\ moving'.round = r
    BY <1>1, <1>2 DEF Move, IsOpen, roundVars
  <1>4. TypeOK' /\ MovesOpen'
    BY <1>2, <1>3 DEF Inv, TypeOK, MovesOpen, farmVars, roundVars
  <1>5. QED
    BY <1>2, <1>4
    DEF Inv, farmVars, roundVars, FarmFollowsRounds, ClusterIsApprovers, NothingRecorded,
        OnSaleInGoodStanding, NoFarmNoRounds, PickCoversRead, IsOpen, Latest

LEMMA UpdateOnlyInv ==
  ASSUME Inv, NEW e \in Edit, UpdateOnly(e)
  PROVE  Inv'
  <1>1. UpdateWrites(e) /\ UNCHANGED <<farm, cluster, roundVars>>
    BY DEF UpdateOnly
  <1>2. TypeOK'
    BY <1>1, UpdateWritesTypes DEF Inv, TypeOK, roundVars
  <1>3. moving' = Nothing /\ UNCHANGED <<farmer, retry>>
    BY <1>1 DEF UpdateWrites
  <1>4. QED
    BY <1>1, <1>2, <1>3
    DEF Inv, roundVars, FarmFollowsRounds, ClusterIsApprovers, NothingRecorded,
        OnSaleInGoodStanding, NoFarmNoRounds, PickCoversRead, MovesOpen, IsOpen, Latest

LEMMA UpdateInv ==
  ASSUME Inv, NEW e \in Edit, Update(e)
  PROVE  Inv'
  <1>1. CASE UpdateAborts(e)
    <2>1. TypeOK'
      BY <1>1 DEF UpdateAborts, Inv, TypeOK, farmVars, roundVars
    <2>2. QED
      BY <1>1, <2>1
      DEF UpdateAborts, Inv, farmVars, roundVars, FarmFollowsRounds, ClusterIsApprovers,
          NothingRecorded, OnSaleInGoodStanding, NoFarmNoRounds, PickCoversRead, MovesOpen, IsOpen, Latest
  <1>2. QED
    BY <1>1, UpdateReadInv, UpdateReopensInv, UpdateClearsInv, UpdateReassignsInv,
       UpdateOnlyInv DEF Update

LEMMA SuspendInv == Inv /\ Suspend => Inv'
  <1> SUFFICES ASSUME Inv, Suspend PROVE Inv'
    OBVIOUS
  <1>1. /\ farm \in FarmStatus /\ farm' = "SUSPENDED" /\ farmer' = "DISABLED"
        /\ UNCHANGED <<lga, cluster, papers, roundVars, verified, calls>>
    BY DEF Suspend
  <1>2. QED
    BY <1>1
    DEF Inv, TypeOK, FarmStatus, roundVars, calls, FarmFollowsRounds, ClusterIsApprovers,
        NothingRecorded, OnSaleInGoodStanding, NoFarmNoRounds, PickCoversRead, MovesOpen, IsOpen, Latest

LEMMA RemoveInv == Inv /\ Remove => Inv'
  <1> SUFFICES ASSUME Inv, Remove PROVE Inv'
    OBVIOUS
  <1>1. /\ farm' = "GONE" /\ cluster' = Nothing
        /\ status' = [r \in Round |-> "NONE"]
        /\ agent' = [r \in Round |-> Nothing]
        /\ recorded' = [r \in Round |-> FALSE]
        /\ work' = [r \in Round |-> {}]
        /\ declines' = [r \in Round |-> {}]
        /\ moving = Nothing
        /\ UNCHANGED <<lga, farmer, papers, verified, calls>>
    BY DEF Remove, FarmFree
  <1>2. TypeOK'
    BY <1>1 DEF Inv, TypeOK, calls
  <1>3. \A r \in Round : status'[r] = "NONE"
    BY <1>1
  <1>4. QED
    BY <1>1, <1>2, <1>3
    DEF Inv, calls, FarmFollowsRounds, ClusterIsApprovers, NothingRecorded, OpenRound,
        OnSaleInGoodStanding, NoFarmNoRounds, PickCoversRead, MovesOpen, IsOpen, Latest

LEMMA OthersInv ==
  Inv /\ (ReplaceDocuments \/ \E a \in Agent : VerifyAgent(a)) => Inv'
  BY ZenonT(40) DEF ReplaceDocuments, VerifyAgent, Inv, TypeOK, farmVars, roundVars, calls,
         FarmFollowsRounds, ClusterIsApprovers, NothingRecorded, OnSaleInGoodStanding,
         NoFarmNoRounds, PickCoversRead, MovesOpen, IsOpen, Latest

LEMMA StutterInv == Inv /\ UNCHANGED vars => Inv'
  BY DEF vars, Inv, TypeOK, farmVars, roundVars, calls, FarmFollowsRounds,
         ClusterIsApprovers, NothingRecorded, OnSaleInGoodStanding, NoFarmNoRounds,
         PickCoversRead, MovesOpen, IsOpen, Latest

LEMMA NextInv == Inv /\ [Next]_vars => Inv'
  <1> SUFFICES ASSUME Inv, [Next]_vars PROVE Inv'
    OBVIOUS
  <1>1. CASE Retry
    BY <1>1, RetryInv
  <1>2. CASE \E a \in Agent, r \in Round :
               Record(a, r) \/ Decline(a, r) \/ ApproveRead(a, r) \/ Reject(a, r)
    BY <1>2, RecordInv, DeclineInv, ApproveReadInv, RejectInv
  <1>3. CASE \E a \in Agent : ApproveCommit(a)
    BY <1>3, ApproveCommitInv
  <1>4. CASE \E l \in Lga, preferred \in verified \cup {Nothing} : Create(l, preferred)
    BY <1>4, CreateInv
  <1>5. CASE \E e \in Edit : Update(e)
    BY <1>5, UpdateInv
  <1>6. CASE Suspend \/ Remove
    BY <1>6, SuspendInv, RemoveInv
  <1>7. CASE ReplaceDocuments \/ \E a \in Agent : VerifyAgent(a)
    BY <1>7, OthersInv
  <1>8. CASE UNCHANGED vars
    BY <1>8, StutterInv
  <1>9. QED
    BY <1>1, <1>2, <1>3, <1>4, <1>5, <1>6, <1>7, <1>8 DEF Next

(* Inv holds of every state the specification reaches.                     *)
THEOREM SpecInv == Spec => []Inv
  <1>1. QED
    BY InitInv, NextInv, PTL DEF Spec

(* The tables and the calls under way are well formed.                     *)
THEOREM SpecTypeOK == Spec => []TypeOK
  <1>1. Inv => TypeOK
    BY DEF Inv
  <1>2. QED
    BY <1>1, SpecInv, PTL

(* The farm's status is that of its latest round, the only one that may be *)
(* open.                                                                   *)
THEOREM SpecFarmFollowsRounds == Spec => []FarmFollowsRounds
  <1>1. Inv => FarmFollowsRounds
    BY DEF Inv
  <1>2. QED
    BY <1>1, SpecInv, PTL

(* A VERIFIED farm is in the cluster of the agent who approved it.         *)
THEOREM SpecClusterIsApprovers == Spec => []ClusterIsApprovers
  <1>1. Inv => ClusterIsApprovers
    BY DEF Inv
  <1>2. QED
    BY <1>1, SpecInv, PTL

(* The farmer of a VERIFIED farm is not suspended.                         *)
THEOREM SpecOnSaleInGoodStanding == Spec => []OnSaleInGoodStanding
  <1>1. Inv => OnSaleInGoodStanding
    BY DEF Inv
  <1>2. QED
    BY <1>1, SpecInv, PTL

-----------------------------------------------------------------------------
(* A round is given back only by an earlier pick of the retry job.         *)
LEMMA StartOverPicksAnew ==
  ASSUME TypeOK, NEW r \in Round, NEW declined \in SUBSET Agent, NEW late \in SUBSET Agent, NEW l, NEW preferred,
         StartOver(r, declined, late, l, preferred), NEW q \in Round, Repicked(q)'
  PROVE  Repicked(q)
  <1>1. PICK a \in Agent \cup {Nothing} :
          /\ agent' = [agent EXCEPT ![r] = a]
          /\ status' = [status EXCEPT ![r] = IF a = Nothing THEN "UNASSIGNED" ELSE "ASSIGNED"]
          /\ declines' = [declines EXCEPT ![r] = declined]
          /\ a # Nothing => a \notin declined
    BY StartOverRounds
  <1>2. a \notin declined
    BY <1>1, VerificationAssumption
  <1>3. q # r
    BY <1>1, <1>2 DEF Repicked, TypeOK
  <1>4. QED
    BY <1>1, <1>3 DEF Repicked, IsOpen, TypeOK

LEMMA NextRepicked ==
  ASSUME Inv, [Next]_vars, NEW r \in Round, Repicked(r)'
  PROVE  Repicked(r) \/ (retry # Nothing /\ retry.pick = agent'[r])
  <1> USE DEF Inv
  <1>1. CASE UNCHANGED roundVars
    BY <1>1 DEF roundVars, Repicked, IsOpen
  <1>2. CASE RetryWrite
    <2>1. CASE status[retry.round] = "UNASSIGNED" /\ r = retry.round
      BY <1>2, <2>1 DEF RetryWrite, TypeOK
    <2>2. CASE status[retry.round] # "UNASSIGNED" \/ r # retry.round
      <3>1. retry.round \in Round
        BY <1>2 DEF RetryWrite, TypeOK, Job
      <3>2. QED
        BY <1>2, <2>2, <3>1 DEF RetryWrite, TypeOK, Repicked, IsOpen
    <2>3. QED
      BY <2>1, <2>2
  <1>3. ASSUME NEW a \in Agent, NEW q \in Round, Record(a, q) \/ Reject(a, q)
        PROVE  Repicked(r)
    BY <1>3 DEF Record, Reject, Holds, TypeOK, Repicked, IsOpen, Open, OpenRound
  <1>4. ASSUME NEW a \in Agent, ApproveCommit(a)
        PROVE  Repicked(r)
    <2>1. approving[a] \in Round
      BY <1>4 DEF ApproveCommit, TypeOK
    <2>2. QED
      BY <1>4, <2>1 DEF ApproveCommit, Holds, TypeOK, Repicked, IsOpen, Open, OpenRound
  <1>5. ASSUME NEW a \in Agent, NEW q \in Round, Decline(a, q)
        PROVE  Repicked(r)
    <2>1. declines[q] \cup {a} \in SUBSET Agent
      BY DEF TypeOK
    <2>2. QED
      BY <1>5, <2>1, StartOverPicksAnew DEF Decline
  <1>6. ASSUME NEW l \in Lga, NEW preferred, Create(l, preferred)
        PROVE  Repicked(r)
    <2>1. 1 \in Round /\ {} \in SUBSET Agent
      BY VerificationAssumption
    <2>2. QED
      BY <1>6, <2>1, StartOverPicksAnew DEF Create
  <1>7. ASSUME NEW e \in Edit, Update(e)
        PROVE  Repicked(r)
    <2>1. CASE UpdateReopens(e)
      <3>1. PICK q \in Round :
              /\ q + 1 \in Round
              /\ StartOver(q + 1, {}, {}, updating[e].to,
                           IF updating[e].moves THEN Nothing ELSE agent[q])
        BY <2>1 DEF UpdateReopens
      <3>2. {} \in SUBSET Agent
        OBVIOUS
      <3>3. QED
        BY <3>1, <3>2, StartOverPicksAnew
    <2>2. CASE UpdateReassigns(e)
      <3>1. PICK q \in Round, late \in SUBSET Agent, declined \in SUBSET Agent :
              StartOver(q, declined, late, updating[e].to, Nothing)
        <4>1. moving \in Move
          BY <2>2 DEF UpdateReassigns, TypeOK
        <4>2. QED
          BY <2>2, <4>1 DEF UpdateReassigns, Move
      <3>2. QED
        BY <3>1, StartOverPicksAnew
    <2>3. CASE UNCHANGED roundVars
      BY <2>3 DEF roundVars, Repicked, IsOpen
    <2>4. QED
      BY <1>7, <2>1, <2>2, <2>3
      DEF Update, UpdateRead, UpdateClears, UpdateOnly, UpdateAborts
  <1>8. CASE Remove
    BY <1>8 DEF Remove, Repicked, IsOpen, OpenRound
  <1>9. CASE RetryScan \/ RetryRead \/ RetryPick \/ RetryDies
    BY <1>1, <1>9 DEF RetryScan, RetryRead, RetryPick, RetryDies
  <1>10. CASE Suspend \/ ReplaceDocuments \/ UNCHANGED vars
    BY <1>1, <1>10 DEF Suspend, ReplaceDocuments, vars
  <1>11. ASSUME NEW a \in Agent, VerifyAgent(a) \/ \E q \in Round : ApproveRead(a, q)
         PROVE  Repicked(r)
    <2>1. UNCHANGED roundVars
      BY <1>11 DEF VerifyAgent, ApproveRead
    <2>2. QED
      BY <2>1 DEF roundVars, Repicked, IsOpen
  <1>12. QED
    BY <1>2, <1>3, <1>4, <1>5, <1>6, <1>7, <1>8, <1>9, <1>10, <1>11 DEF Next, Retry

(* "This one is never re-picked", but by a pick made before the decline.   *)
THEOREM SpecNeverRepicked == Spec => NeverRepicked
  <1>1. Inv /\ [Next]_vars =>
          [\A r \in Round :
             Repicked(r)' => Repicked(r) \/ (retry # Nothing /\ retry.pick = agent'[r])]_vars
    BY NextRepicked
  <1>2. QED
    BY <1>1, SpecInv, PTL DEF Spec, NeverRepicked

-----------------------------------------------------------------------------
(* A round comes by the rows of another agent only when a move resets it.  *)
LEMMA StartOverForeign ==
  ASSUME TypeOK, NEW r \in Round, NEW declined, NEW late, NEW l, NEW preferred,
         StartOver(r, declined, late, l, preferred),
         NEW q \in Round, ~Foreign(q), Foreign(q)'
  PROVE  q = r /\ work'[q] = late /\ late # {}
  <1>1. PICK a \in Agent \cup {Nothing} :
          /\ agent' = [agent EXCEPT ![r] = a]
          /\ status' = [status EXCEPT ![r] = IF a = Nothing THEN "UNASSIGNED" ELSE "ASSIGNED"]
          /\ work' = [work EXCEPT ![r] = late]
    BY StartOverRounds
  <1>2. q = r
    BY <1>1 DEF Foreign, IsOpen, TypeOK
  <1>3. work'[q] = late
    BY <1>1, <1>2 DEF TypeOK
  <1>4. QED
    BY <1>2, <1>3 DEF Foreign

MovedWithLate(r) ==
  /\ moving # Nothing /\ moving.round = r /\ moving' = Nothing
  /\ work'[r] = moving.late

LEMMA NextForeign ==
  ASSUME Inv, [Next]_vars, NEW r \in Round, ~Foreign(r), Foreign(r)'
  PROVE  MovedWithLate(r)
  <1> USE DEF Inv
  <1>1. CASE UNCHANGED roundVars
    BY <1>1 DEF roundVars, Foreign, IsOpen
  <1>2. CASE RetryWrite
    <2>1. retry.round \in Round
      BY <1>2 DEF RetryWrite, TypeOK, Job
    <2>2. CASE r = retry.round /\ status[r] = "UNASSIGNED"
      <3>1. agent[r] = Nothing /\ IsOpen(r)
        BY <2>2 DEF ClusterIsApprovers, IsOpen, OpenRound
      <3>2. work[r] = {}
        BY <3>1, VerificationAssumption DEF Foreign, TypeOK
      <3>3. work'[r] = {}
        BY <1>2, <3>2 DEF RetryWrite
      <3>4. QED
        BY <3>3 DEF Foreign
    <2>3. CASE ~(r = retry.round /\ status[r] = "UNASSIGNED")
      BY <1>2, <2>1, <2>3 DEF RetryWrite, TypeOK, Foreign, IsOpen
    <2>4. QED
      BY <2>2, <2>3
  <1>3. ASSUME NEW a \in Agent, NEW q \in Round, Record(a, q)
        PROVE  FALSE
    <2>1. PICK kept \in SUBSET (work[q] \cup {a}) : work' = [work EXCEPT ![q] = kept]
      BY <1>3 DEF Record
    <2>2. /\ status[q] \in Open /\ agent[q] = a
          /\ status' = [status EXCEPT ![q] = "IN_PROGRESS"]
          /\ agent' = agent
      BY <1>3 DEF Record, Holds
    <2>3. CASE q = r
      <3>1. work[r] \subseteq {a}
        BY <2>2, <2>3 DEF Foreign, IsOpen, Open, OpenRound
      <3>2. work'[r] \subseteq {a} /\ agent'[r] = a
        BY <2>1, <2>2, <2>3, <3>1 DEF TypeOK
      <3>3. QED
        BY <3>2 DEF Foreign
    <2>4. CASE q # r
      BY <2>1, <2>2, <2>4 DEF TypeOK, Foreign, IsOpen
    <2>5. QED
      BY <2>3, <2>4
  <1>4. ASSUME NEW a \in Agent, NEW q \in Round, Reject(a, q)
        PROVE  FALSE
    BY <1>4 DEF Reject, TypeOK, Foreign, IsOpen, OpenRound
  <1>5. ASSUME NEW a \in Agent, ApproveCommit(a)
        PROVE  FALSE
    <2>1. approving[a] \in Round
      BY <1>5 DEF ApproveCommit, TypeOK
    <2>2. QED
      BY <1>5, <2>1 DEF ApproveCommit, TypeOK, Foreign, IsOpen, OpenRound
  <1>6. ASSUME NEW a \in Agent, NEW q \in Round, Decline(a, q)
        PROVE  FALSE
    BY <1>6, StartOverForeign DEF Decline
  <1>7. ASSUME NEW l \in Lga, NEW preferred, Create(l, preferred)
        PROVE  FALSE
    <2>1. 1 \in Round
      BY VerificationAssumption
    <2>2. QED
      BY <1>7, <2>1, StartOverForeign DEF Create
  <1>8. ASSUME NEW e \in Edit, Update(e)
        PROVE  MovedWithLate(r)
    <2>1. CASE UpdateReopens(e)
      <3>1. PICK q \in Round :
              /\ q + 1 \in Round
              /\ StartOver(q + 1, {}, {}, updating[e].to,
                           IF updating[e].moves THEN Nothing ELSE agent[q])
        BY <2>1 DEF UpdateReopens
      <3>2. QED
        BY <3>1, StartOverForeign
    <2>2. CASE UpdateReassigns(e)
      <3>1. /\ moving # Nothing /\ moving.round \in Round /\ moving' = Nothing
            /\ StartOver(moving.round, moving.declined, moving.late, updating[e].to, Nothing)
        BY <2>2 DEF UpdateReassigns, UpdateWrites, TypeOK, Move
      <3>2. QED
        BY <3>1, StartOverForeign DEF MovedWithLate
    <2>3. CASE UNCHANGED roundVars
      BY <1>1, <2>3
    <2>4. QED
      BY <1>8, <2>1, <2>2, <2>3
      DEF Update, UpdateRead, UpdateClears, UpdateOnly, UpdateAborts
  <1>9. CASE Remove
    BY <1>9 DEF Remove, Foreign, IsOpen, OpenRound
  <1>10. CASE RetryScan \/ RetryRead \/ RetryPick \/ RetryDies
    BY <1>1, <1>10 DEF RetryScan, RetryRead, RetryPick, RetryDies
  <1>11. CASE Suspend \/ ReplaceDocuments \/ UNCHANGED vars
    BY <1>1, <1>11 DEF Suspend, ReplaceDocuments, vars
  <1>12. ASSUME NEW a \in Agent, VerifyAgent(a) \/ \E q \in Round : ApproveRead(a, q)
         PROVE  MovedWithLate(r)
    BY <1>1, <1>12 DEF VerifyAgent, ApproveRead
  <1>13. QED
    BY <1>2, <1>3, <1>4, <1>5, <1>6, <1>7, <1>8, <1>9, <1>10, <1>11, <1>12 DEF Next, Retry

(* Nothing complete outlives a round's change of hands, and another        *)
(* agent's rows are on a round only if they were saved while a move of the *)
(* farm had emptied it and not yet locked it.                              *)
THEOREM SpecStartsClean == Spec => StartsClean
  <1>1. ASSUME Inv, [Next]_vars, NEW r \in Round
        PROVE  /\ status'[r] \in {"UNASSIGNED", "ASSIGNED"} => ~recorded'[r]
               /\ ~Foreign(r) /\ Foreign(r)' =>
                    /\ moving # Nothing /\ moving.round = r /\ moving' = Nothing
                    /\ work'[r] = moving.late
    <2>1. NothingRecorded'
      BY <1>1, NextInv DEF Inv
    <2>2. ~Foreign(r) /\ Foreign(r)' => MovedWithLate(r)
      BY <1>1, NextForeign
    <2>3. QED
      BY <2>1, <2>2 DEF NothingRecorded, MovedWithLate
  <1>2. Inv /\ [Next]_vars =>
          [\A r \in Round :
             /\ status'[r] \in {"UNASSIGNED", "ASSIGNED"} => ~recorded'[r]
             /\ ~Foreign(r) /\ Foreign(r)' =>
                  /\ moving # Nothing /\ moving.round = r /\ moving' = Nothing
                  /\ work'[r] = moving.late]_vars
    BY <1>1
  <1>3. QED
    BY <1>2, SpecInv, PTL DEF Spec, StartsClean

-----------------------------------------------------------------------------
(* The agents of a farm and its LGA part only through stale reads.         *)
Overlap ==
  \/ retry # Nothing /\ retry.lga \notin {Nothing, lga}
  \/ \E e \in Edit : Stale(e) /\ updating'[e] = Nothing

(* A round that starts over in the farm's new LGA is covered there.        *)
LEMMA StartOverCovered ==
  ASSUME Inv, NEW r \in Round, \A q \in Round : q # r => ~IsOpen(q),
         NEW declined, NEW late, NEW l, NEW preferred, StartOver(r, declined, late, l, preferred),
         lga' = l, farm' # "VERIFIED"
  PROVE  Covered'
  <1>1. PICK a \in Agent \cup {Nothing} :
          /\ agent' = [agent EXCEPT ![r] = a]
          /\ status' = [status EXCEPT ![r] = IF a = Nothing THEN "UNASSIGNED" ELSE "ASSIGNED"]
          /\ a # Nothing => LgaOf[a] = l
    BY StartOverRounds DEF Inv
  <1>2. QED
    BY <1>1 DEF Inv, TypeOK, Covered, IsOpen, Open, OpenRound

LEMMA UpdateCovered ==
  ASSUME Inv, Covered, NEW e \in Edit, Update(e)
  PROVE  Covered' \/ Overlap
  <1> USE DEF Inv
  <1>1. CASE \/ \E l \in Lga, address \in BOOLEAN : UpdateRead(e, l, address)
             \/ UpdateClears(e) \/ UpdateAborts(e)
    BY <1>1 DEF UpdateRead, UpdateClears, UpdateAborts, farmVars, roundVars, Covered
  <1>2. CASE UpdateReopens(e)
    <2>1. PICK r \in Round :
            /\ r + 1 \in Round
            /\ StartOver(r + 1, {}, {}, updating[e].to,
                         IF updating[e].moves THEN Nothing ELSE agent[r])
      BY <1>2 DEF UpdateReopens
    <2>2. /\ \A q \in Round : ~IsOpen(q)
          /\ lga' = updating[e].to /\ farm' # "VERIFIED"
      BY <1>2 DEF UpdateReopens, UpdateWrites
    <2>3. QED
      BY <2>1, <2>2, StartOverCovered
  <1>3. CASE UpdateReassigns(e)
    <2>1. PICK r \in Round, late \in SUBSET Agent, declined \in SUBSET Agent :
            IsOpen(r) /\ StartOver(r, declined, late, updating[e].to, Nothing)
      <3>1. moving \in Move
        BY <1>3 DEF UpdateReassigns, TypeOK
      <3>2. QED
        BY <1>3, <3>1 DEF UpdateReassigns, Move, MovesOpen
    <2>2. lga' = updating[e].to /\ farm' = farm
      BY <1>3 DEF UpdateReassigns, UpdateWrites
    <2>3. farm # "VERIFIED" /\ \A q \in Round : q # r => ~IsOpen(q)
      <3>1. \A q \in Round : IsOpen(q) => Latest(q)
        BY DEF FarmFollowsRounds
      <3>2. QED
        BY <2>1, <3>1 DEF FarmFollowsRounds, Latest, IsOpen, OpenRound
    <2>4. QED
      BY <2>1, <2>2, <2>3, StartOverCovered
  <1>4. CASE UpdateOnly(e)
    <2>1. /\ updating[e] # Nothing /\ updating[e] \in Plan /\ updating'[e] = Nothing
          /\ lga' = updating[e].to
          /\ ~updating[e].reopens
          /\ updating[e].moves => \A r \in Round : ~IsOpen(r)
          /\ UNCHANGED <<farm, cluster, status, agent>>
      BY <1>4 DEF UpdateOnly, UpdateWrites, roundVars, TypeOK
    <2>2. CASE lga' = lga
      BY <2>1, <2>2 DEF Covered
    <2>3. CASE lga' # lga /\ (~updating[e].moves \/ farm = "VERIFIED")
      <3>1. ASSUME NEW address \in BOOLEAN
            PROVE  updating[e] # Planned(updating[e].to, address)
        <4>1. CASE ~updating[e].moves
          <5>1. Planned(updating[e].to, address).moves
            BY <2>1, <2>3 DEF Planned
          <5>2. QED
            BY <4>1, <5>1
        <4>2. CASE farm = "VERIFIED"
          <5>1. Planned(updating[e].to, address).reopens
            BY <2>1, <2>3, <4>2 DEF Planned
          <5>2. QED
            BY <2>1, <5>1
        <4>3. QED
          BY <2>3, <4>1, <4>2
      <3>2. Stale(e)
        BY <2>1, <3>1 DEF Stale
      <3>3. QED
        BY <2>1, <3>2 DEF Overlap
    <2>4. CASE updating[e].moves /\ farm # "VERIFIED"
      BY <2>1, <2>4 DEF Covered, IsOpen, Open, OpenRound
    <2>5. updating[e].moves \in BOOLEAN
      BY <2>1 DEF Plan
    <2>6. QED
      BY <2>2, <2>3, <2>4, <2>5
  <1>5. QED
    BY <1>1, <1>2, <1>3, <1>4 DEF Update

LEMMA NextCovered ==
  ASSUME Inv, [Next]_vars, Covered
  PROVE  Covered' \/ Overlap
  <1> USE DEF Inv
  <1>1. CASE RetryWrite
    <2>1. retry.round \in Round /\ retry.pick \in Agent /\ retry # Nothing
      BY <1>1 DEF RetryWrite, TypeOK, Job
    <2>2. CASE retry.lga # lga
      BY <2>1, <2>2, <1>1 DEF Overlap, RetryWrite, PickCoversRead
    <2>3. CASE retry.lga = lga
      <3>1. LgaOf[retry.pick] = lga
        BY <1>1, <2>3 DEF RetryWrite, PickCoversRead
      <3>2. QED
        BY <1>1, <2>1, <3>1 DEF RetryWrite, TypeOK, Covered, Open, farmVars
    <2>4. QED
      BY <2>2, <2>3
  <1>2. ASSUME NEW a \in Agent, NEW r \in Round, Record(a, r) \/ Reject(a, r)
        PROVE  Covered'
    BY <1>2 DEF Record, Reject, Holds, TypeOK, Covered, Open, farmVars
  <1>3. ASSUME NEW a \in Agent, ApproveCommit(a)
        PROVE  Covered'
    <2>1. approving[a] \in Round
      BY <1>3 DEF ApproveCommit, TypeOK
    <2>2. CASE Holds(a, approving[a])
      <3>1. /\ status' = [status EXCEPT ![approving[a]] = "APPROVED"]
            /\ cluster' = a /\ UNCHANGED <<agent, lga>>
        BY <1>3, <2>2 DEF ApproveCommit
      <3>2. LgaOf[a] = lga
        BY <2>1, <2>2 DEF Holds, Covered
      <3>3. QED
        BY <2>1, <3>1, <3>2 DEF TypeOK, Covered, Open
    <2>3. CASE ~Holds(a, approving[a])
      BY <1>3, <2>3 DEF ApproveCommit, Covered
    <2>4. QED
      BY <2>2, <2>3
  <1>4. ASSUME NEW a \in Agent, NEW r \in Round, Decline(a, r)
        PROVE  Covered'
    <2>1. /\ IsOpen(r) /\ StartOver(r, declines[r] \cup {a}, {}, lga, Nothing)
          /\ lga' = lga /\ farm' = farm
      BY <1>4 DEF Decline, Holds, IsOpen, Open, OpenRound, farmVars
    <2>2. farm # "VERIFIED" /\ \A q \in Round : q # r => ~IsOpen(q)
      <3>1. \A q \in Round : IsOpen(q) => Latest(q)
        BY DEF FarmFollowsRounds
      <3>2. QED
        BY <2>1, <3>1 DEF FarmFollowsRounds, Latest, IsOpen, OpenRound
    <2>3. QED
      BY <2>1, <2>2, StartOverCovered
  <1>5. ASSUME NEW l \in Lga, NEW preferred, Create(l, preferred)
        PROVE  Covered'
    <2>1. 1 \in Round
      BY VerificationAssumption
    <2>2. /\ StartOver(1, {}, {}, l, preferred) /\ lga' = l /\ farm' # "VERIFIED"
          /\ \A q \in Round : ~IsOpen(q)
      BY <1>5 DEF Create, NoFarmNoRounds, IsOpen, OpenRound
    <2>3. QED
      BY <2>1, <2>2, StartOverCovered
  <1>6. CASE Remove
    BY <1>6 DEF Remove, Covered, Open
  <1>7. CASE RetryScan \/ RetryRead \/ RetryPick \/ RetryDies
    BY <1>7 DEF RetryScan, RetryRead, RetryPick, RetryDies, farmVars, roundVars, Covered
  <1>8. CASE Suspend \/ ReplaceDocuments \/ UNCHANGED vars
    BY <1>8 DEF Suspend, ReplaceDocuments, vars, farmVars, roundVars, Covered
  <1>9. ASSUME NEW a \in Agent, VerifyAgent(a) \/ \E q \in Round : ApproveRead(a, q)
        PROVE  Covered'
    BY <1>9 DEF VerifyAgent, ApproveRead, farmVars, roundVars, Covered
  <1>10. QED
    BY <1>1, <1>2, <1>3, <1>4, <1>5, <1>6, <1>7, <1>8, <1>9, UpdateCovered DEF Next, Retry

(* The farm's LGA and its agents part only when the retry job or an edit   *)
(* acts on what was so earlier.                                            *)
THEOREM SpecStrayNeedsOverlap == Spec => StrayNeedsOverlap
  <1>1. Inv /\ [Next]_vars =>
          [Covered /\ ~Covered' =>
             \/ retry # Nothing /\ retry.lga \notin {Nothing, lga}
             \/ \E e \in Edit : Stale(e) /\ updating'[e] = Nothing]_vars
    BY NextCovered DEF Overlap
  <1>2. QED
    BY <1>1, SpecInv, PTL DEF Spec, StrayNeedsOverlap

(* A farm's status is its latest round's and a VERIFIED farm's farmer is   *)
(* ACTIVE, for any agents, rounds and edits.                               *)
THEOREM SpecFarmInStanding == Spec => []FarmInStanding
<1>1. FarmFollowsRounds /\ OnSaleInGoodStanding => FarmInStanding
  BY DEF FarmInStanding
<1>. QED
  BY <1>1, SpecFarmFollowsRounds, SpecOnSaleInGoodStanding, PTL

=============================================================================
