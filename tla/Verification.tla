---------------------------- MODULE Verification ----------------------------
(***************************************************************************)
(* The verification of one farm: its rounds, the agents they are given to, *)
(* and what their outcome makes of the farm and the farmer.                *)
(*                                                                         *)
(* Every handler is one transaction.  What an agent does is guarded on the *)
(* round's row (transition, record): it takes effect at one instant.       *)
(* These are read or deleted earlier than the rest is done, and are kept   *)
(* until then:                                                             *)
(*   approving  the round approve found to have no gaps;                   *)
(*   updating   what update plans from the farm it read, before its        *)
(*              transaction;                                               *)
(*   moving     the open round that an update, holding the farm's row, has *)
(*              emptied of checks and evidence before it locks the row of  *)
(*              the round: what an agent saves in between stays;           *)
(*   retry      the round the retry job scanned, the LGA assign read for   *)
(*              it, and the agent it picked under the lock lga:{id}.       *)
(* assign runs inside the other transactions too; there the row of the     *)
(* round is locked already, and nothing can come between its reads and its *)
(* write but the retry job, whose lock it waits for (LgaFree).  A          *)
(* transaction that PostgreSQL aborts changes nothing.                     *)
(*                                                                         *)
(* Which of several candidates pickAgent takes depends on the other farms  *)
(* of the LGA, so here it may be any, but for the preferred one.           *)
(***************************************************************************)
EXTENDS Naturals

CONSTANTS
  Agent,      \* extension agents
  Lga,        \* local government areas
  LgaOf,      \* the LGA of an agent, fixed once the agent is verified
  Edit,       \* calls of update that may be under way at once
  MaxRounds,  \* bound: rounds the farm goes through
  Nothing     \* null

Round == 1 .. MaxRounds

ASSUME VerificationAssumption ==
  /\ LgaOf \in [Agent -> Lga]
  /\ MaxRounds \in Nat \ {0}
  /\ Nothing \notin Agent \cup Lga \cup Round

VARIABLES
  farm,       \* Farm.verificationStatus; "NONE" before it is created
  lga,        \* Farm.lgaId
  cluster,    \* the agent of Farm.clusterId
  farmer,     \* Farmer.status of the owner
  papers,     \* whether the farmer's ID and the ownership document are stored
  status,     \* FarmVerification.status
  agent,      \* FarmVerification.agentId
  recorded,   \* whether what the agent recorded on the round is complete
  work,       \* the agents whose checks and evidence are on the round
  declines,   \* AssignmentDecline: the agents that declined a round
  verified,   \* Agent.isVerified
  approving,  \* see above
  updating,
  moving,
  retry

farmVars == <<farm, lga, cluster, farmer, papers>>
roundVars == <<status, agent, recorded, work, declines>>
calls == <<approving, updating, moving, retry>>
vars == <<farmVars, roundVars, verified, calls>>

FarmStatus == {"PENDING", "VERIFIED", "REJECTED", "SUSPENDED"}
Open == {"ASSIGNED", "IN_PROGRESS"}
OpenRound == {"UNASSIGNED", "ASSIGNED", "IN_PROGRESS"}
TaskStatus == OpenRound \cup {"APPROVED", "REJECTED"}
Plan == [to : Lga, moves : BOOLEAN, reopens : BOOLEAN]
Move == [edit : Edit, round : Round, late : SUBSET Agent, declined : SUBSET Agent]
Job == [round : Round, lga : Lga \cup {Nothing}, pick : Agent \cup {Nothing}]

TypeOK ==
  /\ farm \in FarmStatus \cup {"NONE", "GONE"}
  /\ lga \in Lga
  /\ cluster \in Agent \cup {Nothing}
  /\ farmer \in {"ACTIVE", "DISABLED"}
  /\ papers \in BOOLEAN
  /\ status \in [Round -> TaskStatus \cup {"NONE"}]
  /\ agent \in [Round -> Agent \cup {Nothing}]
  /\ recorded \in [Round -> BOOLEAN]
  /\ work \in [Round -> SUBSET Agent]
  /\ declines \in [Round -> SUBSET Agent]
  /\ verified \subseteq Agent
  /\ approving \in [Agent -> Round \cup {Nothing}]
  /\ \A e \in Edit : updating[e] = Nothing \/ updating[e] \in Plan
  /\ DOMAIN updating = Edit
  /\ moving = Nothing \/ moving \in Move
  /\ retry = Nothing \/ retry \in Job

Init ==
  /\ farm = "NONE"
  /\ lga \in Lga
  /\ cluster = Nothing
  /\ farmer = "ACTIVE"
  /\ papers = FALSE
  /\ status = [r \in Round |-> "NONE"]
  /\ agent = [r \in Round |-> Nothing]
  /\ recorded = [r \in Round |-> FALSE]
  /\ work = [r \in Round |-> {}]
  /\ declines = [r \in Round |-> {}]
  /\ verified = {}
  /\ approving = [a \in Agent |-> Nothing]
  /\ updating = [e \in Edit |-> Nothing]
  /\ moving = Nothing
  /\ retry = Nothing

-----------------------------------------------------------------------------
(* Assignment                                                              *)

Candidates(declined, l) == {a \in verified : LgaOf[a] = l /\ a \notin declined}

(* Whom pickAgent may take; Nothing leaves the round to the retry job.     *)
Picks(candidates, preferred) ==
  IF candidates = {} THEN {Nothing}
  ELSE IF preferred \in candidates THEN {preferred} ELSE candidates

(* The retry job holds lga:{l} from its pick to its commit.                *)
LgaFree(l) ==
  ~(retry # Nothing /\ retry.pick # Nothing /\ retry.lga = l)

(* An update that holds the farm's row makes the others who write it wait; *)
(* an approval and it wait for each other, and PostgreSQL aborts one.      *)
FarmFree == moving = Nothing

(* Broken on purpose: what the last agent recorded is kept.                *)
StartOverAsIs(r, declined, late, l, preferred) ==
  /\ LgaFree(l)
  /\ \E a \in Picks(Candidates(declined, l), preferred) :
       /\ agent' = [agent EXCEPT ![r] = a]
       /\ status' = [status EXCEPT ![r] = IF a = Nothing THEN "UNASSIGNED" ELSE "ASSIGNED"]
  /\ declines' = [declines EXCEPT ![r] = declined]
  /\ UNCHANGED <<recorded, work>>

(* Round r is new or starts over, with nothing recorded but what agents in *)
(* late did after it was emptied, and assign gives it to an agent of l who *)
(* is not in declined, if there is one.                                    *)
StartOver(r, declined, late, l, preferred) ==
  /\ LgaFree(l)
  /\ \E a \in Picks(Candidates(declined, l), preferred) :
       /\ agent' = [agent EXCEPT ![r] = a]
       /\ status' = [status EXCEPT ![r] = IF a = Nothing THEN "UNASSIGNED" ELSE "ASSIGNED"]
  /\ recorded' = [recorded EXCEPT ![r] = FALSE]
  /\ work' = [work EXCEPT ![r] = late]
  /\ declines' = [declines EXCEPT ![r] = declined]

(* Broken on purpose: a round that was declined is not retried.            *)
RetryScanNew ==
  /\ retry = Nothing
  /\ \E r \in Round :
       /\ status[r] = "UNASSIGNED" /\ declines[r] = {}
       /\ retry' = [round |-> r, lga |-> Nothing, pick |-> Nothing]
  /\ UNCHANGED <<farmVars, roundVars, verified, approving, updating, moving>>

(* assignWaiting finds a waiting round ...                                 *)
RetryScan ==
  /\ retry = Nothing
  /\ \E r \in Round :
       /\ status[r] = "UNASSIGNED"
       /\ retry' = [round |-> r, lga |-> Nothing, pick |-> Nothing]
  /\ UNCHANGED <<farmVars, roundVars, verified, approving, updating, moving>>

(* ... assign reads the farm's LGA, to know which lock to take ...         *)
RetryRead ==
  /\ retry # Nothing
  /\ retry.lga = Nothing
  /\ retry' = IF status[retry.round] = "NONE" THEN Nothing
              ELSE [retry EXCEPT !.lga = lga]
  /\ UNCHANGED <<farmVars, roundVars, verified, approving, updating, moving>>

(* ... and picks under that lock ...                                       *)
RetryPick ==
  /\ retry # Nothing
  /\ retry.lga # Nothing
  /\ retry.pick = Nothing
  /\ \E a \in Picks(Candidates(declines[retry.round], retry.lga), Nothing) :
       retry' = IF a = Nothing THEN Nothing ELSE [retry EXCEPT !.pick = a]
  /\ UNCHANGED <<farmVars, roundVars, verified, approving, updating, moving>>

(* Broken on purpose: without the guard on UNASSIGNED.                     *)
RetryWriteAnyway ==
  /\ retry # Nothing
  /\ retry.pick # Nothing
  /\ status' = [status EXCEPT ![retry.round] = "ASSIGNED"]
  /\ agent' = [agent EXCEPT ![retry.round] = retry.pick]
  /\ retry' = Nothing
  /\ UNCHANGED <<farmVars, recorded, work, declines, verified, approving, updating, moving>>

(* ... for a round that must still be UNASSIGNED.                          *)
RetryWrite ==
  /\ retry # Nothing
  /\ retry.pick # Nothing
  /\ IF status[retry.round] = "UNASSIGNED"
     THEN /\ status' = [status EXCEPT ![retry.round] = "ASSIGNED"]
          /\ agent' = [agent EXCEPT ![retry.round] = retry.pick]
     ELSE UNCHANGED <<status, agent>>
  /\ retry' = Nothing
  /\ UNCHANGED <<farmVars, recorded, work, declines, verified, approving, updating, moving>>

(* The process dies, or PostgreSQL aborts the job's transaction.           *)
RetryDies ==
  /\ retry # Nothing
  /\ retry' = Nothing
  /\ UNCHANGED <<farmVars, roundVars, verified, approving, updating, moving>>

-----------------------------------------------------------------------------
(* The agent's work                                                        *)

Holds(a, r) == status[r] \in Open /\ agent[r] = a

(* What was saved on a round since an update emptied it.                   *)
MovingAfter(r, late, declined) ==
  IF moving # Nothing /\ moving.round = r
  THEN [edit |-> moving.edit, round |-> r, late |-> late, declined |-> declined]
  ELSE moving

(* saveLocation, saveCheck, update, addEvidence and removeEvidence: a row  *)
(* of the agent's is added or replaces one, or one is removed; any of them *)
(* may complete what is recorded, or make it incomplete.                   *)
Record(a, r) ==
  /\ Holds(a, r)
  /\ status' = [status EXCEPT ![r] = "IN_PROGRESS"]
  /\ \E kept \in SUBSET (work[r] \cup {a}), done \in BOOLEAN :
       /\ done => kept # {}
       /\ recorded' = [recorded EXCEPT ![r] = done]
       /\ work' = [work EXCEPT ![r] = kept]
       /\ moving' = MovingAfter(r, (moving.late \cup {a}) \cap kept, moving.declined)
  /\ UNCHANGED <<farmVars, agent, declines, verified, approving, updating, retry>>

(* The last of the farmer's documents is uploaded, by farmer or agent.     *)
ReplaceDocuments ==
  /\ farm \in FarmStatus \ {"VERIFIED"}
  /\ FarmFree
  /\ papers' = TRUE
  /\ UNCHANGED <<farm, lga, cluster, farmer, roundVars, verified, calls>>

(* The round's row is locked first.                                        *)
Decline(a, r) ==
  /\ Holds(a, r)
  /\ StartOver(r, declines[r] \cup {a}, {}, lga, Nothing)
  /\ moving' = MovingAfter(r, {}, moving.declined \cup {a})
  /\ UNCHANGED <<farmVars, verified, approving, updating, retry>>

(* approve reads the checklist (a decided round is as good as none: it is  *)
(* turned down later, and changes nothing) ...                             *)
ApproveRead(a, r) ==
  /\ approving[a] = Nothing
  /\ Holds(a, r)
  /\ recorded[r] /\ papers
  /\ approving' = [approving EXCEPT ![a] = r]
  /\ UNCHANGED <<farmVars, roundVars, verified, updating, moving, retry>>

(* ... and commits for a round that must still be open and the agent's:    *)
(* the farm joins the agent's cluster and a suspended farmer comes back.   *)
ApproveCommit(a) ==
  /\ approving[a] # Nothing
  /\ FarmFree
  /\ approving' = [approving EXCEPT ![a] = Nothing]
  /\ IF Holds(a, approving[a])
     THEN /\ status' = [status EXCEPT ![approving[a]] = "APPROVED"]
          /\ farm' = "VERIFIED"
          /\ cluster' = a
          /\ farmer' = "ACTIVE"
     ELSE UNCHANGED <<status, farm, cluster, farmer>>
  /\ UNCHANGED <<lga, papers, agent, recorded, work, declines, verified, updating, moving, retry>>

Reject(a, r) ==
  /\ Holds(a, r)
  /\ FarmFree
  /\ status' = [status EXCEPT ![r] = "REJECTED"]
  /\ farm' = "REJECTED"
  /\ cluster' = Nothing
  /\ UNCHANGED <<lga, farmer, papers, agent, recorded, work, declines, verified, calls>>

-----------------------------------------------------------------------------
(* The farmer and the admin                                                *)

(* The farm and its first round, by the farmer, or by an agent, who is     *)
(* then preferred for it.                                                  *)
Create(l, preferred) ==
  /\ farm = "NONE"
  /\ farm' = "PENDING"
  /\ lga' = l
  /\ papers' \in {FALSE, preferred = Nothing}
  /\ StartOver(1, {}, {}, l, preferred)
  /\ UNCHANGED <<cluster, farmer, verified, calls>>

(* Broken on purpose: a verified farm that moves keeps its status.         *)
PlannedRejected(l, address) ==
  [to |-> l, moves |-> l # lga, reopens |-> farm = "REJECTED"]

(* What update does with a farm as it is now, given an LGA and perhaps a   *)
(* new address.                                                            *)
Planned(l, address) ==
  [to |-> l,
   moves |-> l # lga,
   reopens |-> \/ farm = "REJECTED"
               \/ farm = "VERIFIED" /\ (l # lga \/ address)]

UpdateRead(e, l, address) ==
  /\ updating[e] = Nothing
  /\ farm \in FarmStatus
  /\ farmer # "DISABLED"
  /\ updating' = [updating EXCEPT ![e] = Planned(l, address)]
  /\ UNCHANGED <<farmVars, roundVars, verified, approving, moving, retry>>

Latest(r) == status[r] # "NONE" /\ \A q \in Round : q > r => status[q] = "NONE"
IsOpen(r) == status[r] \in OpenRound

UpdateWrites(e) ==
  /\ updating[e] # Nothing
  /\ farm \in FarmStatus
  /\ lga' = updating[e].to
  /\ updating' = [updating EXCEPT ![e] = Nothing]
  /\ moving' = Nothing
  /\ UNCHANGED <<farmer, papers, verified, approving, retry>>

(* A rejected farm is edited or a verified one moved: a new round, for the *)
(* agent of the last one if the LGA is the same.  A farm has one open      *)
(* round (FarmVerification_farmId_open_key).                               *)
UpdateReopens(e) ==
  /\ FarmFree
  /\ UpdateWrites(e)
  /\ updating[e].reopens
  /\ \A r \in Round : ~IsOpen(r)
  /\ farm' = "PENDING"
  /\ cluster' = Nothing
  /\ \E r \in Round :
       /\ Latest(r)
       /\ r + 1 \in Round
       /\ StartOver(r + 1, {}, {}, updating[e].to,
                    IF updating[e].moves THEN Nothing ELSE agent[r])

(* reassignOpenRound finds the open round and deletes its declines and     *)
(* what is recorded on it ...                                              *)
UpdateClears(e) ==
  /\ FarmFree
  /\ updating[e] # Nothing
  /\ ~updating[e].reopens
  /\ updating[e].moves
  /\ \E r \in Round :
       /\ IsOpen(r)
       /\ moving' = [edit |-> e, round |-> r, late |-> {}, declined |-> {}]
  /\ UNCHANGED <<farmVars, roundVars, verified, approving, updating, retry>>

(* ... and then locks the round, clears it, assigns it and commits.        *)
UpdateReassigns(e) ==
  /\ moving # Nothing
  /\ moving.edit = e
  /\ UpdateWrites(e)
  /\ StartOver(moving.round, moving.declined, moving.late, updating[e].to, Nothing)
  /\ UNCHANGED <<farm, cluster>>

UpdateOnly(e) ==
  /\ FarmFree
  /\ UpdateWrites(e)
  /\ ~updating[e].reopens
  /\ updating[e].moves => \A r \in Round : ~IsOpen(r)
  /\ UNCHANGED <<farm, cluster, roundVars>>

UpdateAborts(e) ==
  /\ updating[e] # Nothing
  /\ updating' = [updating EXCEPT ![e] = Nothing]
  /\ moving' = IF moving # Nothing /\ moving.edit = e THEN Nothing ELSE moving
  /\ UNCHANGED <<farmVars, roundVars, verified, approving, retry>>

Suspend ==
  /\ farm \in FarmStatus
  /\ FarmFree
  /\ farm' = "SUSPENDED"
  /\ farmer' = "DISABLED"
  /\ UNCHANGED <<lga, cluster, papers, roundVars, verified, calls>>

(* The rounds go with the farm.                                            *)
Remove ==
  /\ farm \in FarmStatus
  /\ FarmFree
  /\ farmer # "DISABLED"
  /\ farm' = "GONE"
  /\ cluster' = Nothing
  /\ status' = [r \in Round |-> "NONE"]
  /\ agent' = [r \in Round |-> Nothing]
  /\ recorded' = [r \in Round |-> FALSE]
  /\ work' = [r \in Round |-> {}]
  /\ declines' = [r \in Round |-> {}]
  /\ UNCHANGED <<lga, farmer, papers, verified, calls>>

(* An agent is admitted.  No code in src/ does this yet.                   *)
VerifyAgent(a) ==
  /\ a \notin verified
  /\ verified' = verified \cup {a}
  /\ UNCHANGED <<farmVars, roundVars, calls>>

Retry == RetryScan \/ RetryRead \/ RetryPick \/ RetryWrite \/ RetryDies

Update(e) ==
  \/ \E l \in Lga, address \in BOOLEAN : UpdateRead(e, l, address)
  \/ UpdateReopens(e) \/ UpdateClears(e) \/ UpdateReassigns(e) \/ UpdateOnly(e)
  \/ UpdateAborts(e)

Next ==
  \/ Retry
  \/ \E a \in Agent, r \in Round : Record(a, r) \/ Decline(a, r) \/ ApproveRead(a, r) \/ Reject(a, r)
  \/ \E a \in Agent : ApproveCommit(a) \/ VerifyAgent(a)
  \/ \E l \in Lga, preferred \in verified \cup {Nothing} : Create(l, preferred)
  \/ \E e \in Edit : Update(e)
  \/ ReplaceDocuments
  \/ Suspend
  \/ Remove

Spec == Init /\ [][Next]_vars

(* Only the retry job is fair: it runs every 15 minutes, and it does not   *)
(* die at the same point every time.                                       *)
FairSpec ==
  /\ Spec
  /\ WF_vars(RetryScan)
  /\ SF_vars(RetryRead)
  /\ SF_vars(RetryPick)
  /\ SF_vars(RetryWrite)

-----------------------------------------------------------------------------
(* The farm's status is that of its latest round, whichever transaction    *)
(* came last: a farm that is not suspended is PENDING exactly while a      *)
(* round is open; VERIFIED or REJECTED, the latest round says so.  At most *)
(* one round is open, the latest.                                          *)
FarmFollowsRounds ==
  /\ \A r \in Round : IsOpen(r) => Latest(r)
  /\ farm # "SUSPENDED" => (farm = "PENDING" <=> \E r \in Round : IsOpen(r))
  /\ farm \in {"VERIFIED", "REJECTED"} =>
       \E r \in Round : /\ Latest(r)
                        /\ status[r] = IF farm = "VERIFIED" THEN "APPROVED" ELSE "REJECTED"

(* A VERIFIED farm is in the cluster of the agent who approved it, and a   *)
(* PENDING or REJECTED one in none; an open round is UNASSIGNED exactly    *)
(* when it has no agent.                                                   *)
ClusterIsApprovers ==
  /\ farm = "VERIFIED" => \E r \in Round : Latest(r) /\ cluster = agent[r] /\ cluster # Nothing
  /\ farm \in {"PENDING", "REJECTED"} => cluster = Nothing
  /\ \A r \in Round : IsOpen(r) => (status[r] = "UNASSIGNED" <=> agent[r] = Nothing)

(* "Returns a round to UNASSIGNED with nothing recorded."  A round that    *)
(* changes hands carries nothing complete over to the next agent, and      *)
(* comes by checks or evidence of another agent than its own in one way    *)
(* only: they were saved after an update that moves the farm had emptied   *)
(* the round, and before it locked it.                                     *)
Foreign(r) == IsOpen(r) /\ ~(work[r] \subseteq {agent[r]})

StartsClean ==
  [][\A r \in Round :
       /\ status'[r] \in {"UNASSIGNED", "ASSIGNED"} => ~recorded'[r]
       /\ ~Foreign(r) /\ Foreign(r)' =>
            /\ moving # Nothing /\ moving.round = r /\ moving' = Nothing
            /\ work'[r] = moving.late]_vars

(* Listings of a VERIFIED farm are on sale; its farmer is not suspended.   *)
OnSaleInGoodStanding == farm = "VERIFIED" => farmer = "ACTIVE"

(* The run's question about the farm's status: FarmFollowsRounds and       *)
(* OnSaleInGoodStanding.                                                   *)
FarmInStanding == FarmFollowsRounds /\ OnSaleInGoodStanding

(* The agents of the farm, of its open round and of its cluster, cover the *)
(* LGA it is in.                                                           *)
Covered ==
  /\ \A r \in Round : status[r] \in Open => LgaOf[agent[r]] = lga
  /\ farm = "VERIFIED" => LgaOf[cluster] = lga

(* Covered is lost in two ways only: the retry job gives the round to an   *)
(* agent of the LGA the farm was in, or an edit commits that would be      *)
(* planned otherwise by now.                                               *)
Stale(e) ==
  /\ updating[e] # Nothing
  /\ \A address \in BOOLEAN : updating[e] # Planned(updating[e].to, address)

StrayNeedsOverlap ==
  [][Covered /\ ~Covered' =>
       \/ retry # Nothing /\ retry.lga \notin {Nothing, lga}
       \/ \E e \in Edit : Stale(e) /\ updating'[e] = Nothing]_vars

(* "Hands the round to the next eligible agent; this one is never          *)
(* re-picked": a round goes to an agent who declined it only by a pick the *)
(* retry job made before the decline.                                      *)
Repicked(r) == IsOpen(r) /\ agent[r] \in declines[r]

NeverRepicked ==
  [][\A r \in Round :
       Repicked(r)' => Repicked(r) \/ (retry # Nothing /\ retry.pick = agent'[r])]_vars

(* A waiting round is assigned once its LGA has an agent for it.           *)
WaitingIsAssigned ==
  \A r \in Round :
    status[r] = "UNASSIGNED" /\ Candidates(declines[r], lga) # {}
      ~> status[r] # "UNASSIGNED" \/ Candidates(declines[r], lga) = {}
=============================================================================
