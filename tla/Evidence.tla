------------------------------- MODULE Evidence -------------------------------
(* What one verification round collects before its agent may approve it: the *)
(* farmer's ID and the farm's ownership document, which are columns of       *)
(* Farmer and Farm, and the documents, checks, photos and notes of the round *)
(* itself (src/src/verification).                                            *)
(*                                                                           *)
(* PostgreSQL runs these transactions READ COMMITTED.  Every write of the    *)
(* agent is guarded on the round's row and holds it until commit (record,    *)
(* transition), so it takes effect at one instant; but evidenceStatus is     *)
(* recalculated from three rows of which a transaction has locked at most    *)
(* one.  What is read and used later is kept in                              *)
(*   adding     addEvidence, which holds the round's row;                    *)
(*   replacing  FarmDocumentsService.replace, which holds the farm's row;    *)
(*   identity   FarmerService.uploadIdDocument, which recalculates only      *)
(*              after its transaction;                                       *)
(*   asking     AdminVerificationService.request;                            *)
(*   approving  approve, which reads the round, then the rest of the list,   *)
(*              before its guarded write.                                    *)
(* What else the round is (who may get it, the farm's status) is the subject *)
(* of Verification; the objects in the bucket are that of Documents.         *)
EXTENDS Naturals, FiniteSets

CONSTANTS
  Agent,        \* extension agents
  Document,     \* the round's own: location evidence, plot sketch, ...
  Requestable,  \* those of them an information request may name
  Check,        \* VerificationCheckKey
  Identity,     \* the checks that may be UNABLE; the others, NOT_APPLICABLE
  Choice,       \* AWAITING_DOCS and FOLLOW_UP, which are kept alike; a run may
                \* leave FOLLOW_UP out
  MaxTurns      \* bound: times the round starts over

EvidenceAssumption ==
  /\ MaxTurns \in Nat /\ Document # {}
  /\ "AWAITING_DOCS" \in Choice /\ Choice \subseteq {"AWAITING_DOCS", "FOLLOW_UP"}

Paper == {"FARMER_ID", "OWNERSHIP"}

VARIABLES
  paper,      \* the documents stored on the farmer and the farm
  round,      \* the FarmVerification row, with its checks and photos
  turn,       \* times the round has started over
  adding, replacing, identity, asking, approving

rows == <<paper, round, turn>>
calls == <<adding, replacing, identity, asking, approving>>
vars == <<rows, calls>>

Status == {"UNASSIGNED", "ASSIGNED", "IN_PROGRESS", "APPROVED", "REJECTED"}
Tracked == {"UNASSIGNED", "ASSIGNED", "IN_PROGRESS"}
Open == {"ASSIGNED", "IN_PROGRESS"}
Decided == {"APPROVED", "REJECTED"}
EvidenceStatus == Choice \cup {"MISSING_DOCS", "INCOMPLETE"}
Result(k) == {"VERIFIED", "ISSUE", IF k \in Identity THEN "UNABLE" ELSE "NOT_APPLICABLE"}

(* What a saved check is to the checklist: an issue needs a note, and a      *)
(* photo beside it.                                                          *)
Worth(result, note) ==
  IF result # "ISSUE" THEN "SETTLED" ELSE IF note THEN "EXPLAINED" ELSE "OPEN"
Worths(k) == {Worth(result, note) : result \in Result(k), note \in BOOLEAN}

(* What of the list an agent writes, beside the documents. *)
Part == {"notes"} \cup Check

(* notes: the location matches, or differs with coordinates and a note, and  *)
(* identityNote and generalNote are written.                                 *)
Row == [status : Status, agent : SUBSET Agent, evidence : EvidenceStatus,
        documents : SUBSET Document,
        checks : [Check -> {"SETTLED", "EXPLAINED", "OPEN"}], photos : SUBSET Check,
        notes : BOOLEAN]

(* CLEARED_ROUND; agent is a set of at most one. *)
Cleared ==
  [status |-> "UNASSIGNED", agent |-> {}, evidence |-> "MISSING_DOCS",
   documents |-> {}, checks |-> [k \in Check |-> "OPEN"], photos |-> {},
   notes |-> FALSE]

Idle == [on |-> FALSE]

TypeOK ==
  /\ paper \subseteq Paper
  /\ round \in Row
  /\ turn \in 0..MaxTurns
  /\ adding \in {Idle} \cup [on : {TRUE}, document : Document, next : EvidenceStatus]
  /\ replacing \in {Idle} \cup [on : {TRUE}, paper : SUBSET Paper,
                               saw : EvidenceStatus, next : EvidenceStatus]
  /\ identity \in {Idle} \cup [on : {TRUE}, saw : EvidenceStatus \cup {"UNREAD"},
                              next : EvidenceStatus \cup {"UNREAD"}]
  /\ asking \in {Idle} \cup [on : {TRUE}, saw : Status]
  /\ approving \in [Agent -> {Idle} \cup [on : {TRUE}, turn : 0..MaxTurns,
                                         ready : BOOLEAN, opened : SUBSET Part]]

Init ==
  /\ paper = {}
  /\ round = Cleared
  /\ turn = 0
  /\ adding = Idle /\ replacing = Idle /\ identity = Idle /\ asking = Idle
  /\ approving = [a \in Agent |-> Idle]

-----------------------------------------------------------------------------
(* evidenceStatus                                                            *)

DocumentsComplete(papers, documents) == papers = Paper /\ documents = Document

NextStatus(current, complete) ==
  IF current \in Choice THEN current
  ELSE IF complete THEN "INCOMPLETE" ELSE "MISSING_DOCS"

(* refreshFarmEvidenceStatus: what it reads of the round, given the papers   *)
(* and documents its transaction sees; a decided round is left alone.        *)
Refreshed(papers, documents) ==
  IF round.status \in Tracked
  THEN NextStatus(round.evidence, DocumentsComplete(papers, documents))
  ELSE round.evidence

(* Its write, by id, when what it saw was to change.                         *)
Written(saw, next) == IF next = saw THEN round ELSE [round EXCEPT !.evidence = next]

(* The round's row is held by addEvidence until it commits.                  *)
RowFree == adding = Idle

-----------------------------------------------------------------------------
(* The gaps of the checklist in what an agent writes, the documents apart.   *)
CheckGap(row, k) ==
  \/ row.checks[k] = "OPEN"
  \/ row.checks[k] = "EXPLAINED" /\ k \notin row.photos
Gap(row, part) ==
  \/ part = "notes" /\ ~row.notes
  \/ part \in Check /\ CheckGap(row, part)
Gaps(row) == {part \in Part : Gap(row, part)}

(* The agent's drafts: record() guards each, and starts the task.  opened    *)
(* recalls the gaps they left since an approve under way began.              *)
Holds(a) == round.status \in Open /\ a \in round.agent
Opening(part, row) ==
  [a \in Agent |->
     IF approving[a].on
     THEN [approving[a] EXCEPT !.opened = (@ \ {part}) \cup ({part} \cap Gaps(row))]
     ELSE approving[a]]
Draft(a, part, row) ==
  /\ RowFree /\ Holds(a)
  /\ round' = [row EXCEPT !.status = "IN_PROGRESS"]
  /\ approving' = Opening(part, row)
  /\ UNCHANGED <<paper, turn, adding, replacing, identity, asking>>

SaveLocation(a) ==
  \E notes \in BOOLEAN : Draft(a, "notes", [round EXCEPT !.notes = notes])
SaveCheck(a, k) ==
  \E worth \in Worths(k) : Draft(a, k, [round EXCEPT !.checks[k] = worth])
(* A field that is sent as null is cleared. *)
Update(a) ==
  \E notes \in BOOLEAN, chosen \in EvidenceStatus :
    Draft(a, "notes", [round EXCEPT !.notes = notes, !.evidence = chosen])
AddPhoto(a, k) == Draft(a, k, [round EXCEPT !.photos = @ \cup {k}])
(* The check may have other photos. *)
RemoveEvidence(a, k) ==
  /\ k \in round.photos
  /\ \E photos \in {round.photos, round.photos \ {k}} :
       Draft(a, k, [round EXCEPT !.photos = photos])

(* addEvidence of a document: the key is written and the status recalculated *)
(* from the farm as committed by then, *)
AddRead(a, d) ==
  /\ RowFree /\ Holds(a)
  /\ adding' = [on |-> TRUE, document |-> d,
                next |-> Refreshed(paper, round.documents \cup {d})]
  /\ UNCHANGED <<rows, replacing, identity, asking, approving>>
(* and both are committed, or neither. *)
AddCommit ==
  /\ adding.on
  /\ round' = [round EXCEPT !.status = "IN_PROGRESS", !.evidence = adding.next,
                            !.documents = @ \cup {adding.document}]
  /\ adding' = Idle
  /\ UNCHANGED <<paper, turn, replacing, identity, asking, approving>>
AddAborts == adding.on /\ adding' = Idle /\ UNCHANGED <<rows, replacing, identity, asking, approving>>

-----------------------------------------------------------------------------
(* The papers, from the farmer, or from the agent of an open round.          *)

(* replace: a farm that is not VERIFIED; its row is locked first.            *)
ReplaceRead(new) ==
  /\ replacing = Idle /\ round.status # "APPROVED" /\ new # {}
  /\ replacing' = [on |-> TRUE, paper |-> new, saw |-> round.evidence,
                   next |-> Refreshed(paper \cup new, round.documents)]
  /\ UNCHANGED <<rows, adding, identity, asking, approving>>
(* replaceDocuments, by the farmer, of the farm's own; uploadDocuments, by   *)
(* the agent of the open round, of any.                                      *)
ReplaceDocuments(new) == "FARMER_ID" \notin new /\ ReplaceRead(new)
UploadDocuments(a, new) == Holds(a) /\ ReplaceRead(new)
ReplaceCommit ==
  /\ replacing.on
  /\ replacing.next # replacing.saw => RowFree
  /\ paper' = paper \cup replacing.paper
  /\ round' = Written(replacing.saw, replacing.next)
  /\ replacing' = Idle
  /\ UNCHANGED <<turn, adding, identity, asking, approving>>
ReplaceAborts ==
  /\ replacing.on /\ replacing' = Idle
  /\ UNCHANGED <<rows, adding, identity, asking, approving>>

(* uploadIdDocument: the key is committed, *)
IdentityWrite ==
  /\ identity = Idle
  /\ paper' = paper \cup {"FARMER_ID"}
  /\ identity' = [on |-> TRUE, saw |-> "UNREAD", next |-> "UNREAD"]
  /\ UNCHANGED <<round, turn, adding, replacing, asking, approving>>
(* then the round is read, *)
IdentityRead ==
  /\ identity.on /\ identity.saw = "UNREAD"
  /\ identity' = [on |-> TRUE, saw |-> round.evidence, next |-> Refreshed(paper, round.documents)]
  /\ UNCHANGED <<rows, adding, replacing, asking, approving>>
(* then its status is written. *)
IdentityRefresh ==
  /\ identity.on /\ identity.saw # "UNREAD"
  /\ identity.next # identity.saw => RowFree
  /\ round' = Written(identity.saw, identity.next)
  /\ identity' = Idle
  /\ UNCHANGED <<paper, turn, adding, replacing, asking, approving>>
(* The process dies in between: nothing recalculates later. *)
IdentityDies ==
  /\ identity.on /\ identity' = Idle
  /\ UNCHANGED <<rows, adding, replacing, asking, approving>>

-----------------------------------------------------------------------------
(* An admin's information request: of a round that is not decided, has an    *)
(* agent and has not stored what is asked for ...                            *)
MayAsk == round.status \notin Decided /\ round.agent # {}
Stored == (paper \cap {"FARMER_ID"}) \cup (round.documents \cap Requestable)
AskRead ==
  /\ asking = Idle /\ MayAsk
  /\ \E wanted \in {"FARMER_ID"} \cup Requestable : wanted \notin Stored
  /\ asking' = [on |-> TRUE, saw |-> round.status]
  /\ UNCHANGED <<rows, adding, replacing, identity, approving>>
(* ... written to whatever the round is by now. *)
AskWrite ==
  /\ asking.on /\ RowFree
  /\ round' = [round EXCEPT !.evidence = "AWAITING_DOCS"]
  /\ asking' = Idle
  /\ UNCHANGED <<paper, turn, adding, replacing, identity, approving>>

-----------------------------------------------------------------------------
(* The decision                                                              *)

(* What checklistGaps looks at on the round's row, and elsewhere.            *)
RowComplete == round.notes /\ round.documents = Document
RestCompleteButPapers == \A k \in Check : ~CheckGap(round, k)
RestComplete == (\A k \in Check : ~CheckGap(round, k)) /\ paper = Paper

(* findFirst reads the row, *)
ApproveRead(a) ==
  /\ approving[a] = Idle
  /\ a \in round.agent /\ RowComplete
  /\ approving' = [approving EXCEPT ![a] =
                     [on |-> TRUE, turn |-> turn, ready |-> FALSE, opened |-> {}]]
  /\ UNCHANGED <<rows, adding, replacing, identity, asking>>
(* then what it includes; a gap refuses the approval. *)
ApproveInclude(a) ==
  /\ approving[a].on /\ ~approving[a].ready
  /\ approving' = [approving EXCEPT ![a] =
                     IF RestComplete THEN [approving[a] EXCEPT !.ready = TRUE] ELSE Idle]
  /\ UNCHANGED <<rows, adding, replacing, identity, asking>>
(* It updates the farm too, which a replacement under way holds.             *)
ApproveCommit(a) ==
  /\ approving[a].on /\ approving[a].ready /\ RowFree /\ replacing = Idle
  /\ round' = IF Holds(a) THEN [round EXCEPT !.status = "APPROVED"] ELSE round
  /\ approving' = [approving EXCEPT ![a] = Idle]
  /\ UNCHANGED <<paper, turn, adding, replacing, identity, asking>>

Reject(a) ==
  /\ RowFree /\ replacing = Idle /\ Holds(a)
  /\ round' = [round EXCEPT !.status = "REJECTED"]
  /\ UNCHANGED <<paper, turn, calls>>

-----------------------------------------------------------------------------
(* resetRound: a declined round goes to another agent, that of a farm which  *)
(* moved to any, if there is one; the retry job gives a waiting one away.    *)
ResetRoundKeepsDocuments == [Cleared EXCEPT !.documents = round.documents]
ResetRound == Cleared
GivenTo(row, holder) ==
  [row EXCEPT !.agent = holder, !.status = IF holder = {} THEN "UNASSIGNED" ELSE "ASSIGNED"]
(* late, photos: the checks and photos that stay. *)
StartOver(holders, late, photos) ==
  /\ RowFree /\ turn < MaxTurns
  /\ turn' = turn + 1
  /\ \E holder \in holders :
       round' = [GivenTo(ResetRound, holder) EXCEPT
                   !.checks = [k \in Check |-> IF k \in late THEN round.checks[k] ELSE "OPEN"],
                   !.photos = photos]
  /\ UNCHANGED <<paper, calls>>

OneOf(agents) == {{}} \cup {{a} : a \in agents}
(* decline holds the round before it deletes anything. *)
Decline(a) == Holds(a) /\ StartOver(OneOf(Agent \ {a}), {}, {})
(* reassignOpenRound deletes first: what the agent saves until it holds the  *)
(* round stays (see Verification, which says when).                          *)
Relocate ==
  /\ round.status \in Tracked /\ replacing = Idle
  /\ \E late \in SUBSET Check, photos \in SUBSET round.photos :
       /\ round.status # "IN_PROGRESS" => late = {} /\ photos = {}
       /\ StartOver(OneOf(Agent), late, photos)
AssignWaiting ==
  /\ RowFree /\ round.status = "UNASSIGNED"
  /\ \E a \in Agent : round' = GivenTo(round, {a})
  /\ UNCHANGED <<paper, turn, calls>>

Next ==
  \/ \E a \in Agent : \/ SaveLocation(a) \/ Update(a)
                      \/ \E k \in Check : SaveCheck(a, k) \/ AddPhoto(a, k) \/ RemoveEvidence(a, k)
                      \/ \E d \in Document : AddRead(a, d)
                      \/ ApproveRead(a) \/ ApproveInclude(a) \/ ApproveCommit(a)
                      \/ Reject(a) \/ Decline(a)
  \/ AddCommit \/ AddAborts
  \/ \E new \in SUBSET Paper : ReplaceDocuments(new) \/ \E a \in Agent : UploadDocuments(a, new)
  \/ ReplaceCommit \/ ReplaceAborts
  \/ IdentityWrite \/ IdentityRead \/ IdentityRefresh \/ IdentityDies
  \/ AskRead \/ AskWrite \/ Relocate \/ AssignWaiting

Spec == Init /\ [][Next]_vars

-----------------------------------------------------------------------------
(* approve reads the checklist, in several statements, before its guarded    *)
(* write.  Where the round did not start over in between, the documents are  *)
(* all there when it is approved, and where a note, a check or a photo is    *)
(* missing, the agent's own drafts took it away in the meantime.             *)
ApprovedWhole ==
  [][\A a \in Agent :
       round.status # "APPROVED" /\ round'.status = "APPROVED" /\ approving[a].on
         /\ ~approving'[a].on /\ approving[a].turn = turn
       => /\ DocumentsComplete(paper, round.documents)
          /\ Gaps(round) \subseteq approving[a].opened]_vars

(* "MISSING_DOCS and INCOMPLETE follow the expected documents": they part    *)
(* only when the agent sets the status, when the ID is stored and its        *)
(* refresh has not come yet, or when what a refresh read is no longer so:    *)
(* a document of the round was written while a paper was, neither            *)
(* transaction seeing the other's, or the round was changed in between.      *)
Told ==
  round.status \in Tracked /\ round.evidence \notin Choice =>
    (round.evidence = "INCOMPLETE" <=> DocumentsComplete(paper, round.documents))
AddStale == adding.next # Refreshed(paper, round.documents \cup {adding.document})
ReplaceStale ==
  \/ replacing.saw # round.evidence
  \/ replacing.next # Refreshed(paper \cup replacing.paper, round.documents)
IdentityStale ==
  identity.saw # round.evidence \/ identity.next # Refreshed(paper, round.documents)
StatusFollows ==
  [][Told /\ ~Told' =>
       \/ \E a \in Agent : Update(a)
       \/ IdentityWrite
       \/ AddCommit /\ AddStale
       \/ ReplaceCommit /\ ReplaceStale
       \/ IdentityRefresh /\ IdentityStale]_vars

(* "AWAITING_DOCS and FOLLOW_UP stay until someone sets a different status": *)
(* an upload clears them only if it had read the round before they were set. *)
(* And documents are asked of a round that is decided or nobody's only if it *)
(* became so after the request had read it.                                  *)
ChoicesStay ==
  [][/\ round.evidence \in Choice /\ round'.evidence \notin Choice /\ turn' = turn =>
          \/ \E a \in Agent : Update(a)
          \/ IdentityRefresh /\ identity.saw # round.evidence
          \/ ReplaceCommit /\ replacing.saw # round.evidence
     /\ AskWrite => (MayAsk \/ asking.saw # round.status)]_vars

(* The run's question about evidenceStatus: StatusFollows and ChoicesStay.   *)
EvidenceKept == StatusFollows /\ ChoicesStay
=============================================================================
