------------------------------ MODULE SideBySide ------------------------------
(* Six components that share no state: a listing, what a round collects, the   *)
(* preparation of an order, paged lists, reports, and profiles.  The initial   *)
(* state chooses the one that moves, and the others stay at their initial      *)
(* states, so that one exploration has the states of each.  The three kinds of *)
(* profile share no state either.                                              *)
EXTENDS Shelf

CONSTANTS Agent, Document, Requestable, Check, Identity, Choice, MaxTurns
VARIABLES paper, round, turn, adding, replacing, identity, asking, approving
E == INSTANCE Evidence
ASSUME EvidenceAssumption == E!EvidenceAssumption
ofEvidence == <<paper, round, turn, adding, replacing, identity, asking, approving>>

CONSTANTS Item, Request
VARIABLES stage, ticks, doing, crossed
W == INSTANCE Preparation
ofPreparation == <<stage, ticks, doing, crossed>>

CONSTANTS MaxRow, MaxKey, MaxChange, MaxSize
VARIABLES list, key, page, perPage, data, total, got, changes, steady, raised,
          dropped, level, ended
L == INSTANCE Lists
ASSUME ListsAssumption == L!ListsAssumption
ofLists == <<list, key, page, perPage, data, total, got, changes, steady, raised,
             dropped, level, ended>>

CONSTANTS MaxReported
VARIABLES report, table, seen, earned, changed, moved
R == INSTANCE Reports WITH MaxRow <- MaxReported, changes <- moved
ASSUME ReportsAssumption == R!ReportsAssumption
ofReports == <<report, table, seen, earned, changed, moved>>

CONSTANTS State, Lga, StateOf, Field, MaxAddresses, MaxId, None
VARIABLES buyer, agent, book, call
P == INSTANCE Profiles
ASSUME ProfilesAssumption == P!ProfilesAssumption
ofProfiles == <<buyer, agent, book, call>>

VARIABLE part

together == <<vars, ofEvidence, ofPreparation, ofLists, ofReports, ofProfiles, part>>

InitTogether ==
  /\ part \in {"shelf", "evidence", "preparing", "lists", "reports", "buyer", "agent", "book"}
  /\ Init
  /\ part # "shelf" => supplied = 0 /\ produce.status = "DRAFT"
  /\ E!Init /\ W!Init /\ L!Init /\ R!Init /\ P!Init

NextTogether ==
  /\ UNCHANGED part
  /\ \/ /\ part = "shelf" /\ Next
        /\ UNCHANGED <<ofEvidence, ofPreparation, ofLists, ofReports, ofProfiles>>
     \/ /\ part = "evidence" /\ E!Next
        /\ UNCHANGED <<vars, ofPreparation, ofLists, ofReports, ofProfiles>>
     \/ /\ part = "preparing" /\ W!Next
        /\ UNCHANGED <<vars, ofEvidence, ofLists, ofReports, ofProfiles>>
     \/ /\ part = "lists" /\ L!Next
        /\ UNCHANGED <<vars, ofEvidence, ofPreparation, ofReports, ofProfiles>>
     \/ /\ part = "reports" /\ R!Next
        /\ UNCHANGED <<vars, ofEvidence, ofPreparation, ofLists, ofProfiles>>
     \/ /\ part = "buyer" /\ P!BuyerNext
        /\ UNCHANGED <<vars, ofEvidence, ofPreparation, ofLists, ofReports>>
     \/ /\ part = "agent" /\ P!AgentNext
        /\ UNCHANGED <<vars, ofEvidence, ofPreparation, ofLists, ofReports>>
     \/ /\ part = "book" /\ P!AddressNext
        /\ UNCHANGED <<vars, ofEvidence, ofPreparation, ofLists, ofReports>>

OneOfThem == InitTogether /\ [][NextTogether]_together

-----------------------------------------------------------------------------
(* See Evidence: an approved round had its documents, and no gap but what    *)
(* the agent's own drafts opened while it was approved.                      *)
ApprovedWhole == E!ApprovedWhole
(* See Evidence: which overlaps make evidenceStatus part from the documents, *)
(* undo AWAITING_DOCS and FOLLOW_UP, or ask a decided round for documents.   *)
EvidenceKept == E!EvidenceKept
(* See Preparation: an order is READY as it was ticked, but for overlaps.    *)
ReadyAsTicked == W!ReadyAsTicked
(* See Lists: which changes make paging repeat or skip a row.                *)
PagesComplete == L!PagesComplete
(* See Reports: the figures of a page add up unless the table changed.       *)
FiguresAgree == R!FiguresAgree
(* See Profiles: pairs, company fields, cluster name and address book.       *)
ProfilesWhole == P!ProfilesWhole
(* See Profiles: a verified agent's LGA changes by a stale request only.     *)
LgaHeld == P!LgaHeld
=============================================================================
