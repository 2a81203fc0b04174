----------------------------- MODULE Documents -------------------------------
(* Private objects in the bucket and the rows that name them: the documents  *)
(* of an application, of the profile it becomes, of a farmer an agent        *)
(* registers and of the farms created and removed later                      *)
(* (src/src/application, farm, agent, common/identity.ts), and the photos of *)
(* a handover of another farm (src/src/handover).  Every request uploads,    *)
(* writes its rows and then deletes what nothing should name any more; the   *)
(* bucket takes part in no transaction.  A document's contents, the other    *)
(* fields of the form and the photos of a farm's rounds are left out.        *)
EXTENDS Integers, FiniteSets

CONSTANTS
  Document,   \* "id", on the profile, and the farm's own, "farm"
  Request,    \* requests under way at once
  MaxKey,     \* bound on the objects uploaded
  MaxFarm,    \* bound on the farms created, one after the other
  MaxFaults   \* bound on failed calls and crashes

DocumentsAssumption ==
  /\ Document \subseteq {"id", "farm"} /\ "id" \in Document
  /\ {MaxKey, MaxFaults} \subseteq Nat /\ MaxFarm \in Nat \ {0}

Slot == Document \cup {"proof"}
Key == 1..MaxKey
None == 0

VARIABLES
  role,         \* User.role
  application,  \* Application: its status, NONE without one, and document keys
  profile,      \* whether the Farmer or Agent exists, its farm, their keys
  lastFarm,     \* the farm created last
  verified,     \* whether the farm is VERIFIED
  handover,     \* OrderHandover.status of an order of the farm
  proofs,       \* keys of its HandoverProof rows
  stored,       \* objects in the bucket
  lastKey,      \* the key drawn last
  request,      \* requests under way
  faults,       \* failed calls and crashes so far
  overlap       \* what two requests have handled at once

vars == <<role, application, profile, lastFarm, verified, handover, proofs, stored,
          lastKey, request, faults, overlap>>

Keys == [Slot -> Key \cup {None}]
NoKeys == [s \in Slot |-> None]
NoDocuments == [d \in Document |-> None]
Idle == [op |-> "none", step |-> "idle", files |-> {}, new |-> NoKeys, old |-> NoKeys,
         farm |-> None]

(* Rows *)
Role == {"FARMER", "EXTENSION_AGENT"}
ApplicationStatus == {"DRAFT", "COMPLETED"}
Application == [status : ApplicationStatus \cup {"NONE"},
                doc : [Document -> Key \cup {None}]]
Farmer == [exists : BOOLEAN, farm : 0..MaxFarm, doc : [Document -> Key \cup {None}]]
HandoverStatus == {"PENDING", "VERIFIED", "HANDED_OVER"}
HandoverProof == Key
Op == {"none", "save", "complete", "register", "create", "identity", "replace", "drop",
       "add", "remove"}

TypeOK ==
  /\ role \in Role /\ application \in Application /\ profile \in Farmer
  /\ lastFarm \in 0..MaxFarm /\ verified \in BOOLEAN
  /\ handover \in HandoverStatus
  /\ proofs \subseteq HandoverProof /\ stored \subseteq Key /\ lastKey \in 0..MaxKey
  /\ request \in [Request -> [op : Op,
                              step : {"idle", "upload", "clean", "undo", "claim"},
                              files : SUBSET Slot, new : Keys, old : Keys,
                              farm : 0..MaxFarm]]
  /\ faults \in 0..MaxFaults /\ overlap \subseteq Slot

(* A farmer or an agent who signed up and has an application to fill in, or  *)
(* a farmer an agent is about to register, who has none.                     *)
Init ==
  /\ role \in Role
  /\ \E status \in {"DRAFT", "NONE"} :
       application = [status |-> status, doc |-> NoDocuments]
  /\ role = "EXTENSION_AGENT" => application.status = "DRAFT"
  /\ profile = [exists |-> FALSE, farm |-> None, doc |-> NoDocuments] /\ lastFarm = 0
  /\ verified = FALSE /\ handover = "PENDING"
  /\ proofs = {} /\ stored = {} /\ lastKey = 0
  /\ request = [r \in Request |-> Idle]
  /\ faults = 0 /\ overlap = {}

farms == <<profile, lastFarm, verified>>
rows == <<role, application, farms, handover, proofs>>
bucket == <<stored, lastKey>>

To(r, s) == [request EXCEPT ![r].step = s]
Done(r) == [request EXCEPT ![r] = Idle]
CanFail == faults < MaxFaults
Fault == CanFail /\ faults' = faults + 1
(* The documents a request handles: those it was sent, still to upload or    *)
(* uploaded, those it replaces, and all it copies or removes.                *)
Entire(op) == CASE op = "complete" -> Document [] op = "drop" -> Document \ {"id"}
                [] OTHER -> {}
Held(old) == {s \in Slot : old[s] # None}
Handles(r) == request[r].files \cup Held(request[r].new) \cup Held(request[r].old)
                               \cup Entire(request[r].op)
(* Prisma writes no undefined value. *)
With(doc, keys) == [d \in DOMAIN doc |-> IF keys[d] # None THEN keys[d] ELSE doc[d]]
OldOf(doc, files) == [s \in Slot |-> IF s \in files \cap Document THEN doc[s] ELSE None]

Begin(r, op, files, old) ==
  /\ request[r] = Idle
  /\ request' = [request EXCEPT
       ![r] = [op |-> op, step |-> "upload", files |-> files, new |-> NoKeys, old |-> old,
               farm |-> profile.farm]]
  /\ overlap' = overlap \cup
       UNION {Handles(q) \cap (files \cup Held(old) \cup Entire(op)) : q \in Request}
  /\ UNCHANGED <<rows, bucket, faults>>

-----------------------------------------------------------------------------
(* What each request reads first *)

(* save and complete: a DRAFT application, with the keys it replaces. *)
Editable == application.status = "DRAFT"
Save(r, op, files) ==
  /\ op \in {"save", "complete"} /\ files \subseteq Document
  /\ Editable
  /\ Begin(r, op, files, OldOf(application.doc, files))

(* register, by an agent in the field: a farmer with the first farm, whose   *)
(* documents follow later.                                                   *)
Register(r) ==
  /\ role = "FARMER" /\ application.status = "NONE" /\ ~profile.exists
  /\ Begin(r, "register", {}, NoKeys)

(* create: a farmer's next farm, with what documents it has, once the        *)
(* identity document is there.  One farm at a time bounds the model.         *)
Creating == \E q \in Request : request[q].op = "create"
CreateFarm(r, files) ==
  /\ files \subseteq Document \ {"id"}
  /\ role = "FARMER" /\ profile.exists /\ profile.doc["id"] # None
  /\ profile.farm = None /\ lastFarm < MaxFarm /\ ~Creating
  /\ Begin(r, "create", files, NoKeys)

(* uploadIdDocument of a farmer or an agent, or replace of documents of a    *)
(* farm, its farmer's among them, which are frozen once it is VERIFIED.      *)
UploadIdDocument(r) ==
  /\ profile.exists
  /\ Begin(r, "identity", {"id"}, OldOf(profile.doc, {"id"}))
Replace(r, files) ==
  /\ files # {} /\ profile.farm # None /\ ~verified
  /\ Begin(r, "replace", files, OldOf(profile.doc, files))

(* remove: the farm goes with the documents it names now. *)
RemoveFarm(r) ==
  /\ profile.farm # None
  /\ Begin(r, "drop", {}, OldOf(profile.doc, Document \ {"id"}))

(* addProof and removeProof: not once the goods are handed over. *)
AddProof(r) == handover # "HANDED_OVER" /\ Begin(r, "add", {"proof"}, NoKeys)
RemovableAlways == TRUE
Removable == handover # "HANDED_OVER"
RemoveProof(r, k) ==
  /\ k \in proofs /\ Removable
  /\ Begin(r, "remove", {}, [NoKeys EXCEPT !["proof"] = k])

-----------------------------------------------------------------------------
(* The files go up one by one; *)
Upload(r, s) ==
  /\ request[r].step = "upload" /\ s \in request[r].files
  /\ \/ /\ lastKey < MaxKey
        /\ lastKey' = lastKey + 1
        /\ stored' = stored \cup {lastKey + 1}
        /\ request' = [request EXCEPT ![r].files = @ \ {s}, ![r].new[s] = lastKey + 1]
        /\ UNCHANGED faults
     \/ Fault /\ request' = [request EXCEPT ![r].step = "undo", ![r].files = {}]
              /\ UNCHANGED bucket
  /\ UNCHANGED <<rows, overlap>>

(* then the rows are written. *)
Loaded(r, ops) ==
  request[r].step = "upload" /\ request[r].files = {} /\ request[r].op \in ops

(* The application's write looks at its id alone; the keys it has then are   *)
(* those complete goes on with.                                              *)
WriteApplication(r) ==
  /\ Loaded(r, {"save", "complete"})
  /\ LET doc == With(application.doc, request[r].new)
     IN /\ application' = [application EXCEPT !.doc = doc]
        /\ request' = [request EXCEPT
             ![r].step = "clean",
             ![r].new = [s \in Slot |-> IF s \in Document THEN doc[s] ELSE None]]
  /\ UNCHANGED <<role, farms, handover, proofs, bucket, faults, overlap>>

(* A farmer with the first farm, or a further farm, with what was uploaded;  *)
(* a second user of the address is refused.                                  *)
InsertFarm(keys) ==
  /\ lastFarm' = lastFarm + 1
  /\ profile' = [exists |-> TRUE, farm |-> lastFarm + 1, doc |-> With(profile.doc, keys)]
  /\ verified' = FALSE
WriteRegistered(r) ==
  /\ Loaded(r, {"register"})
  /\ IF ~profile.exists /\ lastFarm < MaxFarm
     THEN InsertFarm(request[r].new) /\ request' = Done(r)
     ELSE request' = To(r, "undo") /\ UNCHANGED farms
  /\ UNCHANGED <<role, application, handover, proofs, bucket, faults, overlap>>
WriteFarm(r) ==
  /\ Loaded(r, {"create"})
  /\ InsertFarm(request[r].new) /\ request' = Done(r)
  /\ UNCHANGED <<role, application, handover, proofs, bucket, faults, overlap>>

(* The farm it replaces documents of may be gone or VERIFIED by now. *)
Replaceable(r) ==
  request[r].op = "identity" \/ (profile.farm = request[r].farm /\ ~verified)
WriteProfile(r) ==
  /\ Loaded(r, {"identity", "replace"})
  /\ IF Replaceable(r)
     THEN /\ profile' = [profile EXCEPT !.doc = With(@, request[r].new)]
          /\ request' = To(r, "clean")
     ELSE request' = To(r, "undo") /\ UNCHANGED profile
  /\ UNCHANGED <<role, application, lastFarm, verified, handover, proofs, bucket, faults,
                 overlap>>

(* Another removal of the farm may have come before. *)
DeleteFarm(r) ==
  /\ Loaded(r, {"drop"})
  /\ IF profile.farm = request[r].farm
     THEN /\ profile' = [profile EXCEPT !.farm = None,
                           !.doc = [d \in Document |-> IF d = "id" THEN @[d] ELSE None]]
          /\ verified' = FALSE
          /\ request' = To(r, "clean")
     ELSE request' = Done(r) /\ UNCHANGED <<profile, verified>>
  /\ UNCHANGED <<role, application, lastFarm, handover, proofs, bucket, faults, overlap>>

WriteProof(r) ==
  /\ Loaded(r, {"add"})
  /\ proofs' = proofs \cup {request[r].new["proof"]}
  /\ request' = Done(r)
  /\ UNCHANGED <<role, application, farms, handover, bucket, faults, overlap>>

(* Another removal may have come before. *)
DeleteProof(r) ==
  /\ Loaded(r, {"remove"})
  /\ proofs' = proofs \ {request[r].old["proof"]}
  /\ request' = IF request[r].old["proof"] \in proofs THEN To(r, "clean") ELSE Done(r)
  /\ UNCHANGED <<role, application, farms, handover, bucket, faults, overlap>>

(* A failed write takes the uploads away again. *)
WriteFails(r) ==
  /\ request[r].step = "upload" /\ request[r].files = {} /\ Fault
  /\ request' = IF request[r].op \in {"remove", "drop"} THEN Done(r) ELSE To(r, "undo")
  /\ UNCHANGED <<rows, bucket, overlap>>

-----------------------------------------------------------------------------
(* deletePrivate, which never fails its caller: after the write, what it     *)
(* replaced; after a failure, what was uploaded.                             *)
NamedBy(keys) == {keys[s] : s \in Slot} \ {None}
DropsNothing(r) == {}
DropsOldAlways(r) == NamedBy(request[r].old)
Drops(r) == NamedBy(IF request[r].step = "undo" THEN request[r].new ELSE request[r].old)
Clean(r) ==
  /\ request[r].step \in {"clean", "undo"}
  /\ \/ stored' = stored \ Drops(r) /\ UNCHANGED faults
     \/ Drops(r) # {} /\ Fault /\ UNCHANGED stored
  /\ request' = IF request[r].step = "clean" /\ request[r].op = "complete"
                THEN To(r, "claim") ELSE Done(r)
  /\ UNCHANGED <<rows, lastKey, overlap>>

(* complete claims the DRAFT, when what it needs was saved, and creates the  *)
(* profile with the keys it saved: a farmer's comes with the first farm.     *)
Required == IF role = "FARMER" THEN Document ELSE {"id"}
Claimed(r) ==
  /\ application.status = "DRAFT"
  /\ \A d \in Required : request[r].new[d] # None
  /\ application' = [application EXCEPT !.status = "COMPLETED"]
CreateFarmer(r) ==
  role = "FARMER" /\ Claimed(r) /\ InsertFarm(request[r].new)
CreateAgent(r) ==
  /\ role = "EXTENSION_AGENT" /\ Claimed(r)
  /\ profile' = [profile EXCEPT !.exists = TRUE, !.doc["id"] = request[r].new["id"]]
  /\ UNCHANGED <<lastFarm, verified>>
Refused(r) ==
  /\ application.status # "DRAFT" \/ \E d \in Required : request[r].new[d] = None
  /\ UNCHANGED <<application, farms>>
Claim(r) ==
  /\ request[r].step = "claim"
  /\ CreateFarmer(r) \/ CreateAgent(r) \/ Refused(r)
  /\ request' = Done(r)
  /\ UNCHANGED <<role, handover, proofs, bucket, faults, overlap>>

-----------------------------------------------------------------------------
(* Around them: the farm's rounds, the handover, and the process dying.      *)
Verify ==
  /\ profile.farm # None /\ verified' = ~verified
  /\ UNCHANGED <<role, application, profile, lastFarm, handover, proofs, bucket, request,
                 faults, overlap>>

HandOver ==
  /\ handover # "HANDED_OVER"
  /\ handover' = IF handover = "PENDING" THEN "VERIFIED" ELSE "HANDED_OVER"
  /\ overlap' = IF \E r \in Request : "proof" \in Handles(r)
                THEN overlap \cup {"proof"} ELSE overlap
  /\ UNCHANGED <<role, application, farms, proofs, bucket, request, faults>>

Crash(r) ==
  /\ request[r] # Idle /\ Fault
  /\ request' = Done(r)
  /\ UNCHANGED <<rows, bucket, overlap>>

Next ==
  \/ Verify \/ HandOver
  \/ \E r \in Request :
       \/ \E op \in {"save", "complete"}, files \in SUBSET Document : Save(r, op, files)
       \/ Register(r) \/ RemoveFarm(r) \/ UploadIdDocument(r)
       \/ \E files \in SUBSET Document : CreateFarm(r, files) \/ Replace(r, files)
       \/ AddProof(r) \/ \E k \in Key : RemoveProof(r, k)
       \/ \E s \in Slot : Upload(r, s)
       \/ WriteApplication(r) \/ WriteRegistered(r) \/ WriteFarm(r) \/ WriteProfile(r)
       \/ DeleteFarm(r) \/ WriteProof(r) \/ DeleteProof(r)
       \/ WriteFails(r) \/ Clean(r) \/ Claim(r) \/ Crash(r)

Spec == Init /\ [][Next]_vars

-----------------------------------------------------------------------------
(* A row never names an object that is gone, whatever fails between the      *)
(* bucket and the database, unless two requests handled the document at      *)
(* once.  The application of a finished profile is not among these rows: it  *)
(* keeps the keys it gave the profile, which later replacements delete.      *)
RowsKeepFiles ==
  /\ proofs \subseteq stored
  /\ \A d \in Document \ overlap :
       LET key == IF profile.exists THEN profile.doc[d] ELSE application.doc[d]
       IN key # None => key \in stored

(* "Neither path leaves an unreferenced file": without a failed call, a      *)
(* crash or two requests at once every object has a row.                     *)
NothingUnreferenced ==
  (\A r \in Request : request[r] = Idle) /\ faults = 0 /\ overlap = {} =>
    \A k \in stored :
      k \in proofs \/ \E d \in Document : k \in {application.doc[d], profile.doc[d]}

(* The run's question about the bucket: RowsKeepFiles, NothingUnreferenced.  *)
FilesMatchRows == RowsKeepFiles /\ NothingUnreferenced

(* A completed application is not edited, and its profile has the documents  *)
(* it was completed with, unless a save was under way.                       *)
CompletedAsSaved ==
  [][\A d \in Document :
       /\ application.status = "COMPLETED" /\ application'.doc[d] # application.doc[d] =>
            d \in overlap
       /\ profile'.exists /\ ~profile.exists /\ d \in Required
            /\ profile'.doc[d] # application.doc[d] => d \in overlap]_vars

(* What is handed over keeps its proof: the photos change no more, but for a *)
(* request that was under way.                                               *)
ProofsFrozen ==
  [][handover = "HANDED_OVER" /\ proofs' # proofs => "proof" \in overlap]_vars
=============================================================================
