------------------------------ MODULE Accounts -------------------------------
(* One person's account (src/src/auth): the Firebase account and the local   *)
(* user row, written one after the other by a sign-up, an onboarding or an   *)
(* admin's invitation, and undone by hand when the second write fails; the   *)
(* emailed verification code; and the farmer's activation with a temporary   *)
(* password.  Sessions, whose stored refresh token no code reads, and the    *)
(* profile's fields are left out, and so is the cap on the codes of a day: *)
(* MaxCode bounds them.                                                      *)
EXTENDS Integers, FiniteSets

CONSTANTS
  Kind,         \* kinds of person: BUYER, APPLICANT, ONBOARDED, ADMIN
  Request,      \* requests under way at once
  Approval,     \* rounds of the person's farms that get approved
  MaxUid,       \* bound on the Firebase accounts created
  MaxCode,      \* bound on the codes drawn
  MaxAttempts,  \* MAX_ATTEMPTS
  MaxFaults     \* bound on failed calls and crashes

ASSUME AccountsAssumption ==
  /\ Kind \subseteq {"BUYER", "APPLICANT", "ONBOARDED", "ADMIN"}
  /\ Approval \cap {"none", "own", "invited"} = {}
  /\ {MaxUid, MaxCode, MaxAttempts} \subseteq Nat \ {0}
  /\ MaxFaults \in Nat

VARIABLES
  person,    \* who it is, and whether Google has proved the address
  firebase,  \* the Firebase account of the address; uid 0 when there is none
  lastUid,   \* the uid drawn last
  user,      \* the User row; uid 0 when there is none
  code,      \* the EmailVerificationCode row; id 0 when there is none
  lastCode,  \* the code drawn last
  inbox,     \* what was mailed: the code, and the temporary password, last sent
  request,   \* requests under way
  approved,  \* rounds approved so far
  faults,    \* failed calls and crashes so far
  shared,    \* accounts another request signed in to while their creator ran
  mixed,     \* whether two requests were writing the code at once
  spent,     \* codes discarded after too many wrong guesses
  early      \* whether a password was chosen while an activation ran

vars == <<person, firebase, lastUid, user, code, lastCode, inbox, request,
          approved, faults, shared, mixed, spent, early>>

NoFirebase == [uid |-> 0, password |-> "none", google |-> FALSE, verified |-> FALSE]
NoUser == [uid |-> 0, verified |-> FALSE, active |-> FALSE, must |-> FALSE]
NoCode == [id |-> 0, attempts |-> 0, age |-> "new"]
Idle == [step |-> "idle", uid |-> 0, flag |-> FALSE, code |-> 0, round |-> "none"]

Passwords == {"none", "own", "invited"} \cup Approval
Steps == {"idle", "created", "register", "login", "trust", "undo", "issue",
          "mail", "checked", "marked", "signin", "discard", "claim", "set", "unset",
          "invite", "change"}
TypeOK ==
  /\ person \in [kind : Kind, google : BOOLEAN]
  /\ firebase \in [uid : 0..MaxUid, password : Passwords, google : BOOLEAN, verified : BOOLEAN]
  /\ lastUid \in 0..MaxUid
  /\ user \in [uid : 0..MaxUid, verified : BOOLEAN, active : BOOLEAN, must : BOOLEAN]
  /\ code \in [id : 0..MaxCode, attempts : 0..MaxAttempts, age : {"new", "cooled", "expired"}]
  /\ lastCode \in 0..MaxCode
  /\ inbox \in [code : 0..MaxCode, password : Passwords]
  /\ request \in [Request -> [step : Steps, uid : 0..MaxUid, flag : BOOLEAN,
                              code : 0..MaxCode, round : Approval \cup {"none"}]]
  /\ approved \subseteq Approval
  /\ faults \in 0..MaxFaults
  /\ shared \subseteq 1..MaxUid /\ {mixed, early} \subseteq BOOLEAN /\ spent \subseteq 1..MaxCode

Init ==
  /\ person \in [kind : Kind, google : BOOLEAN]
  /\ firebase = NoFirebase /\ lastUid = 0 /\ user = NoUser
  /\ code = NoCode /\ lastCode = 0
  /\ inbox = [code |-> 0, password |-> "none"]
  /\ request = [r \in Request |-> Idle]
  /\ approved = {} /\ faults = 0
  /\ shared = {} /\ mixed = FALSE /\ spent = {} /\ early = FALSE

SignsUp == person.kind \in {"BUYER", "APPLICANT"}
Farms == person.kind \in {"APPLICANT", "ONBOARDED"}
NeedsCode == SignsUp /\ ~user.verified
(* An applicant who is not active may sign in; an onboarded farmer may not.  *)
CanSignIn == IF SignsUp THEN user.verified ELSE person.kind = "ADMIN" \/ user.active

To(r, s) == [request EXCEPT ![r].step = s]
Done(r) == [request EXCEPT ![r] = Idle]
CanFail == faults < MaxFaults
HasAccount(r) == request[r].uid # 0 /\ firebase.uid = request[r].uid

notAccounts == <<person, code, lastCode, inbox, approved, mixed, spent, early>>
notCode == <<person, firebase, lastUid, user, approved, shared, early>>
notActivation == <<person, lastUid, code, lastCode, shared, mixed, spent>>

-----------------------------------------------------------------------------
(* Creating the account: register, onboard, invite *)

(* createFirebaseUser, refused when the address has an account. *)
CreateFirebaseUser(r) ==
  /\ request[r] = Idle /\ firebase.uid = 0 /\ lastUid < MaxUid
  /\ lastUid' = lastUid + 1
  /\ firebase' = [uid |-> lastUid + 1, google |-> FALSE,
                  password |-> CASE SignsUp -> "own"
                                 [] person.kind = "ADMIN" -> "invited"
                                 [] OTHER -> "none",
                  verified |-> person.kind = "ADMIN"]
  /\ request' = [request EXCEPT ![r] = [Idle EXCEPT !.step = "created", !.uid = lastUid + 1,
                                                    !.flag = TRUE]]
  /\ UNCHANGED <<notAccounts, user, faults, shared>>

(* createLocalUser; a taken address or a failure undoes the Firebase account. *)
NewUser(r) == [uid |-> request[r].uid, active |-> FALSE, must |-> person.kind = "ADMIN",
               verified |-> person.kind = "ADMIN"]
CreateLocalUser(r) ==
  /\ request[r].step = "created"
  /\ \/ /\ user.uid = 0
        /\ user' = NewUser(r)
        /\ request' = IF SignsUp THEN To(r, "issue") ELSE Done(r)
        /\ UNCHANGED faults
     \/ /\ user.uid # 0 \/ CanFail
        /\ faults' = IF user.uid # 0 THEN faults ELSE faults + 1
        /\ request' = To(r, "undo")
        /\ UNCHANGED user
  /\ UNCHANGED <<notAccounts, firebase, lastUid, shared>>

(* deleteFirebaseUser, whose own failure is only logged. *)
DeleteFirebaseUser(r) ==
  /\ request[r].step = "undo"
  /\ \/ /\ firebase' = IF HasAccount(r) THEN NoFirebase ELSE firebase
        /\ UNCHANGED faults
     \/ CanFail /\ faults' = faults + 1 /\ UNCHANGED firebase
  /\ request' = Done(r)
  /\ UNCHANGED <<notAccounts, user, lastUid, shared>>

-----------------------------------------------------------------------------
(* Google *)

(* signInWithGoogle creates the account or links to the one of the address.  *)
SignInWithGoogle(r, step) ==
  /\ request[r] = Idle
  /\ firebase.uid # 0 \/ lastUid < MaxUid
  /\ LET uid == IF firebase.uid = 0 THEN lastUid + 1 ELSE firebase.uid
     IN /\ lastUid' = IF firebase.uid = 0 THEN uid ELSE lastUid
        /\ firebase' = [firebase EXCEPT !.uid = uid, !.google = TRUE,
                                        !.verified = @ \/ person.google]
        /\ shared' = IF \E q \in Request : request[q].flag /\ request[q].uid = uid
                     THEN shared \cup {uid} ELSE shared
        /\ request' = [request EXCEPT ![r] = [Idle EXCEPT !.step = step, !.uid = uid,
                                                          !.flag = firebase.uid = 0]]
  /\ UNCHANGED <<notAccounts, user, faults>>

(* A failed call drops the Firebase account only if it created it. *)
DropsAlways(r) == TRUE
Drops(r) == request[r].flag
GiveUp(r) == IF Drops(r) THEN To(r, "undo") ELSE Done(r)

GoogleRegister(r) ==
  /\ request[r].step = "register"
  /\ \/ /\ user.uid = 0
        /\ user' = [NoUser EXCEPT !.uid = request[r].uid, !.verified = person.google]
        /\ request' = IF person.kind = "APPLICANT" /\ ~person.google
                      THEN To(r, "issue") ELSE Done(r)
        /\ UNCHANGED faults
     \/ /\ user.uid # 0 \/ CanFail
        /\ faults' = IF user.uid # 0 THEN faults ELSE faults + 1
        /\ request' = GiveUp(r)
        /\ UNCHANGED user
  /\ UNCHANGED <<notAccounts, firebase, lastUid, shared>>

(* googleLogin looks for the local user of the Firebase account, *)
Trusts == ~user.verified /\ person.google
GoogleLogin(r) ==
  /\ request[r].step = "login"
  /\ request' = IF user.uid # request[r].uid THEN GiveUp(r)
                ELSE IF Trusts THEN To(r, "trust") ELSE Done(r)
  /\ UNCHANGED <<notAccounts, firebase, lastUid, user, faults, shared>>

(* and takes Google's word for the address. *)
TrustGoogle(r) ==
  /\ request[r].step = "trust"
  /\ user' = [user EXCEPT !.verified = TRUE]
  /\ request' = Done(r)
  /\ UNCHANGED <<notAccounts, firebase, lastUid, faults, shared>>

-----------------------------------------------------------------------------
(* The code *)
Writing(q) == request[q].step \in {"issue", "mail", "discard"}
(* Whether others write the code as r begins to. *)
Mix(r) == mixed' = (mixed \/ \E q \in Request \ {r} : Writing(q))

(* resend, unless the last code is too recent, *)
Resend(r) ==
  /\ request[r] = Idle /\ user.uid # 0 /\ NeedsCode /\ lastCode < MaxCode
  /\ code.id # 0 => code.age # "new"
  /\ request' = [request EXCEPT ![r] = [Idle EXCEPT !.step = "issue", !.uid = user.uid]]
  /\ Mix(r)
  /\ UNCHANGED <<notCode, code, lastCode, inbox, faults, spent>>

(* stores a new code over the old, *)
IssueUpsert(r) ==
  /\ request[r].step = "issue" /\ lastCode < MaxCode
  /\ lastCode' = lastCode + 1
  /\ code' = [id |-> lastCode + 1, attempts |-> 0, age |-> "new"]
  /\ request' = [request EXCEPT ![r].step = "mail", ![r].code = lastCode + 1]
  /\ Mix(r)
  /\ UNCHANGED <<notCode, inbox, faults, spent>>

(* and mails it; a failed mail leaves the code. *)
IssueMail(r) ==
  /\ request[r].step = "mail"
  /\ \/ inbox' = [inbox EXCEPT !.code = request[r].code] /\ UNCHANGED faults
     \/ CanFail /\ faults' = faults + 1 /\ UNCHANGED inbox
  /\ request' = Done(r)
  /\ UNCHANGED <<notCode, code, lastCode, mixed, spent>>

Age ==
  /\ code.id # 0 /\ code.age # "expired"
  /\ code' = [code EXCEPT !.age = IF @ = "new" THEN "cooled" ELSE "expired"]
  /\ UNCHANGED <<notCode, lastCode, inbox, request, faults, mixed, spent>>

(* verifyEmail with the code in the mail: it is checked, *)
CheckCode(r) ==
  /\ request[r] = Idle /\ user.uid # 0
  /\ code.id # 0 /\ code.age # "expired" /\ inbox.code = code.id
  /\ request' = [request EXCEPT ![r] = [Idle EXCEPT !.step = "checked", !.uid = user.uid]]
  /\ UNCHANGED <<notCode, code, lastCode, inbox, faults, mixed, spent>>

(* or is wrong, and at the limit, where the count stops here, it is to be    *)
(* discarded.                                                                *)
WrongCode(r) ==
  /\ request[r] = Idle /\ user.uid # 0
  /\ code.id # 0 /\ code.age # "expired"
  /\ code' = [code EXCEPT !.attempts = IF @ < MaxAttempts THEN @ + 1 ELSE @]
  /\ IF code.attempts + 1 >= MaxAttempts
     THEN /\ request' = [request EXCEPT ![r] = [Idle EXCEPT !.step = "discard"]]
          /\ spent' = spent \cup {code.id}
          /\ Mix(r)
     ELSE UNCHANGED <<request, spent, mixed>>
  /\ UNCHANGED <<notCode, lastCode, inbox, faults>>

(* Then Firebase is told, *)
AfterCheckDiscard == "discard"
AfterCheck == "marked"
MarkFirebase(r) ==
  /\ request[r].step = "checked"
  /\ \/ /\ HasAccount(r)
        /\ firebase' = [firebase EXCEPT !.verified = TRUE]
        /\ request' = To(r, AfterCheck)
        /\ UNCHANGED faults
     \/ /\ ~HasAccount(r) \/ CanFail
        /\ faults' = IF HasAccount(r) THEN faults + 1 ELSE faults
        /\ request' = Done(r)
        /\ UNCHANGED firebase
  /\ UNCHANGED <<notAccounts, user, lastUid, shared>>

(* the row is updated, *)
MarkUser(r) ==
  /\ request[r].step = "marked"
  /\ user' = [user EXCEPT !.verified = TRUE]
  /\ request' = To(r, "signin")
  /\ UNCHANGED <<notAccounts, firebase, lastUid, faults, shared>>

(* the person is signed in, *)
SignInVerified(r) ==
  /\ request[r].step = "signin"
  /\ \/ HasAccount(r) /\ request' = To(r, "discard") /\ Mix(r) /\ UNCHANGED faults
     \/ /\ ~HasAccount(r) \/ CanFail
        /\ faults' = IF HasAccount(r) THEN faults + 1 ELSE faults
        /\ request' = Done(r) /\ UNCHANGED mixed
  /\ UNCHANGED <<notCode, code, lastCode, inbox, spent>>

(* and the code, whichever is stored by now, is discarded. *)
Discard(r) ==
  /\ request[r].step = "discard"
  /\ code' = NoCode
  /\ request' = Done(r)
  /\ UNCHANGED <<notCode, lastCode, inbox, faults, mixed, spent>>

-----------------------------------------------------------------------------
(* Activation *)
HasSignIn == firebase.google \/ firebase.password # "none"

(* activate reads how the account signs in, *)
Activate(r, a) ==
  /\ request[r] = Idle /\ Farms /\ user.uid # 0 /\ a \notin approved
  /\ approved' = approved \cup {a}
  /\ request' = IF firebase.uid # user.uid THEN request
                ELSE [request EXCEPT ![r] = [Idle EXCEPT !.step = "claim", !.uid = user.uid,
                                             !.flag = ~HasSignIn, !.round = a]]
  /\ UNCHANGED <<notActivation, early, firebase, user, inbox, faults>>

(* claims the activation, *)
ClaimableAlways == TRUE
Claimable == ~user.active
Claim(r) ==
  /\ request[r].step = "claim"
  /\ IF Claimable
     THEN /\ user' = [user EXCEPT !.active = TRUE, !.must = request[r].flag]
          /\ request' = To(r, IF request[r].flag THEN "set" ELSE "invite")
     ELSE request' = Done(r) /\ UNCHANGED user
  /\ UNCHANGED <<notActivation, early, firebase, inbox, approved, faults>>

(* sets the temporary password it needs; a failed call may have set it; *)
SetPassword(r) ==
  /\ request[r].step = "set"
  /\ LET set == [firebase EXCEPT !.password = request[r].round]
     IN \/ /\ HasAccount(r)
           /\ firebase' = set /\ request' = To(r, "invite") /\ UNCHANGED faults
        \/ /\ ~HasAccount(r) \/ CanFail
           /\ faults' = IF HasAccount(r) THEN faults + 1 ELSE faults
           /\ firebase' \in IF HasAccount(r) THEN {firebase, set} ELSE {firebase}
           /\ request' = To(r, "unset")
  /\ UNCHANGED <<notActivation, early, user, inbox, approved>>

(* a failure undoes the claim; *)
UndoClaim(r) ==
  /\ request[r].step = "unset"
  /\ user' = [user EXCEPT !.active = FALSE, !.must = FALSE]
  /\ request' = Done(r)
  /\ UNCHANGED <<notActivation, early, firebase, inbox, approved, faults>>

(* then the invitation goes out, with the password if there is one. *)
SendInvite(r) ==
  /\ request[r].step = "invite"
  /\ \/ /\ inbox' = IF request[r].flag THEN [inbox EXCEPT !.password = request[r].round] ELSE inbox
        /\ UNCHANGED faults
     \/ CanFail /\ faults' = faults + 1 /\ UNCHANGED inbox
  /\ request' = Done(r)
  /\ UNCHANGED <<notActivation, early, firebase, user, approved>>

(* changePassword: Firebase first, *)
Usable == firebase.uid # 0 /\ firebase.uid = user.uid
Known == firebase.password \in {"own", "invited", inbox.password} \ {"none"}
ChangePassword(r) ==
  /\ request[r] = Idle /\ Usable /\ CanSignIn /\ Known
  /\ firebase' = [firebase EXCEPT !.password = "own"]
  /\ early' = (early \/ \E q \in Request : request[q].step \in {"claim", "set"})
  /\ request' = IF user.must
                THEN [request EXCEPT ![r] = [Idle EXCEPT !.step = "change", !.uid = user.uid]]
                ELSE request
  /\ UNCHANGED <<notActivation, user, inbox, approved, faults>>

(* then the user is free of the temporary password. *)
ClearMust(r) ==
  /\ request[r].step = "change"
  /\ user' = [user EXCEPT !.must = FALSE]
  /\ request' = Done(r)
  /\ UNCHANGED <<notActivation, early, firebase, inbox, approved, faults>>

(* The link of forgotPassword, which an onboarded farmer gets once active. *)
ResetPassword ==
  /\ Usable /\ (person.kind = "ONBOARDED" => user.active)
  /\ firebase' = [firebase EXCEPT !.password = "own"]
  /\ early' = (early \/ \E q \in Request : request[q].step \in {"claim", "set"})
  /\ UNCHANGED <<notActivation, user, inbox, request, approved, faults>>

-----------------------------------------------------------------------------
(* The process dies: the request stops where it is. *)
Crash(r) ==
  /\ request[r] # Idle /\ CanFail
  /\ faults' = faults + 1
  /\ request' = Done(r)
  /\ UNCHANGED <<notCode, code, lastCode, inbox, mixed, spent>>

Next ==
  \/ Age \/ ResetPassword
  \/ \E r \in Request :
       \/ CreateFirebaseUser(r) \/ CreateLocalUser(r) \/ DeleteFirebaseUser(r)
       \/ SignsUp /\ SignInWithGoogle(r, "register")
       \/ SignInWithGoogle(r, "login")
       \/ GoogleRegister(r) \/ GoogleLogin(r) \/ TrustGoogle(r)
       \/ Resend(r) \/ IssueUpsert(r) \/ IssueMail(r)
       \/ CheckCode(r) \/ WrongCode(r) \/ MarkFirebase(r) \/ MarkUser(r)
       \/ SignInVerified(r) \/ Discard(r)
       \/ \E a \in Approval : Activate(r, a)
       \/ Claim(r) \/ SetPassword(r) \/ UndoClaim(r) \/ SendInvite(r)
       \/ ChangePassword(r) \/ ClearMust(r) \/ Crash(r)

Spec == Init /\ [][Next]_vars

-----------------------------------------------------------------------------
Quiet == \A r \in Request : request[r] = Idle

(* A local user keeps the Firebase account it signs in with: undoing a       *)
(* failed sign-up takes away the account of another only when that one       *)
(* signed in to it while the first was still under way.                      *)
FirebaseKept == user.uid # 0 /\ firebase.uid # user.uid => user.uid \in shared

(* "A Firebase account this call just created is dropped so it doesn't       *)
(* linger": one without a local user is left only by a failed call or crash. *)
NothingLingers == Quiet /\ firebase.uid # 0 /\ user.uid = 0 => faults > 0

(* The run's question about the two accounts: FirebaseKept, NothingLingers.  *)
AccountWhole == FirebaseKept /\ NothingLingers

(* "The code is discarded last, so a failure anywhere lets the user retry    *)
(* with the same code": until verified, the code in the last mail is the one *)
(* stored, unless it was guessed at too often, two requests wrote codes at   *)
(* once, or storing and mailing were torn apart.                             *)
MailedCodeWorks ==
  Quiet /\ user.uid # 0 /\ ~user.verified /\ inbox.code # 0 =>
    \/ code.id = inbox.code
    \/ inbox.code \in spent
    \/ mixed
    \/ lastCode > inbox.code /\ faults > 0

(* The temporary password in a farmer's invitation is the account's, and the *)
(* farmer is held to changing it, until they choose their own; choosing one   *)
(* just as the activation runs may undo either.                              *)
InvitePasswordHeld ==
  inbox.password # "none" /\ Usable /\ ~early =>
    \/ firebase.password = "own"
    \/ firebase.password = inbox.password /\ user.must
=============================================================================
